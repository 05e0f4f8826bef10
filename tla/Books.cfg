\* Two overlapping requests on books; no review is created.
SPECIFICATION Spec
CONSTANTS
    Users = {u1, u2}
    Superusers = {s1}
    Clients = {c1, c2}
    BookIds = {b1}
    ReviewIds = {}
    Titles = {t1, t2}
    BadStatuses = {archived}
    Contents = {x}
    RatingInputs = {1}
    NoRow = NoRow
SYMMETRY Symmetry
INVARIANTS
    ListShowsExactlyGettable
PROPERTIES
    BooksWrittenByAuthor
    OnlyRequestedColumnsChange
    BooksAreATable
