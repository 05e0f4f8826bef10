\* Two overlapping requests, but for an overlap that strands a review and one
\* that makes an acknowledged update untrue.
SPECIFICATION ApartSpec
CONSTANTS
    Users = {u1, u2}
    Superusers = {s1}
    Clients = {c1, c2}
    BookIds = {b1}
    ReviewIds = {r1}
    Titles = {t1, t2}
    BadStatuses = {archived}
    Contents = {x}
    RatingInputs = {1}
    NoRow = NoRow
SYMMETRY Symmetry
INVARIANTS
    EveryReviewHasBook
PROPERTIES
    AckedUpdateIsStored
