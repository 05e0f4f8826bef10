\* Two overlapping requests on one book and one review.
SPECIFICATION Spec
CONSTANTS
    Users = {u1, u2, u3}
    Superusers = {s1}
    Clients = {c1, c2}
    BookIds = {b1}
    ReviewIds = {r1}
    Titles = {}
    BadStatuses = {archived}
    Contents = {x}
    RatingInputs <- MCRatings
    NoRow = NoRow
SYMMETRY Symmetry
INVARIANTS
    TypeOK
    NoSelfReview
    IInv
    GrantsStand
    ButtonsMatchPolicy
PROPERTIES
    ReviewsWrittenByReviewerOrModerator
    OnlyRequestedColumnsChange
    OrphanReviewsAreFrozen
    RowsOfTheGoneStay
    ReviewsAreATable
