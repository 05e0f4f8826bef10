\* Two overlapping requests under the fairness of the Go scheduler.
SPECIFICATION FairSpec
CONSTANTS
    Users = {u1, u2}
    Superusers = {s1}
    Clients = {c1, c2}
    BookIds = {b1}
    ReviewIds = {r1}
    Titles = {}
    BadStatuses = {}
    Contents = {x}
    RatingInputs = {1}
    NoRow = NoRow
PROPERTIES
    EveryRequestAnswered
