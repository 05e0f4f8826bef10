\* A browser tab and a ConnectRPC client on one book and one review.
SPECIFICATION WebSpec
CONSTANTS
    Users = {u1, u2}
    Superusers = {s1}
    Clients = {c1, c2}
    Browsers = {c1}
    BookIds = {b1}
    ReviewIds = {r1}
    Titles = {t1}
    BadStatuses = {}
    Contents = {x}
    RatingInputs = {1}
    NoRow = NoRow
    NoPage = NoPage
SYMMETRY WebSymmetry
INVARIANTS
    OfferedStaysPermitted
PROPERTIES
    ImplementsLibrary
    FormsGoStaleByOwner
