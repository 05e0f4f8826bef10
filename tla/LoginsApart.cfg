\* Two overlapping submissions for one account, but for passwords that are
\* saved under a login and a code that is on the way to two sessions at once.
SPECIFICATION ApartSpec
CONSTANTS
    Users = {u1}
    Names = {n1}
    Passwords = {p1, p2}
    MfaIds = {m1, m2}
    OtpIds = {o1}
    Clients = {c1, c2}
    MaxKey = 2
    DeletesFail = FALSE
    NoRow = NoRow
SYMMETRY Symmetry
CHECK_DEADLOCK FALSE
INVARIANTS
    SessionsFollowPassword
PROPERTIES
    OneSessionPerCode
