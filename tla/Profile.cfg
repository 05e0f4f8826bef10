\* Three overlapping submissions of one account that registers, follows the
\* verification link and changes its profile, without logging in again.
SPECIFICATION Spec
CONSTANTS
    Users = {u1}
    Names = {n1, n2}
    Passwords = {p1, p2}
    MfaIds = {}
    OtpIds = {}
    Clients = {c1, c2, c3}
    MaxKey = 2
    DeletesFail = TRUE
    NoRow = NoRow
SYMMETRY Symmetry
CHECK_DEADLOCK FALSE
PROPERTIES
    NoLostProfileChange
