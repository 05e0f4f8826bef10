\* Two overlapping submissions for one account.
SPECIFICATION Spec
CONSTANTS
    Users = {u1}
    Names = {n1}
    Passwords = {p1, p2}
    MfaIds = {m1}
    OtpIds = {o1}
    Clients = {c1, c2}
    MaxKey = 1
    DeletesFail = TRUE
    NoRow = NoRow
SYMMETRY Symmetry
CHECK_DEADLOCK FALSE
INVARIANTS
    TypeOK
    IInv
PROPERTIES
    RevokedStaysRevoked
    ImplementsAccounts
