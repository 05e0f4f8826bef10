\* One submission at a time, two accounts.
SPECIFICATION Spec
CONSTANTS
    Users = {u1, u2}
    Names = {n1}
    Passwords = {p1, p2}
    MfaIds = {m1, m2}
    OtpIds = {o1}
    Clients = {c1}
    MaxKey = 1
    DeletesFail = FALSE
    NoRow = NoRow
SYMMETRY Symmetry
CHECK_DEADLOCK FALSE
INVARIANTS
    SecondFactorIsOwn
    VerifiedByMail
