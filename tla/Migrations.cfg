\* Two users, one book, all migrations up and down in any order.
SPECIFICATION Spec
CONSTANTS
    Users = {u1, u2}
    Books = {b1}
    Texts = {x}
    NoRow = NoRow
    NoRun = NoRun
SYMMETRY UsersSymmetry
INVARIANTS DownUndoesUp SelectsFit
PROPERTY RanksKept
