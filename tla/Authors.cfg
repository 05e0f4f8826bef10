\* A book with an owner goes through the second migration.
SPECIFICATION Spec
CONSTANTS
    Users = {u1, u2}
    Books = {b1}
    Texts = {x}
    NoRow = NoRow
    NoRun = NoRun
SYMMETRY UsersSymmetry

INVARIANT AuthorsRetained
