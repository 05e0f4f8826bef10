\* Two goroutines that call any method of the memory store on at most two ids.
SPECIFICATION Spec
CONSTANTS
    Callers = {c1, c2}
    Nil = Nil
    MaxId = 2
    Rows <- MCRows
    Updates <- MCUpdates
SYMMETRY MemorySymmetry
INVARIANT IInv
PROPERTIES Linearizable BooksAreATable ReviewsAreATable
