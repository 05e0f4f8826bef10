--------------------------- MODULE MCMemoryStore ---------------------------
(***************************************************************************)
(* A small instance of MemoryStore: two values for each field that an      *)
(* update can set, updates of both fields and of one.                      *)
(***************************************************************************)
EXTENDS MemoryStore, TLC

MCRows ==
    [book   |-> [title : {"t1", "t2"}, author : {"u1"}, status : {"draft", "published"}],
     review |-> [book : {1}, reviewer : {"u1"}, content : {"c1", "c2"}, rating : {1, 5}]]

MCUpdates ==
    [book   |-> {[title |-> "t2", status |-> "published"], [title |-> "t1", status |-> Nil]},
     review |-> {[content |-> "c2", rating |-> 5], [content |-> Nil, rating |-> 1]}]

MemorySymmetry == Permutations(Callers)

=============================================================================
