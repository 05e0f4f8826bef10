----------------------------- MODULE MCLibrary -----------------------------
(***************************************************************************)
(* Instances of Library for TLC.  Clients, users, ids and texts are model  *)
(* values; clients and users are interchangeable, and so are ids.          *)
(***************************************************************************)
EXTENDS Library, TLC

\* One representative each of: no rating, the ends of the range, one beyond.
MCRatings == {0, 1, 5, 6}

Symmetry == Permutations(Clients) \cup Permutations(Users)

\* Every behaviour but those with the overlaps that strand a review or make
\* an acknowledged update untrue.
ApartSpec == Init /\ [][Next /\ NoDeleteDuringInsert' /\ UpdatesApart']_vars

=============================================================================
