------------------------------- MODULE Table -------------------------------
(***************************************************************************)
(* What the rest of the program may take for granted about one table of    *)
(* the store, whichever store it is and however its calls overlap: the     *)
(* life of a record id.  An id is new, then a row is live under it, then   *)
(* it is gone for good; a create that is refused uses its id up without a  *)
(* row.  A live row always fits its collection, and the columns that say   *)
(* what the row is about (whose it is, what it belongs to) never change.   *)
(* Rows change one at a time.                                              *)
(***************************************************************************)
CONSTANTS
    Ids,     \* record ids
    Rows,    \* the rows that fit the collection
    Fixed,   \* the columns that no call may change
    NoRow    \* no row is live under an id

VARIABLES
    rows,    \* rows[i]: the live row with id i, or NoRow
    gone     \* the ids that are used up

Init ==
    /\ rows = [i \in Ids |-> NoRow]
    /\ gone = {}

Create(i) ==
    /\ rows[i] = NoRow /\ i \notin gone
    /\ \E row \in Rows : rows' = [rows EXCEPT ![i] = row]
    /\ UNCHANGED gone

\* A create that had already chosen the id i is refused.
Refuse(i) ==
    /\ rows[i] = NoRow
    /\ gone' = gone \cup {i}
    /\ UNCHANGED rows

Update(i) ==
    /\ rows[i] # NoRow
    /\ \E row \in Rows :
         /\ \A f \in Fixed : row[f] = rows[i][f]
         /\ rows' = [rows EXCEPT ![i] = row]
    /\ UNCHANGED gone

Delete(i) ==
    /\ rows[i] # NoRow
    /\ rows' = [rows EXCEPT ![i] = NoRow]
    /\ gone' = gone \cup {i}

Next == \E i \in Ids : Create(i) \/ Refuse(i) \/ Update(i) \/ Delete(i)

Spec == Init /\ [][Next]_<<rows, gone>>

=============================================================================
