------------------------------ MODULE Accounts ------------------------------
(***************************************************************************)
(* What the rest of the program may take for granted about the accounts of *)
(* users, however registration, verification, login and profile changes    *)
(* overlap: an account is registered once and unverified, it may become    *)
(* verified and stays so, and it is gone for good when it is deleted.      *)
(***************************************************************************)
CONSTANT Users    \* ids of users

VARIABLES
    present,      \* the accounts that exist
    verified,     \* those whose mail address is verified
    used          \* the ids that have been used

Init ==
    /\ present \subseteq Users
    /\ used = present
    /\ verified = {}

Register(u) ==
    /\ u \notin used
    /\ present' = present \cup {u}
    /\ used' = used \cup {u}
    /\ UNCHANGED verified

Verify(u) ==
    /\ u \in present
    /\ verified' = verified \cup {u}
    /\ UNCHANGED <<present, used>>

Delete(u) ==
    /\ u \in present
    /\ present' = present \ {u}
    /\ verified' = verified \ {u}
    /\ UNCHANGED used

Next == \E u \in Users : Register(u) \/ Verify(u) \/ Delete(u)

Spec == Init /\ [][Next]_<<present, verified, used>>

=============================================================================
