------------------------------ MODULE MCSignIn ------------------------------
(***************************************************************************)
(* Instances of SignIn for TLC.  Users, passwords, ids and clients are     *)
(* model values, and those of a kind are interchangeable.                  *)
(***************************************************************************)
EXTENDS SignIn, TLC

Symmetry == Permutations(Users) \cup Permutations(Names) \cup Permutations(Passwords) 
            \cup Permutations(MfaIds) \cup Permutations(OtpIds) \cup Permutations(Clients)

\* Every behaviour but those in which a password is saved under a login that
\* has checked the old one, or two requests are on the way to a session with
\* the same code.
ApartSpec == Init /\ [][Next /\ PasswordChangesApart' /\ CodesApart']_vars

=============================================================================
