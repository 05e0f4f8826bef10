----------------------------- MODULE MCWebApp ------------------------------
(***************************************************************************)
(* Instances of WebApp for TLC.                                            *)
(***************************************************************************)
EXTENDS WebApp, TLC

\* Users are interchangeable; a tab and a ConnectRPC client are not.
WebSymmetry == Permutations(Users)

=============================================================================
