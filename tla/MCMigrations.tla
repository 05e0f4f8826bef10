---------------------------- MODULE MCMigrations ----------------------------
(* An instance of Migrations for TLC; users are interchangeable. *)
EXTENDS Migrations, TLC

UsersSymmetry == Permutations(Users)

=============================================================================
