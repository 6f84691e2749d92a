---------------------------- MODULE MCMigrations -----------------------------
(* Instances of the migrations, for TLC.                                   *)
EXTENDS MigrationProperties, TLC

Symmetry == Permutations(Users) \cup Permutations(Added)

=============================================================================
