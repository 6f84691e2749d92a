------------------------------ MODULE MCCleanup ------------------------------
(* Instances of the lobby with the history of its cleanup, for TLC.        *)
EXTENDS CleanupHistory, TLC

Symmetry == Permutations(Users) \cup Permutations(Tasks)

=============================================================================
