----------------------------- MODULE MCHistory ------------------------------
(* Instances of the lobby with the history of its claims, for TLC.         *)
EXTENDS LobbyHistory, TLC

Symmetry == Permutations(Users) \cup Permutations(Tasks)

=============================================================================
