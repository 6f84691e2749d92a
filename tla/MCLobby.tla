------------------------------- MODULE MCLobby -------------------------------
(***************************************************************************)
(* Instances of the lobby for TLC.  Users and tasks are interchangeable;   *)
(* the generated keys are numbers, and always the smallest unused one.     *)
(***************************************************************************)
EXTENDS LobbyMembership, TLC

Symmetry == Permutations(Users) \cup Permutations(Tasks)

=============================================================================
