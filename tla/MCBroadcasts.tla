----------------------------- MODULE MCBroadcasts ----------------------------
(* Instances of the sockets of a room with their history, for TLC.         *)
EXTENDS BroadcastHistory, TLC

Symmetry == Permutations(Users) \cup Permutations(Sockets)

=============================================================================
