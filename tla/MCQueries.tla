------------------------------ MODULE MCQueries ------------------------------
(* Instances of the requests that read the lobby, for TLC.                 *)
EXTENDS QueryHistory, TLC

Symmetry == Permutations(Persons) \cup Permutations(RoomNames)

=============================================================================
