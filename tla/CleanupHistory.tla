--------------------------- MODULE CleanupHistory ----------------------------
(***************************************************************************)
(* The lobby with a history variable: who has been connected to which room *)
(* without a break since the cleanup that is running began.                *)
(***************************************************************************)
EXTENDS LobbyMembership

VARIABLE steady

HistoryInit == Init /\ steady = {}

HistoryNext ==
    /\ Next
    /\ steady' = IF sweep.pc = "idle" THEN active' ELSE steady \cap active'

HistorySpec == HistoryInit /\ [][HistoryNext]_<<vars, steady>>

(* Whatever comes and goes while cleanup_rooms reads room after room, when *)
(* it commits it takes no row of a user who was connected to that room all *)
(* the time, and no row of a room that was playing when it began.          *)
SweepSpares ==
    [][sweep.pc = "next" /\ sweep'.pc = "idle" =>
         \A id \in DOMAIN roomUsers \ DOMAIN roomUsers' :
            /\ <<roomUsers[id].room, Owner(id)>> \notin steady
            /\ roomUsers[id].room \notin sweep.playing]_<<vars, steady>>

=============================================================================
