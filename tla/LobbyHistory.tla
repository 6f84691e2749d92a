---------------------------- MODULE LobbyHistory ----------------------------
(***************************************************************************)
(* The lobby with a history variable: the rooms in which two requests have *)
(* ever claimed a seat at a time.  A claim is open from the statement that *)
(* selects the rows and picks a slot to the one that inserts the row.      *)
(***************************************************************************)
EXTENDS LobbyProperties

VARIABLE contested

OpenClaims(r) == JoinClaims(r) \cup BotClaims(r)
Overlap(r) ==
    \E t, q \in OpenClaims(r) : t # q

HistoryInit == Init /\ contested = {}

Remember ==
    contested' = {r \in DOMAIN rooms' : r \in contested \/ Overlap(r)'}

HistorySpec == HistoryInit /\ [][Next /\ Remember]_<<vars, contested>>
RequestsHistorySpec ==
    HistoryInit /\ [][RequestsNext /\ Remember]_<<vars, contested>>

(* No two rows of a room have the same slot.                               *)
SlotsDiffer(r) ==
    \A i, j \in RowsOf(r) : roomUsers[i].slot = roomUsers[j].slot => i = j

(* Only claims that overlap can give a slot twice or a room a row too many:*)
(* while every join and every bot of a room has inserted its row, or given *)
(* up, before the next one looks, its slots differ and it has at most      *)
(* max_users rows, whatever leaves, starts, ends, disconnections, cleanups *)
(* and restarts come in between.                                           *)
UncontestedRoomsFit ==
    \A r \in DOMAIN rooms \ contested :
        SlotsDiffer(r) /\ Cardinality(RowsOf(r)) <= MaxUsers

=============================================================================
