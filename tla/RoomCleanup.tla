----------------------------- MODULE RoomCleanup -----------------------------
(***************************************************************************)
(* RoomService.cleanup_rooms, which every GET /room and GET /watch runs    *)
(* before it answers: room by room, the rows of users without a socket go, *)
(* and with the last row the room.  It reads the rooms once, the registry  *)
(* and the rows of each room when it comes to it, and commits once, at the *)
(* end, so that its deletes are seen, and fail, together.                  *)
(*                                                                         *)
(* The deletion of rows whose room is not in the list is left out: by the  *)
(* foreign key such a row has gone with its room, and deleting it again    *)
(* does nothing.                                                           *)
(***************************************************************************)
EXTENDS RoomConnections

VARIABLE sweep      \* the one cleanup that may be running

sweepVars == <<rooms, roomUsers, active, sweep>>

Sweep == [pc : {"idle", "next", "rows", "remaining"},
          todo : SUBSET RoomIds,            \* rooms still to visit
          playing : SUBSET RoomIds,         \* rooms that played when read
          room : RoomIds \cup {Nothing},    \* the room being visited
          online : SUBSET Users,            \* its active_user_ids
          doomed : SUBSET RowIds,           \* rows deleted, not committed
          closing : SUBSET RoomIds]         \* rooms deleted, not committed

NoSweep == [pc |-> "idle", todo |-> {}, playing |-> {}, room |-> Nothing,
            online |-> {}, doomed |-> {}, closing |-> {}]

SweepTypeOK ==
    /\ sweep \in Sweep
    /\ sweep.pc \in {"rows", "remaining"} => sweep.room \in RoomIds

SweepInit == sweep = NoSweep

-----------------------------------------------------------------------------
CleanupRooms ==
    /\ sweep.pc = "idle"
    /\ sweep' = [NoSweep EXCEPT
                   !.pc = "next", !.todo = DOMAIN rooms,
                   !.playing = {r \in DOMAIN rooms : rooms[r].playing}]
    /\ UNCHANGED <<rooms, roomUsers, active>>

(* active_user_ids is a copy, taken before the await of the room's rows.   *)
SweepRoom(r) ==
    /\ sweep.pc = "next" /\ r \in sweep.todo
    /\ sweep' = [sweep EXCEPT !.pc = "rows", !.room = r, !.todo = @ \ {r},
                              !.online = ActiveUsers(r)]
    /\ UNCHANGED <<rooms, roomUsers, active>>

(* Bots have no socket, so they are among the rows that go.                *)
AbsentOrPlaying(id) ==      \* mutant of Absent: the game does not matter
    Owner(id) \notin sweep.online
Absent(id) == Owner(id) \notin sweep.online /\ sweep.room \notin sweep.playing

SweepRows ==
    /\ sweep.pc = "rows"
    /\ sweep' = [sweep EXCEPT
                   !.pc = "remaining", !.online = {},
                   !.doomed = @ \cup {id \in RowsOf(sweep.room) : Absent(id)}]
    /\ UNCHANGED <<rooms, roomUsers, active>>

SweepRemaining ==
    LET remaining == RowsOf(sweep.room) \ sweep.doomed IN
    /\ sweep.pc = "remaining"
    /\ sweep' = [sweep EXCEPT
                   !.pc = "next", !.room = Nothing,
                   !.closing = IF remaining = {} THEN @ \cup {sweep.room}
                               ELSE @]
    /\ UNCHANGED <<rooms, roomUsers, active>>

(* One row inserted into one of the closing rooms undoes all of it.        *)
SweepCommit ==
    /\ sweep.pc = "next" /\ sweep.todo = {}
    /\ \/ /\ Unreferenced(sweep.closing, sweep.doomed)
          /\ rooms' = Delete(rooms, sweep.closing)
          /\ roomUsers' = Delete(roomUsers, sweep.doomed)
       \/ /\ ~ Unreferenced(sweep.closing, sweep.doomed)
          /\ UNCHANGED <<rooms, roomUsers>>
    /\ sweep' = NoSweep
    /\ UNCHANGED active

SweepStep ==
    \/ \E r \in RoomIds : SweepRoom(r)
    \/ SweepRows \/ SweepRemaining \/ SweepCommit

=============================================================================
