----------------------------- MODULE RoomSocket ------------------------------
(***************************************************************************)
(* RoomWebSocketHandler (app/api/v1/endpoints/ws_room.py): the life of a   *)
(* socket, from the checks before accept() to the last disconnect.         *)
(*                                                                         *)
(* The handler keeps its Room and its RoomUser for as long as the socket   *)
(* is open, so the session answers every later SELECT of them with the     *)
(* copies of that first moment.  What is broadcast is left out here; the   *)
(* awaits of the broadcasts are where the actions below can interleave.    *)
(***************************************************************************)
EXTENDS RoomService

-----------------------------------------------------------------------------
(* validate_room_user_connection: the user has a row in that room.         *)
Open(t, u, r) ==
    /\ At(t, "idle") /\ RoomExists(r)
    /\ \E id \in OwnRowsIn(u, r) :
         Become(t, [Idle EXCEPT !.pc = "ws_accept", !.user = u, !.room = r,
                                !.seen[r] = CopyOf(r),
                                !.mine = id,
                                !.ready = roomUsers[id].ready])
    /\ UNCHANGED <<rooms, roomUsers, active>>

Accept(t) ==
    /\ At(t, "ws_accept")
    /\ Connect(task[t].room, task[t].user)
    /\ Goto(t, "ws_open")
    /\ UNCHANGED <<rooms, roomUsers>>

-----------------------------------------------------------------------------
(* A "ready" message, handled by update_user_ready_status.  The user must  *)
(* have a row in the room, else the socket is closed.  The UPDATE is sent  *)
(* only when the flag differs from the copy's; then the row is refreshed.  *)
Ready(t, flag) ==
    LET u == task[t].user
        known(id) == IF id = task[t].mine THEN task[t].ready
                     ELSE roomUsers[id].ready
    IN
    /\ At(t, "ws_open")
    /\ \/ \E id \in OwnRowsIn(u, task[t].room) :
            IF known(id) # flag
            THEN Become(t, [task[t] EXCEPT !.pc = "ready_write", !.row = id,
                                           !.want = flag])
            ELSE Become(t, [task[t] EXCEPT
                              !.ready = IF id = task[t].mine
                                        THEN roomUsers[id].ready ELSE @])
       \/ OwnRowsIn(u, task[t].room) = {} /\ Finish(t)
    /\ UNCHANGED <<rooms, roomUsers, active>>

ReadyWrite(t) ==
    LET id == task[t].row IN
    /\ At(t, "ready_write")
    /\ \/ /\ RowExists(id)
          /\ roomUsers' = [roomUsers EXCEPT ![id].ready = task[t].want]
          /\ Become(t, [task[t] EXCEPT
                          !.pc = "ws_open", !.row = Nothing, !.want = FALSE,
                          !.ready = IF id = task[t].mine THEN task[t].want
                                    ELSE @])
       \/ ~ RowExists(id) /\ Finish(t) /\ UNCHANGED roomUsers
    /\ UNCHANGED <<rooms, active>>

-----------------------------------------------------------------------------
(* An "add_bot" message, handled by add_bot_to_slot: only the host of the  *)
(* session's copy may ask, and the slot must be free.                      *)
AddBot(t, s) ==
    LET r == task[t].room IN
    /\ At(t, "ws_open")
    /\ RoomExists(r) /\ Seen(t).host = task[t].user /\ s \in FreeSlots(r)
    /\ Become(t, [task[t] EXCEPT !.pc = "bot_insert", !.slot = s])
    /\ UNCHANGED <<rooms, roomUsers, active>>

BotInsert(t, id) ==
    /\ At(t, "bot_insert") /\ Owner(id) \in Bots
    /\ CanInsertRow(Owner(id), task[t].room)
    /\ InsertRow(id, task[t].room, task[t].slot, TRUE)
    /\ Become(t, [task[t] EXCEPT !.pc = "ws_open", !.slot = 0])
    /\ UNCHANGED <<rooms, active>>

(* create_bot_user can find no uid, a domain error that is answered, or    *)
(* lose the uid to another account; or the room has gone meanwhile.        *)
BotFails(t) ==
    /\ At(t, "bot_insert")
    /\ \/ Become(t, [task[t] EXCEPT !.pc = "ws_open", !.slot = 0])
       \/ Finish(t)
    /\ UNCHANGED <<rooms, roomUsers, active>>

-----------------------------------------------------------------------------
(* A "leave" message, handled by handle_leave.                             *)
LeaveMessage(t) ==
    /\ At(t, "ws_open")
    /\ Become(t, [task[t] EXCEPT !.pc = "leave_check",
                                 !.back = "handle_leave"])
    /\ UNCHANGED <<rooms, roomUsers, active>>

(* The client goes away: handle_disconnection.                             *)
Disconnected(k) == [k EXCEPT !.pc = "leave_check", !.only = TRUE,
                             !.back = "handle_disconnection"]
ClientGone(t) ==
    /\ At(t, "ws_open")
    /\ Become(t, Disconnected(task[t]))
    /\ UNCHANGED <<rooms, roomUsers, active>>

(* Both tell those who remain.  A broadcast raises when its dictionary     *)
(* changes under it: then handle_leave ends in handle_error, which runs    *)
(* handle_disconnection, and handle_disconnection ends there, with the     *)
(* entry still in the registry.                                            *)
Tell(t) ==
    /\ At(t, "ws_tell")
    /\ Goto(t, "ws_drop")
    /\ UNCHANGED <<rooms, roomUsers, active>>

(* Mutant of AfterLeave: every error runs handle_disconnection again.      *)
DisconnectsAgain(t) == Disconnected(task[t])
AfterLeave(t) == IF task[t].back = "handle_leave" THEN Disconnected(task[t])
                 ELSE Idle

TellFails(t) ==
    /\ At(t, "ws_tell")
    /\ Become(t, AfterLeave(t))
    /\ UNCHANGED <<rooms, roomUsers, active>>

(* Both end in RoomConnectionManager.disconnect.  After handle_leave the   *)
(* message loop reads from the socket it has just closed, which raises, so *)
(* that handle_error runs handle_disconnection too.                        *)
Drop(t) ==
    /\ At(t, "ws_drop")
    /\ Disconnect(task[t].room, task[t].user, Seen(t).playing)
    /\ Become(t, AfterLeave(t))
    /\ UNCHANGED <<rooms, roomUsers>>

SocketStep(t) ==
    \/ Accept(t) \/ ReadyWrite(t) \/ BotFails(t)
    \/ Tell(t) \/ TellFails(t) \/ Drop(t)

=============================================================================
