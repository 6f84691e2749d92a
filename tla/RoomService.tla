----------------------------- MODULE RoomService -----------------------------
(***************************************************************************)
(* RoomService (app/services/room_service.py) and the HTTP endpoints that  *)
(* call it (app/api/v1/endpoints/room.py, app/api/internal/endpoints/      *)
(* game_server.py).                                                        *)
(*                                                                         *)
(* A task is one coroutine with its own database session: an HTTP request, *)
(* or a WebSocket for as long as it is open.  All tasks run on one event   *)
(* loop and interleave at the awaits, so an action is what a task does     *)
(* from one await that matters to the next: a SELECT and the branch taken  *)
(* on it, or the writes of one transaction, which no other session sees    *)
(* before their commit.                                                    *)
(*                                                                         *)
(* The session's identity map hands out the Room object it loaded first,   *)
(* attributes and all, whatever later SELECTs return: "seen" holds these   *)
(* copies.  Only whether the row still exists is read afresh.              *)
(***************************************************************************)
EXTENDS RoomConnections

CONSTANT Tasks      \* how many requests and sockets are served at a time

ASSUME TasksAssumption == IsFiniteSet(Tasks)

VARIABLE task

serviceVars == <<rooms, roomUsers, active, task>>

-----------------------------------------------------------------------------
(* Where a task is: "idle" when it serves nobody, else the await it is in. *)
PCs == {"idle", "create_insert", "join_own", "join_check", "join_again",
        "join_insert", "leave_check", "leave_delete", "leave_rest",
        "leave_bots", "leave_host", "leave_drop", "start_check",
        "start_call", "start_commit", "end_commit",
        "ws_accept", "ws_open", "ready_write", "bot_insert", "ws_tell",
        "ws_drop"}

(* Who awaits leave_room: an endpoint that then answers, the join endpoint,*)
(* handle_leave, or handle_disconnection.                                  *)
Callers == {"leave", "join", "handle_leave", "handle_disconnection"}

Copy == [host : People, playing : BOOLEAN]

Task == [pc : PCs,
         user : Users \cup {Nothing},
         room : RoomIds \cup {Nothing},     \* the room operated on
         dest : RoomIds \cup {Nothing},     \* the room to join
         seen : [RoomIds -> Copy \cup {Nothing}],
         row : RowIds \cup {Nothing},       \* the caller's row, as selected
         rest : SUBSET RowIds,              \* remaining, or room_users
         heir : People \cup {Nothing},      \* new_host_ru.user_id
         slot : Slots,
         number : RoomNumbers \cup {0},
         game : Games \cup {Nothing},
         only : BOOLEAN,                    \* disconnect_only
         back : Callers,
         mine : RowIds \cup {Nothing},      \* handler.room_user.id
         ready : BOOLEAN,                   \* handler.room_user.is_ready
         want : BOOLEAN]                    \* the is_ready asked for

Idle == [pc |-> "idle", user |-> Nothing, room |-> Nothing,
         dest |-> Nothing, seen |-> [r \in RoomIds |-> Nothing],
         row |-> Nothing, rest |-> {}, heir |-> Nothing, slot |-> 0,
         number |-> 0, game |-> Nothing, only |-> FALSE, back |-> "leave",
         mine |-> Nothing, ready |-> FALSE, want |-> FALSE]

TaskTypeOK == task \in [Tasks -> Task]

(* A task has what it is about to write.                                   *)
Equipped(k) ==
    /\ k.pc \notin {"idle", "end_commit"} => k.user \in Users
    /\ k.pc = "create_insert" => k.number \in RoomNumbers
    /\ k.pc = "leave_host" => k.heir \in People
    /\ k.pc = "ws_accept" => k.room \in RoomIds

TasksEquipped == \A t \in Tasks : Equipped(task[t])

ServiceInit == StoreInit /\ ActiveInit /\ task = [t \in Tasks |-> Idle]

-----------------------------------------------------------------------------
(* Reading a room through the session: the first copy wins.                *)
CopyOf(r) == [host |-> rooms[r].host, playing |-> rooms[r].playing]
Load(t, r) == [task[t].seen EXCEPT ![r] = IF @ = Nothing THEN CopyOf(r)
                                          ELSE @]
Seen(t) == task[t].seen[task[t].room]

At(t, pc) == task[t].pc = pc
Become(t, record) == task' = [task EXCEPT ![t] = record]
Goto(t, pc) == Become(t, [task[t] EXCEPT !.pc = pc])

(* A new row of room_user, if the constraints let it in.                   *)
CanInsertRow(u, r) == UserFree(u) /\ ParentExists(r)
InsertRow(id, r, s, bot) ==
    roomUsers' = Insert(roomUsers, id,
                        [room |-> r, slot |-> s, ready |-> bot, bot |-> bot])

(* The task answers its request: normally, with a domain error that its    *)
(* endpoint turns into a response, or with a database error.  An error     *)
(* closes a socket without a call of disconnect, so its entry stays.       *)
Finish(t) == Become(t, Idle)

-----------------------------------------------------------------------------
(* create_room: the caller must be in no room; then the next room number   *)
(* is selected, and the room and the host's row are inserted and committed.*)
CreateRoom(t, u) ==
    /\ At(t, "idle") /\ RowsOfUser(u) = {}
    /\ \E n \in RoomNumbers :
         /\ IsNextNumber(n)
         /\ Become(t, [Idle EXCEPT !.pc = "create_insert", !.user = u,
                                   !.number = n])
    /\ UNCHANGED <<rooms, roomUsers, active>>

CreateInsert(t, r, id) ==
    /\ At(t, "create_insert") /\ Owner(id) = task[t].user
    /\ NumberFree(task[t].number) /\ UserFree(task[t].user)
    /\ rooms' = Insert(rooms, r, [number |-> task[t].number,
                                  host |-> task[t].user,
                                  playing |-> FALSE, game |-> Nothing])
    /\ InsertRow(id, r, 0, FALSE)
    /\ Finish(t)
    /\ UNCHANGED active

CreateFails(t) ==
    /\ At(t, "create_insert")
    /\ ~ (NumberFree(task[t].number) /\ UserFree(task[t].user))
    /\ Finish(t)
    /\ UNCHANGED <<rooms, roomUsers, active>>

-----------------------------------------------------------------------------
(* The join endpoint: the room is loaded by its number; a caller who has a *)
(* row, in that room or another, leaves that room first.                   *)
Join(t, u, r) ==
    /\ At(t, "idle") /\ RoomExists(r)
    /\ Become(t, [Idle EXCEPT !.pc = "join_own", !.user = u, !.dest = r,
                              !.seen[r] = CopyOf(r)])
    /\ UNCHANGED <<rooms, roomUsers, active>>

JoinOwn(t) ==
    /\ At(t, "join_own")
    /\ \/ /\ RowsOfUser(task[t].user) = {}
          /\ Goto(t, "join_check")
       \/ \E id \in RowsOfUser(task[t].user) : LET r == roomUsers[id].room IN
            Become(t, [task[t] EXCEPT !.pc = "leave_check", !.room = r,
                                      !.seen = Load(t, r), !.back = "join"])
    /\ UNCHANGED <<rooms, roomUsers, active>>

(* new_slot_index: the lowest slot no row has, 0 if there is none.         *)
(* Mutants: counted from one behind the last row; or always the default.   *)
SlotAfterLast(r) == {Cardinality(RowsOf(r)) + 1}
DefaultSlot(r) == {0}
NewSlots(r) == IF FreeSlots(r) = {} THEN {0} ELSE LeastOf(FreeSlots(r))

(* len(room_users) < max_users; the mutant is off by one.                  *)
HasSeatOrIsFull(r) == Cardinality(RowsOf(r)) <= MaxUsers
HasSeat(r) == Cardinality(RowsOf(r)) < MaxUsers

(* join_room: the room must exist, not be playing in the session's copy,   *)
(* and have fewer than max_users rows.                                     *)
JoinCheck(t) ==
    LET r == task[t].dest
        open == RoomExists(r) /\ ~ task[t].seen[r].playing /\ HasSeat(r)
    IN
    /\ At(t, "join_check")
    /\ \/ /\ open
          /\ \E s \in NewSlots(r) :
               Become(t, [task[t] EXCEPT !.pc = "join_again", !.slot = s])
       \/ ~ open /\ Finish(t)
    /\ UNCHANGED <<rooms, roomUsers, active>>

(* Then the caller must still have no row.                                 *)
JoinAgain(t) ==
    /\ At(t, "join_again")
    /\ \/ RowsOfUser(task[t].user) = {} /\ Goto(t, "join_insert")
       \/ RowsOfUser(task[t].user) # {} /\ Finish(t)
    /\ UNCHANGED <<rooms, roomUsers, active>>

JoinInsert(t, id) ==
    /\ At(t, "join_insert") /\ Owner(id) = task[t].user
    /\ CanInsertRow(task[t].user, task[t].dest)
    /\ InsertRow(id, task[t].dest, task[t].slot, FALSE)
    /\ Finish(t)
    /\ UNCHANGED <<rooms, active>>

JoinFails(t) ==
    /\ At(t, "join_insert")
    /\ ~ CanInsertRow(task[t].user, task[t].dest)
    /\ Finish(t)
    /\ UNCHANGED <<rooms, roomUsers, active>>

-----------------------------------------------------------------------------
(* The leave endpoint, up to leave_room.                                   *)
Leave(t, u, r) ==
    /\ At(t, "idle") /\ RoomExists(r)
    /\ Become(t, [Idle EXCEPT !.pc = "leave_check", !.user = u, !.room = r,
                              !.seen[r] = CopyOf(r)])
    /\ UNCHANGED <<rooms, roomUsers, active>>

(* What the task does once leave_room has returned, or raised a domain     *)
(* error, to its caller: an endpoint answers, the join endpoint goes on to *)
(* join_room, and the handlers of a socket tell those who remain, if the   *)
(* answer names any, and go on to disconnect; of these only                *)
(* handle_disconnection catches the error.                                 *)
Returned(k, next) ==
    LET clear == [k EXCEPT !.row = Nothing, !.heir = Nothing] IN
    CASE k.back = "leave" -> Idle
      [] k.back = "join" -> [clear EXCEPT !.pc = "join_check"]
      [] OTHER -> [clear EXCEPT !.pc = next]
Raised(k) ==
    IF k.back = "handle_disconnection" THEN [k EXCEPT !.pc = "ws_drop"]
    ELSE Idle

(* leave_room: the caller's row must be in the room.  It is deleted unless *)
(* the game is on or only the connection is going.                         *)
LeaveCheck(t) ==
    /\ At(t, "leave_check")
    /\ \/ \E id \in OwnRowsIn(task[t].user, task[t].room) :
            Become(t, [task[t] EXCEPT
                         !.row = id,
                         !.pc = IF Seen(t).playing \/ task[t].only
                                THEN "leave_rest" ELSE "leave_delete"])
       \/ /\ OwnRowsIn(task[t].user, task[t].room) = {}
          /\ Become(t, Raised(task[t]))
    /\ UNCHANGED <<rooms, roomUsers, active>>

(* The mutant answers without a look at what remains.                      *)
LeaveDeletesOnly(t) ==
    /\ At(t, "leave_delete")
    /\ roomUsers' = Delete(roomUsers, {task[t].row})
    /\ Finish(t)
    /\ UNCHANGED <<rooms, active>>

LeaveDelete(t) ==
    /\ At(t, "leave_delete")
    /\ roomUsers' = Delete(roomUsers, {task[t].row})
    /\ Goto(t, "leave_rest")
    /\ UNCHANGED <<rooms, active>>

(* The rows that remain decide: only bots, then they and the room go; a    *)
(* host who left hands over to the lowest slot; nobody, then the room goes.*)
SeveralBots(rest) ==    \* mutant of OnlyBots: a single bot is not enough
    Cardinality(rest) > 1 /\ \A id \in rest : roomUsers[id].bot
OnlyBots(rest) == rest # {} /\ \A id \in rest : roomUsers[id].bot

HandsOver(t) ==
    /\ ~ Seen(t).playing /\ ~ task[t].only
    /\ Seen(t).host = task[t].user

InLowestSlot(rest) ==
    {id \in rest : \A other \in rest :
                      roomUsers[id].slot <= roomUsers[other].slot}

LeaveRest(t) ==
    LET rest == RowsOf(task[t].room) IN
    /\ At(t, "leave_rest")
    /\ \/ /\ OnlyBots(rest)
          /\ Become(t, [task[t] EXCEPT !.pc = "leave_bots", !.row = Nothing,
                                       !.rest = rest])
       \/ /\ rest # {} /\ ~ OnlyBots(rest) /\ HandsOver(t)
          /\ \E id \in InLowestSlot(rest) :
               Become(t, [task[t] EXCEPT !.pc = "leave_host", !.row = Nothing,
                                         !.heir = Owner(id)])
       \/ /\ rest # {} /\ ~ OnlyBots(rest) /\ ~ HandsOver(t)
          /\ Become(t, Returned(task[t], "ws_tell"))
       \/ rest = {} /\ Goto(t, "leave_drop")
    /\ UNCHANGED <<rooms, roomUsers, active>>

LeaveBots(t) ==
    /\ At(t, "leave_bots")
    /\ roomUsers' = Delete(roomUsers, task[t].rest)
    /\ Become(t, [task[t] EXCEPT !.pc = "leave_drop", !.rest = {}])
    /\ UNCHANGED <<rooms, active>>

(* The handover writes the host_id, and nothing when it is the copy's; the *)
(* mutant writes all that the copy holds.                                  *)
CopyWrittenBack(t) ==
    [rooms EXCEPT ![task[t].room].host = task[t].heir,
                  ![task[t].room].playing = Seen(t).playing]
HandedOver(t) ==
    [rooms EXCEPT ![task[t].room].host = IF task[t].heir = task[t].user THEN @
                                         ELSE task[t].heir]

(* Then the copy is refreshed; a room that is gone raises, and not a       *)
(* domain error.                                                           *)
LeaveHost(t) ==
    LET r == task[t].room
        now == HandedOver(t)[r]
    IN
    /\ At(t, "leave_host")
    /\ \/ /\ RoomExists(r)
          /\ rooms' = HandedOver(t)
          /\ Become(t, Returned([task[t] EXCEPT
                !.seen[r] = [host |-> now.host, playing |-> now.playing]],
                "ws_tell"))
       \/ ~ RoomExists(r) /\ Finish(t) /\ UNCHANGED rooms
    /\ UNCHANGED <<roomUsers, active>>

(* The room is deleted; a row inserted meanwhile makes that fail.          *)
LeaveDrop(t) ==
    /\ At(t, "leave_drop")
    /\ \/ /\ Unreferenced({task[t].room}, {})
          /\ rooms' = Delete(rooms, {task[t].room})
          /\ Become(t, Returned(task[t], "ws_drop"))
       \/ /\ ~ Unreferenced({task[t].room}, {})
          /\ Finish(t)
          /\ UNCHANGED rooms
    /\ UNCHANGED <<roomUsers, active>>

-----------------------------------------------------------------------------
(* The game-start endpoint lets only the host through; start_game wants a  *)
(* room that is not playing, with enough rows, all of them ready.          *)
StartUnlessGuest(u, r) == rooms[r].host = u  \* mutant: starts it again
MayStart(u, r) == rooms[r].host = u /\ ~ rooms[r].playing

Start(t, u, r) ==
    /\ At(t, "idle") /\ RoomExists(r) /\ MayStart(u, r)
    /\ Become(t, [Idle EXCEPT !.pc = "start_check", !.user = u, !.room = r,
                              !.seen[r] = CopyOf(r)])
    /\ UNCHANGED <<rooms, roomUsers, active>>

CanStart(r) ==
    /\ Cardinality(RowsOf(r)) >= MaxUsers
    /\ \A id \in RowsOf(r) : roomUsers[id].ready

StartCheck(t) ==
    /\ At(t, "start_check")
    /\ \/ CanStart(task[t].room) /\ Goto(t, "start_call")
       \/ ~ CanStart(task[t].room) /\ Finish(t)
    /\ UNCHANGED <<rooms, roomUsers, active>>

(* The game server starts a game, and the agent server connects the bots   *)
(* to it; when either call fails, the request does, and a game that was    *)
(* started is forgotten.                                                   *)
StartCall(t, g) ==
    /\ At(t, "start_call")
    /\ Become(t, [task[t] EXCEPT !.pc = "start_commit", !.game = g])
    /\ UNCHANGED <<rooms, roomUsers, active>>

StartCallFails(t) ==
    /\ At(t, "start_call")
    /\ Finish(t)
    /\ UNCHANGED <<rooms, roomUsers, active>>

(* The UPDATE writes the two columns; on a room that is gone it raises.    *)
StartCommit(t) ==
    LET r == task[t].room IN
    /\ At(t, "start_commit")
    /\ \/ /\ RoomExists(r)
          /\ rooms' = [rooms EXCEPT ![r].playing = TRUE,
                                    ![r].game = task[t].game]
       \/ ~ RoomExists(r) /\ UNCHANGED rooms
    /\ Finish(t)
    /\ UNCHANGED <<roomUsers, active>>

-----------------------------------------------------------------------------
(* The game server's end-game call finds the room by the game; end_game    *)
(* selects the room's rows, deletes them and the room, and commits once.   *)
End(t, r) ==
    /\ At(t, "idle") /\ RoomExists(r)
    /\ rooms[r].game # Nothing /\ rooms[r].playing
    /\ Become(t, [Idle EXCEPT !.pc = "end_commit", !.room = r,
                              !.rest = RowsOf(r)])
    /\ UNCHANGED <<rooms, roomUsers, active>>

(* The mutant resets the room for its users to come back to.               *)
RoomReset(r) ==
    [q \in DOMAIN rooms |->
        IF q = r THEN [rooms[q] EXCEPT !.playing = FALSE, !.game = Nothing]
        ELSE rooms[q]]
RoomEnded(r) == Delete(rooms, {r})

EndCommit(t) ==
    /\ At(t, "end_commit")
    /\ \/ /\ Unreferenced({task[t].room}, task[t].rest)
          /\ rooms' = RoomEnded(task[t].room)
          /\ roomUsers' = Delete(roomUsers, task[t].rest)
       \/ /\ ~ Unreferenced({task[t].room}, task[t].rest)
          /\ UNCHANGED <<rooms, roomUsers>>
    /\ Finish(t)
    /\ UNCHANGED active

-----------------------------------------------------------------------------
(* What the task goes on to do by itself once a request is being served.   *)
ServiceStep(t) ==
    \/ CreateFails(t)
    \/ JoinOwn(t) \/ JoinCheck(t) \/ JoinAgain(t) \/ JoinFails(t)
    \/ LeaveCheck(t) \/ LeaveDelete(t) \/ LeaveRest(t) \/ LeaveBots(t)
    \/ LeaveHost(t) \/ LeaveDrop(t)
    \/ StartCheck(t) \/ StartCallFails(t) \/ StartCommit(t)
    \/ EndCommit(t)

=============================================================================
