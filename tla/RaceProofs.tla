----------------------------- MODULE RaceProofs ------------------------------
(***************************************************************************)
(* Theorems about what requests that overlap can do to a room, and what    *)
(* they cannot, for any number of users, rooms, games and tasks: a game is *)
(* replaced only while a start of the room is being served, a room is over-*)
(* filled or a slot given twice only while two claims overlap, and however *)
(* leaves interleave one of them sees that it was the last.                *)
(***************************************************************************)
EXTENDS LobbyProofs, LobbyHistory

-----------------------------------------------------------------------------
(* A step of a task changes that task alone.                               *)
LEMMA OneTaskMoves ==
  ASSUME TaskTypeOK, NEW t \in Tasks, Request(t) \/ Continue(t)
  PROVE  \A q \in Tasks \ {t} : task'[q] = task[q]
<1>1. ASSUME NEW k, Become(t, k)
      PROVE  \A q \in Tasks \ {t} : task'[q] = task[q]
  BY <1>1 DEF Become, TaskTypeOK
<1> USE DEF Finish, Goto
<1>2. CASE Request(t)
  <2>1. \E k : Become(t, k)
    BY <1>2 DEF Request, CreateRoom, Join, Leave, Start, End, Open, Ready,
                AddBot, LeaveMessage, ClientGone
  <2> QED
    BY <1>1, <2>1
<1>3. CASE ServiceStep(t)
  <2>1. \E k : Become(t, k)
    BY <1>3 DEF ServiceStep, CreateFails, JoinOwn, JoinCheck, JoinAgain,
                JoinFails, LeaveCheck, LeaveDelete, LeaveRest, LeaveBots,
                LeaveHost, LeaveDrop, StartCheck, StartCallFails, StartCommit,
                EndCommit
  <2> QED
    BY <1>1, <2>1
<1>4. CASE SocketStep(t) \/ KeyedStep(t)
  <2>1. \E k : Become(t, k)
    BY <1>4 DEF SocketStep, KeyedStep, Accept, ReadyWrite, BotFails, Tell,
                TellFails, Drop, CreateInsert, JoinInsert, BotInsert, StartCall
  <2> QED
    BY <1>1, <2>1
<1> QED
  BY <1>2, <1>3, <1>4 DEF Continue

(* Where a task is about to start a game, or to delete rows that it has    *)
(* selected, and the actions that bring it there.                          *)
StartPCs == {"start_check", "start_call", "start_commit"}
DeletePCs == {"leave_delete", "leave_bots", "end_commit"}
Arrives(t) ==
    \/ \E u, r : Start(t, u, r)
    \/ StartCheck(t)
    \/ \E g : StartCall(t, g)
    \/ LeaveCheck(t)
    \/ LeaveRest(t)
    \/ \E r : End(t, r)
Arrived(t) ==
    task'[t].pc \in StartPCs \cup DeletePCs
        => task'[t] = task[t] \/ Arrives(t)

LEMMA RecordArrives ==
  ASSUME TaskTypeOK, NEW t \in Tasks, NEW k, Become(t, k),
         k.pc \notin StartPCs \cup DeletePCs
  PROVE  Arrived(t)
<1>1. task'[t] = k
  BY DEF TaskTypeOK, Become
<1> QED
  BY <1>1 DEF Arrived

LEMMA GotoArrives ==
  ASSUME TaskTypeOK, NEW t \in Tasks, NEW pc, Goto(t, pc),
         pc \notin StartPCs \cup DeletePCs
  PROVE  Arrived(t)
<1>1. [task[t] EXCEPT !.pc = pc].pc = pc
  BY DEF TaskTypeOK, Task
<1> QED
  BY <1>1, RecordArrives DEF Goto

LEMMA FinishArrives ==
  ASSUME TaskTypeOK, NEW t \in Tasks, Finish(t) PROVE Arrived(t)
BY RecordArrives DEF Finish, Idle, StartPCs, DeletePCs

LEMMA RequestArrives ==
  ASSUME TaskTypeOK, NEW t \in Tasks, Request(t)
  PROVE  Arrived(t)
<1> USE DEF StartPCs, DeletePCs
<1> DEFINE k == task[t]
<1>0. k \in Task
  BY DEF TaskTypeOK
<1>1. ASSUME NEW u, CreateRoom(t, u) PROVE Arrived(t)
  BY <1>1, RecordArrives DEF CreateRoom, Idle
<1>2. ASSUME NEW u, NEW r, Join(t, u, r) \/ Leave(t, u, r)
      PROVE  Arrived(t)
  BY <1>2, RecordArrives DEF Join, Leave, Idle
<1>3. ASSUME NEW u, NEW r, Start(t, u, r) \/ End(t, r)
      PROVE  Arrived(t)
  BY <1>3 DEF Arrived, Arrives
<1>4. ASSUME NEW u, NEW r, Open(t, u, r) PROVE Arrived(t)
  BY <1>4, RecordArrives DEF Open, Idle
<1>5. ASSUME NEW flag, Ready(t, flag) PROVE Arrived(t)
  <2>1. ASSUME NEW id PROVE [k EXCEPT !.pc = "ready_write", !.row = id,
                                      !.want = flag].pc = "ready_write"
    BY <1>0 DEF Task
  <2>2. ASSUME NEW f PROVE [k EXCEPT !.ready = f].pc = k.pc
    BY <1>0 DEF Task
  <2>3. k.pc = "ws_open"
    BY <1>5 DEF Ready, At
  <2> QED
    BY <1>5, <2>1, <2>2, <2>3, RecordArrives, FinishArrives DEF Ready
<1>6. ASSUME NEW s, AddBot(t, s) PROVE Arrived(t)
  <2>1. [k EXCEPT !.pc = "bot_insert", !.slot = s].pc = "bot_insert"
    BY <1>0 DEF Task
  <2> QED
    BY <1>6, <2>1, RecordArrives DEF AddBot
<1>7. CASE LeaveMessage(t) \/ ClientGone(t)
  <2>1. [k EXCEPT !.pc = "leave_check",
                  !.back = "handle_leave"].pc = "leave_check"
    BY <1>0 DEF Task
  <2> QED
    BY <1>0, <1>7, <2>1, RecordArrives, DisconnectedPC
    DEF LeaveMessage, ClientGone
<1> QED
  BY <1>1, <1>2, <1>3, <1>4, <1>5, <1>6, <1>7 DEF Request

LEMMA ContinueArrives ==
  ASSUME TaskTypeOK, NEW t \in Tasks, Continue(t)
  PROVE  Arrived(t)
<1> USE DEF StartPCs, DeletePCs
<1> DEFINE k == task[t]
<1>0. k \in Task
  BY DEF TaskTypeOK
<1>f. ASSUME Finish(t) PROVE Arrived(t)
  BY <1>f, FinishArrives
<1>1. CASE \/ CreateFails(t) \/ JoinFails(t) \/ StartCallFails(t)
           \/ StartCommit(t) \/ EndCommit(t)
           \/ (\E r, id : CreateInsert(t, r, id)) \/ \E id : JoinInsert(t, id)
  BY <1>1, <1>f DEF CreateFails, JoinFails, StartCallFails, StartCommit,
     EndCommit, CreateInsert, JoinInsert
<1>2. CASE JoinOwn(t)
  <2>1. ASSUME NEW r, NEW seen
        PROVE  [k EXCEPT !.pc = "leave_check", !.room = r, !.seen = seen,
                         !.back = "join"].pc = "leave_check"
    BY <1>0 DEF Task
  <2> QED
    BY <1>2, <2>1, RecordArrives, GotoArrives DEF JoinOwn
<1>3. CASE JoinCheck(t) \/ JoinAgain(t)
  <2>1. ASSUME NEW s PROVE [k EXCEPT !.pc = "join_again",
                                     !.slot = s].pc = "join_again"
    BY <1>0 DEF Task
  <2> QED
    BY <1>3, <1>f, <2>1, RecordArrives, GotoArrives DEF JoinCheck, JoinAgain
<1>4. CASE LeaveCheck(t) \/ LeaveRest(t) \/ StartCheck(t)
           \/ \E g : StartCall(t, g)
  BY <1>4 DEF Arrived, Arrives
<1>5. CASE LeaveDelete(t) \/ LeaveBots(t)
  <2>1. [k EXCEPT !.pc = "leave_drop", !.rest = {}].pc = "leave_drop"
    BY <1>0 DEF Task
  <2> QED
    BY <1>5, <2>1, RecordArrives, GotoArrives DEF LeaveDelete, LeaveBots
<1>7. CASE LeaveHost(t) \/ LeaveDrop(t)
  <2>1. ASSUME NEW m, NEW next \in {"ws_tell", "ws_drop"},
               DOMAIN m = DOMAIN Idle, Become(t, Returned(m, next))
        PROVE  Arrived(t)
    <3>1. Returned(m, next).pc \in {"idle", "join_check", "ws_tell", "ws_drop"}
      BY <2>1 DEF Returned, Idle
    <3> QED
      BY <2>1, <3>1, RecordArrives
  <2>2. ASSUME NEW copy
        PROVE  DOMAIN [k EXCEPT !.seen[k.room] = copy] = DOMAIN Idle
    BY <1>0 DEF Task, Idle
  <2>3. CASE LeaveHost(t)
    <3>1. \/ Finish(t)
          \/ \E copy : Become(t, Returned([k EXCEPT !.seen[k.room] = copy],
                                          "ws_tell"))
      BY <2>3 DEF LeaveHost
    <3> HIDE DEF k
    <3> QED
      BY <1>f, <2>1, <2>2, <3>1
  <2>4. CASE LeaveDrop(t)
    BY <1>0, <1>f, <2>1, <2>4 DEF LeaveDrop, Task, Idle
  <2> QED
    BY <1>7, <2>3, <2>4
<1>8. CASE Accept(t) \/ Tell(t)
  BY <1>8, GotoArrives DEF Accept, Tell
<1>9. CASE ReadyWrite(t)
  <2>1. ASSUME NEW f
        PROVE  [k EXCEPT !.pc = "ws_open", !.row = Nothing, !.want = FALSE,
                         !.ready = f].pc = "ws_open"
    BY <1>0 DEF Task
  <2> QED
    BY <1>9, <1>f, <2>1, RecordArrives DEF ReadyWrite
<1>10. CASE TellFails(t) \/ Drop(t)
  BY <1>0, <1>10, RecordArrives, DisconnectedPC
  DEF TellFails, Drop, AfterLeave, Idle
<1>11. CASE BotFails(t) \/ \E id : BotInsert(t, id)
  <2>1. [k EXCEPT !.pc = "ws_open", !.slot = 0].pc = "ws_open"
    BY <1>0 DEF Task
  <2> QED
    BY <1>11, <2>1, <1>f, RecordArrives DEF BotFails, BotInsert
<1> QED
  BY <1>1, <1>2, <1>3, <1>4, <1>5, <1>7, <1>8, <1>9, <1>10, <1>11
     DEF Continue, ServiceStep, SocketStep, KeyedStep

LEMMA Arrivals ==
  ASSUME TaskTypeOK, [Next]_vars, NEW t \in Tasks
  PROVE  Arrived(t)
<1>1. ASSUME task'[t] = task[t] PROVE Arrived(t)
  BY <1>1 DEF Arrived
<1>2. ASSUME NEW q \in Tasks, Request(q) \/ Continue(q) PROVE Arrived(t)
  BY <1>1, <1>2, OneTaskMoves, RequestArrives, ContinueArrives
<1>3. CASE Crash
  BY <1>3 DEF Crash, Arrived, Idle, StartPCs, DeletePCs
<1> QED
  BY <1>1, <1>2, <1>3 DEF Next, RequestsNext, List, Cleanup, vars

-----------------------------------------------------------------------------
(* The games.  A game is written by the last statement of a start alone.   *)
LEMMA GamesKept ==
  ASSUME StoreTypeOK, [Next]_vars,
         NEW r \in DOMAIN rooms \cap DOMAIN rooms', ~ Starting(r)
  PROVE  rooms'[r].game = rooms[r].game
<1>1. ASSUME UNCHANGED rooms PROVE rooms'[r].game = rooms[r].game
  BY <1>1
<1>2. ASSUME NEW gone, rooms' = Delete(rooms, gone)
      PROVE  rooms'[r].game = rooms[r].game
  BY <1>2, FewerRooms
<1>3. ASSUME NEW t \in Tasks, NEW q \in NewRooms, NEW id, CreateInsert(t, q, id)
      PROVE  rooms'[r].game = rooms[r].game
  <2>1. q # r
    BY DEF NewRooms, LeastOf, RoomKnown, RoomExists
  <2>2. PICK row : rooms' = Insert(rooms, q, row)
    BY <1>3 DEF CreateInsert
  <2>3. \A p \in DOMAIN rooms \ {q} : rooms'[p] = rooms[p]
    BY <2>2, MoreRooms
  <2> QED
    BY <2>1, <2>3
<1>4. ASSUME NEW t \in Tasks, LeaveHost(t)
      PROVE  rooms'[r].game = rooms[r].game
  <2>1. CASE rooms' = HandedOver(t)
    BY <2>1 DEF HandedOver, StoreTypeOK, Room
  <2> QED
    BY <1>1, <1>4, <2>1 DEF LeaveHost
<1>5. ASSUME NEW t \in Tasks, StartCommit(t)
      PROVE  rooms'[r].game = rooms[r].game
  <2>1. task[t].room # r
    BY <1>5 DEF StartCommit, At, Starting
  <2>2. CASE rooms' = [rooms EXCEPT ![task[t].room].playing = TRUE,
                                    ![task[t].room].game = task[t].game]
    BY <2>1, <2>2 DEF StoreTypeOK
  <2> QED
    BY <1>1, <1>5, <2>2 DEF StartCommit
<1>6. ASSUME NEW t \in Tasks,
             \/ LeaveDrop(t) \/ EndCommit(t) \/ LeaveDelete(t) \/ LeaveBots(t)
             \/ ReadyWrite(t) \/ (\E id : JoinInsert(t, id))
             \/ (\E id : BotInsert(t, id)) \/ \E g : StartCall(t, g)
      PROVE  rooms'[r].game = rooms[r].game
  BY <1>1, <1>2, <1>6 DEF LeaveDrop, EndCommit, RoomEnded, LeaveDelete,
     LeaveBots, ReadyWrite, JoinInsert, BotInsert, StartCall
<1>7. CASE List \/ Cleanup \/ Crash \/ UNCHANGED vars
  BY <1>1, <1>2, <1>7 DEF List, Cleanup, CleanupRooms, SweepStep, SweepRoom,
     SweepRows, SweepRemaining, SweepCommit, Crash, vars
<1> QED
  BY <1>1, <1>3, <1>4, <1>5, <1>6, <1>7, ReadsOnly
     DEF Next, RequestsNext, Continue, ServiceStep, SocketStep, KeyedStep

(* A start is served for a room that did not play when it was asked for,   *)
(* and for no other room afterwards.                                       *)
LEMMA StartsBegin ==
  ASSUME TaskTypeOK, [Next]_vars, NEW r \in DOMAIN rooms, rooms[r].playing,
         ~ Starting(r)
  PROVE  ~ Starting(r)'
<1> SUFFICES ASSUME NEW t \in Tasks, task'[t].pc \in StartPCs,
                    task'[t].room = r
             PROVE  FALSE
  BY DEF Starting, StartPCs
<1> DEFINE k == task[t]
<1>0. k \in Task
  BY DEF TaskTypeOK
<1>n. ~ (k.pc \in StartPCs /\ k.room = r)
  BY DEF Starting, StartPCs
<1>1. task'[t] # k /\ Arrives(t)
  BY <1>n, Arrivals DEF Arrived
<1>b. ASSUME NEW m, Become(t, m) PROVE task'[t] = m
  BY <1>b DEF TaskTypeOK, Become
<1>g. ASSUME NEW pc, Goto(t, pc)
      PROVE  task'[t].pc = pc /\ task'[t].room = k.room
  BY <1>0, <1>b, <1>g DEF Goto, Task
<1>2. ASSUME NEW u, NEW q, Start(t, u, q) PROVE FALSE
  <2> DEFINE m == [Idle EXCEPT !.pc = "start_check", !.user = u, !.room = q,
                               !.seen[q] = CopyOf(q)]
  <2>1. m.room = q
    BY DEF Idle
  <2>2. task'[t] = m
    BY <1>2, <1>b DEF Start
  <2> QED
    BY <1>2, <2>1, <2>2 DEF Start, MayStart
<1>3. CASE StartCheck(t)
  <2>1. task'[t].room = k.room
    BY <1>3, <1>g, <1>b DEF StartCheck, Finish, Idle, StartPCs
  <2> QED
    BY <1>3, <2>1, <1>n DEF StartCheck, At, StartPCs
<1>4. ASSUME NEW g, StartCall(t, g) PROVE FALSE
  <2>1. task'[t] = [k EXCEPT !.pc = "start_commit", !.game = g]
    BY <1>4, <1>b DEF StartCall
  <2>2. task'[t].room = k.room
    BY <1>0, <2>1 DEF Task
  <2> QED
    BY <1>4, <2>2, <1>n DEF StartCall, At, StartPCs
<1>m. ASSUME NEW m, Become(t, m), m.pc \notin StartPCs PROVE FALSE
  BY <1>b, <1>m
<1>5. CASE LeaveCheck(t)
  <2>1. ASSUME NEW id, NEW pc \in {"leave_rest", "leave_delete"}
        PROVE  [k EXCEPT !.row = id, !.pc = pc].pc \notin StartPCs
    BY <1>0 DEF Task, StartPCs
  <2>2. Raised(k).pc \notin StartPCs
    BY <1>0 DEF Raised, Idle, Task, StartPCs
  <2> QED
    BY <1>5, <1>m, <2>1, <2>2 DEF LeaveCheck
<1>6. CASE LeaveRest(t)
  <2>1. ASSUME NEW rest, NEW heir
        PROVE  /\ [k EXCEPT !.pc = "leave_bots", !.row = Nothing,
                            !.rest = rest].pc \notin StartPCs
               /\ [k EXCEPT !.pc = "leave_host", !.row = Nothing,
                            !.heir = heir].pc \notin StartPCs
    BY <1>0 DEF Task, StartPCs
  <2>2. Returned(k, "ws_tell").pc \notin StartPCs
    BY <1>0 DEF Returned, Idle, Task, StartPCs
  <2>3. ASSUME Goto(t, "leave_drop") PROVE FALSE
    BY <1>g, <2>3 DEF StartPCs
  <2> QED
    BY <1>6, <1>m, <2>1, <2>2, <2>3 DEF LeaveRest
<1>7. ASSUME NEW q, End(t, q) PROVE FALSE
  <2>1. task'[t] = [Idle EXCEPT !.pc = "end_commit", !.room = q,
                                !.rest = RowsOf(q)]
    BY <1>7, <1>b DEF End
  <2>2. task'[t].pc = "end_commit"
    BY <2>1 DEF Idle
  <2> QED
    BY <2>2 DEF StartPCs
<1> QED
  BY <1>1, <1>2, <1>3, <1>4, <1>5, <1>6, <1>7 DEF Arrives

(* Once the starts of a room that overlapped have been answered, nothing   *)
(* replaces its game: a start asked for later finds the room playing.      *)
THEOREM GameStays == Spec => GameIsFixed
<1>1. TypedStore /\ [Next]_vars
        => [\A r \in DOMAIN rooms \cap DOMAIN rooms' :
              rooms[r].playing /\ ~ Starting(r) =>
                 rooms'[r].game = rooms[r].game /\ ~ Starting(r)']_vars
  BY GamesKept, StartsBegin DEF TypedStore, TypeOK
<1> QED
  BY <1>1, TypedStoreInit, TypedStoreStep, PTL DEF Spec, GameIsFixed

-----------------------------------------------------------------------------
(* Departures.  The rows that a task has selected and is about to delete   *)
(* are of its room, those that leave_room calls bots are bots.             *)
Targets(t) ==
    LET k == task[t] IN
    /\ k.pc = "leave_delete" /\ RowExists(k.row)
         => roomUsers[k.row].room = k.room
    /\ k.pc = "leave_bots"
         => \A id \in k.rest \cap DOMAIN roomUsers :
               roomUsers[id].room = k.room /\ roomUsers[id].bot
    /\ k.pc = "end_commit"
         => \A id \in k.rest \cap DOMAIN roomUsers :
               roomUsers[id].room = k.room
TargetsMatch == \A t \in Tasks : Targets(t)

LEMMA KnownRowsKept ==
  ASSUME StoreTypeOK, [Next]_vars, NEW id \in DOMAIN roomUsers', RowKnown(id)
  PROVE  /\ id \in DOMAIN roomUsers
         /\ roomUsers'[id].room = roomUsers[id].room
         /\ roomUsers'[id].bot = roomUsers[id].bot
<1>1. CASE SameRows
  BY <1>1 DEF SameRows
<1>2. CASE OneRowMore
  <2>1. PICK new, row : /\ ~ RowKnown(new)
                        /\ roomUsers' = Insert(roomUsers, new, row)
    BY <1>2 DEF OneRowMore
  <2>2. id # new
    BY <2>1
  <2>3. /\ DOMAIN roomUsers' = DOMAIN roomUsers \cup {new}
        /\ \A j \in DOMAIN roomUsers \ {new} : roomUsers'[j] = roomUsers[j]
    BY <2>1, MoreRows
  <2> QED
    BY <2>2, <2>3
<1>3. CASE RowsGone
  BY <1>3, FewerRows DEF RowsGone
<1> QED
  BY <1>1, <1>2, <1>3, RowSteps

LEMMA TargetsArrive ==
  ASSUME TaskTypeOK, NEW t \in Tasks, Arrives(t)
  PROVE  Targets(t)'
<1> DEFINE k == task[t]
<1>0. k \in Task
  BY DEF TaskTypeOK
<1>b. ASSUME NEW m, Become(t, m) PROVE task'[t] = m
  BY <1>b DEF TaskTypeOK, Become
<1>m. ASSUME NEW m, Become(t, m), m.pc \notin DeletePCs PROVE Targets(t)'
  BY <1>b, <1>m DEF Targets, DeletePCs
<1>g. ASSUME NEW pc, Goto(t, pc), pc \notin DeletePCs PROVE Targets(t)'
  <2>1. [k EXCEPT !.pc = pc].pc = pc
    BY <1>0 DEF Task
  <2> QED
    BY <1>g, <1>m, <2>1 DEF Goto
<1>1. ASSUME NEW u, NEW r, Start(t, u, r) PROVE Targets(t)'
  <2>1. [Idle EXCEPT !.pc = "start_check", !.user = u, !.room = r,
                     !.seen[r] = CopyOf(r)].pc = "start_check"
    BY DEF Idle
  <2> QED
    BY <1>1, <1>m, <2>1 DEF Start, DeletePCs
<1>2. CASE StartCheck(t)
  BY <1>2, <1>m, <1>g DEF StartCheck, Finish, Idle, DeletePCs
<1>3. ASSUME NEW g, StartCall(t, g) PROVE Targets(t)'
  <2>1. [k EXCEPT !.pc = "start_commit", !.game = g].pc = "start_commit"
    BY <1>0 DEF Task
  <2> QED
    BY <1>3, <1>m, <2>1 DEF StartCall, DeletePCs
<1>4. CASE LeaveCheck(t)
  <2>1. ASSUME NEW id \in OwnRowsIn(k.user, k.room),
               NEW pc \in {"leave_rest", "leave_delete"},
               Become(t, [k EXCEPT !.row = id, !.pc = pc])
        PROVE  Targets(t)'
    <3>1. task'[t] = [k EXCEPT !.row = id, !.pc = pc]
      BY <1>b, <2>1
    <3>2. /\ task'[t].row = id /\ task'[t].room = k.room
          /\ task'[t].pc \in {"leave_rest", "leave_delete"}
      BY <1>0, <3>1 DEF Task
    <3>3. roomUsers[id].room = k.room /\ UNCHANGED roomUsers
      BY <1>4 DEF OwnRowsIn, RowsOf, LeaveCheck
    <3> QED
      BY <3>2, <3>3 DEF Targets
  <2>2. Raised(k).pc \notin DeletePCs
    BY <1>0 DEF Raised, Idle, Task, DeletePCs
  <2> QED
    BY <1>4, <1>m, <2>1, <2>2 DEF LeaveCheck
<1>5. CASE LeaveRest(t)
  <2>1. ASSUME OnlyBots(RowsOf(k.room)),
               Become(t, [k EXCEPT !.pc = "leave_bots", !.row = Nothing,
                                   !.rest = RowsOf(k.room)])
        PROVE  Targets(t)'
    <3>1. task'[t] = [k EXCEPT !.pc = "leave_bots", !.row = Nothing,
                               !.rest = RowsOf(k.room)]
      BY <1>b, <2>1
    <3>2. /\ task'[t].pc = "leave_bots" /\ task'[t].room = k.room
          /\ task'[t].rest = RowsOf(k.room)
      BY <1>0, <3>1 DEF Task
    <3>3. /\ UNCHANGED roomUsers
          /\ \A id \in RowsOf(k.room) :
               roomUsers[id].room = k.room /\ roomUsers[id].bot
      BY <1>5, <2>1 DEF RowsOf, OnlyBots, LeaveRest
    <3> QED
      BY <3>2, <3>3 DEF Targets
  <2>2. ASSUME NEW heir
        PROVE  [k EXCEPT !.pc = "leave_host", !.row = Nothing,
                         !.heir = heir].pc \notin DeletePCs
    BY <1>0 DEF Task, DeletePCs
  <2>3. Returned(k, "ws_tell").pc \notin DeletePCs
    BY <1>0 DEF Returned, Idle, Task, DeletePCs
  <2>4. "leave_drop" \notin DeletePCs
    BY DEF DeletePCs
  <2> QED
    BY <1>5, <1>m, <1>g, <2>1, <2>2, <2>3, <2>4 DEF LeaveRest
<1>6. ASSUME NEW r, End(t, r) PROVE Targets(t)'
  <2>1. task'[t] = [Idle EXCEPT !.pc = "end_commit", !.room = r,
                                !.rest = RowsOf(r)]
    BY <1>6, <1>b DEF End
  <2>2. /\ task'[t].pc = "end_commit" /\ task'[t].room = r
        /\ task'[t].rest = RowsOf(r)
    BY <2>1 DEF Idle
  <2>3. UNCHANGED roomUsers /\ \A id \in RowsOf(r) : roomUsers[id].room = r
    BY <1>6 DEF End, RowsOf
  <2> QED
    BY <2>2, <2>3 DEF Targets
<1> QED
  BY <1>1, <1>2, <1>3, <1>4, <1>5, <1>6 DEF Arrives

LEMMA TargetsInit == Init => TargetsMatch
BY DEF Init, ServiceInit, Idle, TargetsMatch, Targets

LEMMA TargetsStep == TypedStore /\ TargetsMatch /\ [Next]_vars => TargetsMatch'
<1> SUFFICES ASSUME TypedStore, TargetsMatch, [Next]_vars, NEW t \in Tasks
             PROVE  Targets(t)'
  BY DEF TargetsMatch
<1>0. StoreTypeOK /\ TaskTypeOK
  BY DEF TypedStore, TypeOK
<1>1. CASE task'[t] = task[t]
  <2>1. ASSUME NEW id \in DOMAIN roomUsers', id \in task[t].rest \cup {task[t].row}
        PROVE  /\ id \in DOMAIN roomUsers
               /\ roomUsers'[id].room = roomUsers[id].room
               /\ roomUsers'[id].bot = roomUsers[id].bot
    <3>1. RowKnown(id)
      BY <2>1 DEF RowKnown
    <3> QED
      BY <1>0, <3>1, KnownRowsKept
  <2> QED
    BY <1>1, <2>1 DEF TargetsMatch, Targets, RowExists
<1>2. CASE task'[t].pc \notin DeletePCs
  BY <1>2 DEF Targets, DeletePCs
<1> QED
  BY <1>0, <1>1, <1>2, Arrivals, TargetsArrive DEF Arrived

(* What a step leaves as it was, of the rows of a room.                    *)
SameRowsOf(r) ==
    /\ RowsOf(r)' = RowsOf(r)
    /\ \A id \in RowsOf(r) : roomUsers'[id].bot = roomUsers[id].bot

LEMMA ElsewhereDeleted ==
  ASSUME NEW r, NEW gone, roomUsers' = Delete(roomUsers, gone),
         \A id \in gone \cap DOMAIN roomUsers : roomUsers[id].room # r
  PROVE  SameRowsOf(r)
BY FewerRows DEF SameRowsOf, RowsOf

LEMMA ElsewhereInserted ==
  ASSUME NEW r, NEW q, NEW id, NEW s, NEW bot, UserFree(Owner(id)),
         InsertRow(id, q, s, bot), q # r
  PROVE  SameRowsOf(r)
<1>1. id \notin DOMAIN roomUsers
  BY DEF UserFree, RowsOfUser
<1> DEFINE row == [room |-> q, slot |-> s, ready |-> bot, bot |-> bot]
<1>2. roomUsers' = Insert(roomUsers, id, row) /\ row.room = q
  BY DEF InsertRow
<1> HIDE DEF row
<1>3. /\ DOMAIN roomUsers' = DOMAIN roomUsers \cup {id}
      /\ roomUsers'[id].room = q
      /\ \A j \in DOMAIN roomUsers \ {id} : roomUsers'[j] = roomUsers[j]
  BY <1>2, MoreRows
<1> QED
  BY <1>1, <1>3 DEF SameRowsOf, RowsOf

LEMMA SamePeople ==
  ASSUME NEW r, SameRowsOf(r) PROVE PeopleIn(r)' = PeopleIn(r)
BY DEF SameRowsOf, PeopleIn

(* A leave that will see that it was the last goes on to see it, unless it *)
(* is itself at a step that decides.                                       *)
LEMMA ClearsOn ==
  ASSUME NEW r, NEW t \in Tasks, task'[t] = task[t],
         RowsOf(r)' \subseteq RowsOf(r), Clears(t, r)
  PROVE  Clears(t, r)'
BY DEF Clears, At

ClearPCs == {"leave_rest", "leave_bots", "leave_drop"}

(* So a step of another kind that leaves the rows of a room alone deserts  *)
(* none.                                                                   *)
LEMMA QuietStep ==
  ASSUME TaskTypeOK, NEW r \in DOMAIN rooms, Deserted(r)', SameRowsOf(r),
         \/ UNCHANGED task
         \/ \E t \in Tasks : /\ Request(t) \/ Continue(t)
                             /\ task[t].pc \notin ClearPCs
  PROVE  Deserted(r)
<1>1. PeopleIn(r) = {}
  BY SamePeople DEF Deserted
<1>2. ASSUME NEW q \in Tasks, Clears(q, r) PROVE FALSE
  <2>1. task[q].pc \in ClearPCs
    BY <1>2 DEF Clears, At, ClearPCs
  <2>2. task'[q] = task[q]
    BY <2>1, OneTaskMoves
  <2>3. Clears(q, r)'
    BY <1>2, <2>2, ClearsOn DEF SameRowsOf
  <2> QED
    BY <2>3 DEF Deserted
<1> QED
  BY <1>1, <1>2 DEF Deserted, RoomExists

(* The steps that decide: who looks at what remains, and finds bots or     *)
(* nobody, goes on to delete them and the room.                            *)
LEMMA LastLooks ==
  ASSUME TaskTypeOK, NEW r \in DOMAIN rooms, Deserted(r)',
         NEW t \in Tasks, LeaveRest(t), Continue(t)
  PROVE  Deserted(r)
<1> DEFINE k == task[t]
<1>0. k \in Task
  BY DEF TaskTypeOK
<1>b. ASSUME NEW m, Become(t, m) PROVE task'[t] = m
  BY <1>b DEF TaskTypeOK, Become
<1>1. SameRowsOf(r) /\ k.pc = "leave_rest" /\ UNCHANGED roomUsers
  BY DEF LeaveRest, SameRowsOf, RowsOf, At
<1>2. PeopleIn(r) = {}
  BY <1>1, SamePeople DEF Deserted
<1>3. ASSUME NEW q \in Tasks \ {t}, Clears(q, r) PROVE FALSE
  <2>1. task'[q] = task[q]
    BY OneTaskMoves
  <2> QED
    BY <1>1, <1>3, <2>1, ClearsOn DEF SameRowsOf, Deserted
<1>4. ASSUME k.room = r PROVE FALSE
  <2>1. \A id \in RowsOf(r) : roomUsers[id].bot
    BY <1>2 DEF PeopleIn
  <2>2. CASE RowsOf(r) = {}
    <3>1. task'[t] = [k EXCEPT !.pc = "leave_drop"]
      BY <1>4, <1>b, <2>2 DEF LeaveRest, OnlyBots, Goto
    <3>2. task'[t].pc = "leave_drop" /\ task'[t].room = r
      BY <1>0, <1>4, <3>1 DEF Task
    <3> QED
      BY <1>1, <2>2, <3>2 DEF SameRowsOf, Deserted, Clears, At
  <2>3. CASE RowsOf(r) # {}
    <3>1. task'[t] = [k EXCEPT !.pc = "leave_bots", !.row = Nothing,
                               !.rest = RowsOf(r)]
      BY <1>4, <1>b, <2>1, <2>3 DEF LeaveRest, OnlyBots
    <3>2. /\ task'[t].pc = "leave_bots" /\ task'[t].room = r
          /\ task'[t].rest = RowsOf(r)
      BY <1>0, <1>4, <3>1 DEF Task
    <3> QED
      BY <1>1, <3>2 DEF SameRowsOf, Deserted, Clears, At
  <2> QED
    BY <2>2, <2>3
<1>5. ~ Clears(t, r)
  BY <1>4 DEF Clears
<1> QED
  BY <1>2, <1>3, <1>5 DEF Deserted, RoomExists

LEMMA BotsGo ==
  ASSUME TaskTypeOK, NEW r \in DOMAIN rooms, Deserted(r)',
         NEW t \in Tasks, Targets(t), LeaveBots(t), Continue(t)
  PROVE  Deserted(r)
<1> DEFINE k == task[t]
<1>0. k \in Task
  BY DEF TaskTypeOK
<1>1. /\ roomUsers' = Delete(roomUsers, k.rest) /\ k.pc = "leave_bots"
      /\ task'[t] = [k EXCEPT !.pc = "leave_drop", !.rest = {}]
  BY DEF LeaveBots, At, TaskTypeOK, Become
<1>2. task'[t].pc = "leave_drop" /\ task'[t].room = k.room
  BY <1>0, <1>1 DEF Task
<1>3. /\ RowsOf(r)' = RowsOf(r) \ k.rest
      /\ \A id \in RowsOf(r) \ k.rest : roomUsers'[id] = roomUsers[id]
  <2> DEFINE gone == k.rest
  <2>1. roomUsers' = Delete(roomUsers, gone)
    BY <1>1
  <2> HIDE DEF gone
  <2>2. /\ DOMAIN roomUsers' = DOMAIN roomUsers \ gone
        /\ \A j \in DOMAIN roomUsers' : roomUsers'[j] = roomUsers[j]
    BY <2>1, FewerRows
  <2>3. /\ RowsOf(r)' = RowsOf(r) \ gone
        /\ \A id \in RowsOf(r) \ gone : roomUsers'[id] = roomUsers[id]
    BY <2>2 DEF RowsOf
  <2> QED
    BY <2>3 DEF gone
<1>4. PeopleIn(r) = {}
  <2> SUFFICES ASSUME NEW id \in PeopleIn(r) PROVE FALSE
    OBVIOUS
  <2>1. id \in RowsOf(r) /\ ~ roomUsers[id].bot /\ id \in DOMAIN roomUsers
    BY DEF PeopleIn, RowsOf
  <2>2. id \notin k.rest
    BY <1>1, <2>1 DEF Targets
  <2>3. id \in PeopleIn(r)'
    BY <1>3, <2>1, <2>2 DEF PeopleIn
  <2> QED
    BY <2>3 DEF Deserted
<1>5. ASSUME NEW q \in Tasks \ {t}, Clears(q, r) PROVE FALSE
  <2>1. task'[q] = task[q]
    BY OneTaskMoves
  <2> QED
    BY <1>3, <1>5, <2>1, ClearsOn DEF Deserted
<1>6. ~ Clears(t, r)
  <2> SUFFICES ASSUME Clears(t, r) PROVE FALSE
    OBVIOUS
  <2>1. k.room = r /\ RowsOf(r) \subseteq k.rest
    BY <1>1 DEF Clears, At
  <2>2. RowsOf(r)' = {}
    BY <1>3, <2>1
  <2> QED
    BY <1>2, <2>1, <2>2 DEF Clears, At, Deserted
<1> QED
  BY <1>4, <1>5, <1>6 DEF Deserted, RoomExists

LEMMA LastDrops ==
  ASSUME TaskTypeOK, NEW r \in DOMAIN rooms, Deserted(r)',
         NEW t \in Tasks, LeaveDrop(t), Continue(t)
  PROVE  Deserted(r)
<1>1. SameRowsOf(r) /\ task[t].pc = "leave_drop"
  BY DEF LeaveDrop, SameRowsOf, RowsOf, At
<1>2. PeopleIn(r) = {}
  BY <1>1, SamePeople DEF Deserted
<1>3. ASSUME NEW q \in Tasks \ {t}, Clears(q, r) PROVE FALSE
  <2>1. task'[q] = task[q]
    BY OneTaskMoves
  <2> QED
    BY <1>1, <1>3, <2>1, ClearsOn DEF SameRowsOf, Deserted
<1>4. ~ Clears(t, r)
  <2> SUFFICES ASSUME Clears(t, r) PROVE FALSE
    OBVIOUS
  <2>1. task[t].room = r /\ RowsOf(r) = {}
    BY <1>1 DEF Clears, At
  <2>2. Unreferenced({r}, {})
    BY <2>1 DEF Unreferenced, RowsOf
  <2>3. r \notin DOMAIN rooms'
    BY <2>1, <2>2, FewerRooms DEF LeaveDrop
  <2> QED
    BY <2>3 DEF Deserted, RoomExists
<1> QED
  BY <1>2, <1>3, <1>4 DEF Deserted, RoomExists

LEMMA RowsWritten ==
  ASSUME TypedStore, TargetsMatch, NEW r \in DOMAIN rooms, Deserted(r)',
         NEW t \in Tasks, Continue(t),
         \/ LeaveDelete(t) \/ EndCommit(t) \/ ReadyWrite(t)
         \/ \E q \in NewRooms : \E id : CreateInsert(t, q, id)
         \/ \E id : JoinInsert(t, id)
  PROVE  Deserted(r)
<1> DEFINE k == task[t]
<1>0. TaskTypeOK /\ StoreTypeOK /\ k \in Task
  BY DEF TypedStore, TypeOK, TaskTypeOK
<1>q. ASSUME SameRowsOf(r), k.pc \notin ClearPCs PROVE Deserted(r)
  BY <1>0, <1>q, QuietStep
<1>b. ASSUME NEW m, Become(t, m) PROVE task'[t] = m
  BY <1>0, <1>b DEF TaskTypeOK, Become
<1>1. CASE LeaveDelete(t)
  <2>1. CASE k.room = r
    <3>1. task'[t] = [k EXCEPT !.pc = "leave_rest"]
      BY <1>1, <1>b DEF LeaveDelete, Goto
    <3>2. task'[t].pc = "leave_rest" /\ task'[t].room = r
      BY <1>0, <2>1, <3>1 DEF Task
    <3> QED
      BY <3>2 DEF Deserted, Clears, At
  <2>2. CASE k.room # r
    <3>1. k.pc = "leave_delete" /\ roomUsers' = Delete(roomUsers, {k.row})
      BY <1>1 DEF LeaveDelete, At
    <3>2. \A id \in {k.row} \cap DOMAIN roomUsers : roomUsers[id].room # r
      BY <2>2, <3>1 DEF TargetsMatch, Targets, RowExists
    <3>3. SameRowsOf(r)
      BY <3>1, <3>2, ElsewhereDeleted
    <3> QED
      BY <1>q, <3>1, <3>3 DEF ClearPCs
  <2> QED
    BY <2>1, <2>2
<1>2. CASE EndCommit(t)
  <2>1. k.pc = "end_commit"
    BY <1>2 DEF EndCommit, At
  <2>2. CASE UNCHANGED roomUsers
    BY <1>q, <2>1, <2>2 DEF SameRowsOf, RowsOf, ClearPCs
  <2>3. CASE /\ rooms' = RoomEnded(k.room)
             /\ roomUsers' = Delete(roomUsers, k.rest)
    <3>1. r # k.room
      BY <2>3, FewerRooms DEF RoomEnded, Deserted, RoomExists
    <3>2. \A id \in k.rest \cap DOMAIN roomUsers : roomUsers[id].room # r
      BY <2>1, <3>1 DEF TargetsMatch, Targets
    <3>3. SameRowsOf(r)
      BY <2>3, <3>2, ElsewhereDeleted
    <3> QED
      BY <1>q, <2>1, <3>3 DEF ClearPCs
  <2> QED
    BY <1>2, <2>2, <2>3 DEF EndCommit
<1>3. CASE ReadyWrite(t)
  <2>1. k.pc = "ready_write"
    BY <1>3 DEF ReadyWrite, At
  <2>2. CASE roomUsers' = [roomUsers EXCEPT ![k.row].ready = k.want]
    <3>1. /\ DOMAIN roomUsers' = DOMAIN roomUsers
          /\ \A id \in DOMAIN roomUsers :
               /\ roomUsers'[id].room = roomUsers[id].room
               /\ roomUsers'[id].bot = roomUsers[id].bot
      BY <1>0, <2>2 DEF StoreTypeOK, RoomUser
    <3>2. SameRowsOf(r)
      BY <3>1 DEF SameRowsOf, RowsOf
    <3> QED
      BY <1>q, <2>1, <3>2 DEF ClearPCs
  <2>3. CASE UNCHANGED roomUsers
    BY <1>q, <2>1, <2>3 DEF SameRowsOf, RowsOf, ClearPCs
  <2> QED
    BY <1>3, <2>2, <2>3 DEF ReadyWrite
<1>4. ASSUME NEW q \in NewRooms, NEW id, CreateInsert(t, q, id)
      PROVE  Deserted(r)
  <2>1. q # r
    BY DEF NewRooms, LeastOf, RoomKnown, RoomExists
  <2>2. /\ UserFree(Owner(id)) /\ InsertRow(id, q, 0, FALSE)
        /\ k.pc = "create_insert"
    BY <1>4 DEF CreateInsert, At
  <2>3. SameRowsOf(r)
    BY <2>1, <2>2, ElsewhereInserted
  <2> QED
    BY <1>q, <2>2, <2>3 DEF ClearPCs
<1>5. ASSUME NEW id, JoinInsert(t, id) PROVE Deserted(r)
  <2>1. /\ UserFree(Owner(id)) /\ InsertRow(id, k.dest, k.slot, FALSE)
        /\ k.pc = "join_insert"
    BY <1>5 DEF JoinInsert, CanInsertRow, At
  <2>2. CASE k.dest = r
    <3>1. PICK row : /\ roomUsers' = Insert(roomUsers, id, row)
                     /\ row.room = r /\ row.bot = FALSE
      <4> DEFINE m == [room |-> k.dest, slot |-> k.slot,
                       ready |-> FALSE, bot |-> FALSE]
      <4>1. roomUsers' = Insert(roomUsers, id, m)
        BY <2>1 DEF InsertRow
      <4>2. m.room = r /\ m.bot = FALSE
        BY <2>2
      <4> HIDE DEF m
      <4> QED
        BY <4>1, <4>2
    <3>2. id \in DOMAIN roomUsers' /\ roomUsers'[id] = row
      <4>1. /\ DOMAIN roomUsers' = DOMAIN roomUsers \cup {id}
            /\ roomUsers'[id] = row
        BY <3>1, MoreRows
      <4> QED
        BY <4>1
    <3>3. id \in PeopleIn(r)'
      BY <3>1, <3>2 DEF PeopleIn, RowsOf
    <3> QED
      BY <3>3 DEF Deserted
  <2>3. CASE k.dest # r
    <3>1. SameRowsOf(r)
      BY <2>1, <2>3, ElsewhereInserted
    <3> QED
      BY <1>q, <2>1, <3>1 DEF ClearPCs
  <2> QED
    BY <2>2, <2>3
<1> QED
  BY <1>1, <1>2, <1>3, <1>4, <1>5

LEMMA DesertStep ==
  ASSUME TypedStore, TargetsMatch, [Next]_vars, NEW r \in DOMAIN rooms,
         Deserted(r)', ~ Crash, ~ SweepCommit,
         ~ \E t \in Tasks, id \in RowIds : BotInsert(t, id)
  PROVE  Deserted(r)
<1>0. TaskTypeOK /\ StoreTypeOK
  BY DEF TypedStore, TypeOK
<1>1. CASE UNCHANGED vars
  BY <1>1 DEF vars, Deserted, PeopleIn, RowsOf, Clears, At, RoomExists
<1>2. CASE List \/ Cleanup
  <2>1. UNCHANGED task /\ UNCHANGED roomUsers
    BY <1>2 DEF List, Cleanup, CleanupRooms, SweepStep, SweepRoom, SweepRows,
                SweepRemaining
  <2>2. SameRowsOf(r)
    BY <2>1 DEF SameRowsOf, RowsOf
  <2> QED
    BY <1>0, <2>1, <2>2, QuietStep
<1>3. ASSUME NEW t \in Tasks, Request(t) PROVE Deserted(r)
  <2>1. SameRowsOf(r)
    BY <1>3, ReadsOnly DEF SameRowsOf, RowsOf
  <2>2. task[t].pc \in {"idle", "ws_open"}
    BY <1>3 DEF Request, CreateRoom, Join, Leave, Start, End, Open, Ready,
                AddBot, LeaveMessage, ClientGone, At
  <2>3. task[t].pc \notin ClearPCs
    BY <2>2 DEF ClearPCs
  <2> QED
    BY <1>0, <1>3, <2>1, <2>3, QuietStep
<1>4. ASSUME NEW t \in Tasks, Continue(t) PROVE Deserted(r)
  <2>q. ASSUME UNCHANGED roomUsers, task[t].pc \notin ClearPCs
        PROVE  Deserted(r)
    <3>1. SameRowsOf(r)
      BY <2>q DEF SameRowsOf, RowsOf
    <3> QED
      BY <1>0, <1>4, <2>q, <3>1, QuietStep
  <2>1. CASE \/ CreateFails(t) \/ JoinOwn(t) \/ JoinCheck(t) \/ JoinAgain(t)
             \/ JoinFails(t) \/ LeaveCheck(t) \/ LeaveHost(t) \/ StartCheck(t)
             \/ StartCallFails(t) \/ StartCommit(t)
             \/ \E g \in NewGames : StartCall(t, g)
    <3>1. UNCHANGED roomUsers
      BY <2>1, ReadsOnly DEF LeaveHost, StartCommit
    <3>2. task[t].pc \notin ClearPCs
      BY <2>1 DEF CreateFails, JoinOwn, JoinCheck, JoinAgain, JoinFails,
                  LeaveCheck, LeaveHost, StartCheck, StartCallFails,
                  StartCommit, StartCall, At, ClearPCs
    <3> QED
      BY <2>q, <3>1, <3>2
  <2>2. CASE Accept(t) \/ BotFails(t) \/ Tell(t) \/ TellFails(t) \/ Drop(t)
    <3>1. UNCHANGED roomUsers
      BY <2>2, ReadsOnly
    <3>2. task[t].pc \notin ClearPCs
      BY <2>2 DEF Accept, BotFails, Tell, TellFails, Drop, At, ClearPCs
    <3> QED
      BY <2>q, <3>1, <3>2
  <2>3. CASE LeaveRest(t) \/ LeaveBots(t) \/ LeaveDrop(t)
    BY <1>0, <1>4, <2>3, LastLooks, BotsGo, LastDrops DEF TargetsMatch
  <2>4. CASE \/ LeaveDelete(t) \/ EndCommit(t) \/ ReadyWrite(t)
             \/ \E q \in NewRooms, id \in NewRows(task[t].user) :
                   CreateInsert(t, q, id)
             \/ \E id \in NewRows(task[t].user) : JoinInsert(t, id)
    BY <1>4, <2>4, RowsWritten
  <2>5. ASSUME NEW b \in NewBots, NEW id \in NewRows(b), BotInsert(t, id)
        PROVE  FALSE
    <3>1. id \in RowIds
      BY DEF NewBots, NewRows, LeastOf, RowIds, People
    <3> QED
      BY <2>5, <3>1
  <2> QED
    BY <1>4, <2>1, <2>2, <2>3, <2>4, <2>5
       DEF Continue, ServiceStep, SocketStep, KeyedStep
<1> QED
  BY <1>1, <1>2, <1>3, <1>4 DEF Next, RequestsNext

(* However leaves, joins and disconnections of one room interleave, one of *)
(* the leaves sees that nobody but bots is left and takes the room along:  *)
(* only a restart, a cleanup or a late bot deserts a room.                 *)
THEOREM SomeLeaveIsLast == Spec => RoomsNotDeserted
<1> DEFINE Step ==
      \A r \in DOMAIN rooms :
         Deserted(r)' => \/ Deserted(r)
                        \/ Crash \/ SweepCommit
                        \/ \E t \in Tasks, id \in RowIds : BotInsert(t, id)
<1>1. TypedStore /\ TargetsMatch /\ [Next]_vars => [Step]_vars
  BY DesertStep
<1>2. RoomsNotDeserted <=> [][Step]_vars
  BY PTL DEF RoomsNotDeserted
<1> HIDE DEF Step
<1> QED
  BY <1>1, <1>2, TypedStoreInit, TypedStoreStep, TargetsInit, TargetsStep, PTL
     DEF Spec

-----------------------------------------------------------------------------
(* Claims that do not overlap.  Of a room without a contest at most one    *)
(* claim is open, its slot is free, and the slots of the rows differ.      *)
Fits(r) ==
    /\ ~ Overlap(r)
    /\ SlotsDiffer(r)
    /\ \A t \in OpenClaims(r) : task[t].slot \in FreeSlots(r)
FitInv == \A r \in DOMAIN rooms \ contested : Fits(r)

(* A new room comes with its host's row, and no task knows it yet.         *)
LEMMA NewRoomOpens ==
  ASSUME StoreTypeOK, TaskTypeOK, [Next]_vars,
         NEW r \in DOMAIN rooms', r \notin DOMAIN rooms
  PROVE  \E t \in Tasks : \E id : Opened(t, id, r)
<1>1. ASSUME NEW t \in Tasks, NEW q \in NewRooms, NEW id, CreateInsert(t, q, id)
      PROVE  Opened(t, id, r)
  <2>1. PICK row : rooms' = Insert(rooms, q, row)
    BY <1>1 DEF CreateInsert
  <2>2. DOMAIN rooms' = DOMAIN rooms \cup {q}
    BY <2>1, MoreRooms
  <2>3. r = q
    BY <2>2
  <2>4. ~ RoomKnown(q)
    BY DEF NewRooms, LeastOf
  <2>5. id \notin DOMAIN roomUsers
    BY <1>1 DEF CreateInsert, UserFree, RowsOfUser
  <2> QED
    BY <1>1, <2>3, <2>4, <2>5 DEF CreateInsert, Opened, OneMore
<1>2. ASSUME DOMAIN rooms' \subseteq DOMAIN rooms PROVE FALSE
  BY <1>2
<1>3. ASSUME UNCHANGED rooms PROVE FALSE
  BY <1>2, <1>3
<1>4. ASSUME NEW gone, rooms' = Delete(rooms, gone) PROVE FALSE
  BY <1>2, <1>4, FewerRooms
<1>5. ASSUME NEW t \in Tasks,
             \/ LeaveHost(t) \/ StartCommit(t) \/ LeaveDrop(t) \/ EndCommit(t)
             \/ LeaveDelete(t) \/ LeaveBots(t) \/ ReadyWrite(t)
             \/ (\E id : JoinInsert(t, id)) \/ (\E id : BotInsert(t, id))
             \/ \E g : StartCall(t, g)
      PROVE  FALSE
  <2>1. ASSUME NEW f, NEW g, rooms' = [rooms EXCEPT ![task[t].room].playing = f,
                                                   ![task[t].room].game = g]
        PROVE  FALSE
    BY <1>2, <2>1
  <2>2. ASSUME NEW h, rooms' = [rooms EXCEPT ![task[t].room].host = h]
        PROVE  FALSE
    BY <1>2, <2>2
  <2>3. CASE LeaveHost(t)
    <3>1. CASE rooms' = HandedOver(t)
      <4>1. DOMAIN rooms' = DOMAIN rooms
        BY <3>1 DEF HandedOver
      <4> QED
        BY <1>2, <4>1
    <3> QED
      BY <1>3, <2>3, <3>1 DEF LeaveHost
  <2>4. CASE StartCommit(t)
    BY <1>3, <2>1, <2>4 DEF StartCommit
  <2>5. CASE LeaveDrop(t) \/ EndCommit(t)
    BY <1>3, <1>4, <2>5 DEF LeaveDrop, EndCommit, RoomEnded
  <2> QED
    BY <1>3, <1>5, <2>3, <2>4, <2>5
       DEF LeaveDelete, LeaveBots, ReadyWrite, JoinInsert, BotInsert, StartCall
<1>6. CASE List \/ Cleanup \/ Crash \/ UNCHANGED vars
  BY <1>3, <1>4, <1>6 DEF List, Cleanup, CleanupRooms, SweepStep, SweepRoom,
     SweepRows, SweepRemaining, SweepCommit, Crash, vars
<1>7. ASSUME NEW t \in Tasks, Continue(t)
      PROVE  \E q \in Tasks : \E id : Opened(q, id, r)
  BY <1>1, <1>3, <1>5, <1>7, ReadsOnly
     DEF Continue, ServiceStep, SocketStep, KeyedStep
<1> QED
  BY <1>3, <1>6, <1>7, ReadsOnly DEF Next, RequestsNext

LEMMA FitsFewer ==
  ASSUME StoreTypeOK, SeatInv, NoneMore, ClaimsMade, NEW r, Fits(r),
         ~ Overlap(r)'
  PROVE  Fits(r)'
<1>1. /\ RowsOf(r)' \subseteq RowsOf(r)
      /\ \A id \in RowsOf(r)' : roomUsers'[id].slot = roomUsers[id].slot
  BY DEF NoneMore, RowsOf
<1>2. SlotsDiffer(r)'
  BY <1>1 DEF Fits, SlotsDiffer
<1>3. FreeSlots(r) \subseteq FreeSlots(r)'
  BY <1>1 DEF FreeSlots
<1>4. ASSUME NEW t \in OpenClaims(r)'
      PROVE  task'[t].slot \in FreeSlots(r)'
  <2>1. /\ t \in Tasks /\ task'[t].pc \in ClaimPCs
        /\ task'[t].pc \in JoinPCs => task'[t].dest = r
        /\ task'[t].pc = "bot_insert" => task'[t].room = r
    BY <1>4 DEF OpenClaims, JoinClaims, BotClaims, At, ClaimPCs, JoinPCs
  <2>2. CASE Kept(t)
    <3>1. t \in OpenClaims(r) /\ task'[t].slot = task[t].slot
      BY <1>4, <2>2 DEF Kept, ClaimPCs, JoinPCs, OpenClaims, JoinClaims,
                        BotClaims, At
    <3> QED
      BY <1>3, <3>1 DEF Fits
  <2>3. CASE task'[t].pc \in JoinPCs /\ Counted(t)
    <3>1. HasSeat(r) /\ task'[t].slot \in NewSlots(r) /\ UNCHANGED roomUsers
      BY <2>1, <2>3 DEF Counted
    <3>2. task'[t].slot \in FreeSlots(r)
      BY <3>1, SeatMeansSlot DEF SeatInv
    <3> QED
      BY <1>3, <3>2
  <2>4. CASE task'[t].pc = "bot_insert" /\ FoundFree(t)
    BY <1>3, <2>1, <2>4 DEF FoundFree
  <2> QED
    BY <2>1, <2>2, <2>3, <2>4 DEF ClaimsMade, ClaimMade
<1> QED
  BY <1>2, <1>4 DEF Fits

(* A row that comes with the only claim of a room takes a slot that is     *)
(* free, and leaves no claim behind.                                       *)
LEMMA FitsMore ==
  ASSUME ClaimsMade, NEW r, Fits(r), NEW id, NEW q, NEW s, NEW bot,
         OneMore(id, q, s, bot),
         q = r => \E t \in OpenClaims(r) : /\ task[t].slot = s
                                           /\ task'[t].pc \notin ClaimPCs
  PROVE  Fits(r)'
<1>1. /\ AllKept
      /\ DOMAIN roomUsers' = DOMAIN roomUsers \cup {id}
      /\ roomUsers'[id] = [room |-> q, slot |-> s, ready |-> bot, bot |-> bot]
      /\ \A j \in DOMAIN roomUsers : roomUsers'[j] = roomUsers[j]
  BY RowsChangeOrClaims
<1>2. id \notin DOMAIN roomUsers
  BY DEF OneMore
<1>3. \A t \in OpenClaims(r)' : /\ t \in OpenClaims(r)
                                /\ task'[t].pc \in ClaimPCs
                                /\ task'[t].slot = task[t].slot
  BY <1>1 DEF AllKept, Kept, OpenClaims, JoinClaims, BotClaims, At, ClaimPCs,
              JoinPCs
<1>4. ~ Overlap(r)'
  BY <1>3 DEF Fits, Overlap
<1>5. roomUsers'[id].room = q /\ roomUsers'[id].slot = s
  BY <1>1
<1>6. CASE q # r
  <2>1. /\ RowsOf(r)' = RowsOf(r)
        /\ \A j \in RowsOf(r) : roomUsers'[j].slot = roomUsers[j].slot
    BY <1>1, <1>2, <1>5, <1>6 DEF RowsOf
  <2>2. SlotsDiffer(r)'
    BY <2>1 DEF Fits, SlotsDiffer
  <2>3. FreeSlots(r)' = FreeSlots(r)
    BY <2>1 DEF FreeSlots
  <2> QED
    BY <1>3, <1>4, <2>2, <2>3 DEF Fits
<1>7. CASE q = r
  <2>1. PICK t \in OpenClaims(r) : /\ task[t].slot = s
                                   /\ task'[t].pc \notin ClaimPCs
    BY <1>7
  <2>2. OpenClaims(r)' = {}
    BY <1>3, <2>1 DEF Fits, Overlap
  <2>3. \A j \in RowsOf(r) : roomUsers[j].slot # s
    BY <2>1 DEF Fits, FreeSlots
  <2>4. RowsOf(r)' = RowsOf(r) \cup {id}
    BY <1>1, <1>5, <1>7 DEF RowsOf
  <2>5. \A j \in RowsOf(r) : roomUsers'[j] = roomUsers[j]
    BY <1>1 DEF RowsOf
  <2>6. SlotsDiffer(r)'
    BY <1>5, <2>3, <2>4, <2>5 DEF Fits, SlotsDiffer
  <2> QED
    BY <1>4, <2>2, <2>6 DEF Fits
<1> QED
  BY <1>6, <1>7

(* A room that nobody knows has neither rows nor claims.                   *)
LEMMA UnknownFits ==
  ASSUME RowsHaveRooms, NEW r, ~ RoomKnown(r)
  PROVE  RowsOf(r) = {} /\ OpenClaims(r) = {} /\ r \notin DOMAIN rooms
<1>1. r \notin DOMAIN rooms
  BY DEF RoomKnown, RoomExists
<1>2. RowsOf(r) = {}
  BY <1>1 DEF RowsHaveRooms, RoomExists, RowsOf
<1>3. OpenClaims(r) = {}
  BY DEF RoomKnown, TaskKnowsRoom, OpenClaims, JoinClaims, BotClaims
<1> QED
  BY <1>1, <1>2, <1>3

LEMMA OpenedFits ==
  ASSUME RowsHaveRooms, ClaimsMade, NEW t, NEW id, NEW r, Opened(t, id, r)
  PROVE  Fits(r)'
<1>0. ~ RoomKnown(r) /\ OneMore(id, r, 0, FALSE)
  BY DEF Opened
<1>1. RowsOf(r) = {} /\ OpenClaims(r) = {}
  BY <1>0, UnknownFits
<1>2. /\ AllKept
      /\ DOMAIN roomUsers' = DOMAIN roomUsers \cup {id}
      /\ \A j \in DOMAIN roomUsers : roomUsers'[j] = roomUsers[j]
  BY <1>0, RowsChangeOrClaims
<1>3. RowsOf(r)' \subseteq {id}
  BY <1>1, <1>2 DEF RowsOf
<1>4. OpenClaims(r)' = {}
  BY <1>1, <1>2 DEF AllKept, Kept, OpenClaims, JoinClaims, BotClaims, At,
                    ClaimPCs, JoinPCs
<1> QED
  BY <1>3, <1>4 DEF Fits, Overlap, SlotsDiffer

LEMMA FitStep ==
  ASSUME TypedStore, SeatInv, FitInv, Next, Remember
  PROVE  FitInv'
<1> SUFFICES ASSUME NEW r \in DOMAIN rooms', r \notin contested' PROVE Fits(r)'
  BY DEF FitInv
<1>0. StoreTypeOK /\ TaskTypeOK /\ RowsHaveRooms /\ [Next]_vars
  BY DEF TypedStore, TypeOK
<1>1. r \notin contested /\ ~ Overlap(r)'
  BY DEF Remember
<1>2. ClaimsMade
  BY <1>0, ClaimSteps
<1>3. CASE r \notin DOMAIN rooms
  BY <1>0, <1>2, <1>3, NewRoomOpens, OpenedFits
<1>4. CASE r \in DOMAIN rooms
  <2>0. Fits(r)
    BY <1>1, <1>4 DEF FitInv
  <2>1. CASE NoneMore
    BY <1>0, <1>1, <1>2, <2>0, <2>1, FitsFewer
  <2>2. ASSUME NEW t \in Tasks, NEW id, Joined(t, id) PROVE Fits(r)'
    <3>1. /\ OneMore(id, task[t].dest, task[t].slot, FALSE)
          /\ task'[t].pc \notin ClaimPCs
      BY <2>2 DEF Joined, ClaimPCs, JoinPCs
    <3>2. task[t].dest = r => t \in OpenClaims(r)
      BY <2>2 DEF Joined, OpenClaims, JoinClaims, At
    <3> QED
      BY <1>2, <2>0, <3>1, <3>2, FitsMore
  <2>3. ASSUME NEW t \in Tasks, NEW id, BotSeated(t, id) PROVE Fits(r)'
    <3>1. /\ OneMore(id, task[t].room, task[t].slot, TRUE)
          /\ task'[t].pc \notin ClaimPCs
      BY <2>3 DEF BotSeated, ClaimPCs, JoinPCs
    <3>2. task[t].room = r => t \in OpenClaims(r)
      BY <2>3 DEF BotSeated, OpenClaims, BotClaims, At
    <3> QED
      BY <1>2, <2>0, <3>1, <3>2, FitsMore
  <2>4. ASSUME NEW t \in Tasks, NEW id, NEW q, Opened(t, id, q)
        PROVE  Fits(r)'
    <3>1. q # r /\ OneMore(id, q, 0, FALSE)
      BY <1>4, <2>4 DEF Opened, RoomKnown, RoomExists
    <3> QED
      BY <1>2, <2>0, <3>1, FitsMore
  <2> QED
    BY <1>0, <2>1, <2>2, <2>3, <2>4, RowsCome
<1> QED
  BY <1>3, <1>4

(* Rows with different slots are no more than slots.                       *)
LEMMA FitMeansCapacity ==
  ASSUME StoreTypeOK, NEW r, SlotsDiffer(r)
  PROVE  Cardinality(RowsOf(r)) <= MaxUsers
<1> DEFINE f == [id \in RowsOf(r) |-> roomUsers[id].slot]
<1>1. f \in [RowsOf(r) -> Slots]
  BY DEF RowsOf, StoreTypeOK, RoomUser
<1>2. \A i, j \in RowsOf(r) : f[i] = f[j] => i = j
  BY DEF SlotsDiffer
<1>3. f \in Injection(RowsOf(r), Slots)
  BY <1>1, <1>2, Fun_IsInj
<1>4. IsFiniteSet(Slots) /\ Cardinality(Slots) = MaxUsers
  BY FS_Interval, StoreAssumption DEF Slots
<1>5. Cardinality(RowsOf(r)) <= Cardinality(Slots)
  BY <1>3, <1>4, FS_Injection
<1> QED
  BY <1>4, <1>5

(* Whatever leaves, starts, ends, disconnections, cleanups and restarts    *)
(* come in between, only claims that overlap give a slot twice or a room   *)
(* a row too many.                                                         *)
THEOREM RoomsFitUncontested == HistorySpec => []UncontestedRoomsFit
<1>1. HistoryInit => Init /\ FitInv
  <2>1. Init => DOMAIN rooms = {}
    BY DEF Init, ServiceInit, StoreInit
  <2> QED
    BY <2>1 DEF HistoryInit, FitInv
<1>2. [Next /\ Remember]_<<vars, contested>> => [Next]_vars
  OBVIOUS
<1>3. TypedStore /\ SeatInv /\ FitInv /\ [Next /\ Remember]_<<vars, contested>>
        => FitInv'
  <2>1. ASSUME FitInv, UNCHANGED <<vars, contested>> PROVE FitInv'
    BY <2>1 DEF vars, FitInv, Fits, Overlap, SlotsDiffer, OpenClaims,
                JoinClaims, BotClaims, FreeSlots, RowsOf, At
  <2> QED
    BY <2>1, FitStep
<1>4. TypedStore /\ FitInv => UncontestedRoomsFit
  BY FitMeansCapacity DEF TypedStore, TypeOK, FitInv, Fits, UncontestedRoomsFit
<1> QED
  BY <1>1, <1>2, <1>3, <1>4, TypedStoreInit, TypedStoreStep, SeatInit, SeatStep,
     PTL DEF HistorySpec

=============================================================================
