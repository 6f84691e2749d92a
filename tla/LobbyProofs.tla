----------------------------- MODULE LobbyProofs -----------------------------
(***************************************************************************)
(* Theorems about the lobby, for any number of users, rooms, games and     *)
(* tasks: what becomes of the two tables and of the sessions' copies, and  *)
(* how far concurrent requests can overfill a room or share a slot.  They  *)
(* rest on the types and the foreign key, TypedStore.                      *)
(***************************************************************************)
EXTENDS LobbyTypeProofs, FiniteSetTheorems, FunctionTheorems

USE StoreAssumption DEF People, Slots, RoomNumbers

-----------------------------------------------------------------------------
(* What a step can do to the two tables.                                   *)

SameRows ==
    /\ DOMAIN roomUsers' = DOMAIN roomUsers
    /\ \A id \in DOMAIN roomUsers :
         /\ roomUsers'[id].room = roomUsers[id].room
         /\ roomUsers'[id].slot = roomUsers[id].slot
         /\ roomUsers'[id].bot = roomUsers[id].bot
OneRowMore ==
    \E id, row : /\ UserFree(Owner(id)) /\ ~ RowKnown(id)
                 /\ roomUsers' = Insert(roomUsers, id, row)
RowsGone == \E gone : roomUsers' = Delete(roomUsers, gone)

(* A generated key is no row's, task's or cleanup's.                       *)
LEMMA NewRowsUnknown ==
  ASSUME NEW u, NEW id \in NewRows(u) PROVE ~ RowKnown(id)
BY DEF NewRows, LeastOf

LEMMA RowSteps ==
  ASSUME StoreTypeOK, [Next]_vars
  PROVE  SameRows \/ OneRowMore \/ RowsGone
<1>1. ASSUME UNCHANGED roomUsers PROVE SameRows
  BY <1>1 DEF SameRows
<1>2. ASSUME NEW t \in Tasks, KeyedStep(t)
      PROVE  SameRows \/ OneRowMore \/ RowsGone
  <2>1. ASSUME NEW r, NEW id \in NewRows(task[t].user), CreateInsert(t, r, id)
        PROVE  OneRowMore
    BY <2>1, NewRowsUnknown DEF CreateInsert, InsertRow, OneRowMore
  <2>2. ASSUME NEW id \in NewRows(task[t].user), JoinInsert(t, id)
        PROVE  OneRowMore
    BY <2>2, NewRowsUnknown DEF JoinInsert, InsertRow, CanInsertRow, OneRowMore
  <2>3. ASSUME NEW b, NEW id \in NewRows(b), BotInsert(t, id)
        PROVE  OneRowMore
    BY <2>3, NewRowsUnknown DEF BotInsert, InsertRow, CanInsertRow, OneRowMore
  <2> QED
    BY <1>1, <1>2, <2>1, <2>2, <2>3, ReadsOnly DEF KeyedStep
<1>3. ASSUME NEW t \in Tasks, LeaveDelete(t) \/ LeaveBots(t)
      PROVE  RowsGone
  BY <1>3 DEF LeaveDelete, LeaveBots, RowsGone
<1>4. ASSUME NEW t \in Tasks, LeaveHost(t) \/ LeaveDrop(t) \/ StartCommit(t)
      PROVE  SameRows
  BY <1>1, <1>4 DEF LeaveHost, LeaveDrop, StartCommit
<1>5. ASSUME NEW t \in Tasks, EndCommit(t) PROVE SameRows \/ RowsGone
  BY <1>1, <1>5 DEF EndCommit, RowsGone
<1>6. ASSUME NEW t \in Tasks, ReadyWrite(t) PROVE SameRows
  <2>1. CASE roomUsers' = [roomUsers EXCEPT ![task[t].row].ready
                                                = task[t].want]
    BY <2>1 DEF SameRows, StoreTypeOK, RoomUser
  <2> QED
    BY <1>1, <1>6, <2>1 DEF ReadyWrite
<1>7. ASSUME List \/ Cleanup PROVE SameRows \/ RowsGone
  BY <1>1, <1>7 DEF List, Cleanup, CleanupRooms, SweepStep, SweepRoom,
     SweepRows, SweepRemaining, SweepCommit, RowsGone
<1>8. ASSUME Crash \/ UNCHANGED vars PROVE SameRows
  BY <1>1, <1>8 DEF Crash, vars
<1> QED
  BY <1>1, <1>2, <1>3, <1>4, <1>5, <1>6, <1>7, <1>8, ReadsOnly
     DEF Next, RequestsNext, Continue, ServiceStep, SocketStep

(* A step keeps the numbers of the rooms, and whether they are playing,    *)
(* unless it starts one; a new room gets a number no room has, is not      *)
(* playing, and no session has a copy of it.                               *)
SameRooms ==
    /\ DOMAIN rooms' = DOMAIN rooms
    /\ \A r \in DOMAIN rooms :
         /\ rooms'[r].number = rooms[r].number
         /\ rooms[r].playing => rooms'[r].playing
OneRoomMore ==
    \E r, row : /\ ~ RoomKnown(r)
                /\ NumberFree(row.number)
                /\ ~ row.playing
                /\ rooms' = Insert(rooms, r, row)
RoomsGone == \E gone : rooms' = Delete(rooms, gone)

LEMMA RoomSteps ==
  ASSUME StoreTypeOK, [Next]_vars
  PROVE  SameRooms \/ OneRoomMore \/ RoomsGone
<1>1. ASSUME UNCHANGED rooms PROVE SameRooms
  BY <1>1 DEF SameRooms
<1>2. ASSUME NEW t \in Tasks, KeyedStep(t)
      PROVE  SameRooms \/ OneRoomMore
  <2>1. ASSUME NEW r \in NewRooms, NEW id, CreateInsert(t, r, id)
        PROVE  OneRoomMore
    <3>1. ~ RoomKnown(r)
      BY DEF NewRooms, LeastOf
    <3> QED
      BY <2>1, <3>1 DEF CreateInsert, OneRoomMore
  <2>2. CASE \/ \E id : JoinInsert(t, id)
             \/ \E id : BotInsert(t, id)
             \/ \E g : StartCall(t, g)
    BY <1>1, <2>2 DEF JoinInsert, BotInsert, StartCall
  <2> QED
    BY <1>2, <2>1, <2>2 DEF KeyedStep
<1>3. ASSUME NEW t \in Tasks, LeaveHost(t) PROVE SameRooms
  <2>1. CASE RoomExists(task[t].room) /\ rooms' = HandedOver(t)
    BY <2>1 DEF HandedOver, SameRooms, StoreTypeOK, Room, RoomExists
  <2> QED
    BY <1>1, <1>3, <2>1 DEF LeaveHost
<1>4. ASSUME NEW t \in Tasks, StartCommit(t) PROVE SameRooms
  <2>1. CASE /\ RoomExists(task[t].room)
             /\ rooms' = [rooms EXCEPT ![task[t].room].playing = TRUE,
                                       ![task[t].room].game = task[t].game]
    BY <2>1 DEF SameRooms, StoreTypeOK, Room, RoomExists
  <2> QED
    BY <1>1, <1>4, <2>1 DEF StartCommit
<1>5. ASSUME NEW t \in Tasks, LeaveDrop(t) \/ EndCommit(t)
      PROVE  SameRooms \/ RoomsGone
  BY <1>1, <1>5 DEF LeaveDrop, EndCommit, RoomEnded, RoomsGone
<1>6. ASSUME NEW t \in Tasks, LeaveDelete(t) \/ LeaveBots(t) \/ ReadyWrite(t)
      PROVE  SameRooms
  BY <1>1, <1>6 DEF LeaveDelete, LeaveBots, ReadyWrite
<1>7. ASSUME List \/ Cleanup PROVE SameRooms \/ RoomsGone
  BY <1>1, <1>7 DEF List, Cleanup, CleanupRooms, SweepStep, SweepRoom,
     SweepRows, SweepRemaining, SweepCommit, RoomsGone
<1>8. ASSUME Crash \/ UNCHANGED vars PROVE SameRooms
  BY <1>1, <1>8 DEF Crash, vars
<1> QED
  BY <1>1, <1>2, <1>3, <1>4, <1>5, <1>6, <1>7, <1>8, ReadsOnly
     DEF Next, RequestsNext, Continue, ServiceStep, SocketStep

-----------------------------------------------------------------------------
(* Whatever create and join requests of one user interleave with sockets,  *)
(* departures and cleanups, the user never has two rows: the check before  *)
(* the insert may be stale, the unique user_id decides.                    *)
THEOREM UsersHaveOneRoom == Spec => []OneRoomPerUser
<1>1. Init => OneRoomPerUser
  BY DEF Init, ServiceInit, StoreInit, OneRoomPerUser
<1>2. ASSUME TypedStore, OneRoomPerUser, [Next]_vars
      PROVE  OneRoomPerUser'
  <2>1. CASE SameRows
    BY <1>2, <2>1 DEF SameRows, OneRoomPerUser
  <2>2. CASE OneRowMore
    <3>1. PICK id, row : /\ UserFree(Owner(id))
                         /\ roomUsers' = Insert(roomUsers, id, row)
      BY <2>2 DEF OneRowMore
    <3>2. DOMAIN roomUsers' = DOMAIN roomUsers \cup {id}
      BY <3>1, MoreRows
    <3>3. \A j \in DOMAIN roomUsers : Owner(j) # Owner(id)
      BY <3>1 DEF UserFree, RowsOfUser
    <3> QED
      BY <1>2, <3>2, <3>3 DEF OneRoomPerUser
  <2>3. CASE RowsGone
    <3>1. DOMAIN roomUsers' \subseteq DOMAIN roomUsers
      BY <2>3 DEF RowsGone, Delete
    <3> QED
      BY <1>2, <3>1 DEF OneRoomPerUser
  <2> QED
    BY <1>2, <2>1, <2>2, <2>3, RowSteps DEF TypedStore, TypeOK
<1> QED
  BY <1>1, <1>2, TypedStoreInit, TypedStoreStep, PTL DEF Spec

(* Two create_room requests that select the same highest number do not     *)
(* both get the next one: the second commit fails.                         *)
THEOREM NumbersAreUnique == Spec => []RoomNumbersUnique
<1>1. Init => RoomNumbersUnique
  BY DEF Init, ServiceInit, StoreInit, RoomNumbersUnique
<1>2. ASSUME TypedStore, RoomNumbersUnique, [Next]_vars
      PROVE  RoomNumbersUnique'
  <2>1. CASE SameRooms
    BY <1>2, <2>1 DEF SameRooms, RoomNumbersUnique
  <2>2. CASE OneRoomMore
    <3>1. PICK r, row : /\ NumberFree(row.number)
                        /\ rooms' = Insert(rooms, r, row)
      BY <2>2 DEF OneRoomMore
    <3>2. /\ DOMAIN rooms' = DOMAIN rooms \cup {r}
          /\ rooms'[r].number = row.number
          /\ \A q \in DOMAIN rooms \ {r} : rooms'[q].number = rooms[q].number
      BY <3>1, MoreRooms
    <3>3. \A q \in DOMAIN rooms : rooms[q].number # row.number
      BY <3>1 DEF NumberFree
    <3> QED
      BY <1>2, <3>2, <3>3 DEF RoomNumbersUnique
  <2>3. CASE RoomsGone
    <3>1. /\ DOMAIN rooms' \subseteq DOMAIN rooms
          /\ \A r \in DOMAIN rooms' : rooms'[r] = rooms[r]
      BY <2>3 DEF RoomsGone, Delete
    <3> QED
      BY <1>2, <3>1 DEF RoomNumbersUnique
  <2> QED
    BY <1>2, <2>1, <2>2, <2>3, RoomSteps DEF TypedStore, TypeOK
<1> QED
  BY <1>1, <1>2, TypedStoreInit, TypedStoreStep, PTL DEF Spec

LEMMA PlayingStep ==
  ASSUME StoreTypeOK, [Next]_vars
  PROVE  \A r \in DOMAIN rooms \cap DOMAIN rooms' :
            rooms[r].playing => rooms'[r].playing
<1>1. CASE SameRooms
  BY <1>1 DEF SameRooms
<1>2. CASE OneRoomMore
  <2>1. PICK r, row : ~ RoomKnown(r) /\ rooms' = Insert(rooms, r, row)
    BY <1>2 DEF OneRoomMore
  <2>2. r \notin DOMAIN rooms
    BY <2>1 DEF RoomKnown, RoomExists
  <2>3. \A q \in DOMAIN rooms \ {r} : rooms'[q] = rooms[q]
    BY <2>1, MoreRooms
  <2> QED
    BY <2>2, <2>3
<1>3. CASE RoomsGone
  BY <1>3 DEF RoomsGone, Delete
<1> QED
  BY <1>1, <1>2, <1>3, RoomSteps

(* Nothing but its deletion ends the game of a room: a session that loaded *)
(* the room before the game and hands it over later writes the host alone. *)
THEOREM PlayingStays == Spec => PlayingIsFinal
<1>1. TypedStore /\ [Next]_vars
        => [\A r \in DOMAIN rooms \cap DOMAIN rooms' :
              rooms[r].playing => rooms'[r].playing]_vars
  BY PlayingStep DEF TypedStore, TypeOK
<1> QED
  BY <1>1, TypedStoreInit, TypedStoreStep, PTL DEF Spec, PlayingIsFinal

-----------------------------------------------------------------------------
(* Where a session's copies come from: kept, forgotten, taken before or    *)
(* after the step.                                                         *)

TakenBefore(t, r) ==
    r \in DOMAIN rooms /\ task'[t].seen[r].playing = rooms[r].playing
TakenAfter(t, r) ==
    r \in DOMAIN rooms' /\ task'[t].seen[r].playing = rooms'[r].playing
CopyMade(t, r) ==
    \/ task'[t].seen[r] = Nothing
    \/ task'[t].seen[r] = task[t].seen[r]
    \/ TakenBefore(t, r)
    \/ TakenAfter(t, r)

LEMMA RecordCopies ==
  ASSUME TaskTypeOK, NEW t \in Tasks, NEW k, Become(t, k),
         \A r \in RoomIds : \/ k.seen[r] = Nothing
                            \/ k.seen[r] = task[t].seen[r]
                            \/ /\ r \in DOMAIN rooms
                               /\ k.seen[r].playing = rooms[r].playing
                            \/ /\ r \in DOMAIN rooms'
                               /\ k.seen[r].playing = rooms'[r].playing
  PROVE  \A s \in Tasks, r \in RoomIds : CopyMade(s, r)
<1>1. \A s \in Tasks \ {t} : task'[s] = task[s]
  BY DEF TaskTypeOK, Become
<1>2. task'[t] = k
  BY DEF TaskTypeOK, Become
<1> QED
  BY <1>1, <1>2 DEF CopyMade, TakenBefore, TakenAfter

LEMMA SameCopies ==
  ASSUME TaskTypeOK, NEW t \in Tasks, NEW k, Become(t, k),
         k.seen = task[t].seen
  PROVE  \A s \in Tasks, r \in RoomIds : CopyMade(s, r)
  BY RecordCopies

LEMMA NoCopies ==
  ASSUME TaskTypeOK, NEW t \in Tasks, NEW k, Become(t, k),
         k.seen = [r \in RoomIds |-> Nothing]
  PROVE  \A s \in Tasks, r \in RoomIds : CopyMade(s, r)
  BY RecordCopies

LEMMA OneCopy ==
  ASSUME TaskTypeOK, NEW t \in Tasks, NEW k, NEW q \in DOMAIN rooms,
         Become(t, k),
         k.seen = [[r \in RoomIds |-> Nothing] EXCEPT ![q] = CopyOf(q)]
  PROVE  \A s \in Tasks, r \in RoomIds : CopyMade(s, r)
<1>1. \A r \in RoomIds : \/ k.seen[r] = Nothing
                         \/ /\ r \in DOMAIN rooms
                            /\ k.seen[r].playing = rooms[r].playing
  BY DEF CopyOf
<1> QED
  BY <1>1, RecordCopies

LEMMA RefreshedCopy ==
  ASSUME TaskTypeOK, NEW t \in Tasks, NEW k, NEW seen,
         Become(t, k), k.seen \in {seen, Idle.seen},
         \A r \in RoomIds : \/ seen[r] = task[t].seen[r]
                            \/ /\ r \in DOMAIN rooms'
                               /\ seen[r].playing = rooms'[r].playing
  PROVE  \A s \in Tasks, r \in RoomIds : CopyMade(s, r)
<1>1. CASE k.seen = seen
  BY <1>1, RecordCopies
<1>2. CASE k.seen = Idle.seen
  BY <1>2, NoCopies DEF Idle
<1> QED
  BY <1>1, <1>2

LEMMA RequestCopies ==
  ASSUME TaskTypeOK, NEW t \in Tasks, Request(t)
  PROVE  \A s \in Tasks, r \in RoomIds : CopyMade(s, r)
<1> DEFINE Goal == \A s \in Tasks, r \in RoomIds : CopyMade(s, r)
<1>0. task[t] \in Task
  BY DEF TaskTypeOK
<1>1. ASSUME NEW u, CreateRoom(t, u) PROVE Goal
  <2>1. PICK n : Become(t, [Idle EXCEPT !.pc = "create_insert", !.user = u,
                                        !.number = n])
    BY <1>1 DEF CreateRoom
  <2>2. [Idle EXCEPT !.pc = "create_insert", !.user = u, !.number = n].seen
          = [r \in RoomIds |-> Nothing]
    BY DEF Idle
  <2> QED
    BY <2>1, <2>2, NoCopies
<1>2. ASSUME NEW u, NEW q, Join(t, u, q) \/ Leave(t, u, q) \/ Start(t, u, q)
      PROVE  Goal
  <2> DEFINE seen == [[r \in RoomIds |-> Nothing] EXCEPT ![q] = CopyOf(q)]
  <2>1. /\ [Idle EXCEPT !.pc = "join_own", !.user = u, !.dest = q,
                        !.seen[q] = CopyOf(q)].seen = seen
        /\ [Idle EXCEPT !.pc = "leave_check", !.user = u, !.room = q,
                        !.seen[q] = CopyOf(q)].seen = seen
        /\ [Idle EXCEPT !.pc = "start_check", !.user = u, !.room = q,
                        !.seen[q] = CopyOf(q)].seen = seen
    BY DEF Idle
  <2>2. q \in DOMAIN rooms
    BY <1>2 DEF Join, Leave, Start, RoomExists
  <2> QED
    BY <1>2, <2>1, <2>2, OneCopy DEF Join, Leave, Start
<1>3. ASSUME NEW q, End(t, q) PROVE Goal
  <2>1. [Idle EXCEPT !.pc = "end_commit", !.room = q, !.rest = RowsOf(q)].seen
          = [r \in RoomIds |-> Nothing]
    BY DEF Idle
  <2> QED
    BY <1>3, <2>1, NoCopies DEF End
<1>4. ASSUME NEW u, NEW q, Open(t, u, q) PROVE Goal
  <2>1. PICK id \in OwnRowsIn(u, q) :
          Become(t, [Idle EXCEPT !.pc = "ws_accept", !.user = u, !.room = q,
                                 !.seen[q] = CopyOf(q), !.mine = id,
                                 !.ready = roomUsers[id].ready])
    BY <1>4 DEF Open
  <2>2. [Idle EXCEPT !.pc = "ws_accept", !.user = u, !.room = q,
                     !.seen[q] = CopyOf(q), !.mine = id,
                     !.ready = roomUsers[id].ready].seen
          = [[r \in RoomIds |-> Nothing] EXCEPT ![q] = CopyOf(q)]
    BY DEF Idle
  <2> QED
    BY <1>4, <2>1, <2>2, OneCopy DEF Open, RoomExists
<1>5. ASSUME NEW flag, Ready(t, flag) PROVE Goal
  <2>1. CASE Finish(t)
    BY <2>1, NoCopies DEF Finish, Idle
  <2>2. ASSUME NEW id, NEW f
        PROVE  /\ [task[t] EXCEPT !.pc = "ready_write", !.row = id,
                                  !.want = flag].seen = task[t].seen
               /\ [task[t] EXCEPT !.ready = f].seen = task[t].seen
    BY <1>0 DEF Task
  <2>3. CASE \E id : \/ Become(t, [task[t] EXCEPT !.pc = "ready_write",
                                                  !.row = id, !.want = flag])
                     \/ \E f : Become(t, [task[t] EXCEPT !.ready = f])
    BY <2>2, <2>3, SameCopies
  <2> QED
    BY <1>5, <2>1, <2>3 DEF Ready
<1>6. ASSUME NEW s, AddBot(t, s) PROVE Goal
  <2>1. [task[t] EXCEPT !.pc = "bot_insert", !.slot = s].seen = task[t].seen
    BY <1>0 DEF Task
  <2> QED
    BY <1>6, <2>1, SameCopies DEF AddBot
<1>7. CASE LeaveMessage(t) \/ ClientGone(t)
  <2>1. /\ [task[t] EXCEPT !.pc = "leave_check",
                           !.back = "handle_leave"].seen = task[t].seen
        /\ Disconnected(task[t]).seen = task[t].seen
    BY <1>0 DEF Task, Disconnected
  <2> QED
    BY <1>7, <2>1, SameCopies DEF LeaveMessage, ClientGone
<1> QED
  BY <1>1, <1>2, <1>3, <1>4, <1>5, <1>6, <1>7 DEF Request

(* The records a step makes of a task keep the copies, or drop them all.   *)
LEMMA CopiesCarried ==
  ASSUME NEW k \in Task, NEW a, NEW b, NEW c
  PROVE  /\ [k EXCEPT !.pc = a].seen = k.seen
         /\ [k EXCEPT !.pc = a, !.slot = b].seen = k.seen
         /\ [k EXCEPT !.row = a, !.pc = b].seen = k.seen
         /\ [k EXCEPT !.pc = a, !.row = b, !.rest = c].seen = k.seen
         /\ [k EXCEPT !.pc = a, !.row = b, !.heir = c].seen = k.seen
         /\ [k EXCEPT !.pc = a, !.rest = b].seen = k.seen
         /\ [k EXCEPT !.pc = a, !.game = b].seen = k.seen
         /\ Disconnected(k).seen = k.seen
  BY DEF Task, Disconnected

LEMMA ReturnedCopies ==
  ASSUME NEW k \in Task, NEW seen, NEW next
  PROVE  /\ Returned(k, next).seen \in {k.seen, Idle.seen}
         /\ Raised(k).seen \in {k.seen, Idle.seen}
         /\ Returned([k EXCEPT !.seen = seen], next).seen
              \in {seen, Idle.seen}
<1>1. Returned(k, next).seen \in {k.seen, Idle.seen}
  BY DEF Returned, Task
<1>2. Raised(k).seen \in {k.seen, Idle.seen}
  BY DEF Raised, Task
<1>3. Returned([k EXCEPT !.seen = seen], next).seen \in {seen, Idle.seen}
  BY DEF Returned, Task
<1> QED
  BY <1>1, <1>2, <1>3

LEMMA StepCopies ==
  ASSUME StoreTypeOK, TaskTypeOK, RowsHaveRooms, NEW t \in Tasks,
         ServiceStep(t) \/ SocketStep(t) \/ KeyedStep(t)
  PROVE  \A s \in Tasks, r \in RoomIds : CopyMade(s, r)
<1> DEFINE Goal == \A s \in Tasks, r \in RoomIds : CopyMade(s, r)
           k == task[t]
<1>0. k \in Task
  BY DEF TaskTypeOK
<1>i. Idle.seen = [r \in RoomIds |-> Nothing]
  BY DEF Idle
<1>f. ASSUME Finish(t) PROVE Goal
  BY <1>f, <1>i, NoCopies DEF Finish
<1>g. ASSUME NEW pc, Goto(t, pc) PROVE Goal
  BY <1>0, <1>g, CopiesCarried, SameCopies DEF Goto
<1>s. ASSUME NEW m, Become(t, m), m.seen \in {k.seen, Idle.seen} PROVE Goal
  BY <1>s, <1>i, NoCopies, SameCopies
<1>1. CASE \/ CreateFails(t) \/ JoinFails(t) \/ StartCallFails(t)
           \/ StartCommit(t) \/ EndCommit(t)
           \/ (\E r, id : CreateInsert(t, r, id))
           \/ (\E id : JoinInsert(t, id))
  BY <1>1, <1>f DEF CreateFails, JoinFails, StartCallFails, StartCommit,
                    EndCommit, CreateInsert, JoinInsert
<1>2. CASE JoinAgain(t) \/ LeaveDelete(t) \/ StartCheck(t) \/ Accept(t)
             \/ Tell(t)
  BY <1>2, <1>f, <1>g DEF JoinAgain, LeaveDelete, StartCheck, Accept, Tell
<1>3. CASE JoinOwn(t)
  <2>1. ASSUME NEW id \in RowsOfUser(k.user),
               Become(t, [k EXCEPT !.pc = "leave_check",
                                   !.room = roomUsers[id].room,
                                   !.seen = Load(t, roomUsers[id].room),
                                   !.back = "join"])
        PROVE  Goal
    <3> DEFINE q == roomUsers[id].room
               seen == Load(t, q)
               m == [k EXCEPT !.pc = "leave_check", !.room = q,
                              !.seen = seen, !.back = "join"]
    <3>1. m.seen = seen
      <4> HIDE DEF k, q, seen
      <4> QED
        BY <1>0 DEF Task
    <3>2. q \in DOMAIN rooms
      BY DEF RowsHaveRooms, RoomExists, RowsOfUser
    <3>3. k.seen \in [RoomIds -> Copy \cup {Nothing}]
      BY <1>0 DEF Task
    <3>4. \A r \in RoomIds : \/ seen[r] = k.seen[r]
                             \/ /\ r \in DOMAIN rooms
                                /\ seen[r].playing = rooms[r].playing
      BY <3>2, <3>3 DEF Load, CopyOf
    <3>5. Become(t, m)
      BY <2>1
    <3> HIDE DEF m, seen
    <3> QED
      BY <3>1, <3>4, <3>5, RecordCopies
  <2> QED
    BY <1>3, <1>g, <2>1 DEF JoinOwn
<1>c. ASSUME NEW a, NEW b, NEW c,
             \/ Become(t, [k EXCEPT !.pc = a, !.slot = b])
             \/ Become(t, [k EXCEPT !.row = a, !.pc = b])
             \/ Become(t, [k EXCEPT !.pc = a, !.row = b, !.rest = c])
             \/ Become(t, [k EXCEPT !.pc = a, !.row = b, !.heir = c])
             \/ Become(t, [k EXCEPT !.pc = a, !.rest = b])
             \/ Become(t, [k EXCEPT !.pc = a, !.game = b])
      PROVE  Goal
  <2> HIDE DEF k
  <2>1. /\ [k EXCEPT !.pc = a, !.slot = b].seen = k.seen
        /\ [k EXCEPT !.row = a, !.pc = b].seen = k.seen
        /\ [k EXCEPT !.pc = a, !.row = b, !.rest = c].seen = k.seen
        /\ [k EXCEPT !.pc = a, !.row = b, !.heir = c].seen = k.seen
        /\ [k EXCEPT !.pc = a, !.rest = b].seen = k.seen
        /\ [k EXCEPT !.pc = a, !.game = b].seen = k.seen
    BY <1>0, CopiesCarried
  <2> QED
    BY <1>c, <1>s, <2>1
<1>r. ASSUME Become(t, Returned(k, "ws_tell")) \/ Become(t, Raised(k))
      PROVE  Goal
  BY <1>0, <1>r, <1>s, ReturnedCopies
<1>4. CASE JoinCheck(t) \/ LeaveCheck(t) \/ LeaveBots(t)
  BY <1>4, <1>f, <1>c, <1>r DEF JoinCheck, LeaveCheck, LeaveBots
<1>5. CASE LeaveRest(t)
  BY <1>5, <1>g, <1>c, <1>r DEF LeaveRest
<1>6. CASE LeaveHost(t)
  <2>1. CASE /\ RoomExists(k.room)
             /\ rooms' = HandedOver(t)
             /\ Become(t, Returned([k EXCEPT !.seen[k.room] =
                  [host |-> HandedOver(t)[k.room].host,
                   playing |-> HandedOver(t)[k.room].playing]], "ws_tell"))
    <3> DEFINE q == k.room
               copy == [host |-> HandedOver(t)[q].host,
                        playing |-> HandedOver(t)[q].playing]
               seen == [k.seen EXCEPT ![q] = copy]
               m == Returned([k EXCEPT !.seen = seen], "ws_tell")
    <3>1. Become(t, m)
      BY <2>1
    <3>2. m.seen \in {seen, Idle.seen}
      BY <1>0, ReturnedCopies
    <3>3. q \in DOMAIN rooms' /\ copy.playing = rooms'[q].playing
      BY <2>1 DEF HandedOver, RoomExists
    <3>4. k.seen \in [RoomIds -> Copy \cup {Nothing}]
      BY <1>0 DEF Task
    <3> HIDE DEF copy, m, q
    <3>5. \A r \in RoomIds : \/ seen[r] = task[t].seen[r]
                             \/ /\ r \in DOMAIN rooms'
                                /\ seen[r].playing = rooms'[r].playing
      BY <3>3, <3>4
    <3> HIDE DEF seen
    <3> QED
      BY <3>1, <3>2, <3>5, RefreshedCopy
  <2> QED
    BY <1>6, <1>f, <2>1 DEF LeaveHost
<1>7. CASE LeaveDrop(t) \/ TellFails(t) \/ Drop(t)
  BY <1>7, <1>0, <1>f, <1>s, CopiesCarried, ReturnedCopies
     DEF LeaveDrop, TellFails, Drop, AfterLeave
<1>8. CASE ReadyWrite(t)
  <2>1. ASSUME NEW f
        PROVE  [k EXCEPT !.pc = "ws_open", !.row = Nothing,
                         !.want = FALSE, !.ready = f].seen = k.seen
    BY <1>0 DEF Task
  <2>2. CASE \E f : Become(t, [k EXCEPT !.pc = "ws_open", !.row = Nothing,
                                        !.want = FALSE, !.ready = f])
    <3> HIDE DEF k
    <3> QED
      BY <1>s, <2>1, <2>2
  <2> QED
    BY <1>8, <1>f, <2>2 DEF ReadyWrite
<1>9. CASE \/ BotFails(t)
           \/ \E id : BotInsert(t, id)
           \/ \E g : StartCall(t, g)
  BY <1>9, <1>c, <1>f DEF BotFails, BotInsert, StartCall
<1> QED
  BY <1>1, <1>2, <1>3, <1>4, <1>5, <1>6, <1>7, <1>8, <1>9
     DEF ServiceStep, SocketStep, KeyedStep

LEMMA CopySteps ==
  ASSUME TypedStore, [Next]_vars, NEW t \in Tasks, NEW r \in RoomIds
  PROVE  CopyMade(t, r)
<1>1. ASSUME UNCHANGED task PROVE CopyMade(t, r)
  BY <1>1 DEF CopyMade
<1>2. CASE \E s \in Tasks : Request(s) \/ Continue(s)
  BY <1>2, RequestCopies, StepCopies DEF Continue, TypedStore, TypeOK
<1>3. CASE Crash
  BY <1>3 DEF Crash, CopyMade, Idle
<1> QED
  BY <1>1, <1>2, <1>3 DEF Next, RequestsNext, List, Cleanup, vars

(* No session ever takes a room for playing that is not: a new room is in  *)
(* no session's map, and a room that plays does so until it is deleted.    *)
THEOREM CopiesOnlyLag == Spec => []CopiesLag
<1>1. Init => CopiesLag
  BY DEF Init, ServiceInit, Idle, StoreInit, CopiesLag
<1>2. ASSUME TypedStore, CopiesLag, [Next]_vars
      PROVE  CopiesLag'
  <2> SUFFICES ASSUME NEW t \in Tasks, NEW r \in DOMAIN rooms',
                      task'[t].seen[r] # Nothing, task'[t].seen[r].playing
               PROVE  rooms'[r].playing
    BY DEF CopiesLag
  <2>1. r \in RoomIds /\ CopyMade(t, r)
    BY <1>2, TypedStoreStep, CopySteps DEF TypedStore, TypeOK, StoreTypeOK
  <2>2. r \in DOMAIN rooms /\ rooms[r].playing => rooms'[r].playing
    BY <1>2, PlayingStep DEF TypedStore, TypeOK
  <2>3. CASE task'[t].seen[r] = task[t].seen[r]
    <3>1. CASE r \in DOMAIN rooms
      BY <1>2, <2>2, <2>3, <3>1 DEF CopiesLag
    <3>2. CASE r \notin DOMAIN rooms
      <4>1. ~ RoomKnown(r)
        <5>1. OneRoomMore
          BY <1>2, <3>2, RoomSteps
             DEF TypedStore, TypeOK, SameRooms, RoomsGone, Delete
        <5>2. PICK q, row : ~ RoomKnown(q) /\ rooms' = Insert(rooms, q, row)
          BY <5>1 DEF OneRoomMore
        <5>3. DOMAIN rooms' = DOMAIN rooms \cup {q}
          BY <5>2, MoreRooms
        <5>4. r = q
          BY <3>2, <5>3
        <5> QED
          BY <5>2, <5>4
      <4> QED
        BY <2>3, <4>1 DEF RoomKnown, TaskKnowsRoom
    <3> QED
      BY <3>1, <3>2
  <2> QED
    BY <2>1, <2>2, <2>3 DEF CopyMade, TakenBefore, TakenAfter
<1> QED
  BY <1>1, <1>2, TypedStoreInit, TypedStoreStep, PTL DEF Spec

-----------------------------------------------------------------------------
HIDE StoreAssumption DEF People, Slots, RoomNumbers

(* Seats.  A task that has selected a slot and has not inserted its row.   *)
JoinPCs == {"join_again", "join_insert"}
ClaimPCs == JoinPCs \cup {"bot_insert"}

(* Where a claim comes from.  It is kept; or the task has just counted the *)
(* rows of a room with a seat; or it has just found the slot free.         *)
Kept(t) ==
    /\ task[t].pc \in ClaimPCs
    /\ task[t].pc \in JoinPCs <=> task'[t].pc \in JoinPCs
    /\ task'[t].slot = task[t].slot
    /\ task'[t].dest = task[t].dest
    /\ task'[t].room = task[t].room
Counted(t) ==
    /\ UNCHANGED roomUsers
    /\ HasSeat(task'[t].dest)
    /\ task'[t].slot \in NewSlots(task'[t].dest)
FoundFree(t) ==
    /\ UNCHANGED roomUsers
    /\ task'[t].slot \in FreeSlots(task'[t].room)

ClaimMade(t) ==
    task'[t].pc \in ClaimPCs =>
        \/ Kept(t)
        \/ task'[t].pc \in JoinPCs /\ Counted(t)
        \/ task'[t].pc = "bot_insert" /\ FoundFree(t)

ClaimsMade == \A t \in Tasks : ClaimMade(t)

-----------------------------------------------------------------------------
LEMMA RecordClaims ==
  ASSUME TaskTypeOK, NEW t \in Tasks, NEW k, Become(t, k),
         k.pc \notin ClaimPCs
  PROVE  ClaimsMade
<1>1. \A s \in Tasks \ {t} : task'[s] = task[s]
  BY DEF TaskTypeOK, Become
<1>2. task'[t] = k
  BY DEF TaskTypeOK, Become
<1> QED
  BY <1>1, <1>2 DEF ClaimsMade, ClaimMade, Kept

LEMMA FinishClaims ==
  ASSUME TaskTypeOK, NEW t \in Tasks, Finish(t) PROVE ClaimsMade
BY RecordClaims DEF Finish, Idle, ClaimPCs, JoinPCs

LEMMA GotoClaims ==
  ASSUME TaskTypeOK, NEW t \in Tasks, NEW pc, Goto(t, pc), pc \notin ClaimPCs
  PROVE  ClaimsMade
<1>1. [task[t] EXCEPT !.pc = pc].pc = pc
  BY DEF TaskTypeOK, Task
<1> QED
  BY <1>1, RecordClaims DEF Goto

LEMMA SameClaims ==
  ASSUME UNCHANGED task PROVE ClaimsMade
BY DEF ClaimsMade, ClaimMade, Kept

LEMMA ReturnedClaims ==
  ASSUME TaskTypeOK, NEW t \in Tasks, NEW k \in Task,
         NEW next \in {"ws_tell", "ws_drop"},
         Become(t, Returned(k, next)) \/ Become(t, Raised(k))
  PROVE  ClaimsMade
<1>1. Returned(k, next).pc \in {"idle", "join_check", "ws_tell", "ws_drop"}
  BY DEF Returned, Task, Idle
<1>2. Raised(k).pc \in {"idle", "ws_drop"}
  BY DEF Raised, Task, Idle
<1> QED
  BY <1>1, <1>2, RecordClaims DEF ClaimPCs, JoinPCs

LEMMA DisconnectedPC ==
  ASSUME NEW k \in Task PROVE Disconnected(k).pc = "leave_check"
BY DEF Disconnected, Task

LEMMA RequestClaims ==
  ASSUME TaskTypeOK, NEW t \in Tasks, Request(t)
  PROVE  ClaimsMade
<1> USE DEF ClaimPCs, JoinPCs
<1> DEFINE k == task[t]
<1>0. k \in Task
  BY DEF TaskTypeOK
<1>1. ASSUME NEW u, CreateRoom(t, u) PROVE ClaimsMade
  BY <1>1, RecordClaims DEF CreateRoom, Idle
<1>2. ASSUME NEW u, NEW r, Join(t, u, r) \/ Leave(t, u, r) \/ Start(t, u, r)
      PROVE  ClaimsMade
  BY <1>2, RecordClaims DEF Join, Leave, Start, Idle
<1>3. ASSUME NEW r, End(t, r) PROVE ClaimsMade
  BY <1>3, RecordClaims DEF End, Idle
<1>4. ASSUME NEW u, NEW r, Open(t, u, r) PROVE ClaimsMade
  BY <1>4, RecordClaims DEF Open, Idle
<1>5. ASSUME NEW flag, Ready(t, flag) PROVE ClaimsMade
  <2>1. ASSUME NEW id PROVE [k EXCEPT !.pc = "ready_write", !.row = id,
                                      !.want = flag].pc = "ready_write"
    BY <1>0 DEF Task
  <2>2. ASSUME NEW f PROVE [k EXCEPT !.ready = f].pc = k.pc
    BY <1>0 DEF Task
  <2>3. k.pc = "ws_open"
    BY <1>5 DEF Ready, At
  <2> QED
    BY <1>5, <2>1, <2>2, <2>3, RecordClaims, FinishClaims DEF Ready
<1>6. ASSUME NEW s, AddBot(t, s) PROVE ClaimsMade
  <2> DEFINE m == [k EXCEPT !.pc = "bot_insert", !.slot = s]
  <2>1. m.pc = "bot_insert" /\ m.slot = s /\ m.room = k.room
    BY <1>0 DEF Task
  <2>2. Become(t, m) /\ UNCHANGED roomUsers /\ s \in FreeSlots(k.room)
    BY <1>6 DEF AddBot
  <2>3. task'[t] = m /\ \A q \in Tasks \ {t} : task'[q] = task[q]
    BY <2>2 DEF TaskTypeOK, Become
  <2> HIDE DEF m
  <2>4. FoundFree(t)
    BY <2>1, <2>2, <2>3 DEF FoundFree
  <2> QED
    BY <2>1, <2>3, <2>4 DEF ClaimsMade, ClaimMade, Kept
<1>7. CASE LeaveMessage(t) \/ ClientGone(t)
  <2>1. [k EXCEPT !.pc = "leave_check",
                  !.back = "handle_leave"].pc = "leave_check"
    BY <1>0 DEF Task
  <2> QED
    BY <1>0, <1>7, <2>1, RecordClaims, DisconnectedPC
    DEF LeaveMessage, ClientGone
<1> QED
  BY <1>1, <1>2, <1>3, <1>4, <1>5, <1>6, <1>7 DEF Request

LEMMA JoinClaimsMade ==
  ASSUME TaskTypeOK, NEW t \in Tasks, JoinCheck(t) \/ JoinAgain(t)
  PROVE  ClaimsMade
<1> USE DEF ClaimPCs, JoinPCs
<1> DEFINE k == task[t]
<1>0. k \in Task
  BY DEF TaskTypeOK
<1>1. CASE JoinCheck(t)
  <2>1. CASE Finish(t)
    BY <2>1, FinishClaims
  <2>2. CASE ~ Finish(t)
    <3>1. PICK s \in NewSlots(k.dest) :
             Become(t, [k EXCEPT !.pc = "join_again", !.slot = s])
      BY <1>1, <2>2 DEF JoinCheck
    <3>2. HasSeat(k.dest) /\ UNCHANGED roomUsers
      BY <1>1, <2>2 DEF JoinCheck
    <3> DEFINE m == [k EXCEPT !.pc = "join_again", !.slot = s]
    <3>3. m.pc = "join_again" /\ m.slot = s /\ m.dest = k.dest
      BY <1>0 DEF Task
    <3>4. task'[t] = m /\ \A q \in Tasks \ {t} : task'[q] = task[q]
      BY <3>1 DEF TaskTypeOK, Become
    <3> HIDE DEF m
    <3>5. Counted(t)
      BY <3>2, <3>3, <3>4 DEF Counted
    <3> QED
      BY <3>3, <3>4, <3>5 DEF ClaimsMade, ClaimMade, Kept
  <2> QED
    BY <2>1, <2>2
<1>2. CASE JoinAgain(t)
  <2>1. CASE Finish(t)
    BY <2>1, FinishClaims
  <2>2. CASE Goto(t, "join_insert")
    <3> DEFINE m == [k EXCEPT !.pc = "join_insert"]
    <3>1. /\ m.pc = "join_insert" /\ m.slot = k.slot
          /\ m.dest = k.dest /\ m.room = k.room
      BY <1>0 DEF Task
    <3>2. task'[t] = m /\ \A q \in Tasks \ {t} : task'[q] = task[q]
      BY <2>2 DEF TaskTypeOK, Goto, Become
    <3>3. k.pc = "join_again"
      BY <1>2 DEF JoinAgain, At
    <3> HIDE DEF m
    <3> QED
      BY <3>1, <3>2, <3>3 DEF ClaimsMade, ClaimMade, Kept
  <2> QED
    BY <1>2, <2>1, <2>2 DEF JoinAgain
<1> QED
  BY <1>1, <1>2

LEMMA ContinueClaims ==
  ASSUME TaskTypeOK, NEW t \in Tasks, Continue(t)
  PROVE  ClaimsMade
<1> USE DEF ClaimPCs, JoinPCs
<1> DEFINE k == task[t]
<1>0. k \in Task
  BY DEF TaskTypeOK
<1>f. ASSUME Finish(t) PROVE ClaimsMade
  BY <1>f, FinishClaims
<1>1. CASE \/ CreateFails(t) \/ JoinFails(t) \/ StartCallFails(t)
           \/ StartCommit(t) \/ EndCommit(t)
           \/ (\E r, id : CreateInsert(t, r, id)) \/ \E id : JoinInsert(t, id)
  BY <1>1, <1>f DEF CreateFails, JoinFails, StartCallFails, StartCommit,
     EndCommit, CreateInsert, JoinInsert
<1>2. CASE JoinOwn(t)
  <2>1. ASSUME NEW r, NEW seen
        PROVE  [k EXCEPT !.pc = "leave_check", !.room = r, !.seen = seen,
                         !.back = "join"].pc = "leave_check"
    BY <1>0 DEF Task
  <2> QED
    BY <1>2, <2>1, RecordClaims, GotoClaims DEF JoinOwn
<1>3. CASE JoinCheck(t) \/ JoinAgain(t)
  BY <1>3, JoinClaimsMade
<1>4. CASE LeaveCheck(t)
  <2>1. ASSUME NEW id, NEW pc \in {"leave_rest", "leave_delete"}
        PROVE  [k EXCEPT !.row = id, !.pc = pc].pc = pc
    BY <1>0 DEF Task
  <2> QED
    BY <1>0, <1>4, <2>1, RecordClaims, ReturnedClaims DEF LeaveCheck
<1>5. CASE LeaveDelete(t) \/ LeaveBots(t)
  <2>1. [k EXCEPT !.pc = "leave_drop", !.rest = {}].pc = "leave_drop"
    BY <1>0 DEF Task
  <2> QED
    BY <1>5, <2>1, RecordClaims, GotoClaims DEF LeaveDelete, LeaveBots
<1>6. CASE LeaveRest(t)
  <2>1. ASSUME NEW rest, NEW heir
        PROVE  /\ [k EXCEPT !.pc = "leave_bots", !.row = Nothing,
                            !.rest = rest].pc = "leave_bots"
               /\ [k EXCEPT !.pc = "leave_host", !.row = Nothing,
                            !.heir = heir].pc = "leave_host"
    BY <1>0 DEF Task
  <2> QED
    BY <1>0, <1>6, <2>1, RecordClaims, ReturnedClaims, GotoClaims
    DEF LeaveRest
<1>7. CASE LeaveHost(t) \/ LeaveDrop(t)
  <2>1. ASSUME NEW m, NEW next \in {"ws_tell", "ws_drop"},
               DOMAIN m = DOMAIN Idle, Become(t, Returned(m, next))
        PROVE  ClaimsMade
    <3>1. Returned(m, next).pc \in {"idle", "join_check", "ws_tell", "ws_drop"}
      BY <2>1 DEF Returned, Idle
    <3> QED
      BY <2>1, <3>1, RecordClaims
  <2>2. ASSUME NEW copy
        PROVE  DOMAIN [k EXCEPT !.seen[k.room] = copy] = DOMAIN Idle
    BY <1>0 DEF Task, Idle
  <2>3. CASE LeaveHost(t)
    <3>1. \/ Finish(t)
          \/ \E copy : Become(t, Returned([k EXCEPT !.seen[k.room] = copy],
                                          "ws_tell"))
      BY <2>3 DEF LeaveHost
    <3> HIDE DEF k
    <3> QED
      BY <1>f, <2>1, <2>2, <3>1
  <2>4. CASE LeaveDrop(t)
    BY <1>0, <1>f, <2>1, <2>4 DEF LeaveDrop, Task, Idle
  <2> QED
    BY <1>7, <2>3, <2>4
<1>8. CASE \/ StartCheck(t) \/ Accept(t) \/ Tell(t)
  BY <1>8, <1>f, GotoClaims DEF StartCheck, Accept, Tell
<1>9. CASE ReadyWrite(t)
  <2>1. ASSUME NEW f
        PROVE  [k EXCEPT !.pc = "ws_open", !.row = Nothing, !.want = FALSE,
                         !.ready = f].pc = "ws_open"
    BY <1>0 DEF Task
  <2> QED
    BY <1>9, <1>f, <2>1, RecordClaims DEF ReadyWrite
<1>10. CASE TellFails(t) \/ Drop(t)
  BY <1>0, <1>10, RecordClaims, DisconnectedPC
  DEF TellFails, Drop, AfterLeave, Idle
<1>11. CASE \/ BotFails(t)
            \/ \E id : BotInsert(t, id)
            \/ \E g : StartCall(t, g)
  <2>1. ASSUME NEW g
        PROVE  /\ [k EXCEPT !.pc = "start_commit", !.game = g].pc
                    = "start_commit"
               /\ [k EXCEPT !.pc = "ws_open", !.slot = 0].pc = "ws_open"
    BY <1>0 DEF Task
  <2> QED
    BY <1>11, <2>1, <1>f, RecordClaims DEF BotFails, BotInsert, StartCall
<1> QED
  BY <1>1, <1>2, <1>3, <1>4, <1>5, <1>6, <1>7, <1>8, <1>9, <1>10, <1>11
     DEF Continue, ServiceStep, SocketStep, KeyedStep

(* Every claim on a seat or a slot was kept, or is justified by what the   *)
(* task has just read.                                                     *)
LEMMA ClaimSteps ==
  ASSUME TaskTypeOK, [Next]_vars
  PROVE  ClaimsMade
<1>1. CASE Crash
  BY <1>1 DEF Crash, ClaimsMade, ClaimMade, ClaimPCs, JoinPCs, Idle
<1> QED
  BY <1>1, RequestClaims, ContinueClaims, SameClaims
     DEF Next, RequestsNext, List, Cleanup, vars

-----------------------------------------------------------------------------
(* What a step does to the rows: none comes; or one comes with the claim   *)
(* that task t had on its room and slot; or with a room that is new.       *)
NoneMore ==
    /\ DOMAIN roomUsers' \subseteq DOMAIN roomUsers
    /\ \A id \in DOMAIN roomUsers' :
         /\ roomUsers'[id].room = roomUsers[id].room
         /\ roomUsers'[id].slot = roomUsers[id].slot
         /\ roomUsers'[id].bot = roomUsers[id].bot
OneMore(id, r, s, bot) ==
    /\ id \notin DOMAIN roomUsers
    /\ InsertRow(id, r, s, bot)
Joined(t, id) ==
    /\ task[t].pc = "join_insert"
    /\ OneMore(id, task[t].dest, task[t].slot, FALSE)
    /\ task'[t].pc = "idle"
BotSeated(t, id) ==
    /\ task[t].pc = "bot_insert"
    /\ OneMore(id, task[t].room, task[t].slot, TRUE)
    /\ task'[t].pc = "ws_open"
Opened(t, id, r) ==
    /\ ~ RoomKnown(r)
    /\ OneMore(id, r, 0, FALSE)

LEMMA RowsCome ==
  ASSUME StoreTypeOK, TaskTypeOK, [Next]_vars
  PROVE  \/ NoneMore
         \/ \E t \in Tasks : \E id : Joined(t, id) \/ BotSeated(t, id)
         \/ \E t \in Tasks : \E id, r : Opened(t, id, r)
<1>1. ASSUME UNCHANGED roomUsers PROVE NoneMore
  BY <1>1 DEF NoneMore
<1>2. ASSUME NEW gone, roomUsers' = Delete(roomUsers, gone) PROVE NoneMore
  BY <1>2 DEF NoneMore, Delete
<1>3. ASSUME NEW id, UserFree(Owner(id)) PROVE id \notin DOMAIN roomUsers
  BY <1>3 DEF UserFree, RowsOfUser
<1>4. ASSUME NEW t \in Tasks, NEW r \in NewRooms, NEW id, CreateInsert(t, r, id)
      PROVE  Opened(t, id, r)
  <2>1. ~ RoomKnown(r)
    BY DEF NewRooms, LeastOf
  <2> QED
    BY <1>3, <1>4, <2>1 DEF CreateInsert, Opened, OneMore
<1>5. ASSUME NEW t \in Tasks, NEW id, JoinInsert(t, id)
      PROVE  Joined(t, id)
  <2>1. task'[t].pc = "idle"
    BY <1>5 DEF JoinInsert, Finish, Become, TaskTypeOK, Idle
  <2> QED
    BY <1>3, <1>5, <2>1 DEF JoinInsert, CanInsertRow, Joined, OneMore, At
<1>6. ASSUME NEW t \in Tasks, NEW id, BotInsert(t, id)
      PROVE  BotSeated(t, id)
  <2>1. task'[t] = [task[t] EXCEPT !.pc = "ws_open", !.slot = 0]
    BY <1>6 DEF BotInsert, Become, TaskTypeOK
  <2>2. task'[t].pc = "ws_open"
    BY <2>1 DEF TaskTypeOK, Task
  <2> QED
    BY <1>3, <1>6, <2>2 DEF BotInsert, CanInsertRow, BotSeated, OneMore, At
<1>7. ASSUME NEW t \in Tasks,
             \/ LeaveDelete(t) \/ LeaveBots(t) \/ LeaveHost(t) \/ LeaveDrop(t)
             \/ StartCommit(t) \/ EndCommit(t)
      PROVE  NoneMore
  BY <1>1, <1>2, <1>7 DEF LeaveDelete, LeaveBots, LeaveHost, LeaveDrop,
                          StartCommit, EndCommit
<1>8. ASSUME NEW t \in Tasks, ReadyWrite(t) PROVE NoneMore
  <2>1. CASE roomUsers' = [roomUsers EXCEPT ![task[t].row].ready
                                                = task[t].want]
    BY <2>1 DEF NoneMore, StoreTypeOK, RoomUser
  <2> QED
    BY <1>1, <1>8, <2>1 DEF ReadyWrite
<1>9. ASSUME List \/ Cleanup PROVE NoneMore
  <2>1. CASE CleanupRooms
    BY <1>1, <2>1, Zenon DEF CleanupRooms
  <2>2. CASE SweepStep
    BY <1>1, <1>2, <2>2 DEF SweepStep, SweepRoom, SweepRows, SweepRemaining,
                            SweepCommit
  <2> QED
    BY <1>9, <2>1, <2>2 DEF List, Cleanup
<1>10. ASSUME Crash \/ UNCHANGED vars PROVE NoneMore
  BY <1>1, <1>10 DEF Crash, vars
<1> QED
  BY <1>1, <1>4, <1>5, <1>6, <1>7, <1>8, <1>9, <1>10, ReadsOnly
     DEF Next, RequestsNext, Continue, ServiceStep, SocketStep, KeyedStep

-----------------------------------------------------------------------------
(* While a room has a seat it has a free slot, and new_slot_index is one:  *)
(* with every slot taken it would have as many rows as slots.              *)
LEMMA SeatMeansSlot ==
  ASSUME StoreTypeOK, IsFiniteSet(DOMAIN roomUsers), NEW r, HasSeat(r)
  PROVE  NewSlots(r) \subseteq FreeSlots(r)
<1>1. IsFiniteSet(RowsOf(r)) /\ Cardinality(RowsOf(r)) \in Nat
  BY FS_Subset, FS_CardinalityType DEF RowsOf
<1>2. FreeSlots(r) # {}
  <2> SUFFICES ASSUME FreeSlots(r) = {} PROVE FALSE
    OBVIOUS
  <2> DEFINE f == [id \in RowsOf(r) |-> roomUsers[id].slot]
  <2>1. f \in [RowsOf(r) -> Slots]
    BY DEF RowsOf, StoreTypeOK, RoomUser
  <2>2. \A s \in Slots : \E id \in RowsOf(r) : f[id] = s
    BY DEF FreeSlots
  <2>3. f \in Surjection(RowsOf(r), Slots)
    BY <2>1, <2>2, Fun_IsSurj
  <2>4. Cardinality(Slots) <= Cardinality(RowsOf(r))
    BY <1>1, <2>3, FS_Surjection
  <2>5. Cardinality(Slots) = MaxUsers
    BY FS_Interval, StoreAssumption DEF Slots
  <2> QED
    BY <1>1, <2>4, <2>5, StoreAssumption DEF HasSeat
<1> QED
  BY <1>2 DEF NewSlots, LeastOf

-----------------------------------------------------------------------------
(* The bounds, room by room and slot by slot.                              *)
Overbooked(r) ==
    Cardinality(PeopleIn(r)) + Cardinality(JoinClaims(r))
        <= MaxUsers - 1 + Cardinality(Tasks)
Shared(r, s) ==
    Cardinality(Occupants(r, s)) + Cardinality(Claims(r, s))
        <= Cardinality(Tasks)
SeatInv ==
    /\ IsFiniteSet(DOMAIN roomUsers)
    /\ OverbookingBounded
    /\ SlotSharingBounded

LEMMA SetsFinite ==
  ASSUME IsFiniteSet(DOMAIN roomUsers), NEW r, NEW s
  PROVE  /\ IsFiniteSet(PeopleIn(r)) /\ IsFiniteSet(Occupants(r, s))
         /\ IsFiniteSet(RowsOf(r)) /\ IsFiniteSet(JoinClaims(r))
         /\ IsFiniteSet(Claims(r, s)) /\ IsFiniteSet(Tasks)
         /\ Cardinality(PeopleIn(r)) \in Nat
         /\ Cardinality(Occupants(r, s)) \in Nat
         /\ Cardinality(RowsOf(r)) \in Nat
         /\ Cardinality(PeopleIn(r)) <= Cardinality(RowsOf(r))
         /\ Cardinality(JoinClaims(r)) \in Nat
         /\ Cardinality(Claims(r, s)) \in Nat
         /\ Cardinality(Tasks) \in Nat
         /\ Cardinality(JoinClaims(r)) <= Cardinality(Tasks)
         /\ Cardinality(Claims(r, s)) <= Cardinality(Tasks)
<1>1. /\ RowsOf(r) \subseteq DOMAIN roomUsers
      /\ PeopleIn(r) \subseteq RowsOf(r) /\ Occupants(r, s) \subseteq RowsOf(r)
      /\ JoinClaims(r) \subseteq Tasks /\ Claims(r, s) \subseteq Tasks
  BY DEF RowsOf, PeopleIn, Occupants, JoinClaims, Claims, BotClaims
<1>2. IsFiniteSet(Tasks)
  BY TasksAssumption
<1>3. /\ IsFiniteSet(RowsOf(r)) /\ IsFiniteSet(JoinClaims(r))
      /\ IsFiniteSet(Claims(r, s))
      /\ Cardinality(JoinClaims(r)) <= Cardinality(Tasks)
      /\ Cardinality(Claims(r, s)) <= Cardinality(Tasks)
  BY <1>1, <1>2, FS_Subset
<1>4. /\ IsFiniteSet(PeopleIn(r)) /\ IsFiniteSet(Occupants(r, s))
      /\ Cardinality(PeopleIn(r)) <= Cardinality(RowsOf(r))
  BY <1>1, <1>3, FS_Subset
<1> QED
  BY <1>2, <1>3, <1>4, FS_CardinalityType

(* Rows and claims do not grow, or they grow by what was a claim.          *)
LEMMA SumsBounded ==
  ASSUME NEW A, NEW B, NEW C, NEW D, NEW n \in Int,
         IsFiniteSet(A), IsFiniteSet(B),
         Cardinality(A) + Cardinality(B) <= n,
         \/ C \subseteq A /\ D \subseteq B
         \/ \E a, b : /\ a \notin A /\ b \in B
                      /\ C = A \cup {a} /\ D \subseteq B \ {b}
  PROVE  Cardinality(C) + Cardinality(D) <= n
<1>1. Cardinality(A) \in Nat /\ Cardinality(B) \in Nat
  BY FS_CardinalityType
<1>2. CASE C \subseteq A /\ D \subseteq B
  <2>1. /\ IsFiniteSet(C) /\ Cardinality(C) <= Cardinality(A)
        /\ IsFiniteSet(D) /\ Cardinality(D) <= Cardinality(B)
    BY <1>2, FS_Subset
  <2>2. Cardinality(C) \in Nat /\ Cardinality(D) \in Nat
    BY <2>1, FS_CardinalityType
  <2> QED
    BY <1>1, <2>1, <2>2
<1>3. ASSUME NEW a, NEW b, a \notin A, b \in B,
             C = A \cup {a}, D \subseteq B \ {b}
      PROVE  Cardinality(C) + Cardinality(D) <= n
  <2>1. Cardinality(C) = Cardinality(A) + 1
    BY <1>3, FS_AddElement
  <2>2. /\ IsFiniteSet(B \ {b})
        /\ Cardinality(B \ {b}) = Cardinality(B) - 1
    BY <1>3, FS_RemoveElement
  <2>3. IsFiniteSet(D) /\ Cardinality(D) <= Cardinality(B) - 1
    BY <1>3, <2>2, FS_Subset
  <2>4. Cardinality(D) \in Nat
    BY <2>3, FS_CardinalityType
  <2> QED
    BY <1>1, <2>1, <2>3, <2>4
<1> QED
  BY <1>2, <1>3

-----------------------------------------------------------------------------
(* A step that changes the rows makes no claim.                            *)
AllKept == \A t \in Tasks : task'[t].pc \in ClaimPCs => Kept(t)

LEMMA RowsChangeOrClaims ==
  ASSUME ClaimsMade, NEW id, NEW r, NEW s, NEW bot, OneMore(id, r, s, bot)
  PROVE  /\ AllKept
         /\ DOMAIN roomUsers' = DOMAIN roomUsers \cup {id}
         /\ roomUsers'[id] = [room |-> r, slot |-> s,
                             ready |-> bot, bot |-> bot]
         /\ \A j \in DOMAIN roomUsers : roomUsers'[j] = roomUsers[j]
<1>1. /\ DOMAIN roomUsers' = DOMAIN roomUsers \cup {id}
      /\ roomUsers'[id] = [room |-> r, slot |-> s,
                          ready |-> bot, bot |-> bot]
      /\ \A j \in DOMAIN roomUsers : roomUsers'[j] = roomUsers[j]
  BY DEF OneMore, InsertRow, Insert
<1>2. roomUsers' # roomUsers
  BY <1>1 DEF OneMore
<1> QED
  BY <1>1, <1>2 DEF ClaimsMade, ClaimMade, AllKept, Counted, FoundFree

LEMMA KeptClaims ==
  ASSUME AllKept, NEW r, NEW s
  PROVE  /\ JoinClaims(r)' \subseteq JoinClaims(r)
         /\ Claims(r, s)' \subseteq Claims(r, s)
BY DEF AllKept, Kept, ClaimPCs, JoinPCs, JoinClaims, Claims, BotClaims, At

LEMMA NoneMoreOverbooks ==
  ASSUME SeatInv, NoneMore, ClaimsMade, NEW r \in RoomIds
  PROVE  Overbooked(r)'
<1> DEFINE A == PeopleIn(r)
           B == JoinClaims(r)
           n == MaxUsers - 1 + Cardinality(Tasks)
<1>f. /\ IsFiniteSet(A) /\ IsFiniteSet(B) /\ Cardinality(A) \in Nat
      /\ Cardinality(Tasks) \in Nat /\ IsFiniteSet(Tasks)
      /\ IsFiniteSet(RowsOf(r)) /\ Cardinality(RowsOf(r)) \in Nat
      /\ Cardinality(A) <= Cardinality(RowsOf(r))
  BY SetsFinite DEF SeatInv
<1>n. n \in Int /\ MaxUsers \in Nat
  BY <1>f, StoreAssumption
<1>i. Cardinality(A) + Cardinality(B) <= n
  BY DEF SeatInv, OverbookingBounded
<1>1. A' \subseteq A
  BY DEF NoneMore, PeopleIn, RowsOf
<1>2. CASE B' \subseteq B
  <2> HIDE DEF A, B, n
  <2>1. Cardinality(A') + Cardinality(B') <= n
    BY <1>1, <1>2, <1>f, <1>n, <1>i, SumsBounded
  <2> QED
    BY <2>1 DEF A, B, n, Overbooked
<1>3. CASE ~ (B' \subseteq B)
  <2>1. PICK t \in Tasks : t \in B' /\ t \notin B
    BY <1>3 DEF JoinClaims
  <2>2. task'[t].pc \in JoinPCs /\ task'[t].dest = r /\ ~ Kept(t)
    BY <2>1 DEF JoinClaims, At, Kept, JoinPCs
  <2>3. UNCHANGED roomUsers /\ HasSeat(r)
    BY <2>2 DEF ClaimsMade, ClaimMade, Counted, ClaimPCs, JoinPCs
  <2>4. A' = A
    BY <2>3 DEF PeopleIn, RowsOf
  <2>5. Cardinality(RowsOf(r)) < MaxUsers
    BY <2>3 DEF HasSeat
  <2>6. B' \subseteq Tasks
    BY DEF JoinClaims
  <2>7. IsFiniteSet(B') /\ Cardinality(B') <= Cardinality(Tasks)
    BY <1>f, <2>6, FS_Subset
  <2>8. Cardinality(B') \in Nat
    BY <2>7, FS_CardinalityType
  <2> HIDE DEF A, B
  <2>9. Cardinality(A') + Cardinality(B') <= n
    BY <1>f, <1>n, <2>4, <2>5, <2>7, <2>8
  <2> QED
    BY <2>9 DEF A, B, Overbooked
<1> QED
  BY <1>2, <1>3

LEMMA NoneMoreShares ==
  ASSUME StoreTypeOK, SeatInv, NoneMore, ClaimsMade,
         NEW r \in RoomIds, NEW s \in Slots
  PROVE  Shared(r, s)'
<1> DEFINE A == Occupants(r, s)
           B == Claims(r, s)
           n == Cardinality(Tasks)
<1>f. /\ IsFiniteSet(A) /\ IsFiniteSet(B) /\ n \in Nat /\ IsFiniteSet(Tasks)
  BY SetsFinite DEF SeatInv
<1>i. Cardinality(A) + Cardinality(B) <= n
  BY DEF SeatInv, SlotSharingBounded
<1>1. A' \subseteq A
  BY DEF NoneMore, Occupants, RowsOf
<1>2. CASE B' \subseteq B
  <2> HIDE DEF A, B, n
  <2>1. Cardinality(A') + Cardinality(B') <= n
    BY <1>1, <1>2, <1>f, <1>i, SumsBounded
  <2> QED
    BY <2>1 DEF A, B, n, Shared
<1>3. CASE ~ (B' \subseteq B)
  <2>1. PICK t \in Tasks : t \in B' /\ t \notin B
    BY <1>3 DEF Claims, JoinClaims, BotClaims
  <2>2. /\ \/ task'[t].pc \in JoinPCs /\ task'[t].dest = r
           \/ task'[t].pc = "bot_insert" /\ task'[t].room = r
        /\ task'[t].slot = s /\ task'[t].pc \in ClaimPCs
    BY <2>1 DEF Claims, JoinClaims, BotClaims, At, JoinPCs, ClaimPCs
  <2>3. ~ Kept(t)
    BY <2>1, <2>2 DEF Claims, JoinClaims, BotClaims, At, JoinPCs, ClaimPCs,
                      Kept
  <2>4. UNCHANGED roomUsers /\ s \in FreeSlots(r)
    BY <2>2, <2>3, SeatMeansSlot
       DEF ClaimsMade, ClaimMade, Counted, FoundFree, JoinPCs, SeatInv
  <2>5. A' = {}
    BY <2>4 DEF Occupants, RowsOf, FreeSlots
  <2>6. B' \subseteq Tasks
    BY DEF Claims, JoinClaims, BotClaims
  <2>7. IsFiniteSet(B') /\ Cardinality(B') <= n
    BY <1>f, <2>6, FS_Subset
  <2>8. Cardinality(B') \in Nat /\ Cardinality({}) = 0
    BY <2>7, FS_CardinalityType, FS_EmptySet
  <2> HIDE DEF A, B, n
  <2>9. Cardinality(A') + Cardinality(B') <= n
    BY <1>f, <2>5, <2>7, <2>8
  <2> QED
    BY <2>9 DEF A, B, n, Shared
<1> QED
  BY <1>2, <1>3

(* A person joins: the claim becomes a row.                                *)
LEMMA JoinedSeats ==
  ASSUME SeatInv, ClaimsMade, NEW t \in Tasks, NEW id, Joined(t, id),
         NEW r \in RoomIds, NEW s \in Slots
  PROVE  Overbooked(r)' /\ Shared(r, s)'
<1> DEFINE d == task[t].dest
           z == task[t].slot
           P == PeopleIn(r)
           J == JoinClaims(r)
           O == Occupants(r, s)
           C == Claims(r, s)
           n == MaxUsers - 1 + Cardinality(Tasks)
           m == Cardinality(Tasks)
<1>f. /\ IsFiniteSet(P) /\ IsFiniteSet(J) /\ IsFiniteSet(O) /\ IsFiniteSet(C)
      /\ m \in Int /\ n \in Int
  BY SetsFinite, StoreAssumption DEF SeatInv
<1>i. /\ Cardinality(P) + Cardinality(J) <= n
      /\ Cardinality(O) + Cardinality(C) <= m
  BY DEF SeatInv, OverbookingBounded, SlotSharingBounded
<1>1. /\ AllKept
      /\ DOMAIN roomUsers' = DOMAIN roomUsers \cup {id}
      /\ roomUsers'[id] = [room |-> d, slot |-> z,
                          ready |-> FALSE, bot |-> FALSE]
      /\ \A j \in DOMAIN roomUsers : roomUsers'[j] = roomUsers[j]
      /\ id \notin DOMAIN roomUsers
  BY RowsChangeOrClaims DEF Joined, OneMore
<1>2. J' \subseteq J /\ C' \subseteq C
  BY <1>1, KeptClaims
<1>3. /\ task[t].pc = "join_insert"
      /\ t \notin J' /\ t \notin C'
  BY DEF Joined, JoinClaims, Claims, BotClaims, At
<1>4. Cardinality(P') + Cardinality(J') <= n
  <2>1. \/ P' = P
        \/ P' = P \cup {id} /\ id \notin P /\ t \in J /\ J' \subseteq J \ {t}
    <3>1. CASE d = r
      <4>1. P' = P \cup {id} /\ id \notin P
        BY <1>1, <3>1 DEF PeopleIn, RowsOf
      <4>2. t \in J
        BY <1>3, <3>1 DEF JoinClaims, At
      <4> QED
        BY <1>2, <1>3, <4>1, <4>2
    <3>2. CASE d # r
      BY <1>1, <3>2 DEF PeopleIn, RowsOf
    <3> QED
      BY <3>1, <3>2
  <2> HIDE DEF P, J, n
  <2> QED
    BY <1>f, <1>i, <1>2, <2>1, SumsBounded
<1>5. Cardinality(O') + Cardinality(C') <= m
  <2>1. \/ O' = O
        \/ O' = O \cup {id} /\ id \notin O /\ t \in C /\ C' \subseteq C \ {t}
    <3>1. CASE d = r /\ z = s
      <4>1. O' = O \cup {id} /\ id \notin O
        BY <1>1, <3>1 DEF Occupants, RowsOf
      <4>2. t \in C
        BY <1>3, <3>1 DEF Claims, JoinClaims, At
      <4> QED
        BY <1>2, <1>3, <4>1, <4>2
    <3>2. CASE ~ (d = r /\ z = s)
      BY <1>1, <3>2 DEF Occupants, RowsOf
    <3> QED
      BY <3>1, <3>2
  <2> HIDE DEF O, C, m
  <2> QED
    BY <1>f, <1>i, <1>2, <2>1, SumsBounded
<1> QED
  BY <1>4, <1>5 DEF Overbooked, Shared

(* A bot is seated: its claim becomes a row, and no person comes.          *)
LEMMA BotSeats ==
  ASSUME SeatInv, ClaimsMade, NEW t \in Tasks, NEW id, BotSeated(t, id),
         NEW r \in RoomIds, NEW s \in Slots
  PROVE  Overbooked(r)' /\ Shared(r, s)'
<1> DEFINE d == task[t].room
           z == task[t].slot
           P == PeopleIn(r)
           J == JoinClaims(r)
           O == Occupants(r, s)
           C == Claims(r, s)
           n == MaxUsers - 1 + Cardinality(Tasks)
           m == Cardinality(Tasks)
<1>f. /\ IsFiniteSet(P) /\ IsFiniteSet(J) /\ IsFiniteSet(O) /\ IsFiniteSet(C)
      /\ m \in Int /\ n \in Int
  BY SetsFinite, StoreAssumption DEF SeatInv
<1>i. /\ Cardinality(P) + Cardinality(J) <= n
      /\ Cardinality(O) + Cardinality(C) <= m
  BY DEF SeatInv, OverbookingBounded, SlotSharingBounded
<1>1. /\ AllKept
      /\ DOMAIN roomUsers' = DOMAIN roomUsers \cup {id}
      /\ roomUsers'[id] = [room |-> d, slot |-> z,
                          ready |-> TRUE, bot |-> TRUE]
      /\ \A j \in DOMAIN roomUsers : roomUsers'[j] = roomUsers[j]
      /\ id \notin DOMAIN roomUsers
  BY RowsChangeOrClaims DEF BotSeated, OneMore
<1>2. J' \subseteq J /\ C' \subseteq C
  BY <1>1, KeptClaims
<1>3. task[t].pc = "bot_insert" /\ t \notin C'
  BY DEF BotSeated, JoinClaims, Claims, BotClaims, At
<1>4. Cardinality(P') + Cardinality(J') <= n
  <2>1. P' = P
    BY <1>1 DEF PeopleIn, RowsOf
  <2> HIDE DEF P, J, n
  <2> QED
    BY <1>f, <1>i, <1>2, <2>1, SumsBounded
<1>5. Cardinality(O') + Cardinality(C') <= m
  <2>1. \/ O' = O
        \/ O' = O \cup {id} /\ id \notin O /\ t \in C /\ C' \subseteq C \ {t}
    <3>1. CASE d = r /\ z = s
      <4>1. O' = O \cup {id} /\ id \notin O
        BY <1>1, <3>1 DEF Occupants, RowsOf
      <4>2. t \in C
        BY <1>3, <3>1 DEF Claims, BotClaims, At
      <4> QED
        BY <1>2, <1>3, <4>1, <4>2
    <3>2. CASE ~ (d = r /\ z = s)
      BY <1>1, <3>2 DEF Occupants, RowsOf
    <3> QED
      BY <3>1, <3>2
  <2> HIDE DEF O, C, m
  <2> QED
    BY <1>f, <1>i, <1>2, <2>1, SumsBounded
<1> QED
  BY <1>4, <1>5 DEF Overbooked, Shared

(* A room is opened: nobody is in it and nobody has a claim in it.         *)
LEMMA OpenedSeats ==
  ASSUME RowsHaveRooms, SeatInv, ClaimsMade,
         NEW t \in Tasks, NEW id, NEW d, Opened(t, id, d),
         NEW r \in RoomIds, NEW s \in Slots
  PROVE  Overbooked(r)' /\ Shared(r, s)'
<1> DEFINE P == PeopleIn(r)
           J == JoinClaims(r)
           O == Occupants(r, s)
           C == Claims(r, s)
           n == MaxUsers - 1 + Cardinality(Tasks)
           m == Cardinality(Tasks)
<1>f. /\ IsFiniteSet(P) /\ IsFiniteSet(J) /\ IsFiniteSet(O) /\ IsFiniteSet(C)
      /\ m \in Nat /\ n \in Int /\ MaxUsers \in Nat \ {0} /\ IsFiniteSet(Tasks)
  BY SetsFinite, StoreAssumption DEF SeatInv
<1>i. /\ Cardinality(P) + Cardinality(J) <= n
      /\ Cardinality(O) + Cardinality(C) <= m
  BY DEF SeatInv, OverbookingBounded, SlotSharingBounded
<1>1. /\ AllKept
      /\ DOMAIN roomUsers' = DOMAIN roomUsers \cup {id}
      /\ roomUsers'[id] = [room |-> d, slot |-> 0,
                          ready |-> FALSE, bot |-> FALSE]
      /\ \A j \in DOMAIN roomUsers : roomUsers'[j] = roomUsers[j]
  BY RowsChangeOrClaims DEF Opened, OneMore
<1>2. J' \subseteq J /\ C' \subseteq C
  BY <1>1, KeptClaims
<1>3. CASE d # r
  <2>1. P' = P /\ O' = O
    BY <1>1, <1>3 DEF PeopleIn, Occupants, RowsOf
  <2> HIDE DEF P, J, O, C, n, m
  <2>2. Cardinality(P') + Cardinality(J') <= n
    BY <1>f, <1>i, <1>2, <2>1, SumsBounded
  <2>3. Cardinality(O') + Cardinality(C') <= m
    BY <1>f, <1>i, <1>2, <2>1, SumsBounded
  <2> QED
    BY <2>2, <2>3 DEF Overbooked, Shared, P, J, O, C, n, m
<1>4. CASE d = r
  <2>1. \A j \in DOMAIN roomUsers : roomUsers[j].room # r
    BY <1>4 DEF Opened, RoomKnown, RowsHaveRooms
  <2>2. P' \subseteq {id} /\ O' \subseteq {id}
    BY <1>1, <2>1 DEF PeopleIn, Occupants, RowsOf
  <2>3. J = {} /\ C = {}
    BY <1>4 DEF Opened, RoomKnown, TaskKnowsRoom, JoinClaims, Claims, BotClaims
  <2>4. m # 0
    BY <1>f, FS_EmptySet
  <2>5. /\ IsFiniteSet({id}) /\ Cardinality({id}) = 1 /\ Cardinality({}) = 0
    BY FS_Singleton, FS_EmptySet
  <2>6. /\ IsFiniteSet(P') /\ Cardinality(P') <= 1
        /\ IsFiniteSet(O') /\ Cardinality(O') <= 1
    BY <2>2, <2>5, FS_Subset
  <2>7. Cardinality(P') \in Nat /\ Cardinality(O') \in Nat
    BY <2>6, FS_CardinalityType
  <2>8. J' = {} /\ C' = {}
    BY <1>2, <2>3
  <2> HIDE DEF P, J, O, C
  <2>9. /\ Cardinality(P') + Cardinality(J') <= n
        /\ Cardinality(O') + Cardinality(C') <= m
    BY <1>f, <2>4, <2>5, <2>6, <2>7, <2>8
  <2> QED
    BY <2>9 DEF Overbooked, Shared, P, J, O, C
<1> QED
  BY <1>3, <1>4

-----------------------------------------------------------------------------
LEMMA SeatInit == Init => SeatInv
<1> SUFFICES ASSUME Init PROVE SeatInv
  OBVIOUS
<1>1. DOMAIN roomUsers = {} /\ \A t \in Tasks : task[t].pc = "idle"
  BY DEF Init, ServiceInit, StoreInit, Idle
<1>2. IsFiniteSet({}) /\ Cardinality({}) = 0
  BY FS_EmptySet
<1>3. Cardinality(Tasks) \in Nat /\ MaxUsers \in Nat \ {0}
  BY TasksAssumption, FS_CardinalityType, StoreAssumption
<1>4. ASSUME NEW r, NEW s
      PROVE  /\ PeopleIn(r) = {} /\ JoinClaims(r) = {}
             /\ Occupants(r, s) = {} /\ Claims(r, s) = {}
  BY <1>1 DEF PeopleIn, RowsOf, JoinClaims, Occupants, Claims, BotClaims, At
<1>5. OverbookingBounded
  <2>1. ASSUME NEW r \in RoomIds
        PROVE  PeopleIn(r) = {} /\ JoinClaims(r) = {}
    BY <1>4
  <2> QED
    BY <1>2, <1>3, <2>1 DEF OverbookingBounded
<1>6. SlotSharingBounded
  <2>1. ASSUME NEW r \in RoomIds, NEW s \in Slots
        PROVE  Occupants(r, s) = {} /\ Claims(r, s) = {}
    BY <1>4
  <2> QED
    BY <1>2, <1>3, <2>1 DEF SlotSharingBounded
<1> QED
  BY <1>1, <1>2, <1>5, <1>6 DEF SeatInv

LEMMA SeatStep == TypedStore /\ SeatInv /\ [Next]_vars => SeatInv'
<1> SUFFICES ASSUME TypedStore, SeatInv, [Next]_vars PROVE SeatInv'
  OBVIOUS
<1>0. StoreTypeOK /\ TaskTypeOK /\ RowsHaveRooms
  BY DEF TypedStore, TypeOK
<1>1. ClaimsMade
  BY <1>0, ClaimSteps
<1>2. CASE NoneMore
  <2>1. IsFiniteSet(DOMAIN roomUsers')
    BY <1>2, FS_Subset DEF NoneMore, SeatInv
  <2> QED
    BY <1>0, <1>1, <1>2, <2>1, NoneMoreOverbooks, NoneMoreShares
       DEF SeatInv, OverbookingBounded, SlotSharingBounded, Overbooked, Shared
<1>3. ASSUME NEW t \in Tasks, NEW id, NEW r,
             Joined(t, id) \/ BotSeated(t, id) \/ Opened(t, id, r)
      PROVE  SeatInv'
  <2>1. DOMAIN roomUsers' = DOMAIN roomUsers \cup {id}
    BY <1>1, <1>3, RowsChangeOrClaims DEF Joined, BotSeated, Opened
  <2>2. IsFiniteSet(DOMAIN roomUsers')
    BY <2>1, FS_AddElement DEF SeatInv
  <2>3. \A q \in RoomIds, s \in Slots : Overbooked(q)' /\ Shared(q, s)'
    BY <1>0, <1>1, <1>3, JoinedSeats, BotSeats, OpenedSeats
  <2>4. 0 \in Slots
    BY StoreAssumption DEF Slots
  <2> QED
    BY <2>2, <2>3, <2>4 DEF SeatInv, OverbookingBounded, SlotSharingBounded,
                            Overbooked, Shared
<1> QED
  BY <1>0, <1>2, <1>3, RowsCome

(* A room never has more people, with those that passed the check of its   *)
(* seats, than max_users - 1 and the requests served at a time: join_room  *)
(* counts the rows some awaits before it inserts its own.                  *)
THEOREM RoomsOverbookedBoundedly == Spec => []OverbookingBounded
<1>1. SeatInv => OverbookingBounded
  BY DEF SeatInv
<1> QED
  BY <1>1, SeatInit, SeatStep, TypedStoreInit, TypedStoreStep, PTL DEF Spec

(* A slot of a room is shared by no more rows than requests are served at  *)
(* a time, counting those that selected it and have not inserted yet: a    *)
(* check that found a seat found a slot that nobody had.                   *)
THEOREM SlotsSharedBoundedly == Spec => []SlotSharingBounded
<1>1. SeatInv => SlotSharingBounded
  BY DEF SeatInv
<1> QED
  BY <1>1, SeatInit, SeatStep, TypedStoreInit, TypedStoreStep, PTL DEF Spec

=============================================================================
