--------------------------- MODULE LobbyTypeProofs ---------------------------
(***************************************************************************)
(* The types and the foreign key of the lobby, for any number of users,    *)
(* rooms, games and tasks: the inductive invariant of all other proofs.    *)
(***************************************************************************)
EXTENDS LobbyProperties, TLAPS

USE StoreAssumption DEF People, Slots, RoomNumbers

-----------------------------------------------------------------------------
(* Tables: what INSERT and DELETE do to a typed table.                     *)

LEMMA RoomsInsert ==
  ASSUME StoreTypeOK, NEW r \in RoomIds, NEW row \in Room,
         rooms' = Insert(rooms, r, row)
  PROVE  /\ DOMAIN rooms' \subseteq RoomIds
         /\ rooms' \in [DOMAIN rooms' -> Room]
  BY DEF StoreTypeOK, Insert

LEMMA RoomsDelete ==
  ASSUME StoreTypeOK, NEW gone, rooms' = Delete(rooms, gone)
  PROVE  /\ DOMAIN rooms' \subseteq RoomIds
         /\ rooms' \in [DOMAIN rooms' -> Room]
  BY DEF StoreTypeOK, Delete

LEMMA RowsInsert ==
  ASSUME StoreTypeOK, NEW id \in RowIds, NEW r \in RoomIds, NEW s \in Slots,
         NEW bot \in BOOLEAN, InsertRow(id, r, s, bot)
  PROVE  /\ DOMAIN roomUsers' \subseteq RowIds
         /\ roomUsers' \in [DOMAIN roomUsers' -> RoomUser]
<1>1. [room |-> r, slot |-> s, ready |-> bot, bot |-> bot] \in RoomUser
  BY DEF RoomUser
<1> QED
  BY <1>1 DEF StoreTypeOK, InsertRow, Insert

LEMMA RowsDelete ==
  ASSUME StoreTypeOK, NEW gone, roomUsers' = Delete(roomUsers, gone)
  PROVE  /\ DOMAIN roomUsers' \subseteq RowIds
         /\ roomUsers' \in [DOMAIN roomUsers' -> RoomUser]
  BY DEF StoreTypeOK, Delete

(* Tasks: an idle task is a task, and so is what a step makes of one.      *)

LEMMA IdleIsTask == Idle \in Task
  BY DEF Idle, Task, PCs, Callers

LEMMA BecomeTyped ==
  ASSUME TaskTypeOK, NEW t \in Tasks, NEW record \in Task, Become(t, record)
  PROVE  TaskTypeOK'
  BY DEF TaskTypeOK, Become

LEMMA GotoTyped ==
  ASSUME TaskTypeOK, NEW t \in Tasks, NEW pc \in PCs, Goto(t, pc)
  PROVE  TaskTypeOK'
<1>1. [task[t] EXCEPT !.pc = pc] \in Task
  BY DEF TaskTypeOK, Task
<1> QED
  BY <1>1 DEF TaskTypeOK, Goto, Become

LEMMA FinishTyped ==
  ASSUME TaskTypeOK, NEW t \in Tasks, Finish(t)
  PROVE  TaskTypeOK'
  BY IdleIsTask, BecomeTyped DEF Finish

LEMMA ReturnedIsTask ==
  ASSUME NEW k \in Task, NEW next \in {"ws_tell", "ws_drop"}
  PROVE  Returned(k, next) \in Task /\ Raised(k) \in Task
<1>1. [k EXCEPT !.row = Nothing, !.heir = Nothing] \in Task
  BY DEF Task
<1>2. ASSUME NEW m \in Task, NEW pc \in PCs
      PROVE  [m EXCEPT !.pc = pc] \in Task
  BY DEF Task
<1>3. {"join_check", "ws_tell", "ws_drop"} \subseteq PCs
  BY DEF PCs
<1> QED
  BY <1>1, <1>2, <1>3, IdleIsTask DEF Returned, Raised

LEMMA DisconnectedIsTask ==
  ASSUME NEW k \in Task PROVE Disconnected(k) \in Task
<1>1. "leave_check" \in PCs /\ "handle_disconnection" \in Callers
  BY DEF PCs, Callers
<1>2. [k EXCEPT !.pc = "leave_check"] \in Task
  BY <1>1 DEF Task
<1>3. [k EXCEPT !.pc = "leave_check", !.only = TRUE] \in Task
  BY <1>2 DEF Task
<1>4. [k EXCEPT !.pc = "leave_check", !.only = TRUE,
                !.back = "handle_disconnection"] \in Task
  BY <1>1, <1>3 DEF Task
<1> QED
  BY <1>4 DEF Disconnected

LEMMA CopyTyped ==
  ASSUME StoreTypeOK, NEW r \in DOMAIN rooms
  PROVE  CopyOf(r) \in Copy
  BY DEF StoreTypeOK, CopyOf, Copy, Room

-----------------------------------------------------------------------------
(* Every step keeps the types.  The lemmas follow the parts of the lobby:  *)
(* requests, the steps of RoomService, those of the socket, the cleanup.   *)

Typed == StoreTypeOK /\ ActiveTypeOK /\ TaskTypeOK

LEMMA SameStoreTyped ==
  ASSUME Typed, UNCHANGED <<rooms, roomUsers>> PROVE StoreTypeOK'
  BY DEF Typed, StoreTypeOK

LEMMA RequestsTyped ==
  ASSUME Typed, NEW t \in Tasks, Request(t)
  PROVE  Typed'
<1> USE DEF Typed
<1>1. CASE \E u \in Users : CreateRoom(t, u)
  <2>1. PICK u \in Users, n \in RoomNumbers :
          Become(t, [Idle EXCEPT !.pc = "create_insert", !.user = u,
                                 !.number = n])
    BY <1>1 DEF CreateRoom
  <2>2. [Idle EXCEPT !.pc = "create_insert", !.user = u, !.number = n]
          \in Task
    BY IdleIsTask DEF Task, PCs
  <2>3. TaskTypeOK'
    BY <2>1, <2>2, BecomeTyped
  <2> QED
    BY <1>1, <2>3, SameStoreTyped DEF CreateRoom, ActiveTypeOK
<1>2. CASE \E u \in Users, r \in RoomIds : Join(t, u, r)
  <2>1. PICK u \in Users, r \in RoomIds : Join(t, u, r)
    BY <1>2
  <2>2. [Idle EXCEPT !.pc = "join_own", !.user = u, !.dest = r,
                     !.seen[r] = CopyOf(r)] \in Task
    BY <2>1, IdleIsTask, CopyTyped DEF Task, PCs, Join, RoomExists
  <2>3. TaskTypeOK'
    BY <2>1, <2>2, BecomeTyped DEF Join
  <2> QED
    BY <2>1, <2>3, SameStoreTyped DEF Join, ActiveTypeOK
<1>3. CASE \E u \in Users, r \in RoomIds : Leave(t, u, r)
  <2>1. PICK u \in Users, r \in RoomIds : Leave(t, u, r)
    BY <1>3
  <2>2. [Idle EXCEPT !.pc = "leave_check", !.user = u, !.room = r,
                     !.seen[r] = CopyOf(r)] \in Task
    BY <2>1, IdleIsTask, CopyTyped DEF Task, PCs, Leave, RoomExists
  <2>3. TaskTypeOK'
    BY <2>1, <2>2, BecomeTyped DEF Leave
  <2> QED
    BY <2>1, <2>3, SameStoreTyped DEF Leave, ActiveTypeOK
<1>4. CASE \E u \in Users, r \in RoomIds : Start(t, u, r)
  <2>1. PICK u \in Users, r \in RoomIds : Start(t, u, r)
    BY <1>4
  <2>2. [Idle EXCEPT !.pc = "start_check", !.user = u, !.room = r,
                     !.seen[r] = CopyOf(r)] \in Task
    BY <2>1, IdleIsTask, CopyTyped DEF Task, PCs, Start, RoomExists
  <2>3. TaskTypeOK'
    BY <2>1, <2>2, BecomeTyped DEF Start
  <2> QED
    BY <2>1, <2>3, SameStoreTyped DEF Start, ActiveTypeOK
<1>5. CASE \E r \in RoomIds : End(t, r)
  <2>1. PICK r \in RoomIds : End(t, r)
    BY <1>5
  <2>2. RowsOf(r) \subseteq RowIds
    BY DEF RowsOf, StoreTypeOK
  <2>3. [Idle EXCEPT !.pc = "end_commit", !.room = r, !.rest = RowsOf(r)]
          \in Task
    BY <2>2, IdleIsTask DEF Task, PCs
  <2>4. TaskTypeOK'
    BY <2>1, <2>3, BecomeTyped DEF End
  <2> QED
    BY <2>1, <2>4, SameStoreTyped DEF End, ActiveTypeOK
<1>6. CASE \E u \in Users, r \in RoomIds : Open(t, u, r)
  <2>1. PICK u \in Users, r \in RoomIds : Open(t, u, r)
    BY <1>6
  <2>2. PICK id \in OwnRowsIn(u, r) :
          Become(t, [Idle EXCEPT !.pc = "ws_accept", !.user = u, !.room = r,
                                 !.seen[r] = CopyOf(r), !.mine = id,
                                 !.ready = roomUsers[id].ready])
    BY <2>1 DEF Open
  <2>3. id \in RowIds /\ roomUsers[id].ready \in BOOLEAN
    BY <2>2 DEF OwnRowsIn, RowsOf, StoreTypeOK, RoomUser
  <2>4. [Idle EXCEPT !.pc = "ws_accept", !.user = u, !.room = r,
                     !.seen[r] = CopyOf(r), !.mine = id,
                     !.ready = roomUsers[id].ready] \in Task
    BY <2>1, <2>3, IdleIsTask, CopyTyped DEF Task, PCs, Open, RoomExists
  <2>5. TaskTypeOK'
    BY <2>2, <2>4, BecomeTyped
  <2> QED
    BY <2>1, <2>5, SameStoreTyped DEF Open, ActiveTypeOK
<1>7. ASSUME NEW flag \in BOOLEAN, Ready(t, flag) PROVE Typed'
  <2>1. task[t] \in Task
    BY DEF TaskTypeOK
  <2>2. CASE OwnRowsIn(task[t].user, task[t].room) = {} /\ Finish(t)
    BY <2>2, <1>7, FinishTyped, SameStoreTyped DEF Ready, ActiveTypeOK
  <2>5. ASSUME NEW k \in Task, NEW id \in RowIds, NEW f \in BOOLEAN
        PROVE  /\ [k EXCEPT !.pc = "ready_write", !.row = id, !.want = f]
                    \in Task
               /\ [k EXCEPT !.ready = f] \in Task
    <3>1. "ready_write" \in PCs
      BY DEF PCs
    <3>2. [k EXCEPT !.pc = "ready_write", !.row = id] \in Task
      BY <3>1 DEF Task
    <3>3. [k EXCEPT !.pc = "ready_write", !.row = id, !.want = f] \in Task
      BY <3>2 DEF Task
    <3>4. [k EXCEPT !.ready = f] \in Task
      BY DEF Task
    <3> QED
      BY <3>3, <3>4
  <2>3. ASSUME NEW id \in OwnRowsIn(task[t].user, task[t].room)
        PROVE  /\ [task[t] EXCEPT !.pc = "ready_write", !.row = id,
                                  !.want = flag] \in Task
               /\ [task[t] EXCEPT !.ready = roomUsers[id].ready] \in Task
               /\ [task[t] EXCEPT !.ready = task[t].ready] \in Task
    <3>1. id \in RowIds /\ roomUsers[id].ready \in BOOLEAN
      BY DEF OwnRowsIn, RowsOf, StoreTypeOK, RoomUser
    <3>2. task[t].ready \in BOOLEAN
      BY <2>1 DEF Task
    <3> QED
      BY <2>1, <2>5, <3>1, <3>2
  <2>4. TaskTypeOK'
    <3>1. CASE OwnRowsIn(task[t].user, task[t].room) # {}
      <4>1. PICK id \in OwnRowsIn(task[t].user, task[t].room) :
              \/ Become(t, [task[t] EXCEPT !.pc = "ready_write", !.row = id,
                                           !.want = flag])
              \/ Become(t, [task[t] EXCEPT !.ready = roomUsers[id].ready])
              \/ Become(t, [task[t] EXCEPT !.ready = task[t].ready])
        BY <3>1, <1>7 DEF Ready
      <4> QED
        BY <4>1, <2>3, BecomeTyped
    <3>2. CASE OwnRowsIn(task[t].user, task[t].room) = {}
      BY <3>2, <1>7, FinishTyped DEF Ready
    <3> QED
      BY <3>1, <3>2
  <2> QED
    BY <2>4, <1>7, SameStoreTyped DEF Ready, ActiveTypeOK
<1>8. CASE \E s \in Slots : AddBot(t, s)
  <2>1. PICK s \in Slots : AddBot(t, s)
    BY <1>8
  <2>4. ASSUME NEW k \in Task
        PROVE  [k EXCEPT !.pc = "bot_insert", !.slot = s] \in Task
    <3>1. "bot_insert" \in PCs
      BY DEF PCs
    <3> QED
      BY <3>1 DEF Task
  <2>2. [task[t] EXCEPT !.pc = "bot_insert", !.slot = s] \in Task
    BY <2>4 DEF TaskTypeOK
  <2>3. TaskTypeOK'
    BY <2>1, <2>2, BecomeTyped DEF AddBot
  <2> QED
    BY <2>1, <2>3, SameStoreTyped DEF AddBot, ActiveTypeOK
<1>9. CASE LeaveMessage(t)
  <2>1. [task[t] EXCEPT !.pc = "leave_check", !.back = "handle_leave"]
          \in Task
    <3>1. ASSUME NEW k \in Task
          PROVE  [k EXCEPT !.pc = "leave_check", !.back = "handle_leave"]
                    \in Task
      <4>1. "leave_check" \in PCs /\ "handle_leave" \in Callers
        BY DEF PCs, Callers
      <4> QED
        BY <4>1 DEF Task
    <3> QED
      BY <3>1 DEF TaskTypeOK
  <2>2. TaskTypeOK'
    BY <1>9, <2>1, BecomeTyped DEF LeaveMessage
  <2> QED
    BY <1>9, <2>2, SameStoreTyped DEF LeaveMessage, ActiveTypeOK
<1>10. CASE ClientGone(t)
  <2>1. Disconnected(task[t]) \in Task
    BY DisconnectedIsTask DEF TaskTypeOK
  <2>2. TaskTypeOK'
    BY <1>10, <2>1, BecomeTyped DEF ClientGone
  <2> QED
    BY <1>10, <2>2, SameStoreTyped DEF ClientGone, ActiveTypeOK
<1> QED
  BY <1>1, <1>2, <1>3, <1>4, <1>5, <1>6, <1>7, <1>8, <1>9, <1>10 DEF Request

(* The steps that change only their task.                                  *)

LEMMA LookingTyped ==
  ASSUME Typed, RowsHaveRooms, NEW t \in Tasks,
         \/ CreateFails(t) \/ JoinOwn(t) \/ JoinCheck(t) \/ JoinAgain(t)
         \/ JoinFails(t) \/ LeaveCheck(t) \/ LeaveRest(t) \/ StartCheck(t)
         \/ StartCallFails(t) \/ BotFails(t)
  PROVE  Typed'
<1> USE DEF Typed
<1> DEFINE k == task[t]
<1>0. k \in Task
  BY DEF TaskTypeOK
<1>1. CASE CreateFails(t) \/ JoinFails(t) \/ StartCallFails(t) \/ BotFails(t)
  <2>1. [k EXCEPT !.pc = "ws_open", !.slot = 0] \in Task
    <3>1. "ws_open" \in PCs /\ 0 \in Slots
      BY DEF PCs
    <3> HIDE DEF k
    <3> QED
      BY <1>0, <3>1 DEF Task
  <2> QED
    BY <1>1, <2>1, FinishTyped, BecomeTyped, SameStoreTyped
       DEF CreateFails, JoinFails, StartCallFails, BotFails, ActiveTypeOK
<1>2. CASE JoinOwn(t)
  <2>1. CASE Goto(t, "join_check")
    <3>1. "join_check" \in PCs
      BY DEF PCs
    <3>2. TaskTypeOK'
      BY <2>1, <3>1, GotoTyped
    <3> QED
      BY <1>2, <3>2, SameStoreTyped DEF JoinOwn, ActiveTypeOK
  <2>2. CASE \E id \in RowsOfUser(k.user) :
               Become(t, [k EXCEPT !.pc = "leave_check",
                                   !.room = roomUsers[id].room,
                                   !.seen = Load(t, roomUsers[id].room),
                                   !.back = "join"])
    <3>1. PICK id \in RowsOfUser(k.user) :
            Become(t, [k EXCEPT !.pc = "leave_check",
                                !.room = roomUsers[id].room,
                                !.seen = Load(t, roomUsers[id].room),
                                !.back = "join"])
      BY <2>2
    <3>2. roomUsers[id].room \in RoomIds
      BY DEF RowsOfUser, StoreTypeOK, RoomUser
    <3>3. [k EXCEPT !.pc = "leave_check", !.room = roomUsers[id].room,
                    !.seen = Load(t, roomUsers[id].room), !.back = "join"]
            \in Task
      <4> DEFINE r == roomUsers[id].room
                 seen == Load(t, r)
      <4>1. CopyOf(r) \in Copy
        BY CopyTyped DEF RowsHaveRooms, RoomExists, RowsOfUser
      <4>2. k.seen \in [RoomIds -> Copy \cup {Nothing}]
        BY <1>0 DEF Task
      <4>3. seen \in [RoomIds -> Copy \cup {Nothing}]
        BY <4>1, <4>2 DEF Load
      <4>4. "leave_check" \in PCs /\ "join" \in Callers
        BY DEF PCs, Callers
      <4>5. r \in RoomIds
        BY <3>2
      <4> HIDE DEF k, r, seen
      <4>6. [k EXCEPT !.pc = "leave_check"] \in Task
        BY <1>0, <4>4 DEF Task
      <4>7. [k EXCEPT !.pc = "leave_check", !.room = r] \in Task
        BY <4>6, <4>5 DEF Task
      <4>8. [k EXCEPT !.pc = "leave_check", !.room = r, !.seen = seen]
              \in Task
        BY <4>7, <4>3 DEF Task
      <4>9. [k EXCEPT !.pc = "leave_check", !.room = r, !.seen = seen,
                      !.back = "join"] \in Task
        BY <4>8, <4>4 DEF Task
      <4> QED
        BY <4>9 DEF r, seen
    <3>4. TaskTypeOK'
      BY <3>1, <3>3, BecomeTyped
    <3> QED
      BY <1>2, <3>4, SameStoreTyped DEF JoinOwn, ActiveTypeOK
  <2> QED
    BY <1>2, <2>1, <2>2 DEF JoinOwn
<1>3. CASE JoinCheck(t)
  <2>1. \A s \in NewSlots(k.dest) : s \in Slots
    BY DEF NewSlots, LeastOf, FreeSlots
  <2>2. ASSUME NEW s \in Slots
        PROVE  [k EXCEPT !.pc = "join_again", !.slot = s] \in Task
    <3>1. "join_again" \in PCs
      BY DEF PCs
    <3> HIDE DEF k
    <3> QED
      BY <1>0, <3>1 DEF Task
  <2>3. TaskTypeOK'
    <3>1. CASE Finish(t)
      BY <3>1, FinishTyped
    <3>2. CASE \E s \in NewSlots(k.dest) :
                 Become(t, [k EXCEPT !.pc = "join_again", !.slot = s])
      BY <3>2, <2>1, <2>2, BecomeTyped
    <3> QED
      BY <1>3, <3>1, <3>2 DEF JoinCheck
  <2> QED
    BY <1>3, <2>3, SameStoreTyped DEF JoinCheck, ActiveTypeOK
<1>4. CASE JoinAgain(t)
  <2>1. "join_insert" \in PCs
    BY DEF PCs
  <2>2. TaskTypeOK'
    BY <1>4, <2>1, GotoTyped, FinishTyped DEF JoinAgain
  <2> QED
    BY <1>4, <2>2, SameStoreTyped DEF JoinAgain, ActiveTypeOK
<1>5. CASE LeaveCheck(t)
  <2>1. ASSUME NEW id \in OwnRowsIn(k.user, k.room), NEW pc \in PCs
        PROVE  [k EXCEPT !.row = id, !.pc = pc] \in Task
    <3>1. id \in RowIds
      BY DEF OwnRowsIn, RowsOf, StoreTypeOK
    <3> HIDE DEF k
    <3> QED
      BY <1>0, <3>1 DEF Task
  <2>2. {"leave_rest", "leave_delete"} \subseteq PCs
    BY DEF PCs
  <2>3. TaskTypeOK'
    <3>1. CASE Become(t, Raised(k))
      BY <3>1, <1>0, ReturnedIsTask, BecomeTyped
    <3>2. CASE \E id \in OwnRowsIn(k.user, k.room) : \E pc \in PCs :
                 Become(t, [k EXCEPT !.row = id, !.pc = pc])
      BY <3>2, <2>1, BecomeTyped
    <3> QED
      BY <1>5, <2>2, <3>1, <3>2 DEF LeaveCheck
  <2> QED
    BY <1>5, <2>3, SameStoreTyped DEF LeaveCheck, ActiveTypeOK
<1>6. CASE LeaveRest(t)
  <2> DEFINE rest == RowsOf(k.room)
  <2>1. rest \subseteq RowIds
    BY DEF RowsOf, StoreTypeOK
  <2>2. {"leave_bots", "leave_host", "leave_drop"} \subseteq PCs
    BY DEF PCs
  <2>3. [k EXCEPT !.pc = "leave_bots", !.row = Nothing, !.rest = rest]
          \in Task
    <3> HIDE DEF k, rest
    <3>1. [k EXCEPT !.pc = "leave_bots"] \in Task
      BY <1>0, <2>2 DEF Task
    <3>2. [k EXCEPT !.pc = "leave_bots", !.row = Nothing] \in Task
      BY <3>1 DEF Task
    <3> QED
      BY <3>2, <2>1 DEF Task
  <2>4. ASSUME NEW id \in rest
        PROVE  [k EXCEPT !.pc = "leave_host", !.row = Nothing,
                         !.heir = Owner(id)] \in Task
    <3>1. Owner(id) \in People
      BY <2>1 DEF Owner, RowIds
    <3> HIDE DEF k, rest
    <3>2. [k EXCEPT !.pc = "leave_host"] \in Task
      BY <1>0, <2>2 DEF Task
    <3>3. [k EXCEPT !.pc = "leave_host", !.row = Nothing] \in Task
      BY <3>2 DEF Task
    <3> QED
      BY <3>3, <3>1 DEF Task
  <2>5. TaskTypeOK'
    <3>1. CASE Become(t, [k EXCEPT !.pc = "leave_bots", !.row = Nothing,
                                   !.rest = rest])
      BY <3>1, <2>3, BecomeTyped
    <3>2. CASE \E id \in rest :
                 Become(t, [k EXCEPT !.pc = "leave_host", !.row = Nothing,
                                     !.heir = Owner(id)])
      BY <3>2, <2>4, BecomeTyped
    <3>3. CASE Become(t, Returned(k, "ws_tell"))
      BY <3>3, <1>0, ReturnedIsTask, BecomeTyped
    <3>4. CASE Goto(t, "leave_drop")
      BY <3>4, <2>2, GotoTyped
    <3> QED
      BY <1>6, <3>1, <3>2, <3>3, <3>4 DEF LeaveRest, InLowestSlot
  <2> QED
    BY <1>6, <2>5, SameStoreTyped DEF LeaveRest, ActiveTypeOK
<1>7. CASE StartCheck(t)
  <2>1. "start_call" \in PCs
    BY DEF PCs
  <2>2. TaskTypeOK'
    BY <1>7, <2>1, GotoTyped, FinishTyped DEF StartCheck
  <2> QED
    BY <1>7, <2>2, SameStoreTyped DEF StartCheck, ActiveTypeOK
<1> QED
  BY <1>1, <1>2, <1>3, <1>4, <1>5, <1>6, <1>7

-----------------------------------------------------------------------------
(* The steps that write to a table or to the registry.                     *)

LEMMA InsertTyped ==
  ASSUME Typed, TasksEquipped, NEW t \in Tasks, KeyedStep(t)
  PROVE  Typed'
<1> USE DEF Typed
<1> DEFINE k == task[t]
<1>0. k \in Task /\ Equipped(k)
  BY DEF TaskTypeOK, TasksEquipped
<1>1. ASSUME NEW u \in People, NEW id \in NewRows(u) PROVE id \in RowIds
  BY DEF NewRows, LeastOf, RowIds
<1>2. ASSUME NEW r \in NewRooms, NEW id \in NewRows(k.user),
             CreateInsert(t, r, id)
      PROVE  Typed'
  <2>1. k.user \in Users /\ k.number \in RoomNumbers
    BY <1>0, <1>2 DEF CreateInsert, At, Equipped
  <2>2. r \in RoomIds /\ id \in RowIds
    BY <1>1, <2>1 DEF NewRooms, LeastOf
  <2>3. [number |-> k.number, host |-> k.user, playing |-> FALSE,
         game |-> Nothing] \in Room
    BY <2>1 DEF Room
  <2>4. StoreTypeOK'
    <3>1. /\ DOMAIN rooms' \subseteq RoomIds
          /\ rooms' \in [DOMAIN rooms' -> Room]
      BY <1>2, <2>2, <2>3, RoomsInsert DEF CreateInsert
    <3>2. 0 \in Slots
      OBVIOUS
    <3>3. /\ DOMAIN roomUsers' \subseteq RowIds
          /\ roomUsers' \in [DOMAIN roomUsers' -> RoomUser]
      BY <1>2, <2>2, <3>2, RowsInsert DEF CreateInsert
    <3> QED
      BY <3>1, <3>3 DEF StoreTypeOK
  <2> QED
    BY <1>2, <2>4, FinishTyped DEF CreateInsert, ActiveTypeOK
<1>3. ASSUME NEW id \in NewRows(k.user), JoinInsert(t, id)
      PROVE  Typed'
  <2>1. k.user \in Users /\ k.slot \in Slots
    BY <1>0, <1>3 DEF JoinInsert, At, Equipped, Task
  <2>2. k.dest \in RoomIds
    BY <1>3 DEF JoinInsert, CanInsertRow, ParentExists, RoomExists, StoreTypeOK
  <2>3. id \in RowIds
    BY <1>1, <2>1
  <2>4. /\ DOMAIN roomUsers' \subseteq RowIds
        /\ roomUsers' \in [DOMAIN roomUsers' -> RoomUser]
    BY <1>3, <2>1, <2>2, <2>3, RowsInsert DEF JoinInsert
  <2> QED
    BY <1>3, <2>4, FinishTyped DEF JoinInsert, StoreTypeOK, ActiveTypeOK
<1>4. ASSUME NEW b \in NewBots, NEW id \in NewRows(b), BotInsert(t, id)
      PROVE  Typed'
  <2>1. k.slot \in Slots
    BY <1>0 DEF Task
  <2>2. k.room \in RoomIds
    BY <1>4 DEF BotInsert, CanInsertRow, ParentExists, RoomExists, StoreTypeOK
  <2>3. id \in RowIds
    BY <1>1 DEF NewBots, LeastOf
  <2>4. /\ DOMAIN roomUsers' \subseteq RowIds
        /\ roomUsers' \in [DOMAIN roomUsers' -> RoomUser]
    BY <1>4, <2>1, <2>2, <2>3, RowsInsert DEF BotInsert
  <2>5. [k EXCEPT !.pc = "ws_open", !.slot = 0] \in Task
    <3>1. "ws_open" \in PCs /\ 0 \in Slots
      BY DEF PCs
    <3> HIDE DEF k
    <3> QED
      BY <1>0, <3>1 DEF Task
  <2>6. TaskTypeOK'
    BY <1>4, <2>5, BecomeTyped DEF BotInsert
  <2> QED
    BY <1>4, <2>4, <2>6 DEF BotInsert, StoreTypeOK, ActiveTypeOK
<1>5. ASSUME NEW g \in NewGames, StartCall(t, g) PROVE Typed'
  <2>1. g \in Games /\ "start_commit" \in PCs
    BY DEF NewGames, LeastOf, PCs
  <2>2. [k EXCEPT !.pc = "start_commit", !.game = g] \in Task
    <3> HIDE DEF k
    <3> QED
      BY <1>0, <2>1 DEF Task
  <2>3. TaskTypeOK'
    BY <1>5, <2>2, BecomeTyped DEF StartCall
  <2> QED
    BY <1>5, <2>3, SameStoreTyped DEF StartCall, ActiveTypeOK
<1> QED
  BY <1>2, <1>3, <1>4, <1>5 DEF KeyedStep

LEMMA WritingTyped ==
  ASSUME Typed, TasksEquipped, NEW t \in Tasks,
         \/ LeaveDelete(t) \/ LeaveBots(t) \/ LeaveHost(t) \/ LeaveDrop(t)
         \/ StartCommit(t) \/ EndCommit(t)
         \/ Accept(t) \/ ReadyWrite(t) \/ Tell(t) \/ TellFails(t) \/ Drop(t)
  PROVE  Typed'
<1> USE DEF Typed
<1> DEFINE k == task[t]
<1>0. k \in Task /\ Equipped(k)
  BY DEF TaskTypeOK, TasksEquipped
<1>pc. {"leave_rest", "leave_drop", "ws_open", "ws_drop"} \subseteq PCs
  BY DEF PCs
<1>1. CASE LeaveDelete(t)
  BY <1>1, <1>pc, RowsDelete, GotoTyped
     DEF LeaveDelete, StoreTypeOK, ActiveTypeOK
<1>2. CASE LeaveBots(t)
  <2>1. [k EXCEPT !.pc = "leave_drop", !.rest = {}] \in Task
    <3> HIDE DEF k
    <3> QED
      BY <1>0, <1>pc DEF Task
  <2>2. TaskTypeOK'
    BY <1>2, <2>1, BecomeTyped DEF LeaveBots
  <2> QED
    BY <1>2, <2>2, RowsDelete DEF LeaveBots, StoreTypeOK, ActiveTypeOK
<1>3. CASE LeaveHost(t)
  <2> DEFINE r == k.room
             copy == [host |-> HandedOver(t)[r].host,
                      playing |-> HandedOver(t)[r].playing]
  <2>1. CASE ~ RoomExists(r)
    BY <1>3, <2>1, FinishTyped, SameStoreTyped DEF LeaveHost, ActiveTypeOK
  <2>2. CASE RoomExists(r)
    <3>1. r \in RoomIds /\ rooms[r] \in Room /\ k.heir \in People
      BY <1>0, <1>3, <2>2 DEF LeaveHost, At, Equipped, RoomExists, StoreTypeOK
    <3>2. /\ DOMAIN HandedOver(t) = DOMAIN rooms
          /\ HandedOver(t) \in [DOMAIN rooms -> Room]
      BY <3>1, <2>2 DEF HandedOver, RoomExists, StoreTypeOK, Room
    <3>3. HandedOver(t)[r] \in Room
      BY <3>2, <2>2 DEF RoomExists
    <3>4. copy \in Copy
      BY <3>3 DEF Copy, Room
    <3>5. [k EXCEPT !.seen[r] = copy] \in Task
      <4>1. [k.seen EXCEPT ![r] = copy] \in [RoomIds -> Copy \cup {Nothing}]
        BY <1>0, <3>1, <3>4 DEF Task
      <4> HIDE DEF k, r, copy
      <4> QED
        BY <1>0, <4>1 DEF Task
    <3>6. TaskTypeOK'
      BY <1>3, <2>2, <3>5, ReturnedIsTask, BecomeTyped DEF LeaveHost
    <3> QED
      BY <1>3, <2>2, <3>2, <3>6 DEF LeaveHost, StoreTypeOK, ActiveTypeOK
  <2> QED
    BY <2>1, <2>2
<1>4. CASE LeaveDrop(t)
  <2>1. TaskTypeOK'
    BY <1>4, <1>0, ReturnedIsTask, BecomeTyped, FinishTyped DEF LeaveDrop
  <2> QED
    BY <1>4, <2>1, RoomsDelete DEF LeaveDrop, StoreTypeOK, ActiveTypeOK
<1>5. CASE StartCommit(t)
  <2>1. CASE ~ RoomExists(k.room)
    BY <1>5, <2>1, FinishTyped, SameStoreTyped DEF StartCommit, ActiveTypeOK
  <2>2. CASE RoomExists(k.room)
    <3>1. k.game \in Games \cup {Nothing}
      BY <1>0 DEF Task
    <3>2. [rooms[k.room] EXCEPT !.playing = TRUE, !.game = k.game] \in Room
      BY <2>2, <3>1 DEF RoomExists, StoreTypeOK, Room
    <3>3. rooms' = [rooms EXCEPT ![k.room] = [rooms[k.room] EXCEPT
                                 !.playing = TRUE, !.game = k.game]]
      BY <1>5, <2>2 DEF StartCommit
    <3>4. /\ DOMAIN rooms' = DOMAIN rooms
          /\ rooms' \in [DOMAIN rooms -> Room]
      <4> HIDE DEF k
      <4> QED
        BY <2>2, <3>2, <3>3 DEF RoomExists, StoreTypeOK
    <3> QED
      BY <1>5, <3>4, FinishTyped DEF StartCommit, StoreTypeOK, ActiveTypeOK
  <2> QED
    BY <2>1, <2>2
<1>6. CASE EndCommit(t)
  <2>1. CASE UNCHANGED <<rooms, roomUsers>>
    BY <1>6, <2>1, FinishTyped, SameStoreTyped DEF EndCommit, ActiveTypeOK
  <2>2. CASE /\ rooms' = Delete(rooms, {k.room})
             /\ roomUsers' = Delete(roomUsers, k.rest)
    BY <1>6, <2>2, FinishTyped, RoomsDelete, RowsDelete
       DEF EndCommit, StoreTypeOK, ActiveTypeOK
  <2> QED
    BY <1>6, <2>1, <2>2 DEF EndCommit, RoomEnded
<1>7. CASE Accept(t)
  <2>1. k.user \in Users /\ k.room \in RoomIds
    BY <1>0, <1>7 DEF Accept, At, Equipped
  <2>2. ActiveTypeOK'
    BY <1>7, <2>1 DEF Accept, Connect, ActiveTypeOK
  <2> QED
    BY <1>7, <1>pc, <2>2, GotoTyped, SameStoreTyped DEF Accept
<1>8. CASE ReadyWrite(t)
  <2>1. CASE ~ RowExists(k.row)
    BY <1>8, <2>1, FinishTyped, SameStoreTyped DEF ReadyWrite, ActiveTypeOK
  <2>2. CASE RowExists(k.row)
    <3>1. k.want \in BOOLEAN /\ k.ready \in BOOLEAN
      BY <1>0 DEF Task
    <3>2. /\ DOMAIN roomUsers' = DOMAIN roomUsers
          /\ roomUsers' \in [DOMAIN roomUsers -> RoomUser]
      BY <1>8, <2>2, <3>1 DEF ReadyWrite, RowExists, StoreTypeOK, RoomUser
    <3>3. ASSUME NEW f \in BOOLEAN
          PROVE  [k EXCEPT !.pc = "ws_open", !.row = Nothing,
                           !.want = FALSE, !.ready = f] \in Task
      <4> HIDE DEF k
      <4>1. [k EXCEPT !.pc = "ws_open"] \in Task
        BY <1>0, <1>pc DEF Task
      <4>2. [k EXCEPT !.pc = "ws_open", !.row = Nothing] \in Task
        BY <4>1 DEF Task
      <4>3. [k EXCEPT !.pc = "ws_open", !.row = Nothing, !.want = FALSE]
              \in Task
        BY <4>2 DEF Task
      <4> QED
        BY <4>3 DEF Task
    <3>4. TaskTypeOK'
      BY <1>8, <2>2, <3>1, <3>3, BecomeTyped DEF ReadyWrite
    <3> QED
      BY <1>8, <3>2, <3>4 DEF ReadyWrite, StoreTypeOK, ActiveTypeOK
  <2> QED
    BY <2>1, <2>2
<1>9. CASE Tell(t) \/ TellFails(t) \/ Drop(t)
  <2>1. AfterLeave(t) \in Task
    BY <1>0, DisconnectedIsTask, IdleIsTask DEF AfterLeave
  <2>2. TaskTypeOK'
    BY <1>9, <1>pc, <2>1, GotoTyped, BecomeTyped DEF Tell, TellFails, Drop
  <2>3. ActiveTypeOK'
    BY <1>9 DEF Tell, TellFails, Drop, Disconnect, ActiveTypeOK
  <2> QED
    BY <1>9, <2>2, <2>3, SameStoreTyped DEF Tell, TellFails, Drop
<1> QED
  BY <1>1, <1>2, <1>3, <1>4, <1>5, <1>6, <1>7, <1>8, <1>9

-----------------------------------------------------------------------------
(* A task has what it is about to write.                                   *)

LEMMA BecomeEquipped ==
  ASSUME TaskTypeOK, TasksEquipped, NEW t \in Tasks, NEW record,
         Equipped(record), Become(t, record)
  PROVE  TasksEquipped'
  BY DEF TaskTypeOK, TasksEquipped, Become

LEMMA IdleEquipped == Equipped(Idle)
  BY DEF Equipped, Idle

(* The awaits before which nothing but the caller must be known.           *)
Plain == PCs \ {"create_insert", "leave_host", "ws_accept"}

LEMMA PlainEquipped ==
  ASSUME NEW k, k.user \in Users, k.pc \in Plain PROVE Equipped(k)
  BY DEF Equipped, Plain

LEMMA ReturnedEquipped ==
  ASSUME NEW k \in Task, k.user \in Users, NEW next \in {"ws_tell", "ws_drop"}
  PROVE  Equipped(Returned(k, next)) /\ Equipped(Raised(k))
<1>1. {"join_check", "ws_tell", "ws_drop"} \subseteq Plain
  BY DEF Plain, PCs
<1>2. DOMAIN k = DOMAIN Idle
  BY DEF Task, Idle
<1>3. ASSUME NEW pc \in Plain PROVE Equipped([k EXCEPT !.pc = pc])
  BY PlainEquipped DEF Task
<1>4. ASSUME NEW pc \in Plain
      PROVE  Equipped([[k EXCEPT !.row = Nothing, !.heir = Nothing]
                          EXCEPT !.pc = pc])
  BY PlainEquipped DEF Task
<1> QED
  BY <1>1, <1>3, <1>4, IdleEquipped DEF Returned, Raised

LEMMA SeenReturnedEquipped ==
  ASSUME NEW k \in Task, k.user \in Users, NEW seen
  PROVE  Equipped(Returned([k EXCEPT !.seen = seen], "ws_tell"))
<1>1. {"join_check", "ws_tell", "ws_drop"} \subseteq Plain
  BY DEF Plain, PCs
<1> DEFINE m == [k EXCEPT !.seen = seen]
<1>2. ASSUME NEW pc \in Plain
      PROVE  Equipped([[m EXCEPT !.row = Nothing, !.heir = Nothing]
                          EXCEPT !.pc = pc])
  BY PlainEquipped DEF Task
<1> HIDE DEF m
<1>3. Equipped(Returned(m, "ws_tell"))
  BY <1>1, <1>2, IdleEquipped DEF Returned
<1> QED
  BY <1>3 DEF m

LEMMA GotoEquipped ==
  ASSUME TaskTypeOK, TasksEquipped, NEW t \in Tasks, NEW pc \in Plain,
         task[t].user \in Users, Goto(t, pc)
  PROVE  TasksEquipped'
<1>1. Equipped([task[t] EXCEPT !.pc = pc])
  BY PlainEquipped DEF TaskTypeOK, Task
<1> QED
  BY <1>1, BecomeEquipped DEF Goto

LEMMA RequestsEquipped ==
  ASSUME Typed, TasksEquipped, NEW t \in Tasks, Request(t)
  PROVE  TasksEquipped'
<1> USE DEF Typed
<1>0. task[t] \in Task
  BY DEF TaskTypeOK
<1>1. ASSUME NEW u \in Users, CreateRoom(t, u) PROVE TasksEquipped'
  <2>1. PICK n \in RoomNumbers :
          Become(t, [Idle EXCEPT !.pc = "create_insert", !.user = u,
                                 !.number = n])
    BY <1>1 DEF CreateRoom
  <2>2. Equipped([Idle EXCEPT !.pc = "create_insert", !.user = u,
                              !.number = n])
    BY DEF Idle, Equipped
  <2> QED
    BY <2>1, <2>2, BecomeEquipped
<1>2. ASSUME NEW u \in Users, NEW r \in RoomIds,
             Join(t, u, r) \/ Leave(t, u, r) \/ Start(t, u, r)
      PROVE  TasksEquipped'
  <2>1. /\ Equipped([Idle EXCEPT !.pc = "join_own", !.user = u,
                                 !.dest = r, !.seen[r] = CopyOf(r)])
        /\ Equipped([Idle EXCEPT !.pc = "leave_check", !.user = u,
                                 !.room = r, !.seen[r] = CopyOf(r)])
        /\ Equipped([Idle EXCEPT !.pc = "start_check", !.user = u,
                                 !.room = r, !.seen[r] = CopyOf(r)])
    BY DEF Idle, Equipped
  <2> QED
    BY <1>2, <2>1, BecomeEquipped DEF Join, Leave, Start
<1>3. ASSUME NEW r \in RoomIds, End(t, r) PROVE TasksEquipped'
  <2>1. Equipped([Idle EXCEPT !.pc = "end_commit", !.room = r,
                              !.rest = RowsOf(r)])
    BY DEF Idle, Equipped
  <2> QED
    BY <1>3, <2>1, BecomeEquipped DEF End
<1>4. ASSUME NEW u \in Users, NEW r \in RoomIds, Open(t, u, r)
      PROVE  TasksEquipped'
  <2>1. PICK id \in OwnRowsIn(u, r) :
          Become(t, [Idle EXCEPT !.pc = "ws_accept", !.user = u, !.room = r,
                                 !.seen[r] = CopyOf(r), !.mine = id,
                                 !.ready = roomUsers[id].ready])
    BY <1>4 DEF Open
  <2>2. Equipped([Idle EXCEPT !.pc = "ws_accept", !.user = u, !.room = r,
                              !.seen[r] = CopyOf(r), !.mine = id,
                              !.ready = roomUsers[id].ready])
    BY DEF Idle, Equipped
  <2> QED
    BY <2>1, <2>2, BecomeEquipped
<1>5. CASE At(t, "ws_open")
  <2>1. task[t].user \in Users
    BY <1>5 DEF At, TasksEquipped, Equipped
  <2>2. {"ws_open", "ready_write", "bot_insert", "leave_check"} \subseteq Plain
    BY DEF Plain, PCs
  <2>3. ASSUME NEW k \in Task, k.user \in Users, NEW id, NEW f, NEW s
        PROVE  /\ Equipped([k EXCEPT !.pc = "ready_write", !.row = id,
                                     !.want = f])
               /\ k.pc = "ws_open" => Equipped([k EXCEPT !.ready = f])
               /\ Equipped([k EXCEPT !.pc = "bot_insert", !.slot = s])
               /\ Equipped([k EXCEPT !.pc = "leave_check",
                                     !.back = "handle_leave"])
               /\ Equipped(Disconnected(k))
    BY <2>2, <2>3, PlainEquipped DEF Task, Disconnected
  <2>4. ASSUME NEW flag, Ready(t, flag) PROVE TasksEquipped'
    <3>1. CASE Finish(t)
      BY <3>1, IdleEquipped, BecomeEquipped DEF Finish
    <3>2. CASE \E id \in OwnRowsIn(task[t].user, task[t].room) :
            \/ Become(t, [task[t] EXCEPT !.pc = "ready_write", !.row = id,
                                         !.want = flag])
            \/ Become(t, [task[t] EXCEPT !.ready = roomUsers[id].ready])
            \/ Become(t, [task[t] EXCEPT !.ready = task[t].ready])
      BY <3>2, <1>0, <1>5, <2>1, <2>3, BecomeEquipped DEF At
    <3> QED
      BY <2>4, <3>1, <3>2 DEF Ready
  <2>5. ASSUME NEW s, AddBot(t, s) PROVE TasksEquipped'
    BY <2>5, <1>0, <2>1, <2>3, BecomeEquipped DEF AddBot
  <2>6. CASE LeaveMessage(t) \/ ClientGone(t)
    BY <2>6, <1>0, <2>1, <2>3, BecomeEquipped DEF LeaveMessage, ClientGone
  <2> QED
    BY <1>1, <1>2, <1>3, <1>4, <2>4, <2>5, <2>6 DEF Request
<1>6. CASE ~ At(t, "ws_open")
  BY <1>6, <1>1, <1>2, <1>3, <1>4
     DEF Request, Ready, AddBot, LeaveMessage, ClientGone
<1> QED
  BY <1>5, <1>6

LEMMA StepsEquipped ==
  ASSUME Typed, TasksEquipped, NEW t \in Tasks,
         ServiceStep(t) \/ SocketStep(t) \/ KeyedStep(t)
  PROVE  TasksEquipped'
<1> USE DEF Typed
<1> DEFINE k == task[t]
<1>0. k \in Task /\ Equipped(k)
  BY DEF TaskTypeOK, TasksEquipped
<1>f. ASSUME Finish(t) PROVE TasksEquipped'
  BY <1>f, IdleEquipped, BecomeEquipped DEF Finish
<1>g. ASSUME NEW pc \in Plain, Goto(t, pc), k.user \in Users
      PROVE  TasksEquipped'
  BY <1>g, GotoEquipped
<1>p. {"join_check", "join_again", "join_insert", "leave_check",
       "leave_delete", "leave_rest", "leave_bots", "leave_drop",
       "start_call", "start_commit", "ws_open", "ws_drop"} \subseteq Plain
  BY DEF Plain, PCs
<1>r. ASSUME NEW m \in Task, m.user \in Users,
             NEW next \in {"ws_tell", "ws_drop"},
             Become(t, Returned(m, next)) \/ Become(t, Raised(m))
                \/ Become(t, Idle) \/ Become(t, Disconnected(m))
      PROVE  TasksEquipped'
  <2>1. "leave_check" \in Plain
    BY <1>p
  <2>2. Equipped(Disconnected(m))
    BY <1>r, <2>1, PlainEquipped DEF Task, Disconnected
  <2> QED
    BY <1>r, <2>2, ReturnedEquipped, IdleEquipped, BecomeEquipped
<1>u. CASE ~ At(t, "idle") /\ ~ At(t, "end_commit")
  <2>0. k.user \in Users
    BY <1>u, <1>0 DEF Equipped, At
  <2>1. CASE CreateFails(t) \/ JoinFails(t) \/ StartCallFails(t)
               \/ StartCommit(t)
               \/ (\E r, id : CreateInsert(t, r, id))
               \/ (\E id : JoinInsert(t, id))
    BY <2>1, <1>f DEF CreateFails, JoinFails, StartCallFails, StartCommit,
                      CreateInsert, JoinInsert
  <2>2. CASE JoinAgain(t) \/ LeaveDelete(t) \/ StartCheck(t) \/ Accept(t)
               \/ Tell(t)
    BY <2>2, <2>0, <1>f, <1>g, <1>p
       DEF JoinAgain, LeaveDelete, StartCheck, Accept, Tell
  <2>3. CASE JoinOwn(t)
    <3>1. ASSUME NEW r, NEW seen
          PROVE  Equipped([k EXCEPT !.pc = "leave_check", !.room = r,
                                    !.seen = seen, !.back = "join"])
      <4> HIDE DEF k
      <4> QED
        BY <1>0, <2>0, <1>p, PlainEquipped DEF Task
    <3> QED
      BY <2>3, <2>0, <3>1, <1>g, <1>p, BecomeEquipped DEF JoinOwn
  <2>4. CASE JoinCheck(t)
    <3>1. ASSUME NEW s
          PROVE  Equipped([k EXCEPT !.pc = "join_again", !.slot = s])
      <4> HIDE DEF k
      <4> QED
        BY <1>0, <2>0, <1>p, PlainEquipped DEF Task
    <3> QED
      BY <2>4, <3>1, <1>f, BecomeEquipped DEF JoinCheck
  <2>5. CASE LeaveCheck(t)
    <3>1. ASSUME NEW id, NEW pc \in Plain
          PROVE  Equipped([k EXCEPT !.row = id, !.pc = pc])
      <4> HIDE DEF k
      <4> QED
        BY <1>0, <2>0, PlainEquipped DEF Task
    <3> QED
      BY <2>5, <1>0, <2>0, <3>1, <1>p, <1>r, BecomeEquipped DEF LeaveCheck
  <2>6. CASE LeaveRest(t)
    <3> DEFINE rest == RowsOf(k.room)
    <3>1. ASSUME NEW rows
          PROVE  Equipped([k EXCEPT !.pc = "leave_bots", !.row = Nothing,
                                    !.rest = rows])
      <4> HIDE DEF k
      <4> QED
        BY <1>0, <2>0, <1>p, PlainEquipped DEF Task
    <3>2. ASSUME NEW heir \in People
          PROVE  Equipped([k EXCEPT !.pc = "leave_host", !.row = Nothing,
                                    !.heir = heir])
      <4> HIDE DEF k
      <4> QED
        BY <1>0, <2>0 DEF Task, Equipped
    <3>3. \A id \in rest : Owner(id) \in People
      BY DEF RowsOf, StoreTypeOK, RowIds, Owner
    <3>4. CASE Become(t, [k EXCEPT !.pc = "leave_bots", !.row = Nothing,
                                   !.rest = rest])
      BY <3>4, <3>1, BecomeEquipped
    <3>5. CASE \E id \in rest :
                 Become(t, [k EXCEPT !.pc = "leave_host", !.row = Nothing,
                                     !.heir = Owner(id)])
      BY <3>5, <3>2, <3>3, BecomeEquipped
    <3>6. CASE Become(t, Returned(k, "ws_tell")) \/ Goto(t, "leave_drop")
      BY <3>6, <1>0, <2>0, <1>r, <1>g, <1>p
    <3> QED
      BY <2>6, <3>4, <3>5, <3>6 DEF LeaveRest, InLowestSlot
  <2>7. CASE LeaveBots(t)
    <3>1. Equipped([k EXCEPT !.pc = "leave_drop", !.rest = {}])
      <4> HIDE DEF k
      <4> QED
        BY <1>0, <2>0, <1>p, PlainEquipped DEF Task
    <3> QED
      BY <2>7, <3>1, BecomeEquipped DEF LeaveBots
  <2>8. CASE LeaveHost(t)
    <3>1. ASSUME NEW c
          PROVE  Equipped(Returned([k EXCEPT !.seen[k.room] = c], "ws_tell"))
      <4>1. Equipped(Returned([k EXCEPT
                                 !.seen = [k.seen EXCEPT ![k.room] = c]],
                              "ws_tell"))
        <5> HIDE DEF k
        <5> QED
          BY <1>0, <2>0, SeenReturnedEquipped
      <4> QED
        BY <4>1
    <3> QED
      BY <2>8, <3>1, <1>f, BecomeEquipped DEF LeaveHost
  <2>9. CASE LeaveDrop(t)
    BY <2>9, <1>0, <2>0, <1>f, <1>r DEF LeaveDrop
  <2>10. CASE ReadyWrite(t)
    <3>1. ASSUME NEW f
          PROVE  Equipped([k EXCEPT !.pc = "ws_open", !.row = Nothing,
                                    !.want = FALSE, !.ready = f])
      <4> HIDE DEF k
      <4> QED
        BY <1>0, <2>0, <1>p, PlainEquipped DEF Task
    <3> QED
      BY <2>10, <3>1, <1>f, BecomeEquipped DEF ReadyWrite
  <2>11. CASE TellFails(t) \/ Drop(t)
    BY <2>11, <1>0, <2>0, <1>r DEF TellFails, Drop, AfterLeave
  <2>12. CASE BotFails(t) \/ \E id : BotInsert(t, id)
    <3>1. Equipped([k EXCEPT !.pc = "ws_open", !.slot = 0])
      <4> HIDE DEF k
      <4> QED
        BY <1>0, <2>0, <1>p, PlainEquipped DEF Task
    <3> QED
      BY <2>12, <3>1, <1>f, BecomeEquipped DEF BotInsert, BotFails
  <2>13. CASE \E g : StartCall(t, g)
    <3>1. ASSUME NEW g
          PROVE  Equipped([k EXCEPT !.pc = "start_commit", !.game = g])
      <4> HIDE DEF k
      <4> QED
        BY <1>0, <2>0, <1>p, PlainEquipped DEF Task
    <3> QED
      BY <2>13, <3>1, BecomeEquipped DEF StartCall
  <2>14. CASE EndCommit(t)
    BY <2>14, <1>f DEF EndCommit
  <2> QED
    BY <2>1, <2>2, <2>3, <2>4, <2>5, <2>6, <2>7, <2>8, <2>9, <2>10, <2>11,
       <2>12, <2>13, <2>14 DEF ServiceStep, SocketStep, KeyedStep
<1>e. CASE At(t, "end_commit")
  <2>1. EndCommit(t)
    BY <1>e DEF At, ServiceStep, SocketStep, KeyedStep, CreateFails, JoinOwn,
      JoinCheck, JoinAgain, JoinFails, LeaveCheck, LeaveDelete, LeaveRest,
      LeaveBots, LeaveHost, LeaveDrop, StartCheck, StartCallFails,
      StartCommit, Accept, ReadyWrite, BotFails, Tell, TellFails, Drop,
      CreateInsert, JoinInsert, BotInsert, StartCall
  <2> QED
    BY <2>1, <1>f DEF EndCommit
<1>i. CASE At(t, "idle")
  BY <1>i DEF At, ServiceStep, SocketStep, KeyedStep, CreateFails, JoinOwn,
    JoinCheck, JoinAgain, JoinFails, LeaveCheck, LeaveDelete, LeaveRest,
    LeaveBots, LeaveHost, LeaveDrop, StartCheck, StartCallFails,
    StartCommit, EndCommit, Accept, ReadyWrite, BotFails, Tell, TellFails,
    Drop, CreateInsert, JoinInsert, BotInsert, StartCall
<1> QED
  BY <1>u, <1>e, <1>i

-----------------------------------------------------------------------------
(* Every step keeps the foreign key: whoever deletes a room without all of *)
(* its rows is refused, and so is a row for a room that is gone.           *)

LEMMA MoreRows ==
  ASSUME NEW id, NEW row, roomUsers' = Insert(roomUsers, id, row)
  PROVE  /\ DOMAIN roomUsers' = DOMAIN roomUsers \cup {id}
         /\ roomUsers'[id] = row
         /\ \A j \in DOMAIN roomUsers \ {id} :
              roomUsers'[j] = roomUsers[j]
  BY DEF Insert

LEMMA FewerRows ==
  ASSUME NEW gone, roomUsers' = Delete(roomUsers, gone)
  PROVE  /\ DOMAIN roomUsers' = DOMAIN roomUsers \ gone
         /\ \A j \in DOMAIN roomUsers' : roomUsers'[j] = roomUsers[j]
  BY DEF Delete

LEMMA FewerRooms ==
  ASSUME NEW gone, rooms' = Delete(rooms, gone)
  PROVE  /\ DOMAIN rooms' = DOMAIN rooms \ gone
         /\ \A r \in DOMAIN rooms' : rooms'[r] = rooms[r]
  BY DEF Delete

LEMMA MoreRooms ==
  ASSUME NEW r, NEW row, rooms' = Insert(rooms, r, row)
  PROVE  /\ DOMAIN rooms' = DOMAIN rooms \cup {r}
         /\ rooms'[r] = row
         /\ \A q \in DOMAIN rooms \ {r} : rooms'[q] = rooms[q]
  BY DEF Insert

LEMMA ReferencesOf ==
  ASSUME \A id \in DOMAIN roomUsers' : roomUsers'[id].room \in DOMAIN rooms'
  PROVE  RowsHaveRooms'
  BY DEF RowsHaveRooms, RoomExists

LEMMA InsertRefers ==
  ASSUME RowsHaveRooms, NEW id, NEW r, NEW s, NEW bot \in BOOLEAN,
         InsertRow(id, r, s, bot),
         DOMAIN rooms \subseteq DOMAIN rooms', r \in DOMAIN rooms'
  PROVE  RowsHaveRooms'
<1>1. /\ DOMAIN roomUsers' = DOMAIN roomUsers \cup {id}
      /\ roomUsers'[id].room = r
      /\ \A j \in DOMAIN roomUsers \ {id} : roomUsers'[j] = roomUsers[j]
  BY MoreRows DEF InsertRow
<1>2. \A j \in DOMAIN roomUsers : roomUsers[j].room \in DOMAIN rooms
  BY DEF RowsHaveRooms, RoomExists
<1>3. ASSUME NEW j \in DOMAIN roomUsers'
      PROVE  roomUsers'[j].room \in DOMAIN rooms'
  <2>1. CASE j = id
    BY <2>1, <1>1
  <2>2. CASE j # id
    <3>1. j \in DOMAIN roomUsers /\ roomUsers'[j] = roomUsers[j]
      BY <2>2, <1>1
    <3> QED
      BY <3>1, <1>2
  <2> QED
    BY <2>1, <2>2
<1> QED
  BY <1>3, ReferencesOf

LEMMA DropRefers ==
  ASSUME RowsHaveRooms, NEW gone, NEW deleted, Unreferenced(gone, deleted),
         rooms' = Delete(rooms, gone), roomUsers' = Delete(roomUsers, deleted)
  PROVE  RowsHaveRooms'
<1>1. /\ DOMAIN roomUsers' = DOMAIN roomUsers \ deleted
      /\ \A j \in DOMAIN roomUsers' : roomUsers'[j] = roomUsers[j]
  BY FewerRows
<1>2. DOMAIN rooms' = DOMAIN rooms \ gone
  BY FewerRooms
<1>3. ASSUME NEW j \in DOMAIN roomUsers'
      PROVE  roomUsers'[j].room \in DOMAIN rooms'
  <2>1. j \in DOMAIN roomUsers \ deleted /\ roomUsers'[j] = roomUsers[j]
    BY <1>1
  <2>2. roomUsers[j].room \in DOMAIN rooms \ gone
    BY <2>1 DEF RowsHaveRooms, RoomExists, Unreferenced
  <2> QED
    BY <2>1, <2>2, <1>2
<1> QED
  BY <1>3, ReferencesOf

(* The steps that write to no table.                                       *)

LEMMA ReadsOnly ==
  ASSUME NEW t \in Tasks,
         \/ Request(t) \/ CreateFails(t) \/ JoinOwn(t) \/ JoinCheck(t)
         \/ JoinAgain(t) \/ JoinFails(t) \/ LeaveCheck(t) \/ LeaveRest(t)
         \/ StartCheck(t) \/ StartCallFails(t) \/ BotFails(t) \/ Accept(t)
         \/ Tell(t) \/ TellFails(t) \/ Drop(t)
         \/ (\E g \in NewGames : StartCall(t, g))
  PROVE  UNCHANGED <<rooms, roomUsers>>
  BY DEF Request, CreateRoom, Join, Leave, Start, End, Open, Ready, AddBot,
    LeaveMessage, ClientGone, CreateFails, JoinOwn, JoinCheck, JoinAgain,
    JoinFails, LeaveCheck, LeaveRest, StartCheck, StartCallFails, BotFails,
    Accept, Tell, TellFails, Drop, StartCall

LEMMA ReferencesKept ==
  ASSUME StoreTypeOK, RowsHaveRooms, Next
  PROVE  RowsHaveRooms'
<1>1. ASSUME UNCHANGED <<rooms, roomUsers>> PROVE RowsHaveRooms'
  BY <1>1 DEF RowsHaveRooms, RoomExists
<1>2. ASSUME NEW t \in Tasks, KeyedStep(t) PROVE RowsHaveRooms'
  <2>1. ASSUME NEW r, NEW id, CreateInsert(t, r, id) PROVE RowsHaveRooms'
    <3>1. DOMAIN rooms' = DOMAIN rooms \cup {r}
      BY <2>1, MoreRooms DEF CreateInsert
    <3> QED
      BY <2>1, <3>1, InsertRefers DEF CreateInsert
  <2>2. ASSUME NEW id, JoinInsert(t, id) PROVE RowsHaveRooms'
    BY <2>2, InsertRefers
       DEF JoinInsert, RoomExists, CanInsertRow, ParentExists
  <2>3. ASSUME NEW id, BotInsert(t, id) PROVE RowsHaveRooms'
    BY <2>3, InsertRefers
       DEF BotInsert, RoomExists, CanInsertRow, ParentExists
  <2> QED
    BY <1>1, <1>2, <2>1, <2>2, <2>3, ReadsOnly DEF KeyedStep
<1>3. ASSUME NEW t \in Tasks, LeaveDelete(t) \/ LeaveBots(t)
      PROVE  RowsHaveRooms'
  BY <1>3, FewerRows DEF LeaveDelete, LeaveBots, RowsHaveRooms, RoomExists
<1>4. ASSUME NEW t \in Tasks, LeaveHost(t) \/ StartCommit(t)
      PROVE  RowsHaveRooms'
  BY <1>4 DEF LeaveHost, StartCommit, HandedOver, RowsHaveRooms, RoomExists
<1>5. ASSUME NEW t \in Tasks, LeaveDrop(t) PROVE RowsHaveRooms'
  <2>1. CASE UNCHANGED rooms
    BY <1>5, <2>1, <1>1 DEF LeaveDrop
  <2>2. CASE /\ Unreferenced({task[t].room}, {})
             /\ rooms' = Delete(rooms, {task[t].room})
    BY <1>5, <2>2, FewerRooms
       DEF LeaveDrop, RowsHaveRooms, RoomExists, Unreferenced
  <2> QED
    BY <1>5, <2>1, <2>2 DEF LeaveDrop
<1>6. ASSUME NEW t \in Tasks, EndCommit(t) PROVE RowsHaveRooms'
  <2>1. CASE UNCHANGED <<rooms, roomUsers>>
    BY <2>1, <1>1
  <2>2. CASE /\ Unreferenced({task[t].room}, task[t].rest)
             /\ rooms' = Delete(rooms, {task[t].room})
             /\ roomUsers' = Delete(roomUsers, task[t].rest)
    BY <2>2, DropRefers
  <2> QED
    BY <1>6, <2>1, <2>2 DEF EndCommit, RoomEnded
<1>7. ASSUME NEW t \in Tasks, ReadyWrite(t) PROVE RowsHaveRooms'
  <2>1. CASE UNCHANGED roomUsers
    BY <1>7, <2>1, <1>1 DEF ReadyWrite
  <2>2. CASE roomUsers' = [roomUsers EXCEPT ![task[t].row].ready = task[t].want]
    <3>1. /\ DOMAIN roomUsers' = DOMAIN roomUsers
          /\ \A id \in DOMAIN roomUsers :
               roomUsers'[id].room = roomUsers[id].room
      BY <2>2 DEF StoreTypeOK, RoomUser
    <3> QED
      BY <1>7, <3>1 DEF ReadyWrite, RowsHaveRooms, RoomExists
  <2> QED
    BY <1>7, <2>1, <2>2 DEF ReadyWrite
<1>8. ASSUME List \/ Cleanup PROVE RowsHaveRooms'
  <2>1. CASE SweepCommit
    <3>1. CASE UNCHANGED <<rooms, roomUsers>>
      BY <3>1, <1>1
    <3>2. CASE /\ Unreferenced(sweep.closing, sweep.doomed)
               /\ rooms' = Delete(rooms, sweep.closing)
               /\ roomUsers' = Delete(roomUsers, sweep.doomed)
      BY <3>2, DropRefers
    <3> QED
      BY <2>1, <3>1, <3>2 DEF SweepCommit
  <2>2. CASE ~ SweepCommit
    BY <1>8, <2>2, <1>1 DEF List, Cleanup, CleanupRooms, SweepStep, SweepRoom,
       SweepRows, SweepRemaining
  <2> QED
    BY <2>1, <2>2
<1>9. CASE Crash
  BY <1>9, <1>1 DEF Crash
<1> QED
  BY <1>1, <1>2, <1>3, <1>4, <1>5, <1>6, <1>7, <1>8, <1>9, ReadsOnly
     DEF Next, RequestsNext, Continue, ServiceStep, SocketStep

-----------------------------------------------------------------------------
(* The cleanup and the restart keep the types.                             *)

LEMMA SweepTyped ==
  ASSUME Typed, SweepTypeOK, List \/ Cleanup
  PROVE  Typed' /\ SweepTypeOK'
<1> USE DEF Typed
<1>1. CASE List
  <2>1. SweepTypeOK'
    BY <1>1 DEF List, CleanupRooms, SweepTypeOK, Sweep, NoSweep, StoreTypeOK
  <2> QED
    BY <1>1, <2>1, SameStoreTyped
       DEF List, CleanupRooms, ActiveTypeOK, TaskTypeOK
<1>2. ASSUME NEW r \in RoomIds, SweepRoom(r), UNCHANGED task
      PROVE  Typed' /\ SweepTypeOK'
  <2>1. SweepTypeOK'
    BY <1>2 DEF SweepRoom, SweepTypeOK, Sweep, ActiveUsers
  <2> QED
    BY <1>2, <2>1, SameStoreTyped DEF SweepRoom, ActiveTypeOK, TaskTypeOK
<1>3. CASE SweepRows /\ UNCHANGED task
  <2>1. {id \in RowsOf(sweep.room) : Absent(id)} \subseteq RowIds
    BY DEF RowsOf, StoreTypeOK
  <2>2. SweepTypeOK'
    BY <1>3, <2>1 DEF SweepRows, SweepTypeOK, Sweep
  <2> QED
    BY <1>3, <2>2, SameStoreTyped DEF SweepRows, ActiveTypeOK, TaskTypeOK
<1>4. CASE SweepRemaining /\ UNCHANGED task
  <2>1. SweepTypeOK'
    BY <1>4 DEF SweepRemaining, SweepTypeOK, Sweep
  <2> QED
    BY <1>4, <2>1, SameStoreTyped DEF SweepRemaining, ActiveTypeOK, TaskTypeOK
<1>5. CASE SweepCommit /\ UNCHANGED task
  <2>1. SweepTypeOK'
    BY <1>5 DEF SweepCommit, SweepTypeOK, Sweep, NoSweep
  <2>2. StoreTypeOK'
    <3>1. CASE UNCHANGED <<rooms, roomUsers>>
      BY <3>1, SameStoreTyped
    <3>2. CASE /\ rooms' = Delete(rooms, sweep.closing)
               /\ roomUsers' = Delete(roomUsers, sweep.doomed)
      BY <3>2, RoomsDelete, RowsDelete DEF StoreTypeOK
    <3> QED
      BY <1>5, <3>1, <3>2 DEF SweepCommit
  <2> QED
    BY <1>5, <2>1, <2>2 DEF SweepCommit, ActiveTypeOK, TaskTypeOK
<1> QED
  BY <1>1, <1>2, <1>3, <1>4, <1>5 DEF Cleanup, SweepStep

LEMMA CrashTyped ==
  ASSUME Typed, Crash
  PROVE  Typed' /\ TasksEquipped' /\ SweepTypeOK'
<1>1. TaskTypeOK' /\ TasksEquipped'
  BY IdleIsTask, IdleEquipped DEF Crash, TaskTypeOK, TasksEquipped
<1>2. SweepTypeOK' /\ ActiveTypeOK'
  BY DEF Crash, SweepTypeOK, Sweep, NoSweep, ActiveTypeOK
<1> QED
  BY <1>1, <1>2, SameStoreTyped DEF Crash, Typed

-----------------------------------------------------------------------------
(* The types and the foreign key need each other: JoinOwn copies the room  *)
(* that its row refers to.  Together they are inductive.                   *)
TypedStore == TypeOK /\ RowsHaveRooms

LEMMA TypedStoreInit == Init => TypedStore
<1> SUFFICES ASSUME Init PROVE TypedStore
  OBVIOUS
<1>1. StoreTypeOK /\ RowsHaveRooms
  BY DEF Init, ServiceInit, StoreInit, StoreTypeOK, RowsHaveRooms
<1>2. TaskTypeOK /\ TasksEquipped
  BY IdleIsTask, IdleEquipped
     DEF Init, ServiceInit, TaskTypeOK, TasksEquipped
<1>3. ActiveTypeOK /\ SweepTypeOK
  BY DEF Init, ServiceInit, ActiveInit, SweepInit, ActiveTypeOK, SweepTypeOK,
         Sweep, NoSweep
<1> QED
  BY <1>1, <1>2, <1>3 DEF TypedStore, TypeOK

LEMMA TypedStoreStep == TypedStore /\ [Next]_vars => TypedStore'
<1> SUFFICES ASSUME TypedStore, [Next]_vars PROVE TypedStore'
  OBVIOUS
<1> USE DEF TypedStore, TypeOK
<1>1. CASE UNCHANGED vars
  BY <1>1 DEF vars, StoreTypeOK, ActiveTypeOK, TaskTypeOK, TasksEquipped,
              Equipped, SweepTypeOK, RowsHaveRooms, RoomExists
<1>2. CASE Next
  <2>1. Typed /\ RowsHaveRooms'
    BY <1>2, ReferencesKept DEF Typed
  <2>2. ASSUME NEW t \in Tasks, Request(t) \/ Continue(t)
        PROVE  Typed' /\ TasksEquipped' /\ SweepTypeOK'
    <3>1. SweepTypeOK'
      BY <2>2 DEF Request, Continue, SweepTypeOK
    <3>2. Typed'
      BY <2>1, <2>2, RequestsTyped, LookingTyped, InsertTyped, WritingTyped
         DEF Continue, ServiceStep, SocketStep
    <3>3. TasksEquipped'
      BY <2>1, <2>2, RequestsEquipped, StepsEquipped DEF Continue
    <3> QED
      BY <3>1, <3>2, <3>3
  <2>3. CASE List \/ Cleanup
    <3>1. TasksEquipped'
      BY <2>3 DEF List, Cleanup, TasksEquipped, Equipped
    <3> QED
      BY <2>1, <2>3, <3>1, SweepTyped DEF Typed
  <2>4. CASE Crash
    BY <2>1, <2>4, CrashTyped DEF Typed
  <2> QED
    BY <1>2, <2>1, <2>2, <2>3, <2>4 DEF Next, RequestsNext, Typed
<1> QED
  BY <1>1, <1>2

(* Every value stays of its kind, whatever the requests interleave, and a  *)
(* task never reaches a write without what it is about to write: leave_    *)
(* room's heir, create_room's number, the user of a socket.                *)
THEOREM TypeCorrect == Spec => []TypeOK
<1>1. TypedStore => TypeOK
  BY DEF TypedStore
<1> QED
  BY <1>1, TypedStoreInit, TypedStoreStep, PTL DEF Spec

(* No row outlives its room, though leave_room, end_game and cleanup_rooms *)
(* decide some awaits before they delete a room that it is empty.          *)
THEOREM ReferencesHold == Spec => []RowsHaveRooms
<1>1. TypedStore => RowsHaveRooms
  BY DEF TypedStore
<1> QED
  BY <1>1, TypedStoreInit, TypedStoreStep, PTL DEF Spec

=============================================================================
