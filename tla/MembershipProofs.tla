--------------------------- MODULE MembershipProofs --------------------------
(***************************************************************************)
(* The lobby implements Membership, for any number of users, rooms and     *)
(* tasks: a step inserts one row of a user who has none, or starts a game, *)
(* or only takes rows and rooms away.  And what the cleanup takes away     *)
(* belongs to nobody who was there all the time.                           *)
(***************************************************************************)
EXTENDS LobbyProofs, CleanupHistory

USE StoreAssumption DEF People, Slots, RoomNumbers

-----------------------------------------------------------------------------
(* The kinds of step, as Membership sees them.                             *)
Fewer ==
    /\ Members' \subseteq Members
    /\ DOMAIN rooms' \subseteq DOMAIN rooms
    /\ \A r \in DOMAIN rooms' : rooms'[r].playing = rooms[r].playing
Entered ==
    \E id, row : /\ UserFree(Owner(id)) /\ ParentExists(row.room)
                 /\ Owner(id) \in People
                 /\ roomUsers' = Insert(roomUsers, id, row)
                 /\ UNCHANGED rooms
Founded ==
    \E id, row, new :
        /\ UserFree(Owner(id)) /\ Owner(id) \in People
        /\ row.room \in RoomIds /\ ~ RoomExists(row.room) /\ ~ new.playing
        /\ roomUsers' = Insert(roomUsers, id, row)
        /\ rooms' = Insert(rooms, row.room, new)
Begun ==
    \E r \in DOMAIN rooms : \E g :
        /\ rooms' = [rooms EXCEPT ![r].playing = TRUE, ![r].game = g]
        /\ UNCHANGED roomUsers

LEMMA SameTablesFewer ==
  ASSUME UNCHANGED <<rooms, roomUsers>> PROVE Fewer
  BY DEF Fewer, Members

LEMMA DeletesFewer ==
  ASSUME NEW doomed, NEW gone,
         roomUsers' = roomUsers \/ roomUsers' = Delete(roomUsers, doomed),
         rooms' = rooms \/ rooms' = Delete(rooms, gone)
  PROVE  Fewer
<1>1. /\ DOMAIN roomUsers' \subseteq DOMAIN roomUsers
      /\ \A id \in DOMAIN roomUsers' : roomUsers'[id] = roomUsers[id]
  BY DEF Delete
<1>2. /\ DOMAIN rooms' \subseteq DOMAIN rooms
      /\ \A r \in DOMAIN rooms' : rooms'[r] = rooms[r]
  BY DEF Delete
<1> QED
  BY <1>1, <1>2 DEF Fewer, Members

(* The steps that need a generated key insert a row, with or without its   *)
(* room, whose owner has none.                                             *)
LEMMA KeyedKinds ==
  ASSUME Typed, TasksEquipped, NEW t \in Tasks, KeyedStep(t)
  PROVE  Fewer \/ Entered \/ Founded
<1>1. ASSUME NEW r \in NewRooms, NEW id, CreateInsert(t, r, id)
      PROVE  Founded
  <2>1. r \in RoomIds /\ ~ RoomExists(r)
    BY DEF NewRooms, LeastOf, RoomKnown
  <2>2. Owner(id) \in People
    BY <1>1 DEF CreateInsert, At, TasksEquipped, Equipped
  <2> DEFINE row == [room |-> r, slot |-> 0, ready |-> FALSE, bot |-> FALSE]
             new == [number |-> task[t].number, host |-> task[t].user,
                     playing |-> FALSE, game |-> Nothing]
  <2>3. /\ row.room = r /\ ~ new.playing
        /\ roomUsers' = Insert(roomUsers, id, row)
        /\ rooms' = Insert(rooms, r, new)
        /\ UserFree(Owner(id))
    BY <1>1 DEF CreateInsert, InsertRow
  <2> HIDE DEF row, new
  <2> QED
    BY <2>1, <2>2, <2>3 DEF Founded
<1>2. ASSUME NEW id, JoinInsert(t, id) PROVE Entered
  <2>1. Owner(id) \in People
    BY <1>2 DEF JoinInsert, At, TasksEquipped, Equipped
  <2> QED
    BY <1>2, <2>1 DEF JoinInsert, InsertRow, CanInsertRow, Entered
<1>3. ASSUME NEW id, BotInsert(t, id) PROVE Entered
  BY <1>3 DEF BotInsert, InsertRow, CanInsertRow, Entered
<1>4. CASE \E g \in NewGames : StartCall(t, g)
  BY <1>4, SameTablesFewer, ReadsOnly
<1> QED
  BY <1>1, <1>2, <1>3, <1>4 DEF KeyedStep

LEMMA HandoverFewer ==
  ASSUME Typed, NEW t \in Tasks, LeaveHost(t) PROVE Fewer
<1>1. CASE RoomExists(task[t].room) /\ rooms' = HandedOver(t)
  <2>1. /\ DOMAIN rooms' = DOMAIN rooms
        /\ \A r \in DOMAIN rooms : rooms'[r].playing = rooms[r].playing
    BY <1>1 DEF HandedOver, Typed, StoreTypeOK, Room, RoomExists
  <2> QED
    BY <2>1 DEF Fewer, Members, LeaveHost
<1>2. CASE UNCHANGED rooms
  BY <1>2, SameTablesFewer DEF LeaveHost
<1> QED
  BY <1>1, <1>2 DEF LeaveHost

LEMMA ReadyFewer ==
  ASSUME Typed, NEW t \in Tasks, ReadyWrite(t) PROVE Fewer
<1>1. /\ DOMAIN roomUsers' = DOMAIN roomUsers
      /\ \A id \in DOMAIN roomUsers : roomUsers'[id].room = roomUsers[id].room
  BY DEF ReadyWrite, Typed, StoreTypeOK, RoomUser
<1> QED
  BY <1>1 DEF Fewer, Members, ReadyWrite

LEMMA StepKinds ==
  ASSUME TypedStore, [Next]_vars
  PROVE  Fewer \/ Entered \/ Founded \/ Begun
<1> USE DEF TypedStore, TypeOK, Typed
<1>1. ASSUME NEW t \in Tasks, KeyedStep(t) PROVE Fewer \/ Entered \/ Founded
  BY <1>1, KeyedKinds
<1>2. ASSUME NEW t \in Tasks, LeaveDelete(t) PROVE Fewer
  BY <1>2, DeletesFewer DEF LeaveDelete
<1>3. ASSUME NEW t \in Tasks, LeaveBots(t) PROVE Fewer
  BY <1>3, DeletesFewer DEF LeaveBots
<1>4. ASSUME NEW t \in Tasks, LeaveDrop(t) PROVE Fewer
  BY <1>4, DeletesFewer DEF LeaveDrop
<1>5. ASSUME NEW t \in Tasks, EndCommit(t) PROVE Fewer
  BY <1>5, DeletesFewer DEF EndCommit, RoomEnded
<1>6. ASSUME NEW t \in Tasks, StartCommit(t) PROVE Fewer \/ Begun
  BY <1>6, SameTablesFewer DEF StartCommit, Begun, RoomExists
<1>7. ASSUME List \/ Cleanup PROVE Fewer
  <2>1. CASE SweepCommit
    BY <2>1, DeletesFewer DEF SweepCommit
  <2> QED
    BY <1>7, <2>1, SameTablesFewer DEF List, Cleanup, CleanupRooms,
       SweepStep, SweepRoom, SweepRows, SweepRemaining
<1>8. ASSUME Crash \/ UNCHANGED vars PROVE Fewer
  BY <1>8, SameTablesFewer DEF Crash, vars
<1> QED
  BY <1>1, <1>2, <1>3, <1>4, <1>5, <1>6, <1>7, <1>8, HandoverFewer,
     ReadyFewer, ReadsOnly, SameTablesFewer
     DEF Next, RequestsNext, Continue, ServiceStep, SocketStep

-----------------------------------------------------------------------------
(* Each kind of step is a step of Membership, or none.                     *)

LEMMA MembersAdded ==
  ASSUME NEW id, NEW row, UserFree(Owner(id)),
         roomUsers' = Insert(roomUsers, id, row)
  PROVE  /\ Members' = Members \cup {<<Owner(id), row.room>>}
         /\ Abstract!Homeless(Owner(id))
<1>1. \A j \in DOMAIN roomUsers : Owner(j) # Owner(id)
  BY DEF UserFree, RowsOfUser
<1>2. id \notin DOMAIN roomUsers
  BY <1>1
<1>3. /\ DOMAIN roomUsers' = DOMAIN roomUsers \cup {id}
      /\ roomUsers'[id] = row
      /\ \A j \in DOMAIN roomUsers : roomUsers'[j] = roomUsers[j]
  BY <1>2, MoreRows
<1>4. Members' = Members \cup {<<Owner(id), row.room>>}
  BY <1>3 DEF Members
<1>5. Abstract!Homeless(Owner(id))
  BY <1>1 DEF Members, Abstract!Homeless
<1> QED
  BY <1>4, <1>5

LEMMA DepartStep ==
  ASSUME RowsHaveRooms', Fewer
  PROVE  Abstract!MembershipNext
<1> DEFINE leaving == Members \ Members'
           closed == DOMAIN rooms \ DOMAIN rooms'
<1>1. leaving \in SUBSET Members /\ closed \in SUBSET DOMAIN rooms
  OBVIOUS
<1>2. \A m \in Members' : m[2] \in DOMAIN rooms'
  BY DEF Members, RowsHaveRooms, RoomExists
<1>3. \A r \in closed : Abstract!In(r) \subseteq leaving
  BY <1>2 DEF Abstract!In
<1>4. Members' = Members \ leaving /\ DOMAIN rooms' = DOMAIN rooms \ closed
  BY DEF Fewer
<1>5. PlayingRooms' = PlayingRooms \ closed
  BY DEF Fewer, PlayingRooms
<1>6. Abstract!Depart(leaving, closed)
  BY <1>3, <1>4, <1>5 DEF Abstract!Depart, Abstract!OtherGames
<1> QED
  BY <1>1, <1>6 DEF Abstract!MembershipNext

LEMMA EnterStep ==
  ASSUME StoreTypeOK, Entered PROVE Abstract!MembershipNext
<1>1. PICK id, row : /\ UserFree(Owner(id)) /\ ParentExists(row.room)
                     /\ Owner(id) \in People
                     /\ roomUsers' = Insert(roomUsers, id, row)
                     /\ UNCHANGED rooms
  BY DEF Entered
<1>2. row.room \in DOMAIN rooms /\ row.room \in RoomIds
  BY <1>1 DEF ParentExists, RoomExists, StoreTypeOK
<1>3. DOMAIN rooms' = DOMAIN rooms /\ PlayingRooms' = PlayingRooms
  BY <1>1 DEF PlayingRooms
<1>4. Abstract!Enter(Owner(id), row.room)
  BY <1>1, <1>2, <1>3, MembersAdded DEF Abstract!Enter
<1> QED
  BY <1>1, <1>2, <1>4 DEF Abstract!MembershipNext

LEMMA FoundStep ==
  ASSUME Founded PROVE Abstract!MembershipNext
<1>1. PICK id, row, new :
          /\ UserFree(Owner(id)) /\ Owner(id) \in People
          /\ row.room \in RoomIds /\ ~ RoomExists(row.room) /\ ~ new.playing
          /\ roomUsers' = Insert(roomUsers, id, row)
          /\ rooms' = Insert(rooms, row.room, new)
  BY DEF Founded
<1>2. /\ DOMAIN rooms' = DOMAIN rooms \cup {row.room}
      /\ rooms'[row.room] = new
      /\ \A r \in DOMAIN rooms : rooms'[r] = rooms[r]
  BY <1>1, MoreRooms DEF RoomExists
<1>3. PlayingRooms' = PlayingRooms
  BY <1>1, <1>2 DEF PlayingRooms
<1>4. Abstract!Found(Owner(id), row.room)
  BY <1>1, <1>2, <1>3, MembersAdded DEF Abstract!Found, RoomExists
<1> QED
  BY <1>1, <1>4 DEF Abstract!MembershipNext

LEMMA BeginStep ==
  ASSUME StoreTypeOK, Begun PROVE Abstract!MembershipNext
<1>1. PICK r, g :
          /\ r \in DOMAIN rooms
          /\ rooms' = [rooms EXCEPT ![r].playing = TRUE, ![r].game = g]
          /\ UNCHANGED roomUsers
  BY DEF Begun
<1>2. /\ DOMAIN rooms' = DOMAIN rooms
      /\ \A q \in DOMAIN rooms :
           rooms'[q].playing = (q = r \/ rooms[q].playing)
  BY <1>1 DEF StoreTypeOK, Room
<1>3. PlayingRooms' = PlayingRooms \cup {r} /\ Members' = Members
  BY <1>1, <1>2 DEF PlayingRooms, Members
<1>4. Abstract!Begin(r)
  BY <1>1, <1>2, <1>3 DEF Abstract!Begin
<1> QED
  BY <1>1, <1>4 DEF Abstract!MembershipNext

(* The tables are a membership: nobody changes room without leaving the    *)
(* first, no room goes while somebody is in it, no game is taken back; and *)
(* nothing else, a session's copy or the registry, is needed to say so.    *)
THEOREM LobbyImplementsMembership == Spec => ImplementsMembership
<1>1. Init => Abstract!MembershipInit
  BY DEF Init, ServiceInit, StoreInit, Abstract!MembershipInit, Members,
         PlayingRooms
<1>2. TypedStore /\ TypedStore' /\ [Next]_vars
        => [Abstract!MembershipNext]_(Abstract!memberVars)
  BY StepKinds, DepartStep, EnterStep, FoundStep, BeginStep
     DEF TypedStore, TypeOK
<1> QED
  BY <1>1, <1>2, TypedStoreInit, TypedStoreStep, PTL
     DEF Spec, ImplementsMembership, Abstract!MembershipSpec

-----------------------------------------------------------------------------
(* The cleanup.  A row it has marked stays unfit for everybody who has been*)
(* connected since it began, because rows keep their room and new rows are *)
(* never marked; and the copy of active_user_ids names all of these.       *)
UsersSteady == steady \subseteq active
IdleSweepMarksNone == sweep.pc = "idle" => sweep.doomed = {}
SteadyOnline ==
    sweep.pc = "rows" =>
        \A u : <<sweep.room, u>> \in steady => u \in sweep.online
Doomed(id) ==
    /\ <<roomUsers[id].room, Owner(id)>> \notin steady
    /\ roomUsers[id].room \notin sweep.playing
MarkedSpares == \A id \in sweep.doomed \cap DOMAIN roomUsers : Doomed(id)
SweepInv == UsersSteady /\ IdleSweepMarksNone /\ SteadyOnline /\ MarkedSpares

LEMMA MarkedRows ==
  ASSUME StoreTypeOK, [Next]_vars, NEW id \in sweep.doomed \cap DOMAIN roomUsers'
  PROVE  id \in DOMAIN roomUsers /\ roomUsers'[id].room = roomUsers[id].room
<1>1. CASE SameRows
  BY <1>1 DEF SameRows
<1>2. CASE OneRowMore
  <2>1. PICK j, row : ~ RowKnown(j) /\ roomUsers' = Insert(roomUsers, j, row)
    BY <1>2 DEF OneRowMore
  <2>2. id # j
    BY <2>1 DEF RowKnown
  <2> QED
    BY <2>1, <2>2 DEF Insert
<1>3. CASE RowsGone
  BY <1>3 DEF RowsGone, Delete
<1> QED
  BY <1>1, <1>2, <1>3, RowSteps

(* While rooms are visited the history only shrinks, so that a mark that   *)
(* was right stays right; the step that marks looks at its own copy.       *)
LEMMA SweepMarks ==
  ASSUME TypedStore, SweepInv, SweepStep, [Next]_vars,
         steady' \subseteq steady, steady' \subseteq active'
  PROVE  SweepInv'
<1>0. sweep \in Sweep /\ active \subseteq RoomIds \X Users
  BY DEF TypedStore, TypeOK, SweepTypeOK, ActiveTypeOK
<1>1. ASSUME NEW r \in RoomIds, SweepRoom(r) PROVE SweepInv'
  <2>1. /\ sweep'.pc = "rows" /\ sweep'.room = r
        /\ sweep'.online = ActiveUsers(r)
        /\ sweep'.doomed = sweep.doomed /\ sweep'.playing = sweep.playing
        /\ roomUsers' = roomUsers
    BY <1>0, <1>1 DEF SweepRoom, Sweep
  <2>2. \A u : <<r, u>> \in active => u \in ActiveUsers(r)
    BY <1>0 DEF ActiveUsers
  <2> QED
    BY <2>1, <2>2 DEF SweepInv, UsersSteady, IdleSweepMarksNone, SteadyOnline,
       MarkedSpares, Doomed
<1>2. CASE SweepRows
  <2>1. /\ sweep.pc = "rows" /\ sweep'.pc = "remaining"
        /\ sweep'.playing = sweep.playing /\ roomUsers' = roomUsers
        /\ sweep'.doomed = sweep.doomed
                           \cup {id \in RowsOf(sweep.room) : Absent(id)}
    BY <1>0, <1>2 DEF SweepRows, Sweep
  <2>2. \A id \in RowsOf(sweep.room) : Absent(id) => Doomed(id)
    BY <2>1 DEF RowsOf, Absent, Doomed, SweepInv, SteadyOnline
  <2>3. \A id : Doomed(id) => Doomed(id)'
    BY <2>1 DEF Doomed
  <2> QED
    BY <2>1, <2>2, <2>3 DEF SweepInv, UsersSteady, IdleSweepMarksNone,
       SteadyOnline, MarkedSpares
<1>3. CASE SweepRemaining
  <2>1. /\ sweep'.pc = "next" /\ sweep'.playing = sweep.playing
        /\ sweep'.doomed = sweep.doomed /\ roomUsers' = roomUsers
    BY <1>0, <1>3 DEF SweepRemaining, Sweep
  <2> QED
    BY <2>1 DEF SweepInv, UsersSteady, IdleSweepMarksNone, SteadyOnline,
       MarkedSpares, Doomed
<1>4. CASE SweepCommit
  BY <1>4 DEF SweepCommit, NoSweep, SweepInv, UsersSteady,
     IdleSweepMarksNone, SteadyOnline, MarkedSpares
<1> QED
  BY <1>1, <1>2, <1>3, <1>4 DEF SweepStep

historyVars == <<vars, steady>>

LEMMA SweepInvInit == HistoryInit => SweepInv
BY DEF HistoryInit, Init, SweepInit, NoSweep, SweepInv, UsersSteady,
   IdleSweepMarksNone, SteadyOnline, MarkedSpares

LEMMA SweepInvStep == TypedStore /\ SweepInv /\ HistoryNext => SweepInv'
<1> SUFFICES ASSUME TypedStore, SweepInv, HistoryNext PROVE SweepInv'
  OBVIOUS
<1>0. /\ sweep \in Sweep /\ StoreTypeOK /\ [Next]_vars
      /\ steady' \subseteq active'
      /\ sweep.pc # "idle" => steady' \subseteq steady
  BY DEF TypedStore, TypeOK, SweepTypeOK, HistoryNext
<1>1. CASE List
  <2>1. /\ sweep'.pc = "next" /\ sweep'.doomed = {}
    BY <1>1 DEF List, CleanupRooms, NoSweep
  <2> QED
    BY <1>0, <2>1 DEF SweepInv, UsersSteady, IdleSweepMarksNone, SteadyOnline,
       MarkedSpares
<1>2. CASE Cleanup
  <2>1. SweepStep /\ sweep.pc # "idle"
    BY <1>2 DEF Cleanup, SweepStep, SweepRoom, SweepRows, SweepRemaining,
       SweepCommit
  <2> QED
    BY <1>0, <2>1, SweepMarks
<1>3. CASE Crash
  BY <1>0, <1>3 DEF Crash, NoSweep, SweepInv, UsersSteady,
     IdleSweepMarksNone, SteadyOnline, MarkedSpares
<1>4. CASE UNCHANGED sweep
  <2>1. CASE sweep.pc = "idle"
    BY <1>0, <1>4, <2>1 DEF SweepInv, UsersSteady, IdleSweepMarksNone,
       SteadyOnline, MarkedSpares
  <2>2. CASE sweep.pc # "idle"
    <3>1. ASSUME NEW id \in sweep'.doomed \cap DOMAIN roomUsers'
          PROVE  Doomed(id)'
      <4>1. id \in sweep.doomed \cap DOMAIN roomUsers
            /\ roomUsers'[id].room = roomUsers[id].room
        BY <1>0, <1>4, <3>1, MarkedRows
      <4> QED
        BY <1>0, <1>4, <2>2, <4>1 DEF SweepInv, MarkedSpares, Doomed
    <3> QED
      BY <1>0, <1>4, <2>2, <3>1 DEF SweepInv, UsersSteady, IdleSweepMarksNone,
         SteadyOnline, MarkedSpares
  <2> QED
    BY <2>1, <2>2
<1> QED
  BY <1>1, <1>2, <1>3, <1>4
     DEF HistoryNext, Next, RequestsNext, Request, Continue

(* Whatever joins, leaves, connects and disconnects while a cleanup is     *)
(* visiting the rooms, its commit takes no row of a user who was connected *)
(* to that room all the time, and none of a room that was playing.         *)
THEOREM CleanupSpares == HistorySpec => SweepSpares
<1>1. HistoryInit => Init
  BY DEF HistoryInit
<1>2. [HistoryNext]_historyVars => [Next]_vars
  BY DEF HistoryNext, historyVars
<1>3. SweepInv /\ UNCHANGED historyVars => SweepInv'
  BY DEF historyVars, vars, SweepInv, UsersSteady, IdleSweepMarksNone,
     SteadyOnline, MarkedSpares, Doomed
<1>4. ASSUME TypedStore, SweepInv, HistoryNext
      PROVE  sweep.pc = "next" /\ sweep'.pc = "idle" =>
               \A id \in DOMAIN roomUsers \ DOMAIN roomUsers' : Doomed(id)
  <2> SUFFICES ASSUME sweep.pc = "next", sweep'.pc = "idle",
                      NEW id \in DOMAIN roomUsers \ DOMAIN roomUsers'
               PROVE  Doomed(id)
    OBVIOUS
  <2>1. id \in sweep.doomed
    <3>0. sweep \in Sweep
      BY <1>4 DEF TypedStore, TypeOK, SweepTypeOK
    <3>1. CASE SweepCommit
      BY <3>1 DEF SweepCommit, Delete
    <3>2. CASE \/ \E r \in RoomIds : SweepRoom(r)
               \/ SweepRows \/ SweepRemaining
      BY <3>0, <3>2 DEF SweepRoom, SweepRows, SweepRemaining, Sweep
    <3>3. CASE Crash
      BY <3>3 DEF Crash
    <3> QED
      BY <1>4, <3>1, <3>2, <3>3
         DEF HistoryNext, Next, RequestsNext, Request, Continue, List,
             CleanupRooms, Cleanup, SweepStep
  <2> QED
    BY <1>4, <2>1 DEF SweepInv, MarkedSpares
<1>5. TypedStore /\ SweepInv /\ [HistoryNext]_historyVars
        => [sweep.pc = "next" /\ sweep'.pc = "idle" =>
              \A id \in DOMAIN roomUsers \ DOMAIN roomUsers' :
                 /\ <<roomUsers[id].room, Owner(id)>> \notin steady
                 /\ roomUsers[id].room \notin sweep.playing]_historyVars
  BY <1>4 DEF Doomed
<1> QED
  BY <1>1, <1>2, <1>3, <1>5, TypedStoreInit, TypedStoreStep, SweepInvInit,
     SweepInvStep, PTL DEF HistorySpec, SweepSpares, historyVars

=============================================================================
