-------------------------------- MODULE Lobby --------------------------------
(***************************************************************************)
(* The lobby of one server process: HTTP requests and sockets on one event *)
(* loop, the cleanup that GET /room runs, the registry of connections they *)
(* share in memory, and the database that outlives the process.            *)
(***************************************************************************)
EXTENDS RoomSocket, RoomCleanup

CONSTANT Requests   \* what the clients of an instance do

RequestKinds == {"create", "join", "leave", "start", "end", "socket",
                 "ready", "unready", "bot", "crash"}

ASSUME LobbyAssumption == Requests \subseteq RequestKinds

vars == <<rooms, roomUsers, active, task, sweep>>

TypeOK ==
    /\ StoreTypeOK /\ ActiveTypeOK
    /\ TaskTypeOK /\ TasksEquipped
    /\ SweepTypeOK

Init == ServiceInit /\ SweepInit

-----------------------------------------------------------------------------
(* Generated keys are new: no row, copy or snapshot mentions them.         *)
TaskKnowsRoom(t, r) ==
    task[t].room = r \/ task[t].dest = r \/ task[t].seen[r] # Nothing
RoomKnown(r) ==
    \/ RoomExists(r)
    \/ \E u \in Users : <<r, u>> \in active
    \/ \E t \in Tasks : TaskKnowsRoom(t, r)
    \/ r \in sweep.todo \cup sweep.playing \cup sweep.closing
    \/ r = sweep.room
RowKnown(id) ==
    \/ RowExists(id)
    \/ \E t \in Tasks : id \in task[t].rest \cup {task[t].row, task[t].mine}
    \/ id \in sweep.doomed
BotKnown(b) ==
    \/ \E id \in DOMAIN roomUsers : Owner(id) = b
    \/ \E r \in DOMAIN rooms : rooms[r].host = b
GameKnown(g) ==
    \/ \E r \in DOMAIN rooms : rooms[r].game = g
    \/ \E t \in Tasks : task[t].game = g

NewRooms == LeastOf({r \in RoomIds : ~ RoomKnown(r)})
NewGames == LeastOf({g \in Games : ~ GameKnown(g)})
NewBots == LeastOf({b \in Bots : ~ BotKnown(b)})
NewRows(u) ==
    {u} \X LeastOf({k \in Stamps : ~ RowKnown(<<u, k>>)})

(* Bounds: nobody asks for a room or a bot when the instance's keys are    *)
(* all in use, so that no task waits for one.                              *)
TasksAt(pc) == {t \in Tasks : At(t, pc)}
RoomsLeft ==
    Cardinality(TasksAt("create_insert"))
        < Cardinality({r \in RoomIds : ~ RoomKnown(r)})
BotsLeft ==
    Cardinality(TasksAt("bot_insert"))
        < Cardinality({b \in Bots : ~ BotKnown(b)})

-----------------------------------------------------------------------------
(* The steps that need a generated key.                                    *)
KeyedStep(t) ==
    \/ \E r \in NewRooms, id \in NewRows(task[t].user) : CreateInsert(t, r, id)
    \/ \E id \in NewRows(task[t].user) : JoinInsert(t, id)
    \/ \E b \in NewBots : \E id \in NewRows(b) : BotInsert(t, id)
    \/ \E g \in NewGames : StartCall(t, g)

(* A task goes on with what it has begun.                                  *)
Continue(t) ==
    /\ ServiceStep(t) \/ SocketStep(t) \/ KeyedStep(t)
    /\ UNCHANGED sweep

(* A client sends a request to an idle task, or a message on its socket.   *)
Ask(kind) == kind \in Requests

Request(t) ==
    /\ \/ Ask("create") /\ RoomsLeft /\ \E u \in Users : CreateRoom(t, u)
       \/ Ask("join") /\ \E u \in Users, r \in RoomIds : Join(t, u, r)
       \/ Ask("leave") /\ \E u \in Users, r \in RoomIds : Leave(t, u, r)
       \/ Ask("start") /\ \E u \in Users, r \in RoomIds : Start(t, u, r)
       \/ Ask("end") /\ \E r \in RoomIds : End(t, r)
       \/ Ask("socket") /\ \E u \in Users, r \in RoomIds : Open(t, u, r)
       \/ Ask("ready") /\ Ready(t, TRUE)
       \/ Ask("unready") /\ Ready(t, FALSE)
       \/ Ask("bot") /\ BotsLeft /\ \E s \in Slots : AddBot(t, s)
       \/ LeaveMessage(t)
       \/ ClientGone(t)
    /\ UNCHANGED sweep

(* Somebody asks for the list of rooms, or of games to watch.              *)
List == CleanupRooms /\ UNCHANGED task
Cleanup == SweepStep /\ UNCHANGED task

(* The process dies and is started again: what was in memory is gone.      *)
Crash ==
    /\ Ask("crash")
    /\ task' = [t \in Tasks |-> Idle]
    /\ sweep' = NoSweep
    /\ active' = {}
    /\ UNCHANGED <<rooms, roomUsers>>

RequestsNext ==
    \/ \E t \in Tasks : Request(t) \/ Continue(t)
    \/ Crash

Next == RequestsNext \/ List \/ Cleanup

Spec == Init /\ [][Next]_vars

(* While nobody asks for a list there is no cleanup.                       *)
RequestsSpec == Init /\ [][RequestsNext]_vars

(* The event loop runs every coroutine that is ready, and the database     *)
(* answers every statement; nobody promises that clients ask for anything. *)
Fairness == \A t \in Tasks : WF_vars(Continue(t))

FairSpec == RequestsSpec /\ Fairness

=============================================================================
