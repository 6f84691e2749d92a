---------------------------- MODULE RoomBroadcast ----------------------------
(***************************************************************************)
(* The sockets of one room and the messages that go around it: the methods *)
(* of RoomConnectionManager that send (app/core/room_connection_manager.py)*)
(* and the handlers of app/api/v1/endpoints/ws_room.py that call them.     *)
(*                                                                         *)
(* broadcast iterates over the dictionary of the room itself and awaits    *)
(* each send, while other handlers connect and disconnect.  A dictionary   *)
(* keeps its entries in the order of insertion; deleting one leaves a hole,*)
(* replacing the value of a key does not move it.  An iterator remembers   *)
(* the size it began with and raises RuntimeError when it has changed, or  *)
(* when it finds more entries than there were.                             *)
(*                                                                         *)
(* The service and the database are external here: whatever leave_room,    *)
(* update_user_ready_status, add_bot_to_slot and the select in disconnect  *)
(* can answer, they may answer.                                            *)
(***************************************************************************)
EXTENDS Integers, FiniteSets, Sequences

CONSTANTS
    Users,
    Sockets,    \* the connections that clients open to this room
    Requests,   \* what clients ask for: READY, ADD_BOT, LEAVE
    Starter,    \* the one game-start request, after its commit
    MaxEntries, \* entries a dictionary takes before Python rebuilds it
    Nothing     \* a hole, or no socket

ASSUME BroadcastAssumption ==
    /\ Requests \subseteq {"READY", "ADD_BOT", "LEAVE"}
    /\ MaxEntries \in Nat
    /\ Starter \notin Sockets
    /\ Nothing \notin Users \cup Sockets \cup {Starter}

VARIABLES
    dict,       \* active_connections[room_id], or no entries: no such key
    owner,      \* whose client opens a socket; never changes
    state,      \* of a socket, see below
    job         \* what each handler, and the game-start request, is doing

vars == <<dict, owner, state, job>>

-----------------------------------------------------------------------------
(* "gone": the client has gone and its handler has not noticed; "known":   *)
(* it has, and client_state is DISCONNECTED; "closed": by the handler.     *)
States == {"new", "open", "gone", "known", "closed"}

Messages == {"USER_JOINED", "USER_READY_CHANGED", "BOT_JOINED", "USER_LEFT",
             "USER_LIST", "GAME_STARTED", "none"}

PCs == {"new", "send", "receive", "work", "leave_room",
        "disconnect", "done", "refused", "answered"}

Handlers == Sockets \cup {Starter}

Job == [pc : PCs,
        message : Messages,
        inner : BOOLEAN,                    \* in handle_disconnection
        to : Sockets \cup {Nothing},        \* the send that is awaited
        era : Nat, at : Nat, used : Nat, left : Nat]    \* the iterator

NoJob == [pc |-> "new", message |-> "none", inner |-> FALSE, to |-> Nothing,
          era |-> 0, at |-> 0, used |-> 0, left |-> 0]

Init ==
    /\ dict = [era |-> 0, entries |-> <<>>]
    /\ owner \in [Sockets -> Users]
    /\ state = [s \in Sockets |-> "new"]
    /\ job = [t \in Handlers |-> NoJob]

-----------------------------------------------------------------------------
(* The dictionary: d is one state of it.                                   *)
Entries(d, from) ==
    {p \in DOMAIN d.entries : p >= from /\ d.entries[p] # Nothing}
Size(d) == Cardinality(Entries(d, 1))
Keys(d, u) == {p \in Entries(d, 1) : owner[d.entries[p]] = u}
Registered(s) == \E p \in DOMAIN dict.entries : dict.entries[p] = s

(* The dictionary has one socket of a user: the last that was opened.      *)
OnePerUser(d) ==
    \A p, q \in Entries(d, 1) : owner[d.entries[p]] = owner[d.entries[q]] => p = q

VariablesTyped ==
    /\ dict \in [era : Nat, entries : Seq(Sockets \cup {Nothing})]
    /\ owner \in [Sockets -> Users]
    /\ state \in [Sockets -> States]
    /\ job \in [Handlers -> Job]
TypeOK == VariablesTyped /\ OnePerUser(dict)

(* active_connections[room_id][user_id] = websocket; the mutant files the  *)
(* sockets of a room one after the other.                                  *)
AnotherEntry(d, s, u) ==
    IF d.entries = <<>> THEN [era |-> d.era + 1, entries |-> <<s>>]
    ELSE [d EXCEPT !.entries = Append(@, s)]
WithEntry(d, s, u) ==
    IF d.entries = <<>> THEN [era |-> d.era + 1, entries |-> <<s>>]
    ELSE IF Keys(d, u) = {} THEN [d EXCEPT !.entries = Append(@, s)]
    ELSE [d EXCEPT !.entries = [p \in DOMAIN @ |-> IF p \in Keys(d, u) THEN s
                                                   ELSE @[p]]]

(* del of the user's entry, and of the room's key with the last one.  The  *)
(* mutant drops the room whenever somebody leaves it.                      *)
WithoutRoom(d, u) == [d EXCEPT !.entries = <<>>]
WithoutEntry(d, u) ==
    IF Entries(d, 1) \subseteq Keys(d, u) THEN [d EXCEPT !.entries = <<>>]
    ELSE [d EXCEPT !.entries = [p \in DOMAIN @ |-> IF p \in Keys(d, u)
                                                   THEN Nothing ELSE @[p]]]

-----------------------------------------------------------------------------
(* What a send does.  A handler that has ended has lost its socket.        *)
Listening(s) == state[s] = "open" /\ job[s].pc # "done"
Dead(s) == state[s] \in {"closed", "known"} \/ job[s].pc = "done"

(* The entries that the loop sends to: broadcast passes over those whose   *)
(* client_state is not CONNECTED, and USER_JOINED over the newcomer.       *)
Skipped(t, k, s) ==
    \/ k.message # "GAME_STARTED" /\ state[s] = "known"
    \/ k.message = "USER_JOINED" /\ owner[s] = owner[t]
TargetsUntilDead(t, k, d) ==    \* mutant of Targets: an exception ends it
    {p \in Entries(d, k.at) :
        /\ ~ Skipped(t, k, d.entries[p])
        /\ \A q \in Entries(d, k.at) : q <= p => ~ Dead(d.entries[q])}
Targets(t, k, d) == {p \in Entries(d, k.at) : ~ Skipped(t, k, d.entries[p])}
First(t, k, d) ==
    CHOOSE p \in Targets(t, k, d) : \A q \in Targets(t, k, d) : p <= q
Passed(t, k, d) ==
    IF Targets(t, k, d) = {} THEN Entries(d, k.at)
    ELSE {p \in Entries(d, k.at) : p <= First(t, k, d)}

(* RuntimeError: dictionary changed size, or keys changed, during iteration*)
Breaks(t, k, d) ==
    \/ k.era # d.era \/ k.used # Size(d)
    \/ Cardinality(Passed(t, k, d)) > k.left

Begin(k, message, d) ==
    [k EXCEPT !.pc = "send", !.message = message, !.to = Nothing,
              !.era = d.era, !.at = 1, !.used = Size(d), !.left = Size(d)]
SendingWithRetry(t, k, d) ==    \* mutant of Sending: a failed send is retried
    [k EXCEPT !.to = d.entries[First(t, k, d)],
              !.at = IF Dead(d.entries[First(t, k, d)]) THEN First(t, k, d)
                     ELSE First(t, k, d) + 1,
              !.left = @ - Cardinality(Passed(t, k, d))]
Sending(t, k, d) ==
    [k EXCEPT !.to = d.entries[First(t, k, d)],
              !.at = First(t, k, d) + 1,
              !.left = @ - Cardinality(Passed(t, k, d))]

(* Where an exception takes a handler: from the messages' loop through     *)
(* handle_error into handle_disconnection, and from there out.             *)
Stopped(k, pc) == [NoJob EXCEPT !.pc = pc, !.inner = k.inner]
AsksAgain(k) ==     \* mutant of Raised: the loop goes on after an error
    IF k.inner THEN Stopped(k, "done") ELSE Stopped(k, "receive")
Raised(k) ==
    IF k.inner THEN Stopped(k, "done")
    ELSE [Stopped(k, "leave_room") EXCEPT !.inner = TRUE]

(* After a send: the iterator raises, or there is another entry to send to,*)
(* or the loop is over.  What follows is for the handler to say.           *)
Over(t, k, d) == ~ Breaks(t, k, d) /\ Targets(t, k, d) = {}
Broadcast(t, k, d, after) ==
    job' = [job EXCEPT ![t] =
        IF Breaks(t, k, d) THEN Raised(k)
        ELSE IF Targets(t, k, d) # {} THEN Sending(t, k, d)
        ELSE after]

-----------------------------------------------------------------------------
(* handle_connection: a user's client opens a socket; with accept() done it*)
(* is registered, and everybody else is sent USER_JOINED.                  *)
Connect(s) ==
    LET d == WithEntry(dict, s, owner[s]) IN
    /\ state[s] = "new" /\ Len(d.entries) <= MaxEntries
    /\ state' = [state EXCEPT ![s] = "open"]
    /\ dict' = d
    /\ Broadcast(s, Begin(NoJob, "USER_JOINED", d), d,
                 Stopped(NoJob, "receive"))
    /\ UNCHANGED owner

-----------------------------------------------------------------------------
(* handle_messages: a message of the client is handed to the service.      *)
Receive(s) ==
    /\ job[s].pc = "receive" /\ state[s] = "open"
    /\ \/ /\ "READY" \in Requests
          /\ job' = [job EXCEPT ![s].pc = "work",
                               ![s].message = "USER_READY_CHANGED"]
       \/ /\ "ADD_BOT" \in Requests
          /\ job' = [job EXCEPT ![s].pc = "work", ![s].message = "BOT_JOINED"]
       \/ "LEAVE" \in Requests /\ job' = [job EXCEPT ![s].pc = "leave_room"]
    /\ UNCHANGED <<dict, owner, state>>

(* The service has done what was asked, and everybody is told; or refuses  *)
(* it: a bot with an answer, a ready flag by closing the socket; or fails. *)
Work(s) ==
    LET k == job[s] IN
    /\ k.pc = "work"
    /\ \/ Broadcast(s, Begin(k, k.message, dict), dict, Stopped(k, "receive"))
          /\ UNCHANGED state
       \/ /\ k.message = "BOT_JOINED"
          /\ job' = [job EXCEPT ![s] = Stopped(k, "receive")]
          /\ UNCHANGED state
       \/ /\ k.message = "USER_READY_CHANGED"
          /\ job' = [job EXCEPT ![s] = Stopped(k, "done")]
          /\ state' = [state EXCEPT ![s] = "closed"]
       \/ job' = [job EXCEPT ![s] = Raised(k)] /\ UNCHANGED state
    /\ UNCHANGED <<dict, owner>>

(* receive_json raises WebSocketDisconnect when the client has gone.       *)
Notice(s) ==
    /\ job[s].pc = "receive" /\ state[s] = "gone"
    /\ state' = [state EXCEPT ![s] = "known"]
    /\ job' = [job EXCEPT ![s] = Raised(@)]
    /\ UNCHANGED <<dict, owner>>

-----------------------------------------------------------------------------
(* leave_room for handle_leave or handle_disconnection: with people left,  *)
(* they are sent USER_LEFT and then USER_LIST; without, or with no row to  *)
(* delete, handle_disconnection goes straight to disconnect, and           *)
(* handle_leave does so or closes the socket.                              *)
LeaveRoom(s) ==
    LET k == job[s] IN
    /\ k.pc = "leave_room"
    /\ \/ /\ Broadcast(s, Begin(k, "USER_LEFT", dict), dict,
                       Stopped(k, "disconnect"))
          /\ UNCHANGED state
       \/ /\ job' = [job EXCEPT ![s] = Stopped(k, "disconnect")]
          /\ UNCHANGED state
       \/ /\ ~ k.inner
          /\ job' = [job EXCEPT ![s] = Stopped(k, "done")]
          /\ state' = [state EXCEPT ![s] = "closed"]
       \/ job' = [job EXCEPT ![s] = Raised(k)] /\ UNCHANGED state
    /\ UNCHANGED <<dict, owner>>

(* disconnect, with its select: a room that is playing keeps the entry.    *)
(* handle_leave then closes the socket, and the loop's next receive raises.*)
Disconnect(s) ==
    LET k == job[s] IN
    /\ k.pc = "disconnect"
    /\ dict' = WithoutEntry(dict, owner[s]) \/ UNCHANGED dict
    /\ state' = IF k.inner THEN state ELSE [state EXCEPT ![s] = "closed"]
    /\ job' = [job EXCEPT ![s] = IF k.inner THEN Stopped(k, "done")
                                 ELSE Raised(k)]
    /\ UNCHANGED owner

-----------------------------------------------------------------------------
(* A send is done, or its exception was swallowed.                         *)
NewsSent(s) ==
    LET k == job[s] IN
    /\ k.pc = "send"
    /\ k.message \in {"USER_JOINED", "USER_READY_CHANGED", "BOT_JOINED"}
    /\ Broadcast(s, k, dict, Stopped(k, "receive"))
    /\ UNCHANGED <<dict, owner, state>>

LeftSent(s) ==
    LET k == job[s] IN
    /\ k.pc = "send" /\ k.message = "USER_LEFT"
    /\ \/ ~ Over(s, k, dict) /\ Broadcast(s, k, dict, NoJob)
       \/ /\ Over(s, k, dict)
          /\ Broadcast(s, Begin(k, "USER_LIST", dict), dict,
                       Stopped(k, "disconnect"))
    /\ UNCHANGED <<dict, owner, state>>

ListSent(s) ==
    LET k == job[s] IN
    /\ k.pc = "send" /\ k.message = "USER_LIST"
    /\ Broadcast(s, k, dict, Stopped(k, "disconnect"))
    /\ UNCHANGED <<dict, owner, state>>

(* broadcast_game_started raises when nobody is connected, and with the    *)
(* first send that does; a send to a client that has just gone may.        *)
MayRaise(s) == Dead(s) \/ state[s] = "gone"

GameStarted ==
    LET k == IF job[Starter].pc = "new"
             THEN Begin(NoJob, "GAME_STARTED", dict) ELSE job[Starter]
        to == dict.entries[First(Starter, k, dict)]
        more == ~ Breaks(Starter, k, dict) /\ Targets(Starter, k, dict) # {}
    IN
    /\ job[Starter].pc \in {"new", "send"}
    /\ \/ /\ more /\ ~ Dead(to)
          /\ job' = [job EXCEPT ![Starter] = Sending(Starter, k, dict)]
       \/ /\ more /\ MayRaise(to)
          /\ job' = [job EXCEPT ![Starter] = Stopped(k, "refused")]
       \/ /\ ~ more
          /\ job' = [job EXCEPT ![Starter] = Stopped(k,
                IF Breaks(Starter, k, dict) \/ dict.entries = <<>>
                THEN "refused" ELSE "answered")]
    /\ UNCHANGED <<dict, owner, state>>

-----------------------------------------------------------------------------
(* A client goes away, without a word.                                     *)
ClientGone(s) ==
    /\ state[s] = "open"
    /\ state' = [state EXCEPT ![s] = "gone"]
    /\ UNCHANGED <<dict, owner, job>>

Continue(s) ==
    \/ Work(s) \/ Notice(s) \/ LeaveRoom(s) \/ Disconnect(s)
    \/ NewsSent(s) \/ LeftSent(s) \/ ListSent(s)

SocketsNext ==
    \E s \in Sockets :
        Connect(s) \/ Receive(s) \/ ClientGone(s) \/ Continue(s)

Next == SocketsNext \/ GameStarted

Spec == Init /\ [][Next]_vars

(* While no game starts.  The event loop runs every handler that is ready; *)
(* clients may be silent.                                                  *)
FairSpec ==
    /\ Init /\ [][SocketsNext]_vars
    /\ \A s \in Sockets : WF_vars(Continue(s))

=============================================================================
