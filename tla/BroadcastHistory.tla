-------------------------- MODULE BroadcastHistory ---------------------------
(***************************************************************************)
(* The sockets of a room with two history variables for the broadcast that *)
(* a handler is in: the sockets it has sent to, and those that have been   *)
(* registered and listening since it began.                                *)
(***************************************************************************)
EXTENDS BroadcastProperties

VARIABLES told, owed

Begins(t) ==
    /\ job'[t].pc = "send"
    /\ job[t].pc # "send" \/ job[t].message # job'[t].message
NotBegun(t) == t = Starter /\ job'[t].pc = "new"
SentTo(t) == {job[t].to} \ {Nothing}

HistoryInit ==
    /\ Init
    /\ told = [t \in Handlers |-> {}]
    /\ owed = [t \in Handlers |-> {}]

HistoryNext ==
    LET steady == {s \in Sockets : Registered(s) /\ Listening(s)} IN
    /\ Next
    /\ told' = [t \in Handlers |-> IF Begins(t) THEN SentTo(t)'
                                   ELSE told[t] \cup SentTo(t)']
    /\ owed' = [t \in Handlers |->
                  IF Begins(t) \/ NotBegun(t)
                  THEN {s \in steady' : ~ Skipped(t, job[t], s)'}
                  ELSE owed[t] \cap steady']

historyVars == <<vars, told, owed>>
HistorySpec == HistoryInit /\ [][HistoryNext]_historyVars

(* A broadcast that comes to its end has sent to every socket that was     *)
(* there all the time: sends that fail, entries that are replaced, and     *)
(* connections that come and go in between take nobody's message away, or  *)
(* the iterator raises.                                                    *)
Completes(t) ==
    \/ job[t].pc = "send" /\ job'[t].pc \in {"receive", "disconnect"}
    \/ job[t].message = "USER_LEFT" /\ job'[t].message = "USER_LIST"
    \/ job[t].pc # "answered" /\ job'[t].pc = "answered"
ReachesSteady ==
    [][\A t \in Handlers : Completes(t) => owed[t] \subseteq told[t]]_historyVars

(* No broadcast sends to a socket twice.                                   *)
SendsOnce ==
    [][\A t \in Handlers :
         /\ job'[t].pc = "send" /\ job'[t] # job[t] /\ ~ Begins(t)
         => job'[t].to \notin told[t]]_historyVars

=============================================================================
