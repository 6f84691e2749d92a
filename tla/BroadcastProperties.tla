------------------------- MODULE BroadcastProperties -------------------------
(***************************************************************************)
(* What must be true of the sockets of a room.                             *)
(***************************************************************************)
EXTENDS RoomBroadcast

(* A socket stays registered until its own handler takes it out, whatever  *)
(* other users' sockets come, go and fail, as long as its user opens no    *)
(* other: the cleanup counts on the registry to spare who is connected.    *)
OnlySocket(s) ==
    \A q \in Sockets \ {s} : state[q] # "new" => owner[q] # owner[s]
Serving(s) ==
    /\ job[s].pc \in {"send", "receive", "work", "leave_room", "disconnect"}
    /\ ~ job[s].inner
LoneSocketStays ==
    \A s \in Sockets : Serving(s) /\ OnlySocket(s) => Registered(s)

(* The handler of a client that has gone comes to an end, whatever its     *)
(* iterations run into on the way.                                         *)
HandlersEnd == \A s \in Sockets : state[s] = "gone" ~> job[s].pc = "done"

=============================================================================
