--------------------------- MODULE RoomConnections ---------------------------
(***************************************************************************)
(* RoomConnectionManager (app/core/room_connection_manager.py): the one    *)
(* object of the process that knows which users have a socket open in      *)
(* which room.  The registry is keyed by the room and the user: a second   *)
(* socket of a user replaces the first, and whoever deregisters the user   *)
(* removes the entry that is there, whichever socket made it.              *)
(***************************************************************************)
EXTENDS RoomStore

VARIABLE
    active      \* the keys of active_connections

ActiveTypeOK == active \subseteq RoomIds \X Users

ActiveInit == active = {}

(* get_room_users                                                          *)
ActiveUsers(r) == {u \in Users : <<r, u>> \in active}

(* connect, after the await of accept()                                    *)
Connect(r, u) == active' = active \cup {<<r, u>>}

(* disconnect: the entry stays when the room is there and the session's    *)
(* copy of it says that it is playing.                                     *)
Disconnect(r, u, playing) ==
    active' = IF RoomExists(r) /\ playing THEN active
              ELSE active \ {<<r, u>>}

=============================================================================
