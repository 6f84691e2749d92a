--------------------------- MODULE LobbyMembership ---------------------------
(***************************************************************************)
(* The lobby implements Membership: its rows are the members, its rooms    *)
(* the open rooms.  Tasks, copies, sockets and the cleanup, and the flags, *)
(* slots, hosts and numbers of the tables, are not seen there.             *)
(***************************************************************************)
EXTENDS LobbyProperties

Members == {<<Owner(id), roomUsers[id].room>> : id \in DOMAIN roomUsers}
PlayingRooms == {r \in DOMAIN rooms : rooms[r].playing}

Abstract == INSTANCE Membership
    WITH Persons <- People, RoomNames <- RoomIds,
         members <- Members, open <- DOMAIN rooms, inPlay <- PlayingRooms

(* Whatever requests, sockets, cleanups and crashes interleave, each step  *)
(* is one that Membership allows or is not seen there: nobody changes room *)
(* without leaving the first, no room goes while somebody is in it, no     *)
(* game is taken back.                                                     *)
ImplementsMembership == Abstract!MembershipSpec

=============================================================================
