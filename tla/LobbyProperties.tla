--------------------------- MODULE LobbyProperties ---------------------------
(***************************************************************************)
(* What must be true of the lobby, whatever its tasks interleave.          *)
(***************************************************************************)
EXTENDS Lobby

(* Nobody is in two rooms: join and create look for a row of the user      *)
(* before they insert one, but only the unique user_id of room_user        *)
(* decides between two requests that both found none.                      *)
OneRoomPerUser ==
    \A i, j \in DOMAIN roomUsers : Owner(i) = Owner(j) => i = j

(* Every row is in a room that is there: leave_room, end_game and          *)
(* cleanup_rooms delete a room they found empty some awaits before.        *)
RowsHaveRooms ==
    \A id \in DOMAIN roomUsers : RoomExists(roomUsers[id].room)

(* No two rooms have the same number, though two requests can select the   *)
(* same maximum.                                                           *)
RoomNumbersUnique ==
    \A r, q \in DOMAIN rooms : rooms[r].number = rooms[q].number => r = q

-----------------------------------------------------------------------------
(* Tasks that have selected slot s of room r and not inserted their row.   *)
JoinClaims(r) ==
    {t \in Tasks : /\ At(t, "join_again") \/ At(t, "join_insert")
                   /\ task[t].dest = r}
BotClaims(r) == {t \in Tasks : At(t, "bot_insert") /\ task[t].room = r}
Claims(r, s) == {t \in JoinClaims(r) \cup BotClaims(r) : task[t].slot = s}
Occupants(r, s) == {id \in RowsOf(r) : roomUsers[id].slot = s}

(* A slot is selected and its row inserted in two statements, so several   *)
(* requests can take the same slot of a room; but never more of them than  *)
(* are served at a time, counting those that have not inserted yet.        *)
SlotSharingBounded ==
    \A r \in RoomIds, s \in Slots :
        Cardinality(Occupants(r, s)) + Cardinality(Claims(r, s))
            <= Cardinality(Tasks)

(* join_room compares the number of rows with max_users some awaits before *)
(* it inserts: a room takes more people than it seats, by at most one for  *)
(* every other request that is served at the same time.                    *)
PeopleIn(r) == {id \in RowsOf(r) : ~ roomUsers[id].bot}
OverbookingBounded ==
    \A r \in RoomIds :
        Cardinality(PeopleIn(r)) + Cardinality(JoinClaims(r))
            <= MaxUsers - 1 + Cardinality(Tasks)

-----------------------------------------------------------------------------
(* A room that is playing is so until it is deleted, although sessions     *)
(* that loaded it before the game write its host back later.  The end of   *)
(* its game is no exception: end_game deletes the room.                    *)
PlayingIsFinal ==
    [][\A r \in DOMAIN rooms \cap DOMAIN rooms' :
         rooms[r].playing => rooms'[r].playing]_vars

(* Start requests of the room that have not answered.                      *)
Starting(r) ==
    \E t \in Tasks :
        task[t].pc \in {"start_check", "start_call", "start_commit"}
            /\ task[t].room = r

(* Once the requests to start a room that overlapped have been answered,   *)
(* the room keeps the game the last of them wrote until it is deleted: its *)
(* users are sent to that game, and the game server ends the room by it.   *)
(* Until then one start replaces the game of another.                      *)
GameIsFixed ==
    [][\A r \in DOMAIN rooms \cap DOMAIN rooms' :
         rooms[r].playing /\ ~ Starting(r) =>
            rooms'[r].game = rooms[r].game /\ ~ Starting(r)']_vars

(* A session's copy of a room may miss that a game has started, never that *)
(* one has ended: what leave_room and disconnect refuse to do for a room   *)
(* that their copy calls playing is refused for a room that is playing or  *)
(* is gone.                                                                *)
CopiesLag ==
    \A t \in Tasks, r \in DOMAIN rooms :
        task[t].seen[r] # Nothing /\ task[t].seen[r].playing
            => rooms[r].playing

-----------------------------------------------------------------------------
(* Leaves that will see that room r has nobody but bots in it, and take    *)
(* them and the room along.                                                *)
Clears(t, r) ==
    /\ task[t].room = r
    /\ \/ At(t, "leave_rest")
       \/ At(t, "leave_bots") /\ RowsOf(r) \subseteq task[t].rest
       \/ At(t, "leave_drop") /\ RowsOf(r) = {}

(* A room that nobody is in, or bots alone, and that no leave will clear.  *)
Deserted(r) ==
    /\ RoomExists(r) /\ PeopleIn(r) = {}
    /\ \A t \in Tasks : ~ Clears(t, r)

(* However leaves, joins and disconnections of one room interleave, some   *)
(* leave always sees that it was the last.  A room is deserted only by a   *)
(* restart, by a cleanup that takes the rows of everybody but of one who   *)
(* leaves before its commit, or by a bot that is seated when the last      *)
(* person has gone.                                                        *)
RoomsNotDeserted ==
    [][\A r \in DOMAIN rooms :
         Deserted(r)' => \/ Deserted(r)
                        \/ Crash \/ SweepCommit
                        \/ \E t \in Tasks, id \in RowIds : BotInsert(t, id)]_vars

-----------------------------------------------------------------------------
(* What documents and tests of the repository say, and the code does not.  *)

(* A room has at most max_users rows: join_room answers ROOM_IS_FULL to    *)
(* one more.                                                               *)
RoomCapacity ==
    \A r \in DOMAIN rooms : Cardinality(RowsOf(r)) <= MaxUsers

(* When end_game has ended the game of a room, the room is there and no    *)
(* longer plays.                                                           *)
EndKeepsRoom ==
    [][\A t \in Tasks :
         EndCommit(t) /\ rooms' # rooms =>
            /\ task[t].room \in DOMAIN rooms'
            /\ ~ rooms'[task[t].room].playing]_vars

-----------------------------------------------------------------------------
(* Without a crash or a cleanup in between, a room that has lost its last  *)
(* row is deleted, or somebody joins it: every leave_room that could have  *)
(* emptied it goes on to look at what remains.                             *)
EmptyRoomIsDropped ==
    \A r \in RoomIds :
        (RoomExists(r) /\ RowsOf(r) = {})
            ~> (~ RoomExists(r) \/ RowsOf(r) # {})

(* Every request and every message of a socket is answered, and a socket   *)
(* that is left or whose client has gone is given up: no task waits for    *)
(* another, the join that leaves a room first goes on, and the             *)
(* disconnection that follows a leave is the last.                         *)
RequestsFinish ==
    \A t \in Tasks :
        (~ At(t, "idle") /\ ~ At(t, "ws_open"))
            ~> (At(t, "idle") \/ At(t, "ws_open"))

=============================================================================
