------------------------------ MODULE RoomStore ------------------------------
(***************************************************************************)
(* The two database tables of the lobby, and the constraints PostgreSQL    *)
(* enforces on them when a transaction commits:                            *)
(*                                                                         *)
(*   room      (app/models/room.py)       unique room_number               *)
(*   room_user (app/models/room_user.py)  unique user_id, foreign key      *)
(*                                        room_id -> room.id               *)
(*                                                                         *)
(* A table is a function from the primary keys in use to the rows.  The    *)
(* columns kept are those some branch of the code reads back; names, time  *)
(* stamps, nicknames and character codes are left out.                     *)
(***************************************************************************)
EXTENDS Integers, FiniteSets

CONSTANTS
    Users,      \* people: rows of the user table with an email
    Bots,       \* accounts create_bot_user can make (a bound)
    RoomIds,    \* the uuids a room row can get (a bound)
    Stamps,     \* tell apart the rows one person has had (a bound)
    Games,      \* the games the game server can start (a bound)
    MaxNumber,  \* the largest room number (a bound)
    MaxUsers,   \* max_users of a room, and the quorum of a game: both are 4
    Nothing     \* None

ASSUME StoreAssumption ==
    /\ Bots \subseteq Nat /\ RoomIds \subseteq Nat
    /\ Stamps \subseteq Nat /\ Games \subseteq Nat
    /\ MaxNumber \in Nat
    /\ MaxUsers \in Nat \ {0}
    /\ Users \cap Bots = {}
    /\ Nothing \notin Users \cup Bots \cup RoomIds \cup Games

VARIABLES
    rooms,      \* the room table
    roomUsers   \* the room_user table

storeVars == <<rooms, roomUsers>>

-----------------------------------------------------------------------------
People == Users \cup Bots
Slots == 0 .. (MaxUsers - 1)
RoomNumbers == 1 .. MaxNumber

(* A primary key of room_user: the person, and which of their rows it is.  *)
RowIds == People \X Stamps
Owner(id) == id[1]

Room == [number : RoomNumbers, host : People, playing : BOOLEAN,
         game : Games \cup {Nothing}]
RoomUser == [room : RoomIds, slot : Slots, ready : BOOLEAN, bot : BOOLEAN]

StoreTypeOK ==
    /\ DOMAIN rooms \subseteq RoomIds
    /\ rooms \in [DOMAIN rooms -> Room]
    /\ DOMAIN roomUsers \subseteq RowIds
    /\ roomUsers \in [DOMAIN roomUsers -> RoomUser]

StoreInit ==
    /\ rooms = [r \in {} |-> Nothing]
    /\ roomUsers = [id \in {} |-> Nothing]

-----------------------------------------------------------------------------
(* SELECT                                                                  *)
RoomExists(r) == r \in DOMAIN rooms
RowExists(id) == id \in DOMAIN roomUsers
RowsOf(r) == {id \in DOMAIN roomUsers : roomUsers[id].room = r}
RowsOfUser(u) == {id \in DOMAIN roomUsers : Owner(id) = u}
OwnRowsIn(u, r) == RowsOfUser(u) \cap RowsOf(r)
AnySlot(r) == Slots    \* mutant of FreeSlots: the used slots are forgotten
FreeSlots(r) == {s \in Slots : \A id \in RowsOf(r) : roomUsers[id].slot # s}

(* The number a new room asks for: one more than the largest in use.       *)
IsNextNumber(n) ==
    /\ \A r \in DOMAIN rooms : rooms[r].number < n
    /\ n = 1 \/ \E r \in DOMAIN rooms : rooms[r].number = n - 1

(* INSERT and DELETE on one table.                                         *)
Insert(table, key, row) ==
    [k \in DOMAIN table \cup {key} |-> IF k = key THEN row ELSE table[k]]
Delete(table, keys) == [k \in DOMAIN table \ keys |-> table[k]]

-----------------------------------------------------------------------------
(* The constraints: a commit that breaks one of them raises IntegrityError.*)
(* The mutants are the tables declared without them.                       *)
NumberFree(n) == \A r \in DOMAIN rooms : rooms[r].number # n

UserUnchecked(u) == TRUE
UserFree(u) == RowsOfUser(u) = {}

ParentExists(r) == RoomExists(r)

ReferencesUnchecked(gone, deleted) == TRUE
Unreferenced(gone, deleted) ==
    \A id \in DOMAIN roomUsers \ deleted : roomUsers[id].room \notin gone

(* A generated key is any unused one; the smallest stands for all of them. *)
LeastOf(S) == {m \in S : \A n \in S : m <= n}

=============================================================================
