----------------------------- MODULE RoomQueries -----------------------------
(***************************************************************************)
(* The requests that read the lobby: GET /room, GET /room/{n}/users and    *)
(* GET /room/me (app/api/v1/endpoints/room.py), GET /user/me/is-playing    *)
(* (endpoints/user.py).  Each is several SELECTs, and each SELECT sees what*)
(* is committed by then: people come, go and begin to play in between, as  *)
(* Membership has it.                                                      *)
(*                                                                         *)
(* The cleanup that GET /room begins with is one of Membership's steps.    *)
(* Accounts are never deleted, so that the host of a room is always found. *)
(***************************************************************************)
EXTENDS Membership

CONSTANTS
    Queries,    \* the requests
    Nobody      \* no person, no room

ASSUME QueryAssumption == Nobody \notin Persons \cup RoomNames

VARIABLES
    at,         \* how far a request is
    kind,       \* which of the four it is
    asker,      \* whose request it is, if that matters
    left,       \* GET /room: the rooms of the first SELECT not yet looked into
    found,      \* the room that is asked about
    shown,      \* the pairs of a person and a room in the answer
    told        \* is_playing in the answer

queryVars == <<at, kind, asker, left, found, shown, told>>
vars == <<memberVars, queryVars>>

Steps == {"new", "rooms", "room", "again", "users", "answered", "not_found"}
Kinds == {"available", "users", "mine", "playing"}

QueriesTypeOK ==
    /\ at \in [Queries -> Steps]
    /\ kind \in [Queries -> Kinds]
    /\ asker \in [Queries -> Persons \cup {Nobody}]
    /\ left \in [Queries -> SUBSET RoomNames]
    /\ found \in [Queries -> RoomNames \cup {Nobody}]
    /\ shown \in [Queries -> SUBSET (Persons \X RoomNames)]
    /\ told \in [Queries -> BOOLEAN]
    /\ \A q \in Queries :         \* nothing is asked of no room
          at[q] \in {"room", "again", "users"} => found[q] \in RoomNames

TypeOK == MembershipTypeOK /\ QueriesTypeOK

Init ==
    /\ MembershipInit
    /\ at = [q \in Queries |-> "new"]
    /\ kind \in [Queries -> Kinds]
    /\ asker = [q \in Queries |-> Nobody]
    /\ left = [q \in Queries |-> {}]
    /\ found = [q \in Queries |-> Nobody]
    /\ shown = [q \in Queries |-> {}]
    /\ told = [q \in Queries |-> FALSE]

Goes(q, step) == at' = [at EXCEPT ![q] = step]

-----------------------------------------------------------------------------
(* get_available_rooms: the rooms that do not play, and then one after the *)
(* other, in no promised order, the people in each.                        *)
Available == open \ inPlay

SelectRooms(q) ==
    /\ at[q] = "new" /\ kind[q] = "available"
    /\ Goes(q, "rooms")
    /\ left' = [left EXCEPT ![q] = Available]
    /\ UNCHANGED <<memberVars, kind, asker, found, shown, told>>

ThisRoomOnly(q, r) == In(r)     \* mutant of WithRoom: the last room is all
WithRoom(q, r) == shown[q] \cup In(r)

SelectUsers(q, r) ==
    /\ at[q] = "rooms" /\ r \in left[q]
    /\ left' = [left EXCEPT ![q] = @ \ {r}]
    /\ shown' = [shown EXCEPT ![q] = WithRoom(q, r)]
    /\ UNCHANGED <<memberVars, at, kind, asker, found, told>>

AnswerRooms(q) ==
    /\ at[q] = "rooms" /\ left[q] = {}
    /\ Goes(q, "answered")
    /\ UNCHANGED <<memberVars, kind, asker, left, found, shown, told>>

-----------------------------------------------------------------------------
(* get_my_room and is_user_in_playing_room: the asker's row names a room.  *)
(* The mutant goes on without a row.                                       *)
AskOwnRow(q, p) ==
    /\ at[q] = "new" /\ kind[q] \in {"mine", "playing"}
    /\ asker' = [asker EXCEPT ![q] = p]
    /\ Goes(q, "room")
    /\ \/ \E r \in RoomNames :
            <<p, r>> \in members /\ found' = [found EXCEPT ![q] = r]
       \/ Homeless(p) /\ UNCHANGED found
    /\ UNCHANGED <<memberVars, kind, left, shown, told>>
AskOwn(q, p) ==
    /\ at[q] = "new" /\ kind[q] \in {"mine", "playing"}
    /\ asker' = [asker EXCEPT ![q] = p]
    /\ \/ \E r \in RoomNames :
            /\ <<p, r>> \in members
            /\ Goes(q, "room")
            /\ found' = [found EXCEPT ![q] = r]
       \/ Homeless(p) /\ Goes(q, "not_found") /\ UNCHANGED found
    /\ UNCHANGED <<memberVars, kind, left, shown, told>>

(* The room itself, with its flag.  The mutants look for the room among the*)
(* available ones, and take the flag of any room.                          *)
ListedExists(r) == r \in Available
Exists(r) == r \in open
AnyPlays(r) == inPlay # {}
Plays(r) == r \in inPlay

ReadRoom(q) ==
    LET r == found[q] IN
    /\ at[q] = "room"
    /\ \/ /\ Exists(r)
          /\ told' = [told EXCEPT ![q] = Plays(r)]
          /\ Goes(q, IF kind[q] = "mine" THEN "again" ELSE "answered")
       \/ ~ Exists(r) /\ Goes(q, "not_found") /\ UNCHANGED told
    /\ UNCHANGED <<memberVars, kind, asker, left, found, shown>>

(* GET /room/{n}/users: get_room_by_number finds the room, or raises.      *)
FindRoom(q, r) ==
    /\ at[q] = "new" /\ kind[q] = "users"
    /\ \/ Exists(r) /\ Goes(q, "again")
       \/ ~ Exists(r) /\ Goes(q, "not_found")
    /\ found' = [found EXCEPT ![q] = r]
    /\ UNCHANGED <<memberVars, kind, asker, left, shown, told>>

(* get_room_users: the room once more, and its people.                     *)
ReadAgain(q) ==
    /\ at[q] = "again"
    /\ Goes(q, IF Exists(found[q]) THEN "users" ELSE "not_found")
    /\ UNCHANGED <<memberVars, kind, asker, left, found, shown, told>>

ReadUsers(q) ==
    /\ at[q] = "users"
    /\ shown' = [shown EXCEPT ![q] = In(found[q])]
    /\ Goes(q, "answered")
    /\ UNCHANGED <<memberVars, kind, asker, left, found, told>>

-----------------------------------------------------------------------------
QueryNext(q) ==
    \/ SelectRooms(q) \/ AnswerRooms(q) \/ ReadRoom(q) \/ ReadAgain(q)
    \/ ReadUsers(q)
    \/ \E r \in RoomNames : SelectUsers(q, r) \/ FindRoom(q, r)
    \/ \E p \in Persons : AskOwn(q, p)

Next ==
    \/ \E q \in Queries : QueryNext(q)
    \/ MembershipNext /\ UNCHANGED queryVars

Spec == Init /\ [][Next]_vars

=============================================================================
