------------------------------ MODULE Membership -----------------------------
(***************************************************************************)
(* What the lobby promises to the rest of the program, with no tables,     *)
(* sessions or tasks: people are in at most one open room, they come one   *)
(* by one, leave alone, together or with their room, and a room that has   *)
(* begun to play does so until it is closed.                               *)
(***************************************************************************)
CONSTANTS Persons, RoomNames

VARIABLES
    members,    \* the pairs of a person and the room that person is in
    open,       \* the rooms there are
    inPlay      \* the rooms whose game is on

memberVars == <<members, open, inPlay>>

MembershipTypeOK ==
    /\ members \subseteq Persons \X RoomNames
    /\ open \subseteq RoomNames
    /\ inPlay \subseteq open

MembershipInit == members = {} /\ open = {} /\ inPlay = {}

-----------------------------------------------------------------------------
Homeless(p) == \A r \in RoomNames : <<p, r>> \notin members
In(r) == {m \in members : m[2] = r}

(* Somebody who is in no room opens one, or enters one that is open.       *)
Found(p, r) ==
    /\ Homeless(p) /\ r \notin open
    /\ members' = members \cup {<<p, r>>}
    /\ open' = open \cup {r}
    /\ UNCHANGED inPlay

Enter(p, r) ==
    /\ Homeless(p) /\ r \in open
    /\ members' = members \cup {<<p, r>>}
    /\ UNCHANGED <<open, inPlay>>

(* Some leave, and some rooms that nobody is left in are closed, with their*)
(* games.                                                                  *)
OtherGames(closed) == inPlay \ closed

Depart(leaving, closed) ==
    /\ \A r \in closed : In(r) \subseteq leaving
    /\ members' = members \ leaving
    /\ open' = open \ closed
    /\ inPlay' = OtherGames(closed)

Begin(r) ==
    /\ r \in open
    /\ inPlay' = inPlay \cup {r}
    /\ UNCHANGED <<members, open>>

MembershipNext ==
    \/ \E p \in Persons, r \in RoomNames : Found(p, r) \/ Enter(p, r)
    \/ \E leaving \in SUBSET members, closed \in SUBSET open :
          Depart(leaving, closed)
    \/ \E r \in open : Begin(r)

MembershipSpec == MembershipInit /\ [][MembershipNext]_memberVars

=============================================================================
