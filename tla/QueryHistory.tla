---------------------------- MODULE QueryHistory -----------------------------
(***************************************************************************)
(* What must be true of the answers about the lobby, with a history        *)
(* variable: what has been so ever since a request began, until it ended.  *)
(***************************************************************************)
EXTENDS RoomQueries

VARIABLES
    stayed,     \* the pairs of a person and a room that person has been in
    waited,     \* the rooms that have been open and not playing
    played      \* the rooms that have been playing

Ended(q) == at[q] \in {"answered", "not_found"}

(* before: what has been so up to this step; now': what is so after it.    *)
Throughout(q, before, now) ==
    IF at'[q] = "new" THEN now ELSE IF Ended(q) THEN before
    ELSE before \cap now

HistoryInit ==
    /\ Init
    /\ stayed = [q \in Queries |-> {}]
    /\ waited = [q \in Queries |-> {}]
    /\ played = [q \in Queries |-> {}]

HistoryNext ==
    /\ Next
    /\ stayed' = [q \in Queries |-> Throughout(q, stayed[q], members')]
    /\ waited' = [q \in Queries |-> Throughout(q, waited[q], (open \ inPlay)')]
    /\ played' = [q \in Queries |-> Throughout(q, played[q], inPlay')]

historyVars == <<vars, stayed, waited, played>>
HistorySpec == HistoryInit /\ [][HistoryNext]_historyVars

-----------------------------------------------------------------------------
(* GET /room lists everybody who has been in a waiting room all the time,  *)
(* whoever came, went and began to play between its SELECTs.               *)
StayersListed ==
    \A q \in Queries : at[q] = "answered" /\ kind[q] = "available" =>
        {m \in stayed[q] : m[2] \in waited[q]} \subseteq shown[q]

(* Somebody who stays in a room is never told that there is none, and is   *)
(* among the people that GET /room/me shows.                               *)
StayerFound ==
    \A q \in Queries : Ended(q) /\ kind[q] \in {"mine", "playing"} =>
        \A r \in RoomNames : <<asker[q], r>> \in stayed[q] =>
            /\ at[q] = "answered" /\ found[q] = r
            /\ kind[q] = "mine" => <<asker[q], r>> \in shown[q]

(* Somebody who stays is told that the room plays if it always has, and    *)
(* not that it does if it never has: a client that comes back goes to the  *)
(* game or to the room by this answer.                                     *)
StayerTold ==
    \A q \in Queries : Ended(q) /\ kind[q] \in {"mine", "playing"} =>
        \A r \in RoomNames : <<asker[q], r>> \in stayed[q] =>
            /\ r \in played[q] => told[q]
            /\ r \in waited[q] => ~ told[q]

=============================================================================
