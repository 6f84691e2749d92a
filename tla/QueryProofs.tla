----------------------------- MODULE QueryProofs -----------------------------
(***************************************************************************)
(* What the answers about the lobby promise, for any number of people,     *)
(* rooms and requests.  The environment is Membership, which the lobby is  *)
(* proved to implement in MembershipProofs.                                *)
(***************************************************************************)
EXTENDS QueryHistory, TLAPS

(* Membership keeps everybody in one room at most, and that one open.      *)
OneRoomEach ==
    \A p \in Persons, r, s \in RoomNames :
        <<p, r>> \in members /\ <<p, s>> \in members => r = s
RoomsOpen == \A m \in members : m[2] \in open

HistoryTypeOK ==
    /\ stayed \in [Queries -> SUBSET (Persons \X RoomNames)]
    /\ waited \in [Queries -> SUBSET RoomNames]
    /\ played \in [Queries -> SUBSET RoomNames]

Typed == TypeOK /\ HistoryTypeOK /\ OneRoomEach /\ RoomsOpen

(* Until a request ends, what has been so throughout is so.                *)
StillSo(q) ==
    ~ Ended(q) =>
        /\ stayed[q] \subseteq members
        /\ waited[q] \subseteq Available
        /\ played[q] \subseteq inPlay

(* Each kind of request has a way of its own.                              *)
Way(q) ==
    /\ kind[q] = "available" => at[q] \in {"new", "rooms", "answered"}
    /\ at[q] = "rooms" => kind[q] = "available"
    /\ at[q] = "room" => kind[q] \in {"mine", "playing"}
    /\ at[q] \in {"again", "users"} => kind[q] \in {"users", "mine"}

(* Whoever has stayed in a waiting room is shown, or the room is still to  *)
(* be looked into.                                                         *)
StayersAhead(q) ==
    kind[q] = "available" /\ at[q] \in {"rooms", "answered"} =>
        \A m \in stayed[q] : m[2] \in waited[q] =>
            m \in shown[q] \/ (at[q] = "rooms" /\ m[2] \in left[q])

(* The room that is found is the one the asker has stayed in, if there is  *)
(* one; the answer shows the asker there, and its flag is right.           *)
Own(q) == kind[q] \in {"mine", "playing"}
Right(q) ==
    Own(q) /\ at[q] # "new" =>
        \A r \in RoomNames : <<asker[q], r>> \in stayed[q] =>
            /\ at[q] \in {"room", "again", "users", "answered"} /\ found[q] = r
            /\ at[q] # "room" => /\ r \in played[q] => told[q]
                                 /\ r \in waited[q] => ~ told[q]
            /\ at[q] = "answered" /\ kind[q] = "mine" =>
                   <<asker[q], r>> \in shown[q]

IInv ==
    /\ Typed
    /\ \A q \in Queries : StillSo(q) /\ Way(q) /\ StayersAhead(q) /\ Right(q)

-----------------------------------------------------------------------------
(* The types.                                                              *)
LEMMA TypeInit == ASSUME HistoryInit PROVE Typed
BY DEF HistoryInit, Init, MembershipInit, Typed, TypeOK, MembershipTypeOK,
       QueriesTypeOK, Steps, HistoryTypeOK, OneRoomEach, RoomsOpen

LEMMA MembershipStep ==
  ASSUME MembershipTypeOK, OneRoomEach, RoomsOpen, MembershipNext
  PROVE  MembershipTypeOK' /\ OneRoomEach' /\ RoomsOpen'
<1>1. ASSUME NEW p \in Persons, NEW r \in RoomNames, Found(p, r)
      PROVE  MembershipTypeOK' /\ OneRoomEach' /\ RoomsOpen'
  BY <1>1 DEF Found, Homeless, MembershipTypeOK, OneRoomEach, RoomsOpen
<1>2. ASSUME NEW p \in Persons, NEW r \in RoomNames, Enter(p, r)
      PROVE  MembershipTypeOK' /\ OneRoomEach' /\ RoomsOpen'
  BY <1>2 DEF Enter, Homeless, MembershipTypeOK, OneRoomEach, RoomsOpen
<1>3. ASSUME NEW leaving \in SUBSET members, NEW closed \in SUBSET open,
             Depart(leaving, closed)
      PROVE  MembershipTypeOK' /\ OneRoomEach' /\ RoomsOpen'
  BY <1>3 DEF Depart, OtherGames, In, MembershipTypeOK, OneRoomEach, RoomsOpen
<1>4. ASSUME NEW r \in open, Begin(r)
      PROVE  MembershipTypeOK' /\ OneRoomEach' /\ RoomsOpen'
  BY <1>4 DEF Begin, MembershipTypeOK, OneRoomEach, RoomsOpen
<1> QED
  BY <1>1, <1>2, <1>3, <1>4 DEF MembershipNext

LEMMA QueryTypeStep ==
  ASSUME MembershipTypeOK, QueriesTypeOK, NEW q \in Queries, QueryNext(q)
  PROVE  QueriesTypeOK' /\ UNCHANGED memberVars
<1> USE DEF QueriesTypeOK, Goes, Steps, Kinds, MembershipTypeOK
<1>1. ASSUME SelectRooms(q) PROVE QueriesTypeOK' /\ UNCHANGED memberVars
  BY <1>1 DEF SelectRooms, Available
<1>2. ASSUME AnswerRooms(q) PROVE QueriesTypeOK' /\ UNCHANGED memberVars
  BY <1>2 DEF AnswerRooms
<1>3. ASSUME ReadRoom(q) PROVE QueriesTypeOK' /\ UNCHANGED memberVars
  <2> DEFINE flag == found[q] \in inPlay
  <2>1. flag \in BOOLEAN
    OBVIOUS
  <2>2. told' = [told EXCEPT ![q] = flag] \/ told' = told
    BY <1>3 DEF ReadRoom, Plays
  <2> HIDE DEF flag
  <2>3. told' \in [Queries -> BOOLEAN]
    BY <2>1, <2>2
  <2> QED
    BY <1>3, <2>3 DEF ReadRoom
<1>4. ASSUME ReadAgain(q) PROVE QueriesTypeOK' /\ UNCHANGED memberVars
  BY <1>4 DEF ReadAgain
<1>5. ASSUME ReadUsers(q) PROVE QueriesTypeOK' /\ UNCHANGED memberVars
  BY <1>5 DEF ReadUsers, In
<1>6. ASSUME NEW r \in RoomNames, SelectUsers(q, r)
      PROVE  QueriesTypeOK' /\ UNCHANGED memberVars
  BY <1>6 DEF SelectUsers, WithRoom, In
<1>7. ASSUME NEW r \in RoomNames, FindRoom(q, r)
      PROVE  QueriesTypeOK' /\ UNCHANGED memberVars
  BY <1>7 DEF FindRoom
<1>8. ASSUME NEW p \in Persons, AskOwn(q, p)
      PROVE  QueriesTypeOK' /\ UNCHANGED memberVars
  BY <1>8 DEF AskOwn
<1> QED
  BY <1>1, <1>2, <1>3, <1>4, <1>5, <1>6, <1>7, <1>8 DEF QueryNext

LEMMA TypeStep ==
  ASSUME Typed, HistoryNext PROVE Typed'
<1>1. MembershipTypeOK' /\ QueriesTypeOK' /\ OneRoomEach' /\ RoomsOpen'
  <2>1. CASE MembershipNext /\ UNCHANGED queryVars
    BY <2>1, MembershipStep DEF Typed, TypeOK, QueriesTypeOK, queryVars
  <2>2. ASSUME NEW q \in Queries, QueryNext(q)
        PROVE  MembershipTypeOK' /\ QueriesTypeOK' /\ OneRoomEach' /\ RoomsOpen'
    BY <2>2, QueryTypeStep DEF Typed, TypeOK, MembershipTypeOK, memberVars,
         OneRoomEach, RoomsOpen
  <2> QED
    BY <2>1, <2>2 DEF HistoryNext, Next
<1>2. HistoryTypeOK'
  BY <1>1 DEF HistoryNext, Throughout, HistoryTypeOK, Typed, MembershipTypeOK
<1> QED
  BY <1>1, <1>2 DEF Typed, TypeOK

-----------------------------------------------------------------------------
(* A step either leaves a request alone or is one of its own.              *)
Rests(q) ==
    /\ at'[q] = at[q] /\ kind'[q] = kind[q] /\ asker'[q] = asker[q]
    /\ left'[q] = left[q] /\ found'[q] = found[q]
    /\ shown'[q] = shown[q] /\ told'[q] = told[q]

LEMMA Others ==
  ASSUME Typed, NEW q \in Queries, NEW o \in Queries, o # q, QueryNext(o)
  PROVE  Rests(q)
BY DEF Typed, TypeOK, QueriesTypeOK, QueryNext, Rests, SelectRooms,
       AnswerRooms, ReadRoom, ReadAgain, ReadUsers, SelectUsers, FindRoom,
       AskOwn, Goes

LEMMA OwnOrNot ==
  ASSUME Typed, Next, NEW q \in Queries
  PROVE  Rests(q) \/ (QueryNext(q) /\ UNCHANGED memberVars)
<1>1. CASE MembershipNext /\ UNCHANGED queryVars
  BY <1>1 DEF Rests, queryVars
<1>2. ASSUME NEW o \in Queries, QueryNext(o)
      PROVE  Rests(q) \/ (QueryNext(q) /\ UNCHANGED memberVars)
  BY <1>2, Others, QueryTypeStep DEF Typed, TypeOK
<1> QED
  BY <1>1, <1>2 DEF Next

(* What has been so throughout shrinks, but for a request not yet made.    *)
LEMMA Shrinks ==
  ASSUME HistoryTypeOK, HistoryNext, NEW q \in Queries
  PROVE  /\ at'[q] = "new" => /\ stayed'[q] = members'
                              /\ waited'[q] = Available'
                              /\ played'[q] = inPlay'
         /\ at'[q] # "new" => /\ stayed'[q] \subseteq stayed[q]
                              /\ waited'[q] \subseteq waited[q]
                              /\ played'[q] \subseteq played[q]
         /\ at'[q] # "new" /\ ~ Ended(q) =>
                /\ stayed'[q] \subseteq members'
                /\ waited'[q] \subseteq Available'
                /\ played'[q] \subseteq inPlay'
BY DEF HistoryNext, Throughout, Available

LEMMA StillSoStep ==
  ASSUME Typed, HistoryNext, NEW q \in Queries, StillSo(q)
  PROVE  StillSo(q)'
<1>1. ~ Ended(q)' => ~ Ended(q)
  <2>1. CASE Rests(q)
    BY <2>1 DEF Rests, Ended
  <2>2. CASE QueryNext(q)
    BY <2>2 DEF Ended, QueryNext, SelectRooms, AnswerRooms, ReadRoom, ReadAgain,
         ReadUsers, SelectUsers, FindRoom, AskOwn
  <2> QED
    BY <2>1, <2>2, OwnOrNot DEF HistoryNext
<1> QED
  BY <1>1, Shrinks DEF StillSo, Typed

LEMMA WayStep ==
  ASSUME Typed, HistoryNext, NEW q \in Queries, Way(q) PROVE Way(q)'
<1>1. CASE Rests(q)
  BY <1>1 DEF Rests, Way
<1>2. CASE QueryNext(q)
  BY <1>2 DEF Way, Typed, TypeOK, QueriesTypeOK, Kinds, Goes, QueryNext,
     SelectRooms, AnswerRooms, ReadRoom, ReadAgain, ReadUsers, SelectUsers,
     FindRoom, AskOwn
<1> QED
  BY <1>1, <1>2, OwnOrNot DEF HistoryNext

LEMMA StayersAheadStep ==
  ASSUME Typed, Typed', HistoryNext, NEW q \in Queries, StillSo(q), Way(q),
         StayersAhead(q)
  PROVE  StayersAhead(q)'
<1>1. CASE Rests(q)
  BY <1>1, Shrinks DEF Rests, StayersAhead, Typed
<1>2. ASSUME QueryNext(q), UNCHANGED memberVars PROVE StayersAhead(q)'
  <2> USE <1>2 DEF StayersAhead, StillSo, Ended, Typed, TypeOK, QueriesTypeOK,
                  Goes, memberVars
  <2>1. CASE SelectRooms(q)
    BY <2>1, Shrinks DEF SelectRooms, Available
  <2>2. CASE AnswerRooms(q)
    BY <2>2, Shrinks DEF AnswerRooms
  <2>3. ASSUME NEW r \in RoomNames, SelectUsers(q, r) PROVE StayersAhead(q)'
    BY <2>3, Shrinks DEF SelectUsers, WithRoom, In
  <2>4. CASE ReadRoom(q) \/ ReadAgain(q) \/ ReadUsers(q)
    BY <2>4, Shrinks DEF ReadRoom, ReadAgain, ReadUsers, Way
  <2> QED
    BY <2>1, <2>2, <2>3, <2>4 DEF QueryNext, FindRoom, AskOwn
<1> QED
  BY <1>1, <1>2, OwnOrNot DEF HistoryNext

LEMMA RightStep ==
  ASSUME Typed, Typed', HistoryNext, NEW q \in Queries, StillSo(q), Way(q),
         Right(q)
  PROVE  Right(q)'
<1> USE DEF Own
<1>1. CASE Rests(q)
  BY <1>1, Shrinks DEF Rests, Right, Typed
<1>2. ASSUME QueryNext(q), UNCHANGED memberVars PROVE Right(q)'
  <2> USE <1>2 DEF Right, StillSo, Ended, Typed, TypeOK, QueriesTypeOK, Goes,
                  memberVars
  <2>1. CASE SelectRooms(q) \/ AnswerRooms(q)
    BY <2>1 DEF SelectRooms, AnswerRooms, Way
  <2>2. ASSUME NEW r \in RoomNames, SelectUsers(q, r) \/ FindRoom(q, r)
        PROVE  Right(q)'
    BY <2>2 DEF SelectUsers, FindRoom, Way
  <2>3. ASSUME NEW p \in Persons, AskOwn(q, p) PROVE Right(q)'
    <3>1. /\ asker'[q] = p /\ at'[q] \in {"room", "not_found"}
          /\ at'[q] = "not_found" => Homeless(p)
          /\ at'[q] = "room" => found'[q] \in RoomNames
                                /\ <<p, found'[q]>> \in members
      BY <2>3 DEF AskOwn
    <3>2. stayed'[q] \subseteq members
      BY <2>3, <3>1, Shrinks DEF AskOwn
    <3>3. ASSUME NEW r \in RoomNames, <<asker'[q], r>> \in stayed'[q]
          PROVE  at'[q] = "room" /\ found'[q] = r
      BY <3>1, <3>2, <3>3 DEF Homeless, OneRoomEach
    <3> QED
      BY <3>3
  <2>4. CASE ReadRoom(q)
    <3> DEFINE flag == found[q] \in inPlay
    <3>1. Exists(found[q]) => told' = [told EXCEPT ![q] = flag]
      BY <2>4 DEF ReadRoom, Plays, Exists
    <3> HIDE DEF flag
    <3>2. Exists(found[q]) => told'[q] = flag
      BY <3>1
    <3>3. Exists(found[q]) => (told'[q] <=> found[q] \in inPlay)
      BY <3>2 DEF flag
    <3>4. /\ at[q] = "room" /\ at'[q] # "new"
          /\ at'[q] \in {"room", "again", "users", "answered", "not_found"}
          /\ at'[q] = "not_found" => ~ Exists(found[q])
          /\ at'[q] # "not_found" => Exists(found[q])
          /\ at'[q] = "answered" => kind[q] # "mine"
          /\ kind' = kind /\ asker' = asker /\ found' = found
      BY <2>4 DEF ReadRoom
    <3>5. /\ stayed'[q] \subseteq stayed[q] /\ stayed'[q] \subseteq members'
          /\ waited'[q] \subseteq Available' /\ played'[q] \subseteq inPlay'
      BY <3>4, Shrinks
    <3> QED
      BY <3>3, <3>4, <3>5 DEF Exists, Available, RoomsOpen
  <2>5. CASE ReadAgain(q)
    BY <2>5, Shrinks DEF ReadAgain, Exists, RoomsOpen, Way
  <2>6. CASE ReadUsers(q)
    BY <2>6, Shrinks DEF ReadUsers, In, Way
  <2> QED
    BY <2>1, <2>2, <2>3, <2>4, <2>5, <2>6 DEF QueryNext
<1> QED
  BY <1>1, <1>2, OwnOrNot DEF HistoryNext

-----------------------------------------------------------------------------
LEMMA Initially == HistoryInit => IInv
<1> SUFFICES ASSUME HistoryInit PROVE IInv
  OBVIOUS
<1>1. Typed
  BY TypeInit
<1>2. ASSUME NEW q \in Queries
      PROVE  StillSo(q) /\ Way(q) /\ StayersAhead(q) /\ Right(q)
  BY DEF HistoryInit, Init, MembershipInit, StillSo, Way, StayersAhead, Right,
     Available
<1> QED
  BY <1>1, <1>2 DEF IInv

LEMMA Inductive == IInv /\ [HistoryNext]_historyVars => IInv'
<1> SUFFICES ASSUME IInv, [HistoryNext]_historyVars PROVE IInv'
  OBVIOUS
<1>1. CASE HistoryNext
  <2>1. Typed'
    BY <1>1, TypeStep DEF IInv
  <2>2. ASSUME NEW q \in Queries
        PROVE  (StillSo(q) /\ Way(q) /\ StayersAhead(q) /\ Right(q))'
    BY <1>1, <2>1, StillSoStep, WayStep, StayersAheadStep, RightStep DEF IInv
  <2> QED
    BY <2>1, <2>2 DEF IInv
<1>2. CASE UNCHANGED historyVars
  BY <1>2 DEF IInv, historyVars, vars, memberVars, queryVars, Typed, TypeOK,
     MembershipTypeOK, QueriesTypeOK, HistoryTypeOK, OneRoomEach, RoomsOpen,
     StillSo, Ended, Available, Way, StayersAhead, Right, Own
<1> QED
  BY <1>1, <1>2

LEMMA Always == HistorySpec => []IInv
BY Initially, Inductive, PTL DEF HistorySpec

(* The variables of the requests keep their types.                         *)
THEOREM QueryTypes == HistorySpec => []TypeOK
<1>1. IInv => TypeOK
  BY DEF IInv, Typed
<1> QED
  BY <1>1, Always, PTL

(* GET /room: everybody who stays in a waiting room is listed, however many*)
(* people and rooms change while the rooms are read one after another.     *)
THEOREM EveryStayerListed == HistorySpec => []StayersListed
<1>1. IInv => StayersListed
  BY DEF IInv, StayersAhead, StayersListed
<1> QED
  BY <1>1, Always, PTL

(* GET /room/me and /user/me/is-playing: somebody who stays is found.      *)
THEOREM EveryStayerFound == HistorySpec => []StayerFound
<1>1. IInv => StayerFound
  BY DEF IInv, Right, Own, StayerFound, Ended
<1> QED
  BY <1>1, Always, PTL

(* And told whether the room plays, if it has not changed meanwhile.       *)
THEOREM EveryStayerTold == HistorySpec => []StayerTold
<1>1. IInv => StayerTold
  BY DEF IInv, Right, Own, StayerTold, Ended
<1> QED
  BY <1>1, Always, PTL

=============================================================================
