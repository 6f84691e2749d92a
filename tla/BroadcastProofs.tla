--------------------------- MODULE BroadcastProofs ---------------------------
(***************************************************************************)
(* What the sockets of a room can count on, for any number of users,       *)
(* sockets and messages: the types, the registry, and that a broadcast     *)
(* reaches everybody who is there all the time, once.                      *)
(***************************************************************************)
EXTENDS BroadcastHistory, FiniteSetTheorems, SequenceTheorems,
        WellFoundedInduction, TLAPS

USE BroadcastAssumption DEF Handlers

-----------------------------------------------------------------------------
(* The dictionary as a value, and what its operators return.               *)
Dict == [era : Nat, entries : Seq(Sockets \cup {Nothing})]

LEMMA EntriesFinite ==
  ASSUME NEW d \in Dict, NEW from \in Nat
  PROVE  /\ DOMAIN d.entries = 1 .. Len(d.entries) /\ Len(d.entries) \in Nat
         /\ Entries(d, from) \subseteq 1 .. Len(d.entries)
         /\ Entries(d, from) \subseteq Nat \ {0}
         /\ IsFiniteSet(Entries(d, from))
         /\ Cardinality(Entries(d, from)) \in Nat
         /\ \A p \in Entries(d, from) :
              p >= from /\ d.entries[p] \in Sockets
<1>1. d.entries \in Seq(Sockets \cup {Nothing})
  BY DEF Dict
<1>2. /\ DOMAIN d.entries = 1 .. Len(d.entries) /\ Len(d.entries) \in Nat
      /\ \A p \in 1 .. Len(d.entries) : d.entries[p] \in Sockets \cup {Nothing}
  BY <1>1, LenProperties, ElementOfSeq
<1>3. Entries(d, from) \subseteq 1 .. Len(d.entries)
  BY <1>2 DEF Entries
<1>4. IsFiniteSet(1 .. Len(d.entries))
  BY <1>2, FS_Interval
<1>5. IsFiniteSet(Entries(d, from))
  BY <1>3, <1>4, FS_Subset
<1> QED
  BY <1>2, <1>3, <1>5, FS_CardinalityType DEF Entries

LEMMA SizeType ==
  ASSUME NEW d \in Dict PROVE Size(d) \in Nat
BY EntriesFinite DEF Size

(* What First chooses exists: the order of the naturals is well-founded.   *)
LEMMA SmallestOf ==
  ASSUME NEW S \in SUBSET Nat, S # {}
  PROVE  \E m \in S : \A n \in S : m <= n
<1> DEFINE R == OpToRel(<, Nat)
<1>1. \A x, y \in Nat : x < y => <<x, y>> \in R
  BY DEF OpToRel
<1>2. IsWellFoundedOn(R, Nat)
  BY NatLessThanWellFounded
<1> HIDE DEF R
<1>3. \E m \in S : \A n \in S : ~ (<<n, m>> \in R)
  BY <1>2, WFMin
<1>4. \A x, y \in S : ~ (<<y, x>> \in R) => x <= y
  <2> SUFFICES ASSUME NEW x \in S, NEW y \in S, ~ (<<y, x>> \in R)
               PROVE  x <= y
    OBVIOUS
  <2>1. ~ (y < x) /\ x \in Nat /\ y \in Nat
    BY <1>1
  <2> QED
    BY <2>1
<1> QED
  BY <1>3, <1>4

(* The loop takes the entries in their order.                              *)
LEMMA FirstIsFirst ==
  ASSUME NEW t, NEW k, k.at \in Nat, NEW d \in Dict, Targets(t, k, d) # {}
  PROVE  /\ First(t, k, d) \in Targets(t, k, d)
         /\ \A q \in Targets(t, k, d) : First(t, k, d) <= q
<1>1. Targets(t, k, d) \in SUBSET Nat
  BY EntriesFinite DEF Targets
<1>2. \E p \in Targets(t, k, d) : \A q \in Targets(t, k, d) : p <= q
  BY <1>1, SmallestOf
<1> QED
  BY <1>2 DEF First

LEMMA PassedNumber ==
  ASSUME NEW t, NEW k, k.at \in Nat, NEW d \in Dict
  PROVE  Cardinality(Passed(t, k, d)) \in Nat
<1>1. Passed(t, k, d) \subseteq Entries(d, k.at)
  BY DEF Passed
<1> QED
  BY <1>1, EntriesFinite, FS_Subset, FS_CardinalityType

-----------------------------------------------------------------------------
(* Types.                                                                  *)
LEMMA NoJobTyped == NoJob \in Job
BY DEF NoJob, Job, PCs, Messages

LEMMA StoppedTyped ==
  ASSUME NEW k \in Job, NEW pc \in PCs
  PROVE  /\ Stopped(k, pc) \in Job
         /\ Stopped(k, pc).pc = pc /\ Stopped(k, pc).inner = k.inner
         /\ Stopped(k, pc).message = "none" /\ Stopped(k, pc).to = Nothing
BY DEF Stopped, NoJob, Job, Messages

LEMMA RaisedTyped ==
  ASSUME NEW k \in Job
  PROVE  /\ Raised(k) \in Job /\ Raised(k).inner = TRUE
         /\ Raised(k).pc \in {"done", "leave_room"}
         /\ Raised(k).message = "none" /\ Raised(k).to = Nothing
<1>1. "done" \in PCs /\ "leave_room" \in PCs
  BY DEF PCs
<1>2. /\ Stopped(k, "done") \in Job /\ Stopped(k, "leave_room") \in Job
      /\ Stopped(k, "done").pc = "done"
      /\ Stopped(k, "done").inner = k.inner
      /\ Stopped(k, "done").message = "none" /\ Stopped(k, "done").to = Nothing
      /\ Stopped(k, "leave_room").pc = "leave_room"
      /\ Stopped(k, "leave_room").message = "none"
      /\ Stopped(k, "leave_room").to = Nothing
  BY <1>1, StoppedTyped
<1> QED
  BY <1>2 DEF Raised, Job

LEMMA BeginTyped ==
  ASSUME NEW k \in Job, NEW message \in Messages, NEW d \in Dict
  PROVE  /\ Begin(k, message, d) \in Job
         /\ Begin(k, message, d).pc = "send"
         /\ Begin(k, message, d).message = message
         /\ Begin(k, message, d).inner = k.inner
         /\ Begin(k, message, d).at = 1
BY SizeType DEF Begin, Job, PCs, Dict

LEMMA SendingTyped ==
  ASSUME NEW t, NEW k \in Job, NEW d \in Dict, ~ Breaks(t, k, d),
         Targets(t, k, d) # {}
  PROVE  /\ Sending(t, k, d) \in Job
         /\ Sending(t, k, d).pc = k.pc
         /\ Sending(t, k, d).message = k.message
         /\ Sending(t, k, d).inner = k.inner
         /\ Sending(t, k, d).to = d.entries[First(t, k, d)]
         /\ Sending(t, k, d).at = First(t, k, d) + 1
<1>1. k.at \in Nat /\ k.left \in Nat
  BY DEF Job
<1>2. First(t, k, d) \in Entries(d, k.at)
  BY <1>1, FirstIsFirst DEF Targets
<1>3. First(t, k, d) + 1 \in Nat /\ d.entries[First(t, k, d)] \in Sockets
  <2> DEFINE p == First(t, k, d)
  <2>1. p \in Nat /\ d.entries[p] \in Sockets
    BY <1>1, <1>2, EntriesFinite
  <2> QED
    BY <2>1
<1>4. k.left - Cardinality(Passed(t, k, d)) \in Nat
  BY <1>1, PassedNumber DEF Breaks
<1> QED
  BY <1>3, <1>4 DEF Sending, Job

LEMMA BroadcastTyped ==
  ASSUME job \in [Handlers -> Job], NEW t \in Handlers, NEW k \in Job,
         NEW d \in Dict, NEW after \in Job, Broadcast(t, k, d, after)
  PROVE  job' \in [Handlers -> Job]
BY SendingTyped, RaisedTyped DEF Broadcast

LEMMA WithEntryTyped ==
  ASSUME NEW d \in Dict, NEW s \in Sockets, NEW u
  PROVE  WithEntry(d, s, u) \in Dict
<1> DEFINE E == Sockets \cup {Nothing}
<1>0. d.entries \in Seq(E) /\ d.era \in Nat
  BY DEF Dict
<1>1. <<s>> \in Seq(E)
  OBVIOUS
<1>2. Append(d.entries, s) \in Seq(E)
  BY <1>0
<1>3. [p \in DOMAIN d.entries |-> IF p \in Keys(d, u) THEN s ELSE d.entries[p]]
         \in Seq(E)
  <2> DEFINE e(p) == IF p \in Keys(d, u) THEN s ELSE d.entries[p]
  <2>1. \A p \in 1 .. Len(d.entries) : e(p) \in E
    BY <1>0, ElementOfSeq
  <2>2. DOMAIN d.entries = 1 .. Len(d.entries) /\ Len(d.entries) \in Nat
    BY <1>0, LenProperties
  <2> HIDE DEF e, E
  <2>3. [p \in 1 .. Len(d.entries) |-> e(p)] \in Seq(E)
    BY <2>1, <2>2, IsASeq
  <2> QED
    BY <2>2, <2>3 DEF e
<1>4. ASSUME NEW e \in Seq(E)
      PROVE  /\ [d EXCEPT !.entries = e] \in Dict
             /\ [era |-> d.era + 1, entries |-> e] \in Dict
  BY <1>0, <1>4 DEF Dict
<1> QED
  BY <1>1, <1>2, <1>3, <1>4 DEF WithEntry

LEMMA WithoutEntryTyped ==
  ASSUME NEW d \in Dict, NEW u
  PROVE  WithoutEntry(d, u) \in Dict
<1> DEFINE E == Sockets \cup {Nothing}
<1>0. d.entries \in Seq(E) /\ d.era \in Nat
  BY DEF Dict
<1>1. <<>> \in Seq(E)
  OBVIOUS
<1>3. [p \in DOMAIN d.entries |-> IF p \in Keys(d, u) THEN Nothing
                                  ELSE d.entries[p]] \in Seq(E)
  <2> DEFINE e(p) == IF p \in Keys(d, u) THEN Nothing ELSE d.entries[p]
  <2>1. \A p \in 1 .. Len(d.entries) : e(p) \in E
    BY <1>0, ElementOfSeq
  <2>2. DOMAIN d.entries = 1 .. Len(d.entries) /\ Len(d.entries) \in Nat
    BY <1>0, LenProperties
  <2> HIDE DEF e, E
  <2>3. [p \in 1 .. Len(d.entries) |-> e(p)] \in Seq(E)
    BY <2>1, <2>2, IsASeq
  <2> QED
    BY <2>2, <2>3 DEF e
<1>2. ASSUME NEW e \in Seq(E) PROVE [d EXCEPT !.entries = e] \in Dict
  BY <1>0, <1>2 DEF Dict
<1> QED
  BY <1>1, <1>2, <1>3 DEF WithoutEntry

-----------------------------------------------------------------------------
(* What a step does to a handler's job.  It begins a loop and sends; or it *)
(* goes on and sends; or it is not sending any more.  A loop is exhausted  *)
(* when no entry is left to send to.                                       *)
Exhausted(t) ==
    /\ UNCHANGED dict
    /\ \/ /\ job[t].pc = "send"
          /\ Targets(t, job[t], dict) = {}
       \/ /\ job[t].pc = "new" /\ t = Starter
          /\ Targets(t, Begin(NoJob, "GAME_STARTED", dict), dict) = {}
Sends(t, k) ==
    /\ ~ Breaks(t, k, dict') /\ Targets(t, k, dict') # {}
    /\ job'[t] = Sending(t, k, dict')
BeginsWith(t, k, message) ==
    /\ \/ /\ job[t].pc # "send"
          /\ message = "USER_LIST" => job[t].message = "USER_LIST"
       \/ /\ job[t].message = "USER_LEFT" /\ message = "USER_LIST"
          /\ Exhausted(t)
    /\ Sends(t, Begin(k, message, dict'))
GoesOn(t) ==
    /\ job[t].pc = "send" /\ UNCHANGED dict
    /\ Sends(t, job[t])
Ends(t) ==
    /\ job'[t].pc \notin {"send", "new"}
    /\ job'[t].message = "USER_LIST" => job[t].message = "USER_LIST"
    /\ \/ job[t].pc = "send" /\ job'[t].pc \in {"receive", "disconnect"}
       \/ job'[t].pc = "answered"
       => Exhausted(t)
Moves(t) ==
    /\ job'[t].pc # "new"
    /\ job[t].pc # "new" /\ job[t].inner => job'[t].inner
    /\ \/ \E k \in Job, message \in Messages : BeginsWith(t, k, message)
       \/ GoesOn(t)
       \/ Ends(t)
Rest(t) == \A q \in Handlers \ {t} : job'[q] = job[q]

LEMMA BroadcastKinds ==
  ASSUME job \in [Handlers -> Job], NEW t \in Handlers, NEW k \in Job,
         dict' \in Dict, NEW after \in Job, Broadcast(t, k, dict', after)
  PROVE  /\ job' \in [Handlers -> Job] /\ Rest(t)
         /\ \/ Sends(t, k)
            \/ job'[t] = Raised(k)
            \/ /\ Targets(t, k, dict') = {} /\ job'[t] = after
               /\ ~ Breaks(t, k, dict')
<1> DEFINE new == IF Breaks(t, k, dict') THEN Raised(k)
                  ELSE IF Targets(t, k, dict') # {} THEN Sending(t, k, dict')
                  ELSE after
<1>1. job' = [job EXCEPT ![t] = new]
  BY DEF Broadcast
<1>2. job'[t] = new /\ Rest(t)
  BY <1>1 DEF Rest
<1>3. job' \in [Handlers -> Job]
  BY BroadcastTyped
<1> HIDE DEF new
<1> QED
  BY <1>2, <1>3 DEF Sends, new

LEMMA SendsSets ==
  ASSUME NEW t \in Handlers, NEW k \in Job, dict' \in Dict, Sends(t, k)
  PROVE  /\ job'[t].pc = k.pc /\ job'[t].message = k.message
         /\ job'[t].inner = k.inner
         /\ job'[t].to = dict'.entries[First(t, k, dict')]
         /\ job'[t].at = First(t, k, dict') + 1
BY SendingTyped DEF Sends

(* A broadcast of a handler that was not in one.                           *)
LEMMA FreshBroadcast ==
  ASSUME job \in [Handlers -> Job], NEW t \in Handlers, NEW k \in Job,
         dict' \in Dict, NEW after \in Job, after.pc \in {"receive", "disconnect"},
         after.message = "none", job[t].pc # "send", NEW message \in Messages,
         message = "USER_LIST" => job[t].message = "USER_LIST",
         job[t].pc = "new" \/ (k.inner = job[t].inner /\ after.inner = k.inner),
         Broadcast(t, Begin(k, message, dict'), dict', after)
  PROVE  job' \in [Handlers -> Job] /\ Rest(t) /\ Moves(t)
<1>1. Begin(k, message, dict') \in Job
  BY BeginTyped
<1>2. /\ job' \in [Handlers -> Job] /\ Rest(t)
      /\ \/ Sends(t, Begin(k, message, dict'))
         \/ job'[t] = Raised(Begin(k, message, dict'))
         \/ job'[t] = after
  BY <1>1, BroadcastKinds
<1>3. CASE Sends(t, Begin(k, message, dict'))
  BY <1>1, <1>2, <1>3, SendsSets, BeginTyped DEF Moves, BeginsWith
<1>4. CASE job'[t] = Raised(Begin(k, message, dict'))
  BY <1>1, <1>2, <1>4, RaisedTyped DEF Moves, Ends
<1>5. CASE job'[t] = after
  BY <1>2, <1>5 DEF Moves, Ends
<1> QED
  BY <1>2, <1>3, <1>4, <1>5

(* The next entry of a broadcast that is on.                               *)
LEMMA NextOfBroadcast ==
  ASSUME job \in [Handlers -> Job], NEW t \in Handlers, job[t].pc = "send",
         UNCHANGED dict, dict \in Dict,
         NEW after \in Job, after.pc \in {"receive", "disconnect"},
         after.message = "none", after.inner = job[t].inner,
         Broadcast(t, job[t], dict, after)
  PROVE  job' \in [Handlers -> Job] /\ Rest(t) /\ Moves(t)
<1>1. job[t] \in Job /\ Broadcast(t, job[t], dict', after) /\ dict' \in Dict
  OBVIOUS
<1>2. /\ job' \in [Handlers -> Job] /\ Rest(t)
      /\ \/ Sends(t, job[t])
         \/ job'[t] = Raised(job[t])
         \/ Targets(t, job[t], dict') = {} /\ job'[t] = after
  BY <1>1, BroadcastKinds
<1>3. CASE Sends(t, job[t])
  BY <1>1, <1>2, <1>3, SendsSets DEF Moves, GoesOn
<1>4. CASE job'[t] = Raised(job[t])
  BY <1>1, <1>2, <1>4, RaisedTyped DEF Moves, Ends
<1>5. CASE Targets(t, job[t], dict') = {} /\ job'[t] = after
  BY <1>2, <1>5 DEF Moves, Ends, Exhausted
<1> QED
  BY <1>2, <1>3, <1>4, <1>5

(* A job that is not sending and was not.                                  *)
LEMMA PlainMove ==
  ASSUME job \in [Handlers -> Job], NEW t \in Handlers, NEW k \in Job,
         job' = [job EXCEPT ![t] = k], k.pc \notin {"send", "new", "answered"},
         k.message = "USER_LIST" => job[t].message = "USER_LIST",
         job[t].pc # "send", job[t].inner => k.inner
  PROVE  job' \in [Handlers -> Job] /\ Rest(t) /\ Moves(t)
BY DEF Rest, Moves, Ends

LEMMA TypedParts ==
  ASSUME VariablesTyped
  PROVE  /\ dict \in Dict /\ job \in [Handlers -> Job]
         /\ state \in [Sockets -> States] /\ owner \in [Sockets -> Users]
         /\ \A s \in Sockets : job[s] \in Job
         /\ Starter \in Handlers /\ job[Starter] \in Job
BY DEF VariablesTyped, Dict

LEMMA ConnectMoves ==
  ASSUME VariablesTyped, NEW s \in Sockets, job[s].pc = "new", Connect(s)
  PROVE  VariablesTyped' /\ Rest(s) /\ Moves(s)
<1> DEFINE after == Stopped(NoJob, "receive")
<1>1. dict' \in Dict
  BY TypedParts, WithEntryTyped DEF Connect
<1>2. /\ after \in Job /\ after.pc = "receive" /\ after.message = "none"
  BY StoppedTyped, NoJobTyped DEF PCs
<1>3. Broadcast(s, Begin(NoJob, "USER_JOINED", dict'), dict', after)
  BY DEF Connect
<1>4. "USER_JOINED" \in Messages /\ job \in [Handlers -> Job] /\ s \in Handlers
  BY TypedParts DEF Messages
<1> HIDE DEF after
<1>5. job' \in [Handlers -> Job] /\ Rest(s) /\ Moves(s)
  BY <1>1, <1>2, <1>3, <1>4, NoJobTyped, FreshBroadcast
<1>6. state' \in [Sockets -> States] /\ owner' \in [Sockets -> Users]
  BY TypedParts DEF Connect, States
<1> QED
  BY <1>1, <1>5, <1>6 DEF VariablesTyped, Dict

LEMMA ReceiveMoves ==
  ASSUME VariablesTyped, NEW s \in Sockets, Receive(s)
  PROVE  VariablesTyped' /\ Rest(s) /\ Moves(s)
<1>1. job \in [Handlers -> Job] /\ s \in Handlers /\ job[s] \in Job
  BY TypedParts
<1>2. \E k \in Job :
        /\ job' = [job EXCEPT ![s] = k] /\ k.pc \in {"work", "leave_room"}
        /\ k.message \in {"USER_READY_CHANGED", "BOT_JOINED", job[s].message}
        /\ k.inner = job[s].inner
  <2> DEFINE k(pc, m) == [job[s] EXCEPT !.pc = pc, !.message = m]
  <2>1. ASSUME NEW m \in Messages, NEW pc \in {"work", "leave_room"}
        PROVE  /\ k(pc, m) \in Job /\ k(pc, m).pc = pc
               /\ k(pc, m).message = m /\ k(pc, m).inner = job[s].inner
    BY <1>1 DEF Job, PCs
  <2>2. ASSUME NEW m,
               job' = [job EXCEPT ![s].pc = "work", ![s].message = m]
        PROVE  job' = [job EXCEPT ![s] = k("work", m)]
    BY <2>2, <1>1 DEF Job
  <2>3. ASSUME job' = [job EXCEPT ![s].pc = "leave_room"]
        PROVE  job' = [job EXCEPT ![s] = k("leave_room", job[s].message)]
    BY <2>3, <1>1 DEF Job
  <2>4. /\ "USER_READY_CHANGED" \in Messages /\ "BOT_JOINED" \in Messages
        /\ job[s].message \in Messages
    BY <1>1 DEF Messages, Job
  <2> HIDE DEF k
  <2>5. CASE job' = [job EXCEPT ![s].pc = "work",
                               ![s].message = "USER_READY_CHANGED"]
    <3>1. job' = [job EXCEPT ![s] = k("work", "USER_READY_CHANGED")]
      BY <2>2, <2>5
    <3>2. /\ k("work", "USER_READY_CHANGED") \in Job
          /\ k("work", "USER_READY_CHANGED").pc = "work"
          /\ k("work", "USER_READY_CHANGED").message = "USER_READY_CHANGED"
          /\ k("work", "USER_READY_CHANGED").inner = job[s].inner
      BY <2>1, <2>4
    <3> k("work", "USER_READY_CHANGED") \in Job
      BY <3>2
    <3> WITNESS k("work", "USER_READY_CHANGED") \in Job
    <3> QED
      BY <3>1, <3>2
  <2>6. CASE job' = [job EXCEPT ![s].pc = "work", ![s].message = "BOT_JOINED"]
    <3>1. job' = [job EXCEPT ![s] = k("work", "BOT_JOINED")]
      BY <2>2, <2>6
    <3>2. /\ k("work", "BOT_JOINED") \in Job
          /\ k("work", "BOT_JOINED").pc = "work"
          /\ k("work", "BOT_JOINED").message = "BOT_JOINED"
          /\ k("work", "BOT_JOINED").inner = job[s].inner
      BY <2>1, <2>4
    <3> k("work", "BOT_JOINED") \in Job
      BY <3>2
    <3> WITNESS k("work", "BOT_JOINED") \in Job
    <3> QED
      BY <3>1, <3>2
  <2>7. CASE job' = [job EXCEPT ![s].pc = "leave_room"]
    <3>1. job' = [job EXCEPT ![s] = k("leave_room", job[s].message)]
      BY <2>3, <2>7
    <3>2. /\ k("leave_room", job[s].message) \in Job
          /\ k("leave_room", job[s].message).pc = "leave_room"
          /\ k("leave_room", job[s].message).message = job[s].message
          /\ k("leave_room", job[s].message).inner = job[s].inner
      BY <2>1, <2>4
    <3> k("leave_room", job[s].message) \in Job
      BY <3>2
    <3> WITNESS k("leave_room", job[s].message) \in Job
    <3> QED
      BY <3>1, <3>2
  <2> QED
    BY <2>5, <2>6, <2>7 DEF Receive
<1>3. job' \in [Handlers -> Job] /\ Rest(s) /\ Moves(s)
  BY <1>1, <1>2, PlainMove DEF Receive
<1> QED
  BY <1>3 DEF Receive, VariablesTyped

LEMMA WorkMoves ==
  ASSUME VariablesTyped, NEW s \in Sockets, Work(s)
  PROVE  VariablesTyped' /\ Rest(s) /\ Moves(s)
<1>1. /\ job \in [Handlers -> Job] /\ s \in Handlers /\ job[s] \in Job
      /\ job[s].message \in Messages /\ dict \in Dict
  BY TypedParts DEF Job
<1>2. /\ Stopped(job[s], "receive") \in Job /\ Stopped(job[s], "done") \in Job
      /\ Stopped(job[s], "receive").pc = "receive"
      /\ Stopped(job[s], "receive").message = "none"
      /\ Stopped(job[s], "receive").inner = job[s].inner
      /\ Stopped(job[s], "done").pc = "done"
      /\ Stopped(job[s], "done").message = "none"
      /\ Stopped(job[s], "done").inner = job[s].inner
  BY <1>1, StoppedTyped DEF PCs
<1>3. /\ Raised(job[s]) \in Job /\ Raised(job[s]).message = "none"
 /\ Raised(job[s]).inner
      /\ Raised(job[s]).pc \in {"done", "leave_room"}
  BY <1>1, RaisedTyped
<1>4. job[s].pc = "work" /\ dict' = dict /\ owner' = owner
  BY DEF Work
<1>5. job' \in [Handlers -> Job] /\ Rest(s) /\ Moves(s)
  <2>1. CASE Broadcast(s, Begin(job[s], job[s].message, dict), dict,
                       Stopped(job[s], "receive"))
    BY <1>1, <1>2, <1>4, <2>1, FreshBroadcast
  <2>2. ASSUME NEW k \in {Stopped(job[s], "receive"), Stopped(job[s], "done"),
                          Raised(job[s])}, job' = [job EXCEPT ![s] = k]
        PROVE  job' \in [Handlers -> Job] /\ Rest(s) /\ Moves(s)
    BY <1>1, <1>2, <1>3, <1>4, <2>2, PlainMove
  <2> QED
    BY <2>1, <2>2 DEF Work
<1>6. state' \in [Sockets -> States]
  BY TypedParts DEF Work, States
<1> QED
  BY <1>4, <1>5, <1>6 DEF VariablesTyped

LEMMA LeaveRoomMoves ==
  ASSUME VariablesTyped, NEW s \in Sockets, LeaveRoom(s)
  PROVE  VariablesTyped' /\ Rest(s) /\ Moves(s)
<1>1. /\ job \in [Handlers -> Job] /\ s \in Handlers /\ job[s] \in Job
      /\ "USER_LEFT" \in Messages /\ dict \in Dict
  BY TypedParts DEF Messages
<1>2. /\ Stopped(job[s], "disconnect") \in Job
      /\ Stopped(job[s], "done") \in Job
      /\ Stopped(job[s], "disconnect").pc = "disconnect"
      /\ Stopped(job[s], "disconnect").message = "none"
      /\ Stopped(job[s], "disconnect").inner = job[s].inner
      /\ Stopped(job[s], "done").pc = "done"
      /\ Stopped(job[s], "done").message = "none"
      /\ Stopped(job[s], "done").inner = job[s].inner
  BY <1>1, StoppedTyped DEF PCs
<1>3. /\ Raised(job[s]) \in Job /\ Raised(job[s]).message = "none"
 /\ Raised(job[s]).inner
      /\ Raised(job[s]).pc \in {"done", "leave_room"}
  BY <1>1, RaisedTyped
<1>4. job[s].pc = "leave_room" /\ dict' = dict /\ owner' = owner
  BY DEF LeaveRoom
<1>5. job' \in [Handlers -> Job] /\ Rest(s) /\ Moves(s)
  <2>1. CASE Broadcast(s, Begin(job[s], "USER_LEFT", dict), dict,
                       Stopped(job[s], "disconnect"))
    BY <1>1, <1>2, <1>4, <2>1, FreshBroadcast
  <2>2. ASSUME NEW k \in {Stopped(job[s], "disconnect"),
                          Stopped(job[s], "done"), Raised(job[s])},
               job' = [job EXCEPT ![s] = k]
        PROVE  job' \in [Handlers -> Job] /\ Rest(s) /\ Moves(s)
    BY <1>1, <1>2, <1>3, <1>4, <2>2, PlainMove
  <2> QED
    BY <2>1, <2>2 DEF LeaveRoom
<1>6. state' \in [Sockets -> States]
  BY TypedParts DEF LeaveRoom, States
<1> QED
  BY <1>4, <1>5, <1>6 DEF VariablesTyped

LEMMA LeavingMoves ==
  ASSUME VariablesTyped, NEW s \in Sockets, Notice(s) \/ Disconnect(s)
  PROVE  VariablesTyped' /\ Rest(s) /\ Moves(s)
<1>1. /\ job \in [Handlers -> Job] /\ s \in Handlers /\ job[s] \in Job
  BY TypedParts
<1>2. /\ Stopped(job[s], "done") \in Job
      /\ Stopped(job[s], "done").pc = "done"
      /\ Stopped(job[s], "done").message = "none"
      /\ Stopped(job[s], "done").inner = job[s].inner
  BY <1>1, StoppedTyped DEF PCs
<1>3. /\ Raised(job[s]) \in Job /\ Raised(job[s]).message = "none"
 /\ Raised(job[s]).inner
      /\ Raised(job[s]).pc \in {"done", "leave_room"}
  BY <1>1, RaisedTyped
<1>4. \E k \in {Stopped(job[s], "done"), Raised(job[s])} :
          job' = [job EXCEPT ![s] = k]
  BY <1>1 DEF Notice, Disconnect
<1>5. job' \in [Handlers -> Job] /\ Rest(s) /\ Moves(s)
  BY <1>1, <1>2, <1>3, <1>4, PlainMove DEF Notice, Disconnect
<1>6. state' \in [Sockets -> States] /\ owner' \in [Sockets -> Users]
  BY TypedParts DEF Notice, Disconnect, States
<1>7. dict' \in Dict
  BY TypedParts, WithoutEntryTyped DEF Notice, Disconnect
<1> QED
  BY <1>5, <1>6, <1>7 DEF VariablesTyped, Dict

LEMMA SentMoves ==
  ASSUME VariablesTyped, NEW s \in Sockets, NewsSent(s) \/ ListSent(s)
  PROVE  VariablesTyped' /\ Rest(s) /\ Moves(s)
<1>1. job \in [Handlers -> Job] /\ s \in Handlers /\ job[s] \in Job /\ dict \in Dict
  BY TypedParts
<1>2. \A pc \in {"receive", "disconnect"} :
        /\ Stopped(job[s], pc) \in Job /\ Stopped(job[s], pc).pc = pc
        /\ Stopped(job[s], pc).message = "none"
        /\ Stopped(job[s], pc).inner = job[s].inner
  BY <1>1, StoppedTyped DEF PCs
<1>3. \E pc \in {"receive", "disconnect"} :
        Broadcast(s, job[s], dict, Stopped(job[s], pc))
  BY DEF NewsSent, ListSent
<1>4. /\ job[s].pc = "send" /\ dict' = dict
      /\ owner' = owner /\ state' = state
  BY DEF NewsSent, ListSent
<1>5. job' \in [Handlers -> Job] /\ Rest(s) /\ Moves(s)
  BY <1>1, <1>2, <1>3, <1>4, NextOfBroadcast
<1> QED
  BY <1>4, <1>5 DEF VariablesTyped

LEMMA LeftMoves ==
  ASSUME VariablesTyped, NEW s \in Sockets, LeftSent(s)
  PROVE  VariablesTyped' /\ Rest(s) /\ Moves(s)
<1> DEFINE list == Begin(job[s], "USER_LIST", dict')
           after == Stopped(job[s], "disconnect")
<1>1. /\ job \in [Handlers -> Job] /\ s \in Handlers /\ job[s] \in Job
      /\ dict \in Dict /\ "USER_LIST" \in Messages
  BY TypedParts DEF Messages
<1>2. /\ job[s].pc = "send" /\ job[s].message = "USER_LEFT" /\ dict' = dict
      /\ owner' = owner /\ state' = state
  BY DEF LeftSent
<1>3. list \in Job
  BY <1>1, <1>2, BeginTyped
<1>4. /\ after \in Job /\ after.pc = "disconnect" /\ after.message = "none"
      /\ after.inner = job[s].inner
  BY <1>1, StoppedTyped DEF PCs
<1>5. /\ Raised(job[s]) \in Job /\ Raised(job[s]).message = "none"
 /\ Raised(job[s]).inner
      /\ Raised(job[s]).pc \in {"done", "leave_room"}
      /\ Raised(list) \in Job /\ Raised(list).message = "none"
      /\ Raised(list).inner
      /\ Raised(list).pc \in {"done", "leave_room"}
  BY <1>1, <1>3, RaisedTyped
<1>6. CASE ~ Over(s, job[s], dict) /\ Broadcast(s, job[s], dict, NoJob)
  <2>1. Broadcast(s, job[s], dict', NoJob) /\ dict' \in Dict
    BY <1>1, <1>2, <1>6
  <2>2. /\ job' \in [Handlers -> Job] /\ Rest(s)
        /\ Sends(s, job[s]) \/ job'[s] = Raised(job[s])
    BY <1>1, <1>2, <1>6, <2>1, NoJobTyped, BroadcastKinds DEF Over
  <2>3. CASE Sends(s, job[s])
    BY <1>1, <1>2, <2>1, <2>2, <2>3, SendsSets DEF VariablesTyped, Moves, GoesOn
  <2>4. CASE job'[s] = Raised(job[s])
    BY <1>2, <1>5, <2>2, <2>4 DEF VariablesTyped, Moves, Ends
  <2> QED
    BY <2>2, <2>3, <2>4
<1>7. CASE Over(s, job[s], dict) /\ Broadcast(s, list, dict, after)
  <2>1. Broadcast(s, list, dict', after) /\ dict' \in Dict
    BY <1>1, <1>2, <1>7
  <2>2. Exhausted(s)
    BY <1>2, <1>7 DEF Over, Exhausted
  <2> HIDE DEF list, after
  <2>3. /\ job' \in [Handlers -> Job] /\ Rest(s)
        /\ Sends(s, list) \/ job'[s] = Raised(list) \/ job'[s] = after
    BY <1>1, <1>3, <1>4, <2>1, BroadcastKinds
  <2>4. CASE Sends(s, list)
    <3>1. /\ job'[s].pc = "send" /\ job'[s].inner = job[s].inner
      BY <1>1, <1>2, <1>3, <2>1, <2>4, SendsSets, BeginTyped DEF list
    <3> QED
      BY <1>1, <1>2, <2>2, <2>3, <2>4, <3>1 DEF VariablesTyped, Moves, BeginsWith, list
  <2>5. CASE job'[s] = Raised(list)
    BY <1>2, <1>5, <2>3, <2>5 DEF VariablesTyped, Moves, Ends
  <2>6. CASE job'[s] = after
    BY <1>2, <1>4, <2>2, <2>3, <2>6 DEF VariablesTyped, Moves, Ends
  <2> QED
    BY <2>3, <2>4, <2>5, <2>6
<1> QED
  BY <1>2, <1>6, <1>7 DEF LeftSent

LEMMA GameMoves ==
  ASSUME VariablesTyped, GameStarted
  PROVE  VariablesTyped' /\ Rest(Starter) /\ Moves(Starter)
<1> DEFINE t == Starter
           begun == Begin(NoJob, "GAME_STARTED", dict)
           k == IF job[t].pc = "new" THEN begun ELSE job[t]
           more == ~ Breaks(t, k, dict) /\ Targets(t, k, dict) # {}
<1>1. /\ job \in [Handlers -> Job] /\ t \in Handlers /\ job[t] \in Job
      /\ dict \in Dict /\ "GAME_STARTED" \in Messages
      /\ dict' = dict /\ owner' = owner /\ state' = state
      /\ job[t].pc \in {"new", "send"}
  BY TypedParts DEF Messages, GameStarted
<1>2. begun \in Job /\ k \in Job
  BY <1>1, NoJobTyped, BeginTyped
<1>3. \A pc \in {"refused", "answered"} :
        /\ Stopped(k, pc) \in Job /\ Stopped(k, pc).pc = pc
        /\ Stopped(k, pc).message = "none"
        /\ Stopped(k, pc).inner = k.inner
  BY <1>2, StoppedTyped DEF PCs
<1>4. \/ more /\ job' = [job EXCEPT ![t] = Sending(t, k, dict)]
      \/ job' = [job EXCEPT ![t] = Stopped(k, "refused")]
      \/ /\ job' = [job EXCEPT ![t] = Stopped(k, "answered")]
         /\ Targets(t, k, dict) = {}
  BY DEF GameStarted
<1> HIDE DEF t
<1>5. CASE more /\ job' = [job EXCEPT ![t] = Sending(t, k, dict)]
  <2>1. Sending(t, k, dict) \in Job
    BY <1>1, <1>2, <1>5, SendingTyped
  <2>2. /\ job' \in [Handlers -> Job] /\ Rest(t)
        /\ job'[t] = Sending(t, k, dict)
    BY <1>1, <1>5, <2>1 DEF Rest
  <2>3. Sends(t, k)
    BY <1>1, <1>5, <2>2 DEF Sends
  <2>4. job'[t].pc = "send" /\ job'[t].inner = k.inner
    <3>1. k.pc = "send"
      BY <1>1, NoJobTyped, BeginTyped
    <3> QED
      BY <1>1, <1>2, <2>3, <3>1, SendsSets
  <2>5. CASE job[t].pc = "new"
    <3>1. k = Begin(NoJob, "GAME_STARTED", dict')
      BY <1>1, <2>5
    <3>2. BeginsWith(t, NoJob, "GAME_STARTED")
      BY <2>3, <2>5, <3>1 DEF BeginsWith
    <3> QED
      BY <1>1, <2>2, <2>5, <2>4, <3>2, NoJobTyped DEF VariablesTyped, Moves, t
  <2>6. CASE job[t].pc = "send"
    BY <1>1, <2>2, <2>3, <2>6, <2>4 DEF VariablesTyped, Moves, GoesOn, t
  <2> QED
    BY <1>1, <2>5, <2>6
<1>6. CASE job' = [job EXCEPT ![t] = Stopped(k, "refused")]
  <2>1. /\ job' \in [Handlers -> Job] /\ Rest(t)
        /\ job'[t].pc = "refused" /\ job'[t].message = "none"
        /\ job'[t].inner = k.inner
    BY <1>1, <1>3, <1>6 DEF Rest
  <2> QED
    BY <1>1, <2>1 DEF VariablesTyped, Moves, Ends, t
<1>7. CASE /\ job' = [job EXCEPT ![t] = Stopped(k, "answered")]
           /\ Targets(t, k, dict) = {}
  <2>1. /\ job' \in [Handlers -> Job] /\ Rest(t)
        /\ job'[t].pc = "answered" /\ job'[t].message = "none"
        /\ job'[t].inner = k.inner
    BY <1>1, <1>3, <1>7 DEF Rest
  <2>2. Exhausted(t)
    BY <1>1, <1>7 DEF Exhausted, t
  <2> QED
    BY <1>1, <2>1, <2>2 DEF VariablesTyped, Moves, Ends, t
<1> QED
  BY <1>4, <1>5, <1>6, <1>7

-----------------------------------------------------------------------------
(* The registry: one entry for each user, and what a step makes of it.     *)
Opened ==
    \A s \in Sockets : job[s].pc # "new" \/ Registered(s) => state[s] # "new"
In(d, s) == \E p \in DOMAIN d.entries : d.entries[p] = s

LEMMA WithEntryAt ==
  ASSUME NEW d \in Dict, NEW s \in Sockets
  PROVE  LET e == WithEntry(d, s, owner[s]).entries IN
         /\ In(WithEntry(d, s, owner[s]), s)
         /\ \A p \in DOMAIN e : e[p] = s \/ (p \in DOMAIN d.entries /\ e[p] = d.entries[p])
         /\ \A q \in Sockets :
              In(d, q) /\ owner[q] # owner[s] => In(WithEntry(d, s, owner[s]), q)
         /\ OnePerUser(d) => OnePerUser(WithEntry(d, s, owner[s]))
<1> DEFINE u == owner[s]
           new == WithEntry(d, s, u)
<1>1. /\ DOMAIN d.entries = 1 .. Len(d.entries) /\ Len(d.entries) \in Nat
      /\ d.entries \in Seq(Sockets \cup {Nothing})
  BY EntriesFinite DEF Dict
<1>2. CASE d.entries = <<>>
  <2>1. new.entries = <<s>>
    BY <1>2 DEF WithEntry
  <2>2. DOMAIN new.entries = {1} /\ new.entries[1] = s
    BY <2>1
  <2>3. Entries(new, 1) \subseteq {1} /\ DOMAIN d.entries = {}
    BY <1>2, <2>2 DEF Entries
  <2> HIDE DEF new
  <2>4. In(new, s) /\ \A q \in Sockets : ~ In(d, q)
    BY <2>2, <2>3 DEF In
  <2> QED
    BY <2>2, <2>3, <2>4 DEF OnePerUser, new
<1>3. CASE d.entries # <<>> /\ Keys(d, u) = {}
  <2>1. new.entries = Append(d.entries, s)
    BY <1>3 DEF WithEntry, Dict
  <2> DEFINE n == Len(d.entries)
  <2>2. /\ DOMAIN new.entries = 1 .. (n + 1) /\ new.entries[n + 1] = s
        /\ \A p \in 1 .. n : new.entries[p] = d.entries[p]
    BY <1>1, <2>1, AppendProperties, LenProperties
  <2> HIDE DEF new, n
  <2>3. n \in Nat /\ DOMAIN d.entries = 1 .. n
    BY <1>1 DEF n
  <2>4. \A p \in DOMAIN new.entries : p # n + 1 => p \in DOMAIN d.entries
    BY <2>2, <2>3
  <2>5. \A p \in DOMAIN d.entries : p \in DOMAIN new.entries /\ p # n + 1
    BY <2>2, <2>3
  <2>6. In(new, s) /\ \A q \in Sockets : In(d, q) => In(new, q)
    BY <2>2, <2>3, <2>5 DEF In
  <2>7. \A p \in Entries(new, 1) : p # n + 1 =>
          p \in Entries(d, 1) /\ owner[new.entries[p]] # u
    BY <1>3, <2>2, <2>3, <2>4 DEF Entries, Keys
  <2>8. OnePerUser(d) => OnePerUser(new)
    BY <2>2, <2>3, <2>4, <2>7 DEF OnePerUser, Entries
  <2> QED
    BY <2>2, <2>3, <2>4, <2>6, <2>8 DEF new
<1>4. CASE d.entries # <<>> /\ Keys(d, u) # {}
  <2>1. new.entries = [p \in DOMAIN d.entries |-> IF p \in Keys(d, u) THEN s
                                                  ELSE d.entries[p]]
    BY <1>4 DEF WithEntry, Dict
  <2>2. /\ DOMAIN new.entries = DOMAIN d.entries
        /\ \A p \in Keys(d, u) : new.entries[p] = s
        /\ \A p \in DOMAIN d.entries \ Keys(d, u) : new.entries[p] = d.entries[p]
    BY <2>1 DEF Keys, Entries
  <2> HIDE DEF new
  <2>3. Keys(d, u) \subseteq DOMAIN d.entries
    BY DEF Keys, Entries
  <2>4. In(new, s)
    BY <1>4, <2>2, <2>3 DEF In
  <2>5. \A q \in Sockets : In(d, q) /\ owner[q] # u => In(new, q)
    BY <1>1, <2>2 DEF In, Keys
  <2>6. Entries(new, 1) = Entries(d, 1)
    BY <2>2, <2>3 DEF Entries, Keys
  <2>7. \A p \in Entries(d, 1) :
          owner[new.entries[p]] = owner[d.entries[p]]
    BY <2>2 DEF Entries, Keys
  <2>8. OnePerUser(d) => OnePerUser(new)
    BY <2>6, <2>7 DEF OnePerUser
  <2> QED
    BY <2>2, <2>3, <2>4, <2>5, <2>8 DEF new
<1> QED
  BY <1>2, <1>3, <1>4

LEMMA WithoutEntryAt ==
  ASSUME NEW d \in Dict, NEW u
  PROVE  LET e == WithoutEntry(d, u).entries IN
         /\ \A p \in DOMAIN e : e[p] = Nothing
                                \/ (p \in DOMAIN d.entries /\ e[p] = d.entries[p])
         /\ \A q \in Sockets :
              In(d, q) /\ owner[q] # u => In(WithoutEntry(d, u), q)
         /\ OnePerUser(d) => OnePerUser(WithoutEntry(d, u))
<1> DEFINE new == WithoutEntry(d, u)
<1>1. CASE Entries(d, 1) \subseteq Keys(d, u)
  <2>1. new.entries = <<>>
    BY <1>1 DEF WithoutEntry, Dict
  <2>2. DOMAIN new.entries = {} /\ Entries(new, 1) = {}
    BY <2>1 DEF Entries
  <2>3. \A q \in Sockets : In(d, q) => owner[q] = u
    <3>1. DOMAIN d.entries = 1 .. Len(d.entries) /\ Len(d.entries) \in Nat
      BY EntriesFinite
    <3>2. \A p \in DOMAIN d.entries : d.entries[p] \in Sockets => p \in Entries(d, 1)
      BY <3>1 DEF Entries
    <3> QED
      BY <1>1, <3>2 DEF In, Keys
  <2> HIDE DEF new
  <2> QED
    BY <2>2, <2>3 DEF OnePerUser, new
<1>2. CASE ~ (Entries(d, 1) \subseteq Keys(d, u))
  <2>1. new.entries = [p \in DOMAIN d.entries |-> IF p \in Keys(d, u)
                                                  THEN Nothing ELSE d.entries[p]]
    BY <1>2 DEF WithoutEntry, Dict
  <2>2. /\ DOMAIN new.entries = DOMAIN d.entries
        /\ \A p \in Keys(d, u) : new.entries[p] = Nothing
        /\ \A p \in DOMAIN d.entries \ Keys(d, u) : new.entries[p] = d.entries[p]
    BY <2>1 DEF Keys, Entries
  <2> HIDE DEF new
  <2>3. \A q \in Sockets : In(d, q) /\ owner[q] # u => In(new, q)
    BY <2>2 DEF In, Keys
  <2>4. \A p \in Entries(new, 1) :
          p \in Entries(d, 1) /\ new.entries[p] = d.entries[p]
    BY <2>2 DEF Entries
  <2>5. OnePerUser(d) => OnePerUser(new)
    BY <2>4 DEF OnePerUser
  <2> QED
    BY <2>2, <2>3, <2>5 DEF new
<1> QED
  BY <1>1, <1>2

(* What a step does to a socket, and to the registry.                      *)
Serves(s) ==
    /\ owner' = owner
    /\ \A q \in Sockets :
         /\ state[q] # "new" => state'[q] # "new"
         /\ state'[q] = "open" => state[q] = "open" \/ (q = s /\ Connect(s))
    /\ \/ Connect(s)
       \/ job[s].pc \in {"send", "receive", "work", "leave_room", "disconnect"}
    /\ Connect(s) => state[s] = "new" /\ state'[s] = "open"

LEMMA SocketServes ==
  ASSUME VariablesTyped, NEW s \in Sockets, Connect(s) \/ Receive(s) \/ Continue(s)
  PROVE  Serves(s)
<1>1. state \in [Sockets -> States] /\ job[s] \in Job
  BY TypedParts
<1>2. CASE Connect(s)
  BY <1>1, <1>2 DEF Connect, Serves
<1>3. CASE Receive(s)
  BY <1>1, <1>3 DEF Connect, Receive, Serves
<1>4. CASE Continue(s)
  BY <1>1, <1>4 DEF Connect, Continue, Work, Notice, LeaveRoom, Disconnect,
     NewsSent, LeftSent, ListSent, Serves
<1> QED
  BY <1>2, <1>3, <1>4

LEMMA SocketMoves ==
  ASSUME VariablesTyped, Opened, NEW s \in Sockets,
         Connect(s) \/ Receive(s) \/ Continue(s)
  PROVE  VariablesTyped' /\ Rest(s) /\ Moves(s) /\ Serves(s)
<1>1. Connect(s) => job[s].pc = "new"
  BY DEF Connect, Opened
<1>2. VariablesTyped' /\ Rest(s) /\ Moves(s)
  BY <1>1, ConnectMoves, ReceiveMoves, WorkMoves, LeaveRoomMoves, LeavingMoves,
     SentMoves, LeftMoves DEF Continue
<1> QED
  BY <1>2, SocketServes

(* Only a client that opens a socket adds an entry, its own; and no step   *)
(* takes out or replaces the entry of a user who does not act.             *)
KeepsRegistry(s) ==
    /\ \A q \in Sockets :
         /\ \A p \in DOMAIN dict'.entries : dict'.entries[p] = q =>
              \/ p \in DOMAIN dict.entries /\ dict.entries[p] = q
              \/ q = s /\ Connect(s)
         /\ Registered(q) =>
              Registered(q)' \/ owner[q] = owner[s]
    /\ Connect(s) => Registered(s)'
    /\ OnePerUser(dict) => OnePerUser(dict)'

LEMMA RegistryStep ==
  ASSUME VariablesTyped, NEW s \in Sockets,
         Connect(s) \/ Receive(s) \/ ClientGone(s) \/ Continue(s)
  PROVE  KeepsRegistry(s)
<1>1. dict \in Dict /\ owner' = owner
  BY TypedParts DEF Connect, Receive, ClientGone, Continue, Work, Notice,
     LeaveRoom, Disconnect, NewsSent, LeftSent, ListSent
<1>2. \/ Connect(s) /\ dict' = WithEntry(dict, s, owner[s])
      \/ ~ Connect(s) /\ dict' = WithoutEntry(dict, owner[s])
      \/ ~ Connect(s) /\ dict' = dict
  <2>1. CASE Connect(s)
    BY <2>1 DEF Connect
  <2>2. CASE ~ Connect(s)
    BY <2>2 DEF Receive, ClientGone, Continue, Work, Notice,
       LeaveRoom, Disconnect, NewsSent, LeftSent, ListSent
  <2> QED
    BY <2>1, <2>2
<1>3. \A q : Registered(q) <=> In(dict, q)
  BY DEF Registered, In
<1>4. \A q : Registered(q)' <=> In(dict', q)
  BY DEF Registered, In
<1>5. OnePerUser(dict)' <=> OnePerUser(dict')
  BY <1>1 DEF OnePerUser, Entries
<1>6. CASE Connect(s) /\ dict' = WithEntry(dict, s, owner[s])
  BY <1>1, <1>3, <1>4, <1>5, <1>6, WithEntryAt DEF KeepsRegistry
<1>7. CASE ~ Connect(s) /\ dict' = WithoutEntry(dict, owner[s])
  BY <1>1, <1>3, <1>4, <1>5, <1>7, WithoutEntryAt DEF KeepsRegistry
<1>8. CASE ~ Connect(s) /\ dict' = dict
  BY <1>1, <1>3, <1>4, <1>5, <1>8 DEF KeepsRegistry
<1> QED
  BY <1>2, <1>6, <1>7, <1>8

(* Put together: what every step of the model may do.                      *)
JobsMove == job' = job \/ \E t \in Handlers : Rest(t) /\ Moves(t)
NothingReopens ==
    /\ owner' = owner
    /\ \A q \in Sockets :
         /\ state[q] # "new" => state'[q] # "new"
         /\ state'[q] = "open" => state[q] \in {"new", "open"}
         /\ \A p \in DOMAIN dict'.entries : dict'.entries[p] = q =>
              \/ p \in DOMAIN dict.entries /\ dict.entries[p] = q
              \/ state[q] = "new"

LEMMA StillStep ==
  ASSUME VariablesTyped, Opened, dict' = dict, owner' = owner, job' = job,
         state' = state \/ \E s \in Sockets : ClientGone(s)
  PROVE  VariablesTyped' /\ Opened' /\ JobsMove /\ NothingReopens
         /\ (OnePerUser(dict) => OnePerUser(dict)')
<1>1. state \in [Sockets -> States]
  BY TypedParts
<1>2. /\ state' \in [Sockets -> States]
      /\ \A q \in Sockets : /\ state[q] # "new" => state'[q] # "new"
                            /\ state'[q] = "open" => state[q] = "open"
  BY <1>1 DEF ClientGone, States
<1>3. VariablesTyped'
  BY <1>2 DEF VariablesTyped
<1>4. Opened'
  BY <1>2 DEF Opened, Registered
<1>5. OnePerUser(dict) => OnePerUser(dict)'
  BY DEF OnePerUser, Entries
<1> QED
  BY <1>2, <1>3, <1>4, <1>5 DEF JobsMove, NothingReopens

LEMMA ServedStep ==
  ASSUME VariablesTyped, Opened, NEW s \in Sockets,
         Connect(s) \/ Receive(s) \/ Continue(s)
  PROVE  VariablesTyped' /\ Opened' /\ JobsMove /\ NothingReopens
         /\ (OnePerUser(dict) => OnePerUser(dict)')
<1>1. VariablesTyped' /\ Rest(s) /\ Moves(s) /\ Serves(s) /\ KeepsRegistry(s)
  BY SocketMoves, RegistryStep
<1>2. state'[s] # "new"
  BY <1>1 DEF Serves, Opened
<1>3. Opened'
  <2> SUFFICES ASSUME NEW q \in Sockets, job'[q].pc # "new" \/ Registered(q)'
               PROVE  state'[q] # "new"
    BY DEF Opened
  <2>1. CASE q = s
    BY <1>2, <2>1
  <2>2. CASE q # s /\ job'[q].pc # "new"
    BY <1>1, <2>2 DEF Rest, Opened, Serves
  <2>3. CASE q # s /\ Registered(q)'
    BY <1>1, <2>3 DEF Registered, KeepsRegistry, Opened, Serves
  <2> QED
    BY <2>1, <2>2, <2>3
<1>4. NothingReopens
  BY <1>1 DEF Serves, KeepsRegistry, NothingReopens
<1> QED
  BY <1>1, <1>3, <1>4 DEF JobsMove, KeepsRegistry

LEMMA GameStep ==
  ASSUME VariablesTyped, Opened, GameStarted
  PROVE  VariablesTyped' /\ Opened' /\ JobsMove /\ NothingReopens
         /\ (OnePerUser(dict) => OnePerUser(dict)')
<1>1. VariablesTyped' /\ Rest(Starter) /\ Moves(Starter)
  BY GameMoves
<1>2. dict' = dict /\ owner' = owner /\ state' = state
  BY DEF GameStarted
<1>3. \A q \in Sockets : job'[q] = job[q]
  BY <1>1 DEF Rest
<1>4. Opened'
  BY <1>2, <1>3 DEF Opened, Registered
<1>5. OnePerUser(dict) => OnePerUser(dict)'
  BY <1>2 DEF OnePerUser, Entries
<1>6. NothingReopens
  BY <1>2, TypedParts DEF NothingReopens, States
<1> QED
  BY <1>1, <1>4, <1>5, <1>6 DEF JobsMove

LEMMA Step ==
  ASSUME VariablesTyped, Opened, [Next]_vars
  PROVE  VariablesTyped' /\ Opened' /\ JobsMove /\ NothingReopens
         /\ (OnePerUser(dict) => OnePerUser(dict)')
<1>1. CASE Next
  <2>1. CASE GameStarted
    BY <2>1, GameStep
  <2>2. ASSUME NEW s \in Sockets, ClientGone(s)
        PROVE  VariablesTyped' /\ Opened' /\ JobsMove /\ NothingReopens
               /\ (OnePerUser(dict) => OnePerUser(dict)')
    BY <2>2, StillStep DEF ClientGone
  <2>3. ASSUME NEW s \in Sockets, Connect(s) \/ Receive(s) \/ Continue(s)
        PROVE  VariablesTyped' /\ Opened' /\ JobsMove /\ NothingReopens
               /\ (OnePerUser(dict) => OnePerUser(dict)')
    BY <2>3, ServedStep
  <2> QED
    BY <1>1, <2>1, <2>2, <2>3 DEF Next, SocketsNext
<1>2. CASE UNCHANGED vars
  BY <1>2, StillStep DEF vars
<1> QED
  BY <1>1, <1>2

-----------------------------------------------------------------------------
(* The registry holds.                                                     *)
RegistryInv == VariablesTyped /\ Opened /\ OnePerUser(dict)

LEMMA RegistryInit == Init => RegistryInv
<1> SUFFICES ASSUME Init PROVE RegistryInv
  OBVIOUS
<1>1. /\ dict \in Dict /\ dict.entries = <<>>
      /\ \A t \in Handlers : job[t].pc = "new"
      /\ job \in [Handlers -> Job]
  BY NoJobTyped DEF Init, Dict, NoJob
<1>2. DOMAIN dict.entries = {}
  BY <1>1
<1>3. VariablesTyped
  BY <1>1 DEF Init, VariablesTyped, Dict, States
<1> QED
  BY <1>1, <1>2, <1>3 DEF RegistryInv, Opened, OnePerUser, Registered, Entries

LEMMA RegistryStays == RegistryInv /\ [Next]_vars => RegistryInv'
BY Step DEF RegistryInv

(* What every handler does leaves the sockets of the room well-formed: an  *)
(* iterator is never at a place or with a remainder that is not a number,  *)
(* and nobody is sent to but a socket.                                     *)
THEOREM RoomTyped == Spec => []TypeOK
<1>1. RegistryInv => TypeOK
  BY DEF RegistryInv, TypeOK
<1> QED
  BY <1>1, RegistryInit, RegistryStays, PTL DEF Spec

(* A handler that serves its client was serving it before, or the client   *)
(* has just come: handle_error is left only for the end.                   *)
LEMMA ServedBefore ==
  ASSUME VariablesTyped, Opened, [Next]_vars, NEW s \in Sockets, Serving(s)'
  PROVE  Serving(s) \/ Connect(s)
<1>1. CASE job'[s] = job[s]
  BY <1>1 DEF Serving
<1>2. ASSUME NEW q \in Sockets, Connect(q) \/ Receive(q) \/ Continue(q),
             job'[s] # job[s]
      PROVE  Serving(s) \/ Connect(s)
  <2>1. Rest(q) /\ Moves(q) /\ Serves(q)
    BY <1>2, SocketMoves
  <2>2. q = s
    BY <1>2, <2>1 DEF Rest
  <2> QED
    BY <2>1, <2>2 DEF Serves, Serving, Moves
<1>3. CASE GameStarted
  BY <1>3, GameMoves DEF Rest, Serving
<1> QED
  BY <1>1, <1>2, <1>3 DEF Next, SocketsNext, ClientGone, vars

(* The entry of a user's only socket goes with its own disconnect.         *)
LEMMA RegisteredStays ==
  ASSUME VariablesTyped, Opened, LoneSocketStays, [Next]_vars
  PROVE  LoneSocketStays'
<1> SUFFICES ASSUME NEW s \in Sockets, Serving(s)', OnlySocket(s)'
             PROVE  Registered(s)'
  BY DEF LoneSocketStays
<1>1. OnlySocket(s)
  BY Step DEF OnlySocket, NothingReopens
<1>2. CASE dict' = dict
  <2>1. CASE Serving(s)
    BY <1>1, <1>2, <2>1 DEF LoneSocketStays, Registered
  <2>2. CASE Connect(s)
    BY <2>2, RegistryStep DEF KeepsRegistry
  <2> QED
    BY <2>1, <2>2, ServedBefore
<1>3. ASSUME NEW q \in Sockets, Connect(q) \/ Disconnect(q)
      PROVE  Registered(s)'
  <2>1. Serves(q) /\ KeepsRegistry(q)
    BY <1>3, SocketServes, RegistryStep DEF Continue
  <2>2. CASE Connect(q) /\ q = s
    BY <2>1, <2>2 DEF KeepsRegistry
  <2>3. CASE Disconnect(q) /\ q = s
    <3>1. job[s] \in Job /\ job \in [Handlers -> Job]
      BY TypedParts
    <3>2. \/ job'[s] = Stopped(job[s], "done")
          \/ job'[s] = Raised(job[s])
      BY <2>3, <3>1 DEF Disconnect
    <3>3. /\ Stopped(job[s], "done").pc = "done"
          /\ Raised(job[s]).inner = TRUE
      BY <3>1, StoppedTyped, RaisedTyped DEF PCs
    <3>4. job'[s].pc = "done" \/ job'[s].inner = TRUE
      BY <3>2, <3>3
    <3> QED
      BY <3>4 DEF Serving
  <2>4. CASE q # s
    <3>1. state'[q] # "new"
      BY <1>3, <2>1 DEF Serves, Opened, Disconnect
    <3>2. owner[q] # owner[s]
      BY <2>1, <2>4, <3>1 DEF OnlySocket, Serves
    <3>3. ~ Connect(s)
      <4>1. Connect(s) => state[s] = "new" /\ state'[s] = "open"
        BY SocketServes DEF Serves
      <4> QED
        BY <2>1, <2>4, <4>1 DEF Serves
    <3>4. Registered(s)
      BY <1>1, <3>3, ServedBefore DEF LoneSocketStays
    <3> QED
      BY <2>1, <3>2, <3>4 DEF KeepsRegistry
  <2> QED
    BY <1>3, <2>2, <2>3, <2>4
<1> QED
  BY <1>2, <1>3 DEF Next, SocketsNext, Receive, ClientGone, Continue, Work, Notice,
     LeaveRoom, NewsSent, LeftSent, ListSent, GameStarted, vars

(* A user's only socket is registered as long as its handler serves it,    *)
(* whatever other users' sockets do in the meantime.                       *)
THEOREM LoneSocketIsRegistered == Spec => []LoneSocketStays
<1>1. Init => LoneSocketStays
  BY DEF Init, LoneSocketStays, Serving, NoJob
<1>2. RegistryInv /\ LoneSocketStays /\ [Next]_vars => LoneSocketStays'
  BY RegisteredStays DEF RegistryInv
<1> QED
  BY <1>1, <1>2, RegistryInit, RegistryStays, PTL DEF Spec

-----------------------------------------------------------------------------
(* The broadcasts.  What has been sent to lies behind the iterator and not *)
(* before it; and whoever is owed the message lies before it, or has it.   *)
ToldBehind(t) ==
    job[t].pc = "send" =>
        /\ job[t].to \in told[t] /\ told[t] \subseteq Sockets
        /\ \A s \in told[t] : state[s] # "new"
        /\ \A p \in Entries(dict, job[t].at) : dict.entries[p] \notin told[t]
There(s) == Registered(s) /\ Listening(s)
OwedAhead(t) ==
    /\ owed[t] \subseteq Sockets
    /\ job[t].pc = "send" =>
         \A s \in owed[t] :
             /\ There(s) /\ ~ Skipped(t, job[t], s)
             /\ \A p \in DOMAIN dict.entries :
                  dict.entries[p] = s => p >= job[t].at \/ s \in told[t]
    /\ t = Starter /\ job[t].pc = "new" => \A s \in owed[t] : There(s)
HistoryInv ==
    /\ RegistryInv
    /\ \A t \in Handlers : ToldBehind(t) /\ OwedAhead(t)

(* A handler that is sending after a step began with it, went on, or did   *)
(* nothing.                                                                *)
BeginsNow(t) ==
    /\ Begins(t)
    /\ \E k \in Job, message \in Messages :
         Sends(t, Begin(k, message, dict'))
LEMMA SendingKinds ==
  ASSUME RegistryInv, [Next]_vars, NEW t \in Handlers, job'[t].pc = "send"
  PROVE  /\ VariablesTyped /\ VariablesTyped'
         /\ \/ ~ Begins(t) /\ job'[t] = job[t]
            \/ ~ Begins(t) /\ GoesOn(t)
            \/ BeginsNow(t)
<1>1. VariablesTyped /\ VariablesTyped' /\ JobsMove /\ dict' \in Dict
  BY Step DEF RegistryInv, VariablesTyped, Dict
<1>2. CASE job'[t] = job[t]
  BY <1>1, <1>2 DEF Begins
<1>3. CASE job'[t] # job[t]
  <2>1. Moves(t)
    BY <1>1, <1>3 DEF JobsMove, Rest
  <2>2. CASE GoesOn(t)
    <3>1. job[t] \in Job
      BY <1>1, TypedParts
    <3>2. job'[t].message = job[t].message
      BY <1>1, <2>2, <3>1, SendsSets DEF GoesOn
    <3> QED
      BY <1>1, <2>2, <3>2 DEF Begins, GoesOn
  <2>3. ASSUME NEW k \in Job, NEW message \in Messages,
               BeginsWith(t, k, message)
        PROVE  BeginsNow(t)
    <3>1. Sends(t, Begin(k, message, dict'))
      BY <2>3 DEF BeginsWith
    <3>2. job'[t].message = message
      BY <1>1, <3>1, BeginTyped, SendsSets
    <3>3. Begins(t)
      BY <2>3, <3>2 DEF BeginsWith, Begins
    <3> QED
      BY <3>1, <3>3 DEF BeginsNow
  <2> QED
    BY <1>1, <2>1, <2>2, <2>3 DEF Moves, Ends
<1> QED
  BY <1>2, <1>3

(* The send that an iterator comes to.                                     *)
LEMMA NextSend ==
  ASSUME NEW t \in Handlers, NEW k \in Job, dict' \in Dict, Sends(t, k)
  PROVE  \E p \in Nat :
           /\ p \in Entries(dict', k.at) /\ p >= k.at
           /\ job'[t].to = dict'.entries[p] /\ job'[t].to \in Sockets
           /\ job'[t].at = p + 1 /\ job'[t].message = k.message
           /\ \A q \in Entries(dict', k.at) :
                ~ Skipped(t, k, dict'.entries[q]) => p <= q
<1> DEFINE p == First(t, k, dict')
<1>1. k.at \in Nat
  BY DEF Job
<1>2. p \in Targets(t, k, dict') /\ \A q \in Targets(t, k, dict') : p <= q
  BY <1>1, FirstIsFirst DEF Sends
<1>3. p \in Entries(dict', k.at)
  BY <1>2 DEF Targets
<1>4. p \in Nat /\ p >= k.at /\ dict'.entries[p] \in Sockets
  BY <1>1, <1>3, EntriesFinite
<1>5. /\ job'[t].to = dict'.entries[p] /\ job'[t].at = p + 1
      /\ job'[t].message = k.message
  BY SendsSets
<1>6. \A q \in Entries(dict', k.at) :
        ~ Skipped(t, k, dict'.entries[q]) => p <= q
  BY <1>2 DEF Targets
<1> HIDE DEF p
<1> p \in Nat
  BY <1>4
<1> WITNESS p \in Nat
<1> QED
  BY <1>3, <1>4, <1>5, <1>6

LEMMA ToldStep ==
  ASSUME HistoryInv, [HistoryNext]_historyVars, NEW t \in Handlers,
         [Next]_vars
  PROVE  ToldBehind(t)'
<1> SUFFICES ASSUME job'[t].pc = "send" PROVE ToldBehind(t)'
  BY DEF ToldBehind
<1>1. /\ RegistryInv /\ RegistryInv' /\ NothingReopens /\ ToldBehind(t)
      /\ dict \in Dict /\ dict' \in Dict /\ job[t] \in Job
  BY RegistryStays, Step, TypedParts DEF HistoryInv, RegistryInv, VariablesTyped, Dict
<1>2. /\ ~ Begins(t) => told'[t] \subseteq told[t] \cup {job'[t].to}
      /\ ~ Begins(t) => told[t] \subseteq told'[t]
      /\ Begins(t) => told'[t] \subseteq {job'[t].to}
      /\ HistoryNext /\ job'[t].to # Nothing => job'[t].to \in told'[t]
      /\ ~ HistoryNext => told' = told /\ job' = job
  BY DEF HistoryNext, historyVars, SentTo, Begins, vars
<1>3. CASE ~ Begins(t) /\ job'[t] = job[t]
  <2>1. told'[t] = told[t] /\ job[t].to \in told[t]
    BY <1>1, <1>2, <1>3 DEF ToldBehind
  <2>2. \A p \in Entries(dict', job[t].at) : dict'.entries[p] \notin told[t]
    <3> SUFFICES ASSUME NEW p \in Entries(dict', job[t].at),
                        dict'.entries[p] \in told[t]
                 PROVE  FALSE
      OBVIOUS
    <3>1. dict'.entries[p] \in Sockets /\ state[dict'.entries[p]] # "new"
      BY <1>1, <1>3 DEF ToldBehind
    <3>2. p \in DOMAIN dict.entries /\ dict.entries[p] = dict'.entries[p]
      BY <1>1, <3>1 DEF NothingReopens, Entries
    <3>3. p \in Entries(dict, job[t].at)
      BY <3>1, <3>2 DEF Entries
    <3> QED
      BY <1>1, <1>3, <3>2, <3>3 DEF ToldBehind
  <2> QED
    BY <1>1, <1>3, <2>1, <2>2 DEF ToldBehind, NothingReopens
<1>4. ASSUME NEW k \in Job, Sends(t, k),
             told'[t] = {job'[t].to}
             \/ /\ told'[t] = told[t] \cup {job'[t].to} /\ UNCHANGED dict
                /\ job[t].pc = "send" /\ k = job[t]
      PROVE  ToldBehind(t)'
  <2>1. PICK p \in Nat :
          /\ p \in Entries(dict', k.at) /\ p >= k.at
          /\ job'[t].to = dict'.entries[p] /\ job'[t].to \in Sockets
          /\ job'[t].at = p + 1
    BY <1>1, <1>4, NextSend
  <2>2. state'[job'[t].to] # "new"
    <3>1. Registered(job[t].to)'
      BY <2>1 DEF Registered, Entries
    <3> QED
      BY <1>1, <2>1, <3>1 DEF RegistryInv, Opened
  <2>3. \A q \in Entries(dict', p + 1) :
          /\ dict'.entries[q] # job'[t].to
          /\ q \in Entries(dict', k.at)
    <3> SUFFICES ASSUME NEW q \in Entries(dict', p + 1)
                 PROVE  /\ dict'.entries[q] # job'[t].to
                        /\ q \in Entries(dict', k.at)
      OBVIOUS
    <3>1. q \in Nat \ {0} /\ q >= p + 1 /\ k.at \in Nat /\ p \in Nat \ {0}
      <4>1. p + 1 \in Nat /\ k.at \in Nat
        BY DEF Job
      <4> QED
        BY <1>1, <2>1, <4>1, EntriesFinite
    <3>2. q >= k.at /\ q # p /\ q >= 1 /\ p >= 1
      BY <2>1, <3>1
    <3>3. q \in Entries(dict', 1) /\ p \in Entries(dict', 1)
      BY <2>1, <3>2 DEF Entries
    <3>4. owner'[dict'.entries[q]] # owner'[dict'.entries[p]]
      BY <1>1, <3>2, <3>3 DEF RegistryInv, OnePerUser, Entries
    <3> QED
      BY <2>1, <3>2, <3>4 DEF Entries
  <2>4. CASE told'[t] = {job'[t].to}
    BY <2>1, <2>2, <2>3, <2>4 DEF ToldBehind
  <2>5. CASE /\ told'[t] = told[t] \cup {job'[t].to} /\ UNCHANGED dict
             /\ job[t].pc = "send" /\ k = job[t]
    <3>1. \A q \in Entries(dict', p + 1) : dict'.entries[q] \notin told[t]
      BY <1>1, <2>3, <2>5 DEF ToldBehind
    <3>2. told[t] \subseteq Sockets /\ \A s \in told[t] : state'[s] # "new"
      BY <1>1, <2>5 DEF ToldBehind, NothingReopens
    <3> QED
      BY <2>1, <2>2, <2>3, <2>5, <3>1, <3>2 DEF ToldBehind
  <2> QED
    BY <1>4, <2>4, <2>5
<1>5. ASSUME NEW k \in Job, Sends(t, k), HistoryNext
      PROVE  job'[t].to \in told'[t]
  BY <1>1, <1>2, <1>5, NextSend
<1>6. CASE ~ Begins(t) /\ GoesOn(t) /\ job'[t] # job[t]
  BY <1>1, <1>2, <1>4, <1>5, <1>6 DEF GoesOn
<1>7. CASE BeginsNow(t)
  <2>1. PICK k \in Job : Sends(t, k)
    BY <1>1, <1>7, BeginTyped DEF BeginsNow
  <2>2. HistoryNext
    BY <1>2, <1>7 DEF BeginsNow, Begins
  <2> QED
    BY <1>2, <1>4, <1>5, <1>7, <2>1, <2>2 DEF BeginsNow
<1> QED
  BY <1>1, <1>3, <1>6, <1>7, SendingKinds

LEMMA OwedStep ==
  ASSUME HistoryInv, HistoryNext, NEW t \in Handlers
  PROVE  OwedAhead(t)'
<1>1. /\ RegistryInv /\ RegistryInv' /\ NothingReopens /\ [Next]_vars
      /\ ToldBehind(t) /\ OwedAhead(t)
      /\ dict \in Dict /\ dict' \in Dict /\ job[t] \in Job
      /\ state \in [Sockets -> States]
  BY RegistryStays, Step, TypedParts
     DEF HistoryInv, HistoryNext, RegistryInv, VariablesTyped, Dict
<1>2. /\ owed'[t] \subseteq Sockets
      /\ \A s \in owed'[t] : There(s)'
      /\ Begins(t) => \A s \in owed'[t] : ~ Skipped(t, job[t], s)'
      /\ ~ Begins(t) /\ ~ NotBegun(t) => owed'[t] \subseteq owed[t]
  BY DEF HistoryNext, There
<1>3. \A s \in owed'[t] : state'[s] = "open" /\ state[s] # "known"
  BY <1>1, <1>2 DEF There, Listening, NothingReopens
<1>4. told[t] \subseteq told'[t] \/ Begins(t)
  BY DEF HistoryNext
<1>5. CASE job'[t].pc # "send"
  BY <1>2, <1>5 DEF OwedAhead
<1>6. CASE ~ Begins(t) /\ job'[t] = job[t] /\ job'[t].pc = "send"
  <2>1. owed'[t] \subseteq owed[t]
    BY <1>2, <1>6 DEF NotBegun
  <2>2. ASSUME NEW s \in owed'[t]
        PROVE  ~ Skipped(t, job[t], s)'
    BY <1>1, <1>3, <1>6, <2>1, <2>2 DEF OwedAhead, Skipped, NothingReopens
  <2>3. ASSUME NEW s \in owed'[t], NEW p \in DOMAIN dict'.entries,
               dict'.entries[p] = s
        PROVE  p >= job'[t].at \/ s \in told'[t]
    <3>1. There(s) /\ s \in Sockets
      BY <1>1, <1>6, <2>1 DEF OwedAhead
    <3>2. p \in DOMAIN dict.entries /\ dict.entries[p] = s
      BY <1>1, <2>3, <3>1 DEF NothingReopens, There, Listening
    <3> QED
      BY <1>1, <1>4, <1>6, <2>1, <3>2 DEF OwedAhead
  <2> QED
    BY <1>2, <1>6, <2>2, <2>3 DEF OwedAhead
<1>7. CASE ~ Begins(t) /\ GoesOn(t) /\ job'[t].pc = "send"
  <2>1. owed'[t] \subseteq owed[t] /\ dict' = dict /\ job[t].pc = "send"
    BY <1>2, <1>7 DEF NotBegun, GoesOn
  <2>2. PICK p \in Nat :
          /\ p \in Entries(dict', job[t].at) /\ p >= job[t].at
          /\ job'[t].to = dict'.entries[p] /\ job'[t].to \in Sockets
          /\ job'[t].at = p + 1 /\ job'[t].message = job[t].message
          /\ \A q \in Entries(dict', job[t].at) :
               ~ Skipped(t, job[t], dict'.entries[q]) => p <= q
    BY <1>1, <1>7, NextSend DEF GoesOn
  <2>3. ASSUME NEW s \in owed'[t]
        PROVE  ~ Skipped(t, job[t], s)'
    BY <1>1, <1>3, <2>1, <2>2 DEF OwedAhead, Skipped, NothingReopens
  <2>4. ASSUME NEW s \in owed'[t], NEW q \in DOMAIN dict'.entries,
               dict'.entries[q] = s
        PROVE  q >= job'[t].at \/ s \in told'[t]
    <3>1. s \in Sockets /\ ~ Skipped(t, job[t], s)
          /\ (q >= job[t].at \/ s \in told[t])
      BY <1>1, <2>1, <2>4 DEF OwedAhead
    <3>2. CASE s \in told[t]
      BY <1>4, <1>7, <3>2
    <3>3. CASE q >= job[t].at
      <4>1. q \in Entries(dict', job[t].at)
        BY <2>4, <3>1, <3>3 DEF Entries
      <4>2. p <= q /\ q \in Nat
        BY <1>1, <2>2, <2>4, <3>1, <4>1, EntriesFinite DEF Job
      <4>3. CASE q = p
        BY <1>7, <2>2, <2>4, <3>1, <4>3 DEF HistoryNext, SentTo
      <4>4. CASE q # p
        BY <2>2, <4>2, <4>4
      <4> QED
        BY <4>3, <4>4
    <3> QED
      BY <3>1, <3>2, <3>3
  <2> QED
    BY <1>2, <2>1, <2>3, <2>4, <1>7 DEF OwedAhead
<1>8. CASE BeginsNow(t) /\ job'[t].pc = "send"
  <2>1. PICK old \in Job, message \in Messages :
          Sends(t, Begin(old, message, dict'))
    BY <1>8 DEF BeginsNow
  <2> DEFINE k == Begin(old, message, dict')
  <2>2. k \in Job /\ k.at = 1 /\ k.message = message
    BY <1>1, BeginTyped
  <2> HIDE DEF k
  <2>3. PICK p \in Nat :
          /\ p \in Entries(dict', k.at) /\ p >= k.at
          /\ job'[t].to = dict'.entries[p] /\ job'[t].to \in Sockets
          /\ job'[t].at = p + 1 /\ job'[t].message = k.message
          /\ \A q \in Entries(dict', k.at) :
               ~ Skipped(t, k, dict'.entries[q]) => p <= q
    <3>1. Sends(t, k)
      BY <2>1 DEF k
    <3> QED
      BY <1>1, <2>2, <3>1, NextSend
  <2>4. ASSUME NEW s \in owed'[t]
        PROVE  ~ Skipped(t, k, s)
    <3>1. ~ Skipped(t, job[t], s)'
      BY <1>2, <1>8 DEF BeginsNow
    <3> QED
      BY <1>1, <1>3, <2>3, <3>1 DEF Skipped, NothingReopens
  <2>5. ASSUME NEW s \in owed'[t], NEW q \in DOMAIN dict'.entries,
               dict'.entries[q] = s
        PROVE  q >= job'[t].at \/ s \in told'[t]
    <3>1. DOMAIN dict'.entries \subseteq Nat \ {0}
      <4>1. DOMAIN dict'.entries = 1 .. Len(dict'.entries)
        BY <1>1, EntriesFinite
      <4> QED
        BY <4>1
    <3>2. q \in Entries(dict', k.at) /\ q \in Nat
      BY <1>2, <2>2, <2>5, <3>1 DEF Entries
    <3>3. p <= q
      BY <2>3, <2>4, <2>5, <3>2
    <3>4. CASE q = p
      BY <1>8, <2>3, <2>5, <3>4 DEF HistoryNext, SentTo, BeginsNow
    <3>5. CASE q # p
      BY <2>3, <3>2, <3>3, <3>5
    <3> QED
      BY <3>4, <3>5
  <2> QED
    BY <1>2, <1>8, <2>5 DEF OwedAhead, BeginsNow
<1> QED
  BY <1>1, <1>5, <1>6, <1>7, <1>8, SendingKinds

LEMMA HistoryStarts == HistoryInit => HistoryInv
<1> SUFFICES ASSUME HistoryInit PROVE HistoryInv
  OBVIOUS
<1>1. RegistryInv
  BY RegistryInit DEF HistoryInit
<1>2. \A t \in Handlers : job[t].pc = "new" /\ owed[t] = {}
  BY DEF HistoryInit, Init, NoJob
<1> QED
  BY <1>1, <1>2 DEF HistoryInv, ToldBehind, OwedAhead

LEMMA HistoryStays == HistoryInv /\ [HistoryNext]_historyVars => HistoryInv'
<1> SUFFICES ASSUME HistoryInv, [HistoryNext]_historyVars PROVE HistoryInv'
  OBVIOUS
<1>1. [Next]_vars
  BY DEF HistoryNext, historyVars
<1>2. RegistryInv'
  BY <1>1, RegistryStays DEF HistoryInv
<1>3. \A t \in Handlers : ToldBehind(t)'
  BY <1>1, ToldStep
<1>4. \A t \in Handlers : OwedAhead(t)'
  <2>1. CASE HistoryNext
    BY <2>1, OwedStep
  <2>2. CASE UNCHANGED historyVars
    BY <2>2 DEF HistoryInv, OwedAhead, There, Registered, Listening, Skipped,
       historyVars, vars
  <2> QED
    BY <2>1, <2>2
<1> QED
  BY <1>2, <1>3, <1>4 DEF HistoryInv

(* An iterator that finds no entry to send to has passed everybody who was *)
(* owed the message.                                                       *)
LEMMA NobodyMissed ==
  ASSUME HistoryInv, NEW t \in Handlers, Exhausted(t)
  PROVE  owed[t] \subseteq told[t]
<1> SUFFICES ASSUME NEW s \in owed[t] PROVE s \in told[t]
  OBVIOUS
<1>1. /\ VariablesTyped /\ OwedAhead(t) /\ s \in Sockets /\ dict \in Dict
      /\ job[t] \in Job
  BY TypedParts DEF HistoryInv, RegistryInv, OwedAhead
<1>2. /\ DOMAIN dict.entries = 1 .. Len(dict.entries)
      /\ Len(dict.entries) \in Nat
  BY <1>1, EntriesFinite
<1>3. CASE job[t].pc = "send" /\ Targets(t, job[t], dict) = {}
  <2>1. There(s) /\ ~ Skipped(t, job[t], s)
    BY <1>1, <1>3 DEF OwedAhead
  <2>2. PICK p \in DOMAIN dict.entries : dict.entries[p] = s
    BY <2>1 DEF There, Registered
  <2>3. p >= job[t].at => p \in Targets(t, job[t], dict)
    BY <1>1, <2>1, <2>2 DEF Targets, Entries
  <2> QED
    BY <1>1, <1>3, <2>2, <2>3 DEF OwedAhead
<1>4. CASE /\ job[t].pc = "new" /\ t = Starter
           /\ Targets(t, Begin(NoJob, "GAME_STARTED", dict), dict) = {}
  <2> DEFINE k == Begin(NoJob, "GAME_STARTED", dict)
  <2>1. k.message = "GAME_STARTED" /\ k.at = 1
    BY DEF Begin, NoJob
  <2>2. There(s) /\ ~ Skipped(t, k, s)
    BY <1>1, <1>4, <2>1 DEF OwedAhead, Skipped
  <2> HIDE DEF k
  <2>3. PICK p \in DOMAIN dict.entries : dict.entries[p] = s
    BY <2>2 DEF There, Registered
  <2>4. p >= 1
    BY <1>2
  <2>5. p \in Targets(t, k, dict)
    BY <1>1, <2>1, <2>2, <2>3, <2>4 DEF Targets, Entries
  <2> QED
    BY <1>4, <2>5 DEF k
<1> QED
  BY <1>3, <1>4 DEF Exhausted

LEMMA CompletesExhausted ==
  ASSUME HistoryInv, [Next]_vars, NEW t \in Handlers, Completes(t)
  PROVE  Exhausted(t)
<1>1. VariablesTyped /\ dict' \in Dict /\ JobsMove
  BY Step DEF HistoryInv, RegistryInv, VariablesTyped, Dict
<1>2. Moves(t)
  BY <1>1 DEF Completes, JobsMove, Rest
<1>3. ASSUME NEW k \in Job, NEW message \in Messages, BeginsWith(t, k, message)
      PROVE  Exhausted(t)
  <2>1. job'[t].pc = "send" /\ job'[t].message = message
    BY <1>1, <1>3, BeginTyped, SendsSets DEF BeginsWith
  <2> QED
    BY <1>3, <2>1 DEF BeginsWith, Completes
<1>4. CASE GoesOn(t)
  <2>1. job[t] \in Job
    BY <1>1, TypedParts
  <2>2. job'[t].pc = "send" /\ job'[t].message = job[t].message
    BY <1>1, <1>4, <2>1, SendsSets DEF GoesOn
  <2> QED
    BY <2>2 DEF Completes
<1>5. CASE Ends(t)
  BY <1>5 DEF Ends, Completes
<1> QED
  BY <1>2, <1>3, <1>4, <1>5 DEF Moves

(* A broadcast that comes to its end, of any message and by any handler,   *)
(* has sent to every socket that was registered and listening all the time *)
(* it took.                                                                *)
THEOREM BroadcastReaches == HistorySpec => ReachesSteady
<1>1. ASSUME HistoryInv, [HistoryNext]_historyVars
      PROVE  [\A t \in Handlers :
                 Completes(t) => owed[t] \subseteq told[t]]_historyVars
  <2>1. [Next]_vars
    BY <1>1 DEF HistoryNext, historyVars
  <2> QED
    BY <1>1, <2>1, CompletesExhausted, NobodyMissed
<1> QED
  BY <1>1, HistoryStarts, HistoryStays, PTL DEF HistorySpec, ReachesSteady

(* No broadcast sends to a socket that it has sent to.                     *)
THEOREM BroadcastSendsOnce == HistorySpec => SendsOnce
<1>1. ASSUME HistoryInv, [HistoryNext]_historyVars
      PROVE  [\A t \in Handlers :
                 /\ job'[t].pc = "send" /\ job'[t] # job[t] /\ ~ Begins(t)
                 => job'[t].to \notin told[t]]_historyVars
  <2> SUFFICES ASSUME NEW t \in Handlers, job'[t].pc = "send",
                      job'[t] # job[t], ~ Begins(t)
               PROVE  job'[t].to \notin told[t]
    OBVIOUS
  <2>1. [Next]_vars
    BY <1>1 DEF HistoryNext, historyVars
  <2>2. GoesOn(t) /\ VariablesTyped /\ dict' \in Dict /\ job[t] \in Job
    BY <1>1, <2>1, SendingKinds, TypedParts
       DEF HistoryInv, BeginsNow, VariablesTyped, Dict
  <2>3. PICK p \in Nat :
          p \in Entries(dict', job[t].at) /\ job'[t].to = dict'.entries[p]
    BY <2>2, NextSend DEF GoesOn
  <2> QED
    BY <1>1, <2>2, <2>3 DEF HistoryInv, ToldBehind, GoesOn
<1> QED
  BY <1>1, HistoryStarts, HistoryStays, PTL DEF HistorySpec, SendsOnce

=============================================================================
