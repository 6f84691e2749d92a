---------------------------- MODULE AccountProofs ----------------------------
(***************************************************************************)
(* Accounts and logins, for any number of people, accounts, sessions and   *)
(* requests that are served at a time.                                     *)
(***************************************************************************)
EXTENDS AccountHistory, FiniteSetTheorems, TLAPS

(* Bots have no email, and nobody else is called as they are.              *)
UsersTyped(u) ==
    /\ DOMAIN u \subseteq Ids /\ u \in [DOMAIN u -> User]
    /\ \A id \in DOMAIN u : u[id].nickname = BotName => u[id].email = Nothing

(* Before each await a task has what it uses after it: k is the task, u the*)
(* table, a the people Google has named for the sessions.                  *)
Fit(k, u, a) ==
    /\ k.pc \in {"google", "lookup", "uid", "insert", "record", "deliver"} =>
           k.session \in Sessions
    /\ k.pc \in {"lookup", "uid", "insert"} =>
           k.email \in a[k.session] \cap Emails
    /\ k.pc \in {"record", "deliver"} =>
           k.id \in DOMAIN u /\ u[k.id].email \in a[k.session] \cap Emails
    /\ k.pc = "deliver" => u[k.id].recorded
    /\ k.pc \in {"insert", "bot_insert"} => k.uid \in Uids \cup BotUids
    /\ k.pc \in {"nickname_write", "toggle_look", "toggle_add",
                 "toggle_check", "toggle_remove", "character_write"} =>
           k.id \in DOMAIN u
    /\ k.pc \in {"nickname_write", "character_write"} => k.copy \in Copy
    /\ k.pc \in {"toggle_look", "toggle_add", "toggle_check",
                 "toggle_remove", "character_write"} => k.code \in Characters

(* A token that waits in the mailbox of a session, or that its client has, *)
(* is of a person who signed in with the session, with the login recorded. *)
Good(id, s, u, a) ==
    /\ id \in DOMAIN u /\ u[id].recorded
    /\ u[id].email \in a[s] \cap Emails

TokensGood ==
    /\ \A s \in Sessions : mailbox[s] # Nothing =>
           Good(mailbox[s], s, users, signed)
    /\ \A h \in held : Good(h[2], h[1], users, signed)

IInv ==
    /\ TypeOK
    /\ UsersTyped(users)
    /\ \A t \in Tasks : Fit(task[t], users, signed)
    /\ UidsUnique
    /\ TokensGood

-----------------------------------------------------------------------------
(* What any step does to the accounts: none goes, and none gets another    *)
(* email or uid, or loses the record of its login.                         *)
Grows ==
    /\ DOMAIN users \subseteq DOMAIN users'
    /\ \A id \in DOMAIN users :
          /\ users'[id].email = users[id].email
          /\ users'[id].uid = users[id].uid
          /\ users[id].recorded => users'[id].recorded
SignedGrows == \A s \in Sessions : signed[s] \subseteq signed'[s]

UsersStep == UsersTyped(users') /\ Grows /\ UidsUnique'

(* What a step of task t does to it.                                       *)
TaskStep(t) ==
    \E k \in Task : Fit(k, users', signed') /\ task' = [task EXCEPT ![t] = k]

LEMMA UsersSame ==
  ASSUME IInv, UNCHANGED users
  PROVE  UsersStep
BY DEF IInv, UsersTyped, UsersStep, Grows, UidsUnique

LEMMA UsersChanged ==
  ASSUME IInv, NEW id \in DOMAIN users, NEW account \in User,
         users' = [users EXCEPT ![id] = account],
         account.email = users[id].email, account.uid = users[id].uid,
         users[id].recorded => account.recorded,
         account.nickname = BotName => users[id].nickname = BotName
  PROVE  UsersStep
BY DEF IInv, UsersTyped, UsersStep, Grows, UidsUnique

LEMMA UsersAdded ==
  ASSUME IInv, NEW id \in Ids \ DOMAIN users, NEW account \in User,
         users' = WithAccount(id, account), UidFree(account.uid),
         account.nickname = BotName => account.email = Nothing
  PROVE  UsersStep /\ id \in DOMAIN users' /\ users'[id] = account
<1>1. /\ DOMAIN users' = DOMAIN users \cup {id}
      /\ users'[id] = account
      /\ \A i \in DOMAIN users : users'[i] = users[i]
  BY DEF WithAccount
<1>2. users' \in [DOMAIN users' -> User]
  BY <1>1 DEF UsersTyped, IInv, WithAccount
<1>3. UidsUnique'
  BY <1>1 DEF UidsUnique, UidFree, IInv
<1> QED
  BY <1>1, <1>2, <1>3 DEF UsersStep, Grows, UsersTyped, IInv

(* UPDATE of the columns that a session's copy differs in.                 *)
LEMMA UsersWritten ==
  ASSUME IInv, NEW id \in DOMAIN users, NEW copy \in Copy, NEW change \in Copy,
         users' = WriteChange(copy, id, change)
  PROVE  UsersStep
<1> DEFINE account ==
      [users[id] EXCEPT
        !.nickname = IF change.nickname = copy.nickname THEN @
                     ELSE change.nickname,
        !.character = IF change.character = copy.character THEN @
                      ELSE change.character]
<1>1. users[id] \in User
  BY DEF IInv, UsersTyped
<1>2. /\ account \in User
      /\ account.email = users[id].email /\ account.uid = users[id].uid
      /\ account.recorded = users[id].recorded
  BY <1>1 DEF User, Copy
<1>3. account.nickname = users[id].nickname \/ account.nickname \in Nicknames
  BY <1>1 DEF User, Copy
<1>4. BotName \notin Nicknames
  BY AccountsAssumption DEF Nicknames, BotName, Empty, Blank
<1>5. users' = [users EXCEPT ![id] = account]
  BY DEF WriteChange
<1> HIDE DEF account
<1> QED
  BY <1>2, <1>3, <1>4, <1>5, UsersChanged

-----------------------------------------------------------------------------
LEMMA IdleFits ==
  ASSUME NEW u, NEW a
  PROVE  Idle \in Task /\ Fit(Idle, u, a)
BY AccountsAssumption DEF Idle, Task, PCs, Nicknames, Fit

LEMMA Finishes ==
  ASSUME NEW t \in Tasks, Finish(t)
  PROVE  TaskStep(t)
BY IdleFits DEF Finish, Become, TaskStep

LEMMA Becomes ==
  ASSUME NEW t \in Tasks, NEW k \in Task, Become(t, k), Fit(k, users', signed')
  PROVE  TaskStep(t)
BY DEF Become, TaskStep

LEMMA CopyTyped ==
  ASSUME IInv, NEW id \in DOMAIN users, users[id].email \in Emails
  PROVE  CopyOf(id) \in Copy
<1>1. users[id].nickname # BotName
  BY AccountsAssumption DEF IInv, UsersTyped
<1> QED
  BY <1>1 DEF IInv, UsersTyped, User, CopyOf, Copy

(* What one task does leaves the others fit.                               *)
LEMMA FitStays ==
  ASSUME NEW k, Fit(k, users, signed), Grows, SignedGrows
  PROVE  Fit(k, users', signed')
BY DEF Fit, Grows, SignedGrows

LEMMA GoodStays ==
  ASSUME NEW id, NEW s \in Sessions, Good(id, s, users, signed), Grows, SignedGrows
  PROVE  Good(id, s, users', signed')
BY DEF Good, Grows, SignedGrows

LEMMA TasksFit ==
  ASSUME IInv, NEW t \in Tasks, TaskStep(t), Grows, SignedGrows
  PROVE  /\ task' \in [Tasks -> Task]
         /\ \A q \in Tasks : Fit(task[q], users, signed)'
<1>1. PICK k \in Task : Fit(k, users', signed') /\ task' = [task EXCEPT ![t] = k]
  BY DEF TaskStep
<1>2. task \in [Tasks -> Task]
  BY DEF IInv, TypeOK, AccountTypeOK
<1>3. \A q \in Tasks : Fit(task[q], users', signed')
  BY FitStays DEF IInv
<1> QED
  BY <1>1, <1>2, <1>3

-----------------------------------------------------------------------------
(* What each action does to the accounts and to its task.                  *)
Step(t) == UsersStep /\ TaskStep(t)

LEMMA TaskTyped ==
  ASSUME IInv, NEW t \in Tasks
  PROVE  task[t] \in Task /\ Fit(task[t], users, signed)
BY DEF IInv, TypeOK, AccountTypeOK

LEMMA LookupStep ==
  ASSUME IInv, NEW t \in Tasks, Lookup(t), UNCHANGED signed
  PROVE  Step(t)
<1> DEFINE k == task[t]
<1>1. UsersStep /\ UNCHANGED users
  BY UsersSame DEF Lookup
<1>2. /\ k \in Task /\ k.pc = "lookup"
      /\ k.session \in Sessions /\ k.email \in signed[k.session] \cap Emails
  BY TaskTyped DEF Lookup, At, Fit
<1>3. ASSUME NEW id \in Known(k.email),
             Become(t, [k EXCEPT !.pc = "record", !.id = id,
                                 !.copy = CopyOf(id)])
      PROVE  TaskStep(t)
  <2>1. id \in DOMAIN users /\ users[id].email = k.email
    BY <1>3 DEF Known, AccountsOf
  <2>2. CopyOf(id) \in Copy /\ id \in Ids
    BY <1>2, <2>1, CopyTyped DEF IInv, UsersTyped
  <2>3. [k EXCEPT !.pc = "record", !.id = id, !.copy = CopyOf(id)] \in Task
    BY <1>2, <2>2 DEF Task, PCs
  <2>4. Fit([k EXCEPT !.pc = "record", !.id = id, !.copy = CopyOf(id)],
            users', signed')
    BY <1>1, <1>2, <2>1 DEF Fit, Task
  <2> QED
    BY <1>3, <2>3, <2>4, Becomes
<1>4. ASSUME Goto(t, "uid") PROVE TaskStep(t)
  <2>1. [k EXCEPT !.pc = "uid"] \in Task
    BY <1>2 DEF Task, PCs
  <2>2. Fit([k EXCEPT !.pc = "uid"], users', signed')
    BY <1>1, <1>2 DEF Fit, Task
  <2> QED
    BY <1>4, <2>1, <2>2, Becomes DEF Goto
<1> QED
  BY <1>1, <1>3, <1>4 DEF Lookup, Step

LEMMA DrawStep ==
  ASSUME IInv, NEW t \in Tasks, UNCHANGED signed, DrawUid(t) \/ DrawBotUid(t)
  PROVE  Step(t)
<1> DEFINE k == task[t]
<1>1. UsersStep /\ UNCHANGED users
  BY UsersSame DEF DrawUid, DrawBotUid, Draw
<1>2. k \in Task /\ Fit(k, users, signed)
  BY TaskTyped
<1>3. ASSUME NEW from, NEW to, NEW pool, Draw(t, from, pool, to),
             \/ from = "uid" /\ to = "insert" /\ pool = Uids
             \/ from = "bot_uid" /\ to = "bot_insert" /\ pool = BotUids
      PROVE  TaskStep(t)
  <2>1. ASSUME NEW uid \in pool,
               Become(t, [k EXCEPT !.pc = to, !.uid = uid, !.tries = 0])
        PROVE  TaskStep(t)
    <3>1. [k EXCEPT !.pc = to, !.uid = uid, !.tries = 0] \in Task
      <4>1. to \in PCs /\ uid \in Uids \cup BotUids
        BY <1>3, <2>1 DEF PCs
      <4>2. 0 \in 0 .. MaxAttempts
        BY AccountsAssumption
      <4> QED
        BY <1>2, <4>1, <4>2 DEF Task
    <3>2. Fit([k EXCEPT !.pc = to, !.uid = uid, !.tries = 0], users', signed')
      BY <1>1, <1>2, <1>3, <2>1 DEF Fit, Task, Draw, At
    <3> QED
      BY <2>1, <3>1, <3>2, Becomes
  <2>2. ASSUME NextTry(k.tries) < MaxAttempts,
               Become(t, [k EXCEPT !.tries = NextTry(@)])
        PROVE  TaskStep(t)
    <3>1. [k EXCEPT !.tries = NextTry(@)] \in Task
      BY <1>2, <2>2, AccountsAssumption DEF Task, NextTry
    <3>2. Fit([k EXCEPT !.tries = NextTry(@)], users', signed')
      BY <1>1, <1>2 DEF Fit, Task
    <3> QED
      BY <2>2, <3>1, <3>2, Becomes
  <2> QED
    BY <1>3, <2>1, <2>2, Finishes DEF Draw
<1> QED
  BY <1>1, <1>3 DEF DrawUid, DrawBotUid, Step

LEMMA CreateStep ==
  ASSUME IInv, NEW t \in Tasks, NEW id \in Ids \ DOMAIN users,
         CreateUser(t, id) \/ CreateBotUser(t, id), UNCHANGED signed
  PROVE  Step(t)
<1> DEFINE k == task[t]
<1>1. k \in Task /\ Fit(k, users, signed)
  BY TaskTyped
<1>2. ASSUME CreateUser(t, id) PROVE Step(t)
  <2> DEFINE account == NewAccount(k.email, k.uid, Empty, FirstOwned)
             m == [k EXCEPT !.pc = "record", !.id = id, !.uid = Nothing,
                            !.copy = [nickname |-> Empty,
                                      character |-> DefaultCharacter,
                                      owned |-> {}]]
  <2>1. /\ k.pc = "insert" /\ k.session \in Sessions
        /\ k.email \in signed[k.session] \cap Emails
        /\ k.uid \in Uids \cup BotUids
    BY <1>1, <1>2 DEF CreateUser, At, Fit
  <2>2. account \in User /\ account.nickname # BotName /\ account.uid = k.uid
    BY <1>1, <2>1, AccountsAssumption
    DEF NewAccount, FirstOwned, User, Task, Nicknames, Empty, BotName
  <2>3. UsersStep /\ id \in DOMAIN users' /\ users'[id] = account
    <3> HIDE DEF account
    <3>1. users' = WithAccount(id, account) /\ UidFree(k.uid)
      BY <1>2 DEF CreateUser, account
    <3> QED
      BY <2>2, <3>1, UsersAdded
  <2>4. m \in Task
    BY <1>1, AccountsAssumption DEF Task, PCs, Copy, Nicknames
  <2>5. Fit(m, users', signed')
    BY <1>1, <2>1, <2>3 DEF Fit, Task, NewAccount
  <2>6. Become(t, m)
    BY <1>2 DEF CreateUser
  <2> QED
    BY <2>3, <2>4, <2>5, <2>6, Becomes DEF Step
<1>3. ASSUME CreateBotUser(t, id) PROVE Step(t)
  <2> DEFINE account == NewAccount(Nothing, k.uid, BotName, FirstOwned)
  <2>1. k.uid \in Uids \cup BotUids
    BY <1>1, <1>3 DEF CreateBotUser, At, Fit
  <2>2. account \in User /\ account.email = Nothing /\ account.uid = k.uid
    BY <2>1, AccountsAssumption DEF NewAccount, FirstOwned, User
  <2>3. users' = WithAccount(id, account) /\ UidFree(k.uid) /\ Finish(t)
    BY <1>3 DEF CreateBotUser
  <2> HIDE DEF account
  <2> QED
    BY <2>2, <2>3, UsersAdded, Finishes DEF Step
<1> QED
  BY <1>2, <1>3

LEMMA NicknameStep ==
  ASSUME IInv, NEW t \in Tasks, NicknameWrite(t)
  PROVE  Step(t)
<1> DEFINE k == task[t]
           change == [k.copy EXCEPT !.nickname = k.nickname]
<1>1. k \in Task /\ k.id \in DOMAIN users /\ k.copy \in Copy
  BY TaskTyped DEF NicknameWrite, At, Fit
<1>2. CASE k.nickname = TooLong
  BY <1>2, UsersSame, Finishes DEF NicknameWrite, Step
<1>3. CASE k.nickname # TooLong
  <2>1. change \in Copy
    BY <1>1, <1>3 DEF Task, Copy
  <2>2. users' = WriteChange(k.copy, k.id, change)
    BY <1>3 DEF NicknameWrite
  <2> HIDE DEF change
  <2> QED
    BY <1>1, <2>1, <2>2, UsersWritten, Finishes DEF NicknameWrite, Step
<1> QED
  BY <1>2, <1>3

LEMMA CharacterStep ==
  ASSUME IInv, NEW t \in Tasks, CharacterWrite(t)
  PROVE  Step(t)
<1> DEFINE k == task[t]
           change == [k.copy EXCEPT !.character = k.code]
<1>1. /\ k \in Task /\ k.id \in DOMAIN users /\ k.copy \in Copy
      /\ k.code \in Characters
  BY TaskTyped DEF CharacterWrite, At, Fit
<1>2. change \in Copy
  BY <1>1 DEF Copy
<1>3. users' = WriteChange(k.copy, k.id, change)
  BY DEF CharacterWrite
<1> HIDE DEF change
<1> QED
  BY <1>1, <1>2, <1>3, UsersWritten, Finishes DEF CharacterWrite, Step

LEMMA ToggleStep ==
  ASSUME IInv, NEW t \in Tasks, UNCHANGED signed,
         \/ ToggleLook(t) \/ ToggleAdd(t) \/ ToggleCheck(t) \/ ToggleRemove(t)
  PROVE  Step(t)
<1> DEFINE k == task[t]
<1>1. /\ k \in Task /\ Fit(k, users, signed)
      /\ k.id \in DOMAIN users /\ k.code \in Characters
  BY TaskTyped DEF ToggleLook, ToggleAdd, ToggleCheck, ToggleRemove, At, Fit
<1>2. ASSUME UNCHANGED users,
             NEW pc \in {"toggle_add", "toggle_check", "toggle_remove"},
             Goto(t, pc)
      PROVE  Step(t)
  <2>1. [k EXCEPT !.pc = pc] \in Task
    BY <1>1 DEF Task, PCs
  <2>2. Fit([k EXCEPT !.pc = pc], users', signed')
    BY <1>1, <1>2 DEF Fit, Task
  <2> QED
    BY <1>2, <2>1, <2>2, Becomes, UsersSame DEF Goto, Step
<1>3. ASSUME NEW owned \in SUBSET Characters, Finish(t),
             users' = [users EXCEPT ![k.id].owned = owned]
      PROVE  Step(t)
  <2> DEFINE account == [users[k.id] EXCEPT !.owned = owned]
  <2>1. /\ account \in User
        /\ account.email = users[k.id].email
        /\ account.uid = users[k.id].uid
        /\ account.recorded = users[k.id].recorded
        /\ account.nickname = users[k.id].nickname
    BY <1>1 DEF IInv, UsersTyped, User
  <2>2. users' = [users EXCEPT ![k.id] = account]
    BY <1>3
  <2> HIDE DEF account
  <2> QED
    BY <1>1, <1>3, <2>1, <2>2, UsersChanged, Finishes DEF Step
<1>4. users[k.id].owned \subseteq Characters
  BY <1>1 DEF IInv, UsersTyped, User
<1>5. CASE ToggleLook(t)
  BY <1>2, <1>5 DEF ToggleLook
<1>6. CASE ToggleAdd(t)
  <2> DEFINE owned == users[k.id].owned \cup {k.code}
  <2>1. users' = [users EXCEPT ![k.id].owned = owned] /\ Finish(t)
    BY <1>6 DEF ToggleAdd
  <2>2. owned \in SUBSET Characters
    BY <1>1, <1>4
  <2> QED
    BY <1>3, <2>1, <2>2
<1>7. CASE ToggleCheck(t)
  BY <1>2, <1>7, UsersSame, Finishes DEF ToggleCheck, Step
<1>8. CASE ToggleRemove(t)
  <2> DEFINE owned == users[k.id].owned \ {k.code}
  <2>1. users' = [users EXCEPT ![k.id].owned = owned] /\ Finish(t)
    BY <1>8 DEF ToggleRemove
  <2>2. owned \in SUBSET Characters
    BY <1>4
  <2> QED
    BY <1>3, <2>1, <2>2
<1> QED
  BY <1>5, <1>6, <1>7, <1>8

LEMMA AccountStepStep ==
  ASSUME IInv, NEW t \in Tasks, AccountStep(t), UNCHANGED signed
  PROVE  Step(t)
BY LookupStep, DrawStep, NicknameStep, CharacterStep, ToggleStep,
   UsersSame, Finishes
DEF AccountStep, CreateFails, Step

-----------------------------------------------------------------------------
LEMMA QuietStep ==
  ASSUME IInv, NEW t \in Tasks, Step(t), UNCHANGED <<mailbox, signed, held>>
  PROVE  IInv'
<1>1. Grows /\ UsersTyped(users') /\ UidsUnique'
  BY DEF Step, UsersStep
<1>2. SignedGrows
  BY DEF SignedGrows
<1>3. /\ task' \in [Tasks -> Task]
      /\ \A q \in Tasks : Fit(task[q], users, signed)'
  BY <1>1, <1>2, TasksFit DEF Step
<1>4. TypeOK'
  BY <1>1, <1>3 DEF TypeOK, AccountTypeOK, UsersTyped, IInv
<1>5. TokensGood'
  BY <1>1, <1>2, GoodStays DEF TokensGood, TypeOK, IInv
<1> QED
  BY <1>1, <1>3, <1>4, <1>5 DEF IInv

(* A request of an account that a token names.                             *)
LEMMA HolderTyped ==
  ASSUME IInv, NEW id \in Holders
  PROVE  id \in Ids /\ id \in DOMAIN users /\ CopyOf(id) \in Copy
<1>1. PICK h \in held : id = h[2]
  BY DEF Holders
<1>2. id \in DOMAIN users /\ users[id].email \in Emails
  BY <1>1 DEF IInv, TokensGood, Good
<1> QED
  BY <1>2, CopyTyped DEF IInv, UsersTyped

LEMMA RequestInv ==
  ASSUME IInv, NEW t \in Tasks, Request(t)
  PROVE  IInv'
<1>1. ASSUME NEW s \in Sessions, GoogleCallback(t, s) PROVE IInv'
  <2> DEFINE k == [Idle EXCEPT !.pc = "google", !.session = s]
  <2>1. k \in Task
    BY IdleFits DEF Task, PCs
  <2>2. Fit(k, users', signed')
    BY <1>1 DEF Fit, GoogleCallback, Idle
  <2>3. Become(t, k) /\ UNCHANGED <<users, mailbox, signed, held>>
    BY <1>1 DEF GoogleCallback
  <2> HIDE DEF k
  <2> QED
    BY <2>1, <2>2, <2>3, Becomes, UsersSame, QuietStep DEF Step
<1>2. ASSUME NEW id \in Holders, NEW k \in Task, Become(t, k),
             UNCHANGED <<users, mailbox, signed, held>>,
             k.id = id, k.copy = CopyOf(id),
             \/ k.pc = "nickname_write"
             \/ /\ k.pc \in {"toggle_look", "character_write"}
                /\ k.code \in Characters
      PROVE  IInv'
  <2>1. Fit(k, users', signed')
    BY <1>2, HolderTyped DEF Fit
  <2> QED
    BY <1>2, <2>1, Becomes, UsersSame, QuietStep DEF Step
<1>3. ASSUME UNCHANGED <<mailbox, signed, held>>,
             NEW id \in Holders, NEW n \in Nicknames \cup {TooLong},
             UpdateNickname(t, id, n)
      PROVE  IInv'
  <2> DEFINE k == [Idle EXCEPT !.pc = "nickname_write", !.id = id,
                               !.copy = CopyOf(id), !.nickname = n]
  <2>1. k \in Task
    BY IdleFits, HolderTyped DEF Task, PCs
  <2>2. k.pc = "nickname_write" /\ k.id = id /\ k.copy = CopyOf(id)
    BY DEF Idle
  <2>3. Become(t, k) /\ UNCHANGED users
    BY <1>3 DEF UpdateNickname
  <2> HIDE DEF k
  <2> QED
    BY <1>2, <1>3, <2>1, <2>2, <2>3
<1>4. ASSUME UNCHANGED <<mailbox, signed, held>>,
             NEW id \in Holders, NEW c \in Characters,
             NEW pc \in {"toggle_look", "character_write"},
             Become(t, [Idle EXCEPT !.pc = pc, !.id = id,
                                    !.copy = CopyOf(id), !.code = c]),
             UNCHANGED users
      PROVE  IInv'
  <2> DEFINE k == [Idle EXCEPT !.pc = pc, !.id = id,
                               !.copy = CopyOf(id), !.code = c]
  <2>1. k \in Task
    BY <1>4, IdleFits, HolderTyped DEF Task, PCs
  <2>2. k.pc = pc /\ k.id = id /\ k.copy = CopyOf(id) /\ k.code = c
    BY DEF Idle
  <2>3. Become(t, k)
    BY <1>4
  <2> HIDE DEF k
  <2> QED
    BY <1>2, <1>4, <2>1, <2>2, <2>3
<1>5. ASSUME UNCHANGED <<users, mailbox, signed, held>>,
             Become(t, [Idle EXCEPT !.pc = "bot_uid"])
      PROVE  IInv'
  <2> DEFINE k == [Idle EXCEPT !.pc = "bot_uid"]
  <2>1. k \in Task /\ Fit(k, users', signed')
    BY IdleFits DEF Task, PCs, Fit, Idle
  <2>2. Become(t, k)
    BY <1>5
  <2> HIDE DEF k
  <2> QED
    BY <1>5, <2>1, <2>2, Becomes, UsersSame, QuietStep DEF Step
<1> QED
  BY <1>1, <1>3, <1>4, <1>5 DEF Request, ToggleCharacter, SetCurrentCharacter

LEMMA RecordInv ==
  ASSUME IInv, NEW t \in Tasks, RecordLogin(t)
  PROVE  IInv'
<1> DEFINE k == task[t]
           account == [users[k.id] EXCEPT !.recorded = TRUE]
<1>1. /\ k \in Task /\ k.pc = "record" /\ k.id \in DOMAIN users
      /\ k.session \in Sessions
      /\ users[k.id].email \in signed[k.session] \cap Emails
  BY TaskTyped DEF RecordLogin, At, Fit
<1>2. /\ account \in User /\ account.recorded
      /\ account.email = users[k.id].email /\ account.uid = users[k.id].uid
      /\ account.nickname = users[k.id].nickname
  BY <1>1 DEF IInv, UsersTyped, User
<1>3. users' = [users EXCEPT ![k.id] = account]
  BY DEF RecordLogin, Recorded
<1>4. /\ UsersStep
      /\ k.id \in DOMAIN users' /\ users'[k.id] = account
  <2> HIDE DEF account
  <2> QED
    BY <1>1, <1>2, <1>3, UsersChanged
<1>5. [k EXCEPT !.pc = "deliver"] \in Task
  BY <1>1 DEF Task, PCs
<1>6. Fit([k EXCEPT !.pc = "deliver"], users', signed')
  BY <1>1, <1>2, <1>4 DEF Fit, Task, RecordLogin
<1> QED
  BY <1>4, <1>5, <1>6, Becomes, QuietStep DEF RecordLogin, Goto, Step

LEMMA DeliverInv ==
  ASSUME IInv, NEW t \in Tasks, Deliver(t)
  PROVE  IInv'
<1> DEFINE k == task[t]
<1>1. /\ k.session \in Sessions /\ k.id \in Ids
      /\ Good(k.id, k.session, users, signed)
  BY TaskTyped DEF Deliver, At, Fit, Good, IInv, UsersTyped
<1>2. UsersStep /\ SignedGrows /\ UNCHANGED <<users, signed, held>>
  BY UsersSame DEF Deliver, SignedGrows
<1>3. /\ task' \in [Tasks -> Task]
      /\ \A q \in Tasks : Fit(task[q], users, signed)'
  BY <1>2, Finishes, TasksFit DEF Deliver, UsersStep
<1>4. mailbox' = [mailbox EXCEPT ![k.session] = k.id]
  BY DEF Deliver
<1>5. TypeOK'
  BY <1>1, <1>2, <1>3, <1>4 DEF TypeOK, AccountTypeOK, IInv
<1>6. TokensGood'
  BY <1>1, <1>2, <1>4 DEF TokensGood, TypeOK, IInv
<1> QED
  BY <1>2, <1>3, <1>5, <1>6 DEF IInv, UsersStep

LEMMA ContinueInv ==
  ASSUME IInv, NEW t \in Tasks, Continue(t)
  PROVE  IInv'
<1> DEFINE k == task[t]
<1>1. ASSUME GoogleAnswers(t) PROVE IInv'
  <2>1. /\ k \in Task /\ k.pc = "google" /\ k.session \in Sessions
        /\ signed \in [Sessions -> SUBSET Emails]
    BY <1>1, TaskTyped DEF GoogleAnswers, At, Fit, IInv, TypeOK
  <2>2. PICK email \in Emails :
            /\ Become(t, [k EXCEPT !.pc = "lookup", !.email = email])
            /\ signed' = [signed EXCEPT ![k.session] = @ \cup {email}]
    BY <1>1 DEF GoogleAnswers
  <2> DEFINE m == [k EXCEPT !.pc = "lookup", !.email = email]
  <2>3. /\ signed' \in [Sessions -> SUBSET Emails] /\ SignedGrows
        /\ email \in signed'[k.session]
    BY <2>1, <2>2 DEF SignedGrows
  <2>4. m \in Task /\ Fit(m, users', signed')
    BY <2>1, <2>3 DEF Task, PCs, Fit
  <2>5. TaskStep(t)
    <3> HIDE DEF m
    <3> QED
      BY <2>2, <2>4, Becomes DEF m
  <2>6. UsersStep /\ UNCHANGED <<users, mailbox, held>>
    BY <1>1, UsersSame DEF GoogleAnswers
  <2>7. /\ task' \in [Tasks -> Task]
        /\ \A q \in Tasks : Fit(task[q], users, signed)'
    BY <2>3, <2>5, <2>6, TasksFit DEF UsersStep
  <2>8. TypeOK'
    BY <2>3, <2>6, <2>7 DEF TypeOK, AccountTypeOK, IInv
  <2>9. TokensGood'
    BY <2>3, <2>6, GoodStays DEF TokensGood, IInv, TypeOK, UsersStep
  <2> QED
    BY <2>6, <2>7, <2>8, <2>9 DEF IInv, UsersStep
<1>2. ASSUME GoogleFails(t) PROVE IInv'
  BY <1>2, Finishes, UsersSame, QuietStep DEF GoogleFails, Step
<1>3. ASSUME AccountStep(t), UNCHANGED <<mailbox, signed, held>> PROVE IInv'
  BY <1>3, AccountStepStep, QuietStep
<1>4. ASSUME NEW id \in NewIds, CreateUser(t, id) \/ CreateBotUser(t, id),
             UNCHANGED <<mailbox, signed, held>>
      PROVE  IInv'
  BY <1>4, CreateStep, QuietStep DEF NewIds
<1> QED
  BY <1>1, <1>2, <1>3, <1>4, RecordInv, DeliverInv DEF Continue

LEMMA StepInv ==
  ASSUME IInv, [Next]_vars
  PROVE  IInv'
<1>2. ASSUME NEW s \in Sessions, LoginStatus(s) PROVE IInv'
  <2>1. /\ UsersStep /\ UNCHANGED <<users, task, signed>>
        /\ mailbox[s] # Nothing /\ mailbox' = [mailbox EXCEPT ![s] = Nothing]
        /\ held' \subseteq held \cup {<<s, mailbox[s]>>}
    BY <1>2, UsersSame DEF LoginStatus, TokenReady
  <2>2. TypeOK'
    BY <2>1 DEF TypeOK, AccountTypeOK, IInv
  <2>3. TokensGood'
    BY <2>1 DEF TokensGood, IInv, TypeOK
  <2> QED
    BY <2>1, <2>2, <2>3 DEF IInv, UsersStep
<1>3. ASSUME Crash PROVE IInv'
  <2>1. /\ UsersStep /\ UNCHANGED <<users, signed, held>>
        /\ task' = [t \in Tasks |-> Idle]
        /\ mailbox' = [s \in Sessions |-> Nothing]
    BY <1>3, UsersSame DEF Crash
  <2>2. /\ task' \in [Tasks -> Task]
        /\ \A q \in Tasks : Fit(task[q], users, signed)'
    BY <2>1, IdleFits
  <2>3. TypeOK'
    BY <2>1, <2>2 DEF TypeOK, AccountTypeOK, IInv
  <2>4. TokensGood'
    BY <2>1 DEF TokensGood, IInv
  <2> QED
    BY <2>1, <2>2, <2>3, <2>4 DEF IInv, UsersStep
<1>4. ASSUME UNCHANGED vars PROVE IInv'
  BY <1>4 DEF vars, IInv, TypeOK, AccountTypeOK, UidsUnique, TokensGood
<1> QED
  BY <1>2, <1>3, <1>4, RequestInv, ContinueInv DEF Next

LEMMA InitInv == Init => IInv
<1> SUFFICES ASSUME Init PROVE IInv
  OBVIOUS
<1> USE DEF Init, AccountInit
<1>1. DOMAIN users = {} /\ task \in [Tasks -> Task]
  BY IdleFits
<1>2. TypeOK
  BY <1>1 DEF TypeOK, AccountTypeOK
<1>3. UsersTyped(users) /\ UidsUnique
  BY <1>1 DEF UsersTyped, UidsUnique
<1>4. TokensGood /\ \A t \in Tasks : Fit(task[t], users, signed)
  BY IdleFits DEF TokensGood
<1> QED
  BY <1>2, <1>3, <1>4 DEF IInv

LEMMA Invariance == Spec => []IInv
BY InitInv, StepInv, PTL DEF Spec

(* Every value keeps its type, and a session's copy is of an account.      *)
THEOREM AccountTypes == Spec => []TypeOK
<1>1. IInv => TypeOK
  BY DEF IInv
<1> QED
  BY <1>1, Invariance, PTL

(* Two logins that draw one uid and both count no row with it do not both  *)
(* get it.                                                                 *)
THEOREM UidsAreUnique == Spec => []UidsUnique
<1>1. IInv => UidsUnique
  BY DEF IInv
<1> QED
  BY <1>1, Invariance, PTL

(* A client gets tokens of people who signed in with its session id only,  *)
(* whoever they are, whatever callbacks are repeated and answers lost.     *)
THEOREM TokensAreOwn == Spec => []OwnToken
<1>1. IInv => OwnToken
  BY DEF IInv, TokensGood, Good, OwnToken
<1> QED
  BY <1>1, Invariance, PTL

(* Whoever has a token, or has one waiting, has an account whose login is  *)
(* recorded.                                                               *)
THEOREM TokensAreRecorded == Spec => []TokenMeansRecorded
<1>1. IInv => TokenMeansRecorded
  BY DEF IInv, TokensGood, Good, TokenMeansRecorded, Holders
<1> QED
  BY <1>1, Invariance, PTL

-----------------------------------------------------------------------------
(* The kinds of step, as the properties of a history see them.  A task     *)
(* that goes from k to m has checked what it will write by.                *)
Follows(k, m) ==
    /\ m.pc = "character_write" =>
          m.id \in DOMAIN users /\ m.code \in users[m.id].owned
    /\ m.pc = "nickname_write" =>
          m.id \in DOMAIN users /\ Strips(users[m.id].nickname)
    /\ m.pc \in {"uid", "insert"} =>
          \/ k.pc \in {"uid", "insert"} /\ m.email = k.email
          \/ AccountsOf(m.email) = {}

Moves(t) ==
    /\ \A q \in Tasks \ {t} : task'[q] = task[q]
    /\ Follows(task[t], task'[t])
Rests == \A q \in Tasks : task'[q] \in {task[q], Idle}
TaskKinds == Rests \/ \E t \in Tasks : Moves(t)

(* The accounts there were, but for the nickname or character of one.      *)
EmailsStay ==
    \A id \in DOMAIN users :
        id \in DOMAIN users' /\ users'[id].email = users[id].email
NicknamesStay(but) ==
    \A id \in DOMAIN users \ but : users'[id].nickname = users[id].nickname
CharactersStay(but) ==
    \A id \in DOMAIN users \ but : users'[id].character = users[id].character

Plain ==
    /\ DOMAIN users' = DOMAIN users
    /\ EmailsStay /\ NicknamesStay({}) /\ CharactersStay({})
Named(t) ==
    /\ task[t].pc = "nickname_write" /\ task'[t] = Idle
    /\ DOMAIN users' = DOMAIN users
    /\ EmailsStay /\ NicknamesStay({task[t].id}) /\ CharactersStay({})
Chosen(t) ==
    /\ task[t].pc = "character_write"
    /\ DOMAIN users' = DOMAIN users
    /\ EmailsStay /\ NicknamesStay({}) /\ CharactersStay({task[t].id})
    /\ users'[task[t].id].character \in {users[task[t].id].character,
                                         task[t].code}
Made(t, id) ==
    /\ id \notin DOMAIN users /\ DOMAIN users' = DOMAIN users \cup {id}
    /\ EmailsStay /\ NicknamesStay({}) /\ CharactersStay({})
    /\ users'[id].character \in users'[id].owned
    /\ \/ users'[id].email = Nothing
       \/ /\ task[t].pc = "insert" /\ task[t].email = users'[id].email
          /\ task'[t].pc = "record"
UserKinds ==
    \/ Plain
    \/ \E t \in Tasks : Named(t) \/ Chosen(t) \/ \E id \in Ids : Made(t, id)

LEMMA PlainUsers ==
  ASSUME UNCHANGED users PROVE Plain
BY DEF Plain, EmailsStay, NicknamesStay, CharactersStay

LEMMA BecomeMoves ==
  ASSUME IInv, NEW t \in Tasks, NEW k, Become(t, k), Follows(task[t], k)
  PROVE  TaskKinds /\ task'[t] = k
<1>1. task \in [Tasks -> Task]
  BY DEF IInv, TypeOK, AccountTypeOK
<1> QED
  BY <1>1 DEF Become, TaskKinds, Moves

LEMMA FinishRests ==
  ASSUME IInv, NEW t \in Tasks, Finish(t)
  PROVE  TaskKinds /\ task'[t] = Idle
<1>1. task \in [Tasks -> Task]
  BY DEF IInv, TypeOK, AccountTypeOK
<1> QED
  BY <1>1 DEF Finish, Become, TaskKinds, Rests

LEMMA RequestKind ==
  ASSUME IInv, NEW t \in Tasks, Request(t)
  PROVE  TaskKinds /\ UserKinds
<1> USE DEF Follows, Idle
<1>1. UserKinds
  <2>1. UNCHANGED users
    BY DEF Request, GoogleCallback, UpdateNickname, ToggleCharacter,
           SetCurrentCharacter
  <2> QED
    BY <2>1, PlainUsers DEF UserKinds
<1>2. ASSUME NEW s \in Sessions, GoogleCallback(t, s) PROVE TaskKinds
  BY <1>2, BecomeMoves DEF GoogleCallback
<1>3. ASSUME NEW id \in Holders, NEW n, UpdateNickname(t, id, n)
      PROVE  TaskKinds
  BY <1>3, BecomeMoves, HolderTyped DEF UpdateNickname
<1>4. ASSUME NEW id \in Holders, NEW c,
             ToggleCharacter(t, id, c) \/ SetCurrentCharacter(t, id, c)
      PROVE  TaskKinds
  BY <1>4, BecomeMoves, HolderTyped
  DEF ToggleCharacter, SetCurrentCharacter, OwnedWhenLoaded
<1>5. ASSUME Become(t, [Idle EXCEPT !.pc = "bot_uid"]) PROVE TaskKinds
  BY <1>5, BecomeMoves
<1> QED
  BY <1>1, <1>2, <1>3, <1>4, <1>5 DEF Request

LEMMA LookupKind ==
  ASSUME IInv, NEW t \in Tasks,
         Lookup(t) \/ DrawUid(t) \/ DrawBotUid(t) \/ CreateFails(t)
  PROVE  TaskKinds /\ UserKinds
<1> DEFINE k == task[t]
<1>1. k \in Task
  BY TaskTyped
<1>2. UserKinds
  BY PlainUsers DEF UserKinds, Lookup, DrawUid, DrawBotUid, Draw, CreateFails
<1>3. CASE Lookup(t)
  <2>1. ASSUME NEW id, Become(t, [k EXCEPT !.pc = "record", !.id = id,
                                           !.copy = CopyOf(id)])
        PROVE  TaskKinds
    BY <1>1, <2>1, BecomeMoves DEF Follows, Task
  <2>2. ASSUME Known(k.email) = {}, Goto(t, "uid") PROVE TaskKinds
    BY <1>1, <2>2, BecomeMoves DEF Follows, Task, Goto, Known
  <2> QED
    BY <1>2, <1>3, <2>1, <2>2 DEF Lookup
<1>4. ASSUME NEW from, NEW to, NEW pool, Draw(t, from, pool, to),
             \/ from = "uid" /\ to = "insert"
             \/ from = "bot_uid" /\ to = "bot_insert"
      PROVE  TaskKinds
  <2>1. ASSUME NEW uid,
               Become(t, [k EXCEPT !.pc = to, !.uid = uid, !.tries = 0])
        PROVE  TaskKinds
    BY <1>1, <1>4, <2>1, BecomeMoves DEF Follows, Task, Draw, At
  <2>2. ASSUME Become(t, [k EXCEPT !.tries = NextTry(@)]) PROVE TaskKinds
    BY <1>1, <1>4, <2>2, BecomeMoves DEF Follows, Task, Draw, At
  <2> QED
    BY <1>4, <2>1, <2>2, FinishRests DEF Draw
<1>5. CASE CreateFails(t)
  BY <1>2, <1>5, FinishRests DEF CreateFails
<1> QED
  BY <1>2, <1>3, <1>4, <1>5 DEF DrawUid, DrawBotUid

LEMMA CreateKind ==
  ASSUME IInv, NEW t \in Tasks, NEW id \in Ids \ DOMAIN users,
         CreateUser(t, id) \/ CreateBotUser(t, id)
  PROVE  TaskKinds /\ UserKinds
<1> DEFINE k == task[t]
<1>1. k \in Task
  BY TaskTyped
<1>2. ASSUME NEW account, users' = WithAccount(id, account),
             account.character \in account.owned,
             \/ account.email = Nothing
             \/ /\ k.pc = "insert" /\ k.email = account.email
                /\ task'[t].pc = "record"
      PROVE  UserKinds
  <2>1. /\ DOMAIN users' = DOMAIN users \cup {id}
        /\ users'[id] = account
        /\ \A i \in DOMAIN users : users'[i] = users[i]
    BY <1>2 DEF WithAccount
  <2> QED
    BY <1>2, <2>1
    DEF UserKinds, Made, EmailsStay, NicknamesStay, CharactersStay
<1>3. ASSUME CreateUser(t, id) PROVE TaskKinds /\ UserKinds
  <2> DEFINE m == [k EXCEPT !.pc = "record", !.id = id, !.uid = Nothing,
                            !.copy = [nickname |-> Empty,
                                      character |-> DefaultCharacter,
                                      owned |-> {}]]
             account == NewAccount(k.email, k.uid, Empty, FirstOwned)
  <2>1. Become(t, m) /\ k.pc = "insert" /\ users' = WithAccount(id, account)
    BY <1>3 DEF CreateUser, At
  <2>2. m.pc = "record" /\ Follows(k, m)
    BY <1>1 DEF Follows, Task
  <2>3. account.character \in account.owned /\ account.email = k.email
    BY DEF NewAccount, FirstOwned
  <2> HIDE DEF m, account
  <2> QED
    BY <1>2, <2>1, <2>2, <2>3, BecomeMoves
<1>4. ASSUME CreateBotUser(t, id) PROVE TaskKinds /\ UserKinds
  <2> DEFINE account == NewAccount(Nothing, k.uid, BotName, FirstOwned)
  <2>1. Finish(t) /\ users' = WithAccount(id, account)
    BY <1>4 DEF CreateBotUser
  <2>2. account.character \in account.owned /\ account.email = Nothing
    BY DEF NewAccount, FirstOwned
  <2> HIDE DEF account
  <2> QED
    BY <1>2, <2>1, <2>2, FinishRests
<1> QED
  BY <1>3, <1>4

LEMMA WriteKind ==
  ASSUME IInv, NEW t \in Tasks, NicknameWrite(t) \/ CharacterWrite(t)
  PROVE  TaskKinds /\ UserKinds
<1> DEFINE k == task[t]
<1>1. k \in Task /\ k.copy \in Copy /\ k.id \in DOMAIN users
  BY TaskTyped DEF NicknameWrite, CharacterWrite, At, Fit
<1>2. users[k.id] \in User
  BY <1>1 DEF IInv, UsersTyped
<1>3. Finish(t) /\ task'[t] = Idle /\ TaskKinds
  BY FinishRests DEF NicknameWrite, CharacterWrite
<1>4. CASE NicknameWrite(t) /\ k.nickname = TooLong
  BY <1>3, <1>4, PlainUsers DEF NicknameWrite, UserKinds
<1>5. CASE NicknameWrite(t) /\ k.nickname # TooLong
  <2>1. users' = WriteChange(k.copy, k.id, [k.copy EXCEPT !.nickname = k.nickname])
    BY <1>5 DEF NicknameWrite
  <2>2. /\ DOMAIN users' = DOMAIN users
        /\ users'[k.id].email = users[k.id].email
        /\ users'[k.id].character = users[k.id].character
        /\ \A id \in DOMAIN users \ {k.id} : users'[id] = users[id]
    BY <1>1, <1>2, <2>1 DEF WriteChange, Copy, User
  <2>3. Named(t)
    BY <1>3, <1>5, <2>2
    DEF Named, EmailsStay, NicknamesStay, CharactersStay, NicknameWrite, At
  <2> QED
    BY <1>3, <2>3 DEF UserKinds
<1>6. CASE CharacterWrite(t)
  <2>1. users' = WriteChange(k.copy, k.id, [k.copy EXCEPT !.character = k.code])
    BY <1>6 DEF CharacterWrite
  <2>2. /\ DOMAIN users' = DOMAIN users
        /\ users'[k.id].email = users[k.id].email
        /\ users'[k.id].nickname = users[k.id].nickname
        /\ users'[k.id].character \in {users[k.id].character, k.code}
        /\ \A id \in DOMAIN users \ {k.id} : users'[id] = users[id]
    BY <1>1, <1>2, <2>1 DEF WriteChange, Copy, User
  <2>3. Chosen(t)
    BY <1>6, <2>2
    DEF Chosen, EmailsStay, NicknamesStay, CharactersStay, CharacterWrite, At
  <2> QED
    BY <1>3, <2>3 DEF UserKinds
<1> QED
  BY <1>4, <1>5, <1>6

LEMMA ToggleKind ==
  ASSUME IInv, NEW t \in Tasks,
         \/ ToggleLook(t) \/ ToggleAdd(t) \/ ToggleCheck(t) \/ ToggleRemove(t)
  PROVE  TaskKinds /\ UserKinds
<1> DEFINE k == task[t]
<1>1. k \in Task /\ k.id \in DOMAIN users
  BY TaskTyped DEF ToggleLook, ToggleAdd, ToggleCheck, ToggleRemove, At, Fit
<1>2. ASSUME NEW pc \in {"toggle_add", "toggle_check", "toggle_remove"},
             Goto(t, pc)
      PROVE  TaskKinds
  BY <1>1, <1>2, BecomeMoves DEF Follows, Task, Goto
<1>3. ASSUME NEW owned, users' = [users EXCEPT ![k.id].owned = owned]
      PROVE  UserKinds
  <2>1. /\ DOMAIN users' = DOMAIN users
        /\ users'[k.id] = [users[k.id] EXCEPT !.owned = owned]
        /\ \A id \in DOMAIN users \ {k.id} : users'[id] = users[id]
    BY <1>1, <1>3
  <2>2. users[k.id] \in User
    BY <1>1 DEF IInv, UsersTyped
  <2> QED
    BY <2>1, <2>2 DEF UserKinds, Plain, EmailsStay, NicknamesStay,
                      CharactersStay, User
<1>4. CASE ToggleLook(t) \/ ToggleCheck(t)
  BY <1>2, <1>4, PlainUsers, FinishRests DEF ToggleLook, ToggleCheck, UserKinds
<1>5. CASE ToggleAdd(t)
  <2>1. users' = [users EXCEPT ![k.id].owned = users[k.id].owned \cup {k.code}]
    BY <1>5 DEF ToggleAdd
  <2> QED
    BY <1>3, <1>5, <2>1, FinishRests DEF ToggleAdd
<1>6. CASE ToggleRemove(t)
  <2>1. users' = [users EXCEPT ![k.id].owned = users[k.id].owned \ {k.code}]
    BY <1>6 DEF ToggleRemove
  <2> QED
    BY <1>3, <1>6, <2>1, FinishRests DEF ToggleRemove
<1> QED
  BY <1>4, <1>5, <1>6

LEMMA RecordKind ==
  ASSUME IInv, NEW t \in Tasks, RecordLogin(t)
  PROVE  TaskKinds /\ UserKinds
<1> DEFINE k == task[t]
<1>1. k \in Task /\ k.id \in DOMAIN users
  BY TaskTyped DEF RecordLogin, At, Fit
<1>2. TaskKinds
  BY <1>1, BecomeMoves DEF Follows, Task, Goto, RecordLogin
<1>3. users[k.id] \in User
  BY <1>1 DEF IInv, UsersTyped
<1>4. /\ DOMAIN users' = DOMAIN users
      /\ users'[k.id] = [users[k.id] EXCEPT !.recorded = TRUE]
      /\ \A id \in DOMAIN users \ {k.id} : users'[id] = users[id]
  BY <1>1 DEF RecordLogin, Recorded
<1>5. Plain
  BY <1>3, <1>4 DEF Plain, EmailsStay, NicknamesStay, CharactersStay, User
<1> QED
  BY <1>2, <1>5 DEF UserKinds

LEMMA ContinueKind ==
  ASSUME IInv, NEW t \in Tasks, Continue(t)
  PROVE  TaskKinds /\ UserKinds
<1>1. CASE GoogleAnswers(t)
  BY <1>1, BecomeMoves, PlainUsers, TaskTyped
  DEF GoogleAnswers, Follows, Task, UserKinds
<1>2. CASE GoogleFails(t) \/ Deliver(t)
  BY <1>2, FinishRests, PlainUsers DEF GoogleFails, Deliver, UserKinds
<1>3. CASE AccountStep(t)
  BY <1>3, LookupKind, WriteKind, ToggleKind DEF AccountStep
<1>4. ASSUME NEW id \in NewIds, CreateUser(t, id) \/ CreateBotUser(t, id)
      PROVE  TaskKinds /\ UserKinds
  BY <1>4, CreateKind DEF NewIds
<1> QED
  BY <1>1, <1>2, <1>3, <1>4, RecordKind DEF Continue

LEMMA StepKind ==
  ASSUME IInv, [Next]_vars
  PROVE  TaskKinds /\ UserKinds
<1>1. ASSUME UNCHANGED <<users, task>> PROVE TaskKinds /\ UserKinds
  BY <1>1, PlainUsers DEF TaskKinds, Rests, UserKinds
<1>2. CASE Crash
  BY <1>2, PlainUsers DEF Crash, TaskKinds, Rests, UserKinds
<1> QED
  BY <1>1, <1>2, RequestKind, ContinueKind
  DEF Next, LoginStatus, vars

-----------------------------------------------------------------------------
(* A nickname that is set and that no request has still to write stays as  *)
(* it is: requests that come later find it set, and the writes of logins   *)
(* and of character requests leave it alone.                               *)
NicknamesSettle ==
    \A id \in DOMAIN users :
        NicknameSettled(id) =>
            /\ users'[id].nickname = users[id].nickname
            /\ NicknameSettled(id)'

LEMMA SettledStep ==
  ASSUME IInv, [Next]_vars
  PROVE  NicknamesSettle
<1> SUFFICES ASSUME NEW id \in DOMAIN users, NicknameSettled(id)
             PROVE  /\ users'[id].nickname = users[id].nickname
                    /\ NicknameSettled(id)'
  BY DEF NicknamesSettle
<1>1. TaskKinds /\ UserKinds
  BY StepKind
<1>2. users'[id].nickname = users[id].nickname
  BY <1>1 DEF UserKinds, Plain, Named, Chosen, Made, NicknamesStay,
              NicknameSettled, NicknameAsked, At
<1>3. ASSUME NEW t \in Tasks, At(t, "nickname_write")', task'[t].id = id
      PROVE  FALSE
  <2>1. CASE task'[t] = task[t]
    BY <1>3, <2>1 DEF NicknameSettled, NicknameAsked, At
  <2>2. CASE task'[t] # task[t]
    <3>1. Moves(t)
      BY <1>1, <1>3, <2>2 DEF TaskKinds, Rests, Moves, At, Idle
    <3> QED
      BY <1>3, <3>1 DEF Moves, Follows, At, NicknameSettled
  <2> QED
    BY <2>1, <2>2
<1>4. ~ NicknameAsked(id)'
  BY <1>3 DEF NicknameAsked
<1> QED
  BY <1>2, <1>4 DEF NicknameSettled, Strips

(* A nickname that is set, and that no request which looked earlier has    *)
(* still to write, is never changed: neither by a login nor by a request of*)
(* another session that has a copy of the account from before.             *)
THEOREM NicknamesAreFinal == Spec => NicknameFinal
<1>1. IInv /\ [Next]_vars => [NicknamesSettle]_vars
  BY SettledStep
<1>2. Spec => [][NicknamesSettle]_vars
  BY <1>1, Invariance, PTL DEF Spec
<1> QED
  BY <1>2 DEF NicknameFinal, NicknamesSettle

-----------------------------------------------------------------------------
(* How many accounts a person has.                                         *)
Makers(email) == {t \in Tasks : Makes(t, email)}
Bounded(email) ==
    /\ IsFiniteSet(AccountsOf(email))
    /\ Cardinality(AccountsOf(email)) + Cardinality(Makers(email))
          <= Cardinality(Tasks)
AllBounded == \A email \in Emails : Bounded(email)

LEMMA MakersFinite ==
  ASSUME NEW email
  PROVE  /\ IsFiniteSet(Tasks) /\ IsFiniteSet(Makers(email))
         /\ Cardinality(Makers(email)) \in Nat /\ Cardinality(Tasks) \in Nat
         /\ Cardinality(Makers(email)) <= Cardinality(Tasks)
BY AccountsAssumption, FS_Subset, FS_CardinalityType DEF Makers

LEMMA BoundedStep ==
  ASSUME IInv, NEW email \in Emails, Bounded(email), [Next]_vars
  PROVE  Bounded(email)'
<1> DEFINE accounts == AccountsOf(email)
           makers == Makers(email)
<1>1. TaskKinds /\ UserKinds
  BY StepKind
<1>2. /\ IsFiniteSet(accounts) /\ Cardinality(accounts) \in Nat
      /\ IsFiniteSet(makers) /\ Cardinality(makers) \in Nat
      /\ IsFiniteSet(makers') /\ Cardinality(makers') \in Nat
      /\ Cardinality(makers') <= Cardinality(Tasks)
      /\ Cardinality(Tasks) \in Nat
      /\ Cardinality(accounts) + Cardinality(makers) <= Cardinality(Tasks)
  <2>1. makers' \subseteq Tasks
    BY DEF Makers
  <2> QED
    BY <2>1, MakersFinite, FS_Subset, FS_CardinalityType DEF Bounded
<1>3. ASSUME NEW t \in makers' \ makers
      PROVE  accounts = {} /\ \A q \in Tasks \ {t} : task'[q] = task[q]
  <2>1. t \in Tasks /\ task'[t].pc \in {"uid", "insert"} /\ task'[t].email = email
        /\ task'[t] # task[t]
    BY <1>3 DEF Makers, Makes
  <2>2. Moves(t)
    BY <1>1, <2>1 DEF TaskKinds, Rests, Moves, Idle
  <2> QED
    BY <1>3, <2>1, <2>2 DEF Moves, Follows, Makers, Makes
<1>4. CASE accounts' = accounts
  <2>1. CASE makers' \subseteq makers
    <3>1. Cardinality(makers') <= Cardinality(makers)
      BY <1>2, <2>1, FS_Subset
    <3> QED
      BY <1>2, <1>4, <3>1 DEF Bounded
  <2>2. CASE accounts = {}
    <3>1. Cardinality(accounts') = 0
      BY <1>4, <2>2, FS_EmptySet
    <3> QED
      BY <1>2, <1>4, <3>1 DEF Bounded
  <2> QED
    BY <1>3, <2>1, <2>2
<1>5. ASSUME NEW t \in Tasks, NEW id \in Ids, Made(t, id),
             users'[id].email = email
      PROVE  Bounded(email)'
  <2>1. /\ task[t].pc = "insert" /\ task[t].email = email
        /\ task'[t].pc = "record"
    BY <1>5, AccountsAssumption DEF Made
  <2>2. makers' \subseteq makers \ {t} /\ t \in makers
    <3>1. t \in makers /\ t \notin makers' /\ task'[t] # task[t]
      BY <2>1 DEF Makers, Makes
    <3>2. makers' \subseteq Tasks
      BY DEF Makers
    <3> QED
      BY <1>3, <3>1, <3>2
  <2>3. accounts' = accounts \cup {id} /\ id \notin accounts
    BY <1>5 DEF AccountsOf, Made, EmailsStay
  <2>4. /\ Cardinality(accounts') = Cardinality(accounts) + 1
        /\ IsFiniteSet(accounts')
    BY <1>2, <2>3, FS_AddElement
  <2>5. Cardinality(makers') <= Cardinality(makers) - 1
    <3>1. IsFiniteSet(makers \ {t})
          /\ Cardinality(makers \ {t}) = Cardinality(makers) - 1
      BY <1>2, <2>2, FS_RemoveElement
    <3> QED
      BY <2>2, <3>1, FS_Subset
  <2> QED
    BY <1>2, <2>4, <2>5 DEF Bounded
<1>6. accounts' = accounts
      \/ \E t \in Tasks, id \in Ids : Made(t, id) /\ users'[id].email = email
  BY <1>1 DEF UserKinds, Plain, Named, Chosen, Made, EmailsStay, AccountsOf
<1> QED
  BY <1>4, <1>5, <1>6

(* However often a person logs in, and however the callbacks interleave,   *)
(* they get no more accounts than requests are served at a time.           *)
THEOREM AccountsAreBounded == Spec => []AccountsBounded
<1>1. Init => AllBounded
  <2> SUFFICES ASSUME Init, NEW email \in Emails PROVE Bounded(email)
    BY DEF AllBounded
  <2>1. AccountsOf(email) = {}
    BY DEF Init, AccountInit, AccountsOf
  <2> QED
    BY <2>1, FS_EmptySet, MakersFinite DEF Bounded
<1>2. IInv /\ AllBounded /\ [Next]_vars => AllBounded'
  BY BoundedStep DEF AllBounded
<1>3. AllBounded => AccountsBounded
  BY DEF AllBounded, Bounded, AccountsBounded, Makers
<1> QED
  BY <1>1, <1>2, <1>3, Invariance, PTL DEF Spec

-----------------------------------------------------------------------------
(* What has been owned: every owned and every current character, and those *)
(* that a request is about to make current.                                *)
Recalled ==
    /\ \A id \in DOMAIN users :
          /\ users[id].owned \subseteq everOwned[id]
          /\ users[id].character \in everOwned[id]
    /\ \A t \in Tasks : At(t, "character_write") =>
          task[t].code \in everOwned[task[t].id]

LEMMA RecalledStep ==
  ASSUME IInv, Recalled, IInv', HistoryNext
  PROVE  Recalled'
<1>1. TaskKinds /\ UserKinds
  BY StepKind DEF HistoryNext
<1>2. DOMAIN users \subseteq Ids /\ DOMAIN users' \subseteq Ids
  BY DEF IInv, UsersTyped
<1>3. /\ \A id \in Ids : everOwned[id] \subseteq everOwned'[id]
      /\ \A id \in DOMAIN users' : users'[id].owned \subseteq everOwned'[id]
  BY <1>2 DEF HistoryNext
<1>4. ASSUME NEW id \in DOMAIN users'
      PROVE  users'[id].character \in everOwned'[id]
  <2>1. \/ id \in DOMAIN users /\ users'[id].character = users[id].character
        \/ users'[id].character \in users'[id].owned
        \/ \E t \in Tasks : /\ At(t, "character_write") /\ task[t].id = id
                          /\ users'[id].character = task[t].code
    BY <1>1, <1>4
    DEF UserKinds, Plain, Named, Chosen, Made, CharactersStay, At
  <2> QED
    BY <1>2, <1>3, <1>4, <2>1 DEF Recalled
<1>5. ASSUME NEW t \in Tasks, At(t, "character_write")'
      PROVE  task'[t].code \in everOwned'[task'[t].id]
  <2>1. CASE task'[t] = task[t]
    <3>1. task[t].id \in DOMAIN users /\ At(t, "character_write")
      BY <1>5, <2>1, TaskTyped DEF Fit, At
    <3> QED
      BY <1>2, <1>3, <2>1, <3>1 DEF Recalled
  <2>2. CASE task'[t] # task[t]
    <3>1. Moves(t)
      BY <1>1, <1>5, <2>2 DEF TaskKinds, Rests, Moves, At, Idle
    <3>2. /\ task'[t].id \in DOMAIN users
          /\ task'[t].code \in users[task'[t].id].owned
      BY <1>5, <3>1 DEF Moves, Follows, At
    <3> QED
      BY <1>2, <1>3, <3>2 DEF Recalled
  <2> QED
    BY <2>1, <2>2
<1> QED
  BY <1>3, <1>4, <1>5 DEF Recalled

(* Nobody plays a character that they have never owned.                    *)
THEOREM CurrentWereOwned == HistorySpec => []CurrentWasOwned
<1>1. HistoryInit => IInv /\ Recalled
  <2>1. HistoryInit => IInv
    BY InitInv DEF HistoryInit
  <2>2. HistoryInit => Recalled
    BY DEF HistoryInit, Init, AccountInit, Recalled, At, Idle
  <2> QED
    BY <2>1, <2>2
<1>2. IInv /\ Recalled /\ [HistoryNext]_<<vars, everOwned>> => IInv' /\ Recalled'
  <2> SUFFICES ASSUME IInv, Recalled, [HistoryNext]_<<vars, everOwned>>
               PROVE  IInv' /\ Recalled'
    OBVIOUS
  <2>1. IInv'
    BY StepInv DEF HistoryNext, vars
  <2>2. CASE HistoryNext
    BY <2>1, <2>2, RecalledStep
  <2>3. CASE UNCHANGED <<vars, everOwned>>
    BY <2>1, <2>3 DEF vars, Recalled, At
  <2> QED
    BY <2>1, <2>2, <2>3
<1>3. Recalled => CurrentWasOwned
  BY DEF Recalled, CurrentWasOwned
<1> QED
  BY <1>1, <1>2, <1>3, PTL DEF HistorySpec

=============================================================================
