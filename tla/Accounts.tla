------------------------------- MODULE Accounts ------------------------------
(***************************************************************************)
(* UserService (app/services/auth/user_service.py) and the endpoints under *)
(* /user/me (app/api/v1/endpoints/user.py): accounts, nicknames and the    *)
(* characters people own.                                                  *)
(*                                                                         *)
(* As in the lobby, a task is a request with a database session of its     *)
(* own.  get_current_user loads the account into the session before the    *)
(* endpoint runs, and the service's own select of it hands out that copy.  *)
(***************************************************************************)
EXTENDS Integers, FiniteSets

CONSTANTS
    Emails,         \* the people who have an account at Google
    Ids,            \* primary keys a user row can get (a bound)
    Uids,           \* the nine-digit numbers randint can draw
    BotUids,        \* the "bot-" names uuid4 can make; never a Uid
    Names,          \* nicknames with a character that is not a blank
    Characters,     \* codes in the character table
    DefaultCharacter,   \* "c0"
    MaxAttempts,    \* the uids that are tried
    Sessions,       \* session ids /login/google has handed out (a bound)
    Tasks,          \* how many requests are served at a time
    Nothing         \* None

Empty == ""
Blank == " "        \* any nickname that strip() leaves nothing of
TooLong == "more than ten"
BotName == "Bot(Easy)"

ASSUME AccountsAssumption ==
    /\ Ids \subseteq Nat
    /\ IsFiniteSet(Tasks)
    /\ MaxAttempts \in Nat \ {0}
    /\ Uids \cap BotUids = {}
    /\ DefaultCharacter \in Characters
    /\ {Empty, Blank, TooLong, BotName} \cap Names = {}
    /\ Nothing \notin Emails \cup Ids \cup Uids \cup BotUids
    /\ Nothing \notin Characters \cup Sessions

VARIABLES
    users,      \* the user table, and user_character as the column owned
    task        \* the requests being served

accountVars == <<users, task>>

-----------------------------------------------------------------------------
Nicknames == Names \cup {Empty, Blank}

User == [email : Emails \cup {Nothing}, uid : Uids \cup BotUids,
         nickname : Nicknames \cup {BotName},
         recorded : BOOLEAN,    \* last_login is not null
         character : Characters, owned : SUBSET Characters]

(* What a session has of an account: the attributes of its first load.     *)
Copy == [nickname : Nicknames, character : Characters,
         owned : SUBSET Characters]

PCs == {"idle", "google", "lookup", "uid", "insert", "record", "deliver",
        "bot_uid", "bot_insert", "nickname_write", "toggle_look",
        "toggle_add", "toggle_check", "toggle_remove", "character_write"}

Task == [pc : PCs,
         email : Emails \cup {Nothing},     \* what Google answers
         session : Sessions \cup {Nothing}, \* the state of the callback
         id : Ids \cup {Nothing},           \* the account worked on
         copy : Copy \cup {Nothing},
         uid : Uids \cup BotUids \cup {Nothing},
         tries : 0 .. MaxAttempts,
         nickname : Nicknames \cup {TooLong},
         code : Characters \cup {Nothing}]  \* the character asked for

Idle == [pc |-> "idle", email |-> Nothing, session |-> Nothing,
         id |-> Nothing, copy |-> Nothing, uid |-> Nothing, tries |-> 0,
         nickname |-> Empty, code |-> Nothing]

AccountTypeOK ==
    /\ DOMAIN users \subseteq Ids /\ users \in [DOMAIN users -> User]
    /\ task \in [Tasks -> Task]

AccountInit ==
    /\ users = [id \in {} |-> Nothing]
    /\ task = [t \in Tasks |-> Idle]

-----------------------------------------------------------------------------
At(t, pc) == task[t].pc = pc
Become(t, record) == task' = [task EXCEPT ![t] = record]
Goto(t, pc) == Become(t, [task[t] EXCEPT !.pc = pc])
Finish(t) == Become(t, Idle)

AccountsOf(email) == {id \in DOMAIN users : users[id].email = email}
CopyOf(id) == [nickname |-> users[id].nickname,
               character |-> users[id].character, owned |-> users[id].owned]

(* The unique constraint on uid; the mutant is a table without it.         *)
UidUnchecked(uid) == TRUE
UidFree(uid) == \A id \in DOMAIN users : users[id].uid # uid

(* User and default UserCharacter are inserted in one transaction.         *)
NewAccount(email, uid, nickname, owned) ==
    [email |-> email, uid |-> uid, nickname |-> nickname, recorded |-> FALSE,
     character |-> DefaultCharacter, owned |-> owned]
FirstOwned == {DefaultCharacter}
WithAccount(id, account) ==
    [i \in DOMAIN users \cup {id} |-> IF i = id THEN account ELSE users[i]]

-----------------------------------------------------------------------------
(* get_or_create_user: one row with the email, any of them, or a new one.  *)
(* Mutants: an account without a nickname is not taken for an account; a   *)
(* filter that the repository drops, as it does when the model has no such *)
(* column.                                                                 *)
KnownIfNamed(email) == {id \in AccountsOf(email) : users[id].nickname # Empty}
KnownUnfiltered(email) == DOMAIN users
Known(email) == AccountsOf(email)

Lookup(t) ==
    LET email == task[t].email IN
    /\ At(t, "lookup")
    /\ \/ \E id \in Known(email) :
            Become(t, [task[t] EXCEPT !.pc = "record", !.id = id,
                                      !.copy = CopyOf(id)])
       \/ Known(email) = {} /\ Goto(t, "uid")
    /\ UNCHANGED users

(* generate_unique_uid and generate_unique_bot_uid: a draw and a count,    *)
(* until the count is 0 or the attempts are used up.                       *)
SameTry(n) == n             \* mutant of NextTry: a loop without a count
NextTry(n) == n + 1

Draw(t, from, pool, to) ==
    /\ At(t, from)
    /\ \E uid \in pool :
         \/ /\ UidFree(uid)
            /\ Become(t, [task[t] EXCEPT !.pc = to, !.uid = uid,
                                         !.tries = 0])
         \/ /\ ~ UidFree(uid) /\ NextTry(task[t].tries) < MaxAttempts
            /\ Become(t, [task[t] EXCEPT !.tries = NextTry(@)])
         \/ /\ ~ UidFree(uid) /\ NextTry(task[t].tries) = MaxAttempts
            /\ Finish(t)
    /\ UNCHANGED users

DrawUid(t) == Draw(t, "uid", Uids, "insert")
DrawBotUid(t) == Draw(t, "bot_uid", BotUids, "bot_insert")

(* The insert of the account and its commit; a uid that was taken since it *)
(* was counted fails.                                                      *)
CreateUser(t, id) ==
    LET account == NewAccount(task[t].email, task[t].uid, Empty, FirstOwned)
    IN
    /\ At(t, "insert") /\ UidFree(task[t].uid)
    /\ users' = WithAccount(id, account)
    /\ Become(t, [task[t] EXCEPT
                    !.pc = "record", !.id = id, !.uid = Nothing,
                    !.copy = [nickname |-> Empty,
                              character |-> DefaultCharacter, owned |-> {}]])

CreateBotUser(t, id) ==
    LET account == NewAccount(Nothing, task[t].uid, BotName, FirstOwned)
    IN
    /\ At(t, "bot_insert") /\ UidFree(task[t].uid)
    /\ users' = WithAccount(id, account)
    /\ Finish(t)

CreateFails(t) ==
    /\ At(t, "insert") \/ At(t, "bot_insert")
    /\ ~ UidFree(task[t].uid)
    /\ Finish(t)
    /\ UNCHANGED users

-----------------------------------------------------------------------------
(* An UPDATE writes the columns that differ from the session's copy; the   *)
(* mutant writes all the copy holds.                                       *)
WriteCopy(copy, id, change) ==
    [users EXCEPT ![id].nickname = change.nickname,
                  ![id].character = change.character]
WriteChange(copy, id, change) ==
    [users EXCEPT
        ![id].nickname = IF change.nickname = copy.nickname THEN @
                         ELSE change.nickname,
        ![id].character = IF change.character = copy.character THEN @
                          ELSE change.character]

(* PUT /me/nickname: a nickname is set when the copy has none.             *)
Strips(nickname) == nickname \in {Empty, Blank}

UpdateNickname(t, id, nickname) ==
    /\ At(t, "idle")
    /\ Strips(users[id].nickname)
    /\ Become(t, [Idle EXCEPT !.pc = "nickname_write", !.id = id,
                              !.copy = CopyOf(id), !.nickname = nickname])
    /\ UNCHANGED users

(* A nickname that does not fit the column raises in the database.         *)
NicknameWrite(t) ==
    LET k == task[t] IN
    /\ At(t, "nickname_write")
    /\ users' = IF k.nickname = TooLong THEN users
                ELSE WriteChange(k.copy, k.id,
                                 [k.copy EXCEPT !.nickname = k.nickname])
    /\ Finish(t)

-----------------------------------------------------------------------------
(* POST /me/character/{code}: select the row, then delete or insert it.    *)
(* remove() selects it once more and raises when it is gone; the DELETE of *)
(* a row that has gone since only warns; an INSERT of one that has come    *)
(* fails on the primary key.                                               *)
ToggleCharacter(t, id, code) ==
    /\ At(t, "idle")
    /\ Become(t, [Idle EXCEPT !.pc = "toggle_look", !.id = id,
                              !.copy = CopyOf(id), !.code = code])
    /\ UNCHANGED users

Owns(t) == task[t].code \in users[task[t].id].owned

ToggleLook(t) ==
    /\ At(t, "toggle_look")
    /\ Goto(t, IF Owns(t) THEN "toggle_check" ELSE "toggle_add")
    /\ UNCHANGED users

ToggleAdd(t) ==
    /\ At(t, "toggle_add")
    /\ users' = [users EXCEPT ![task[t].id].owned = @ \cup {task[t].code}]
    /\ Finish(t)

ToggleCheck(t) ==
    /\ At(t, "toggle_check")
    /\ \/ Owns(t) /\ Goto(t, "toggle_remove")
       \/ ~ Owns(t) /\ Finish(t)
    /\ UNCHANGED users

ToggleRemove(t) ==
    /\ At(t, "toggle_remove")
    /\ users' = [users EXCEPT ![task[t].id].owned = @ \ {task[t].code}]
    /\ Finish(t)

(* PUT /me/character/{code}: the copy's owned characters decide; the       *)
(* mutant lets every character of the table pass.                          *)
AnyCharacter(id, code) == code \in Characters
OwnedWhenLoaded(id, code) == code \in users[id].owned

SetCurrentCharacter(t, id, code) ==
    /\ At(t, "idle") /\ OwnedWhenLoaded(id, code)
    /\ Become(t, [Idle EXCEPT !.pc = "character_write", !.id = id,
                              !.copy = CopyOf(id), !.code = code])
    /\ UNCHANGED users

CharacterWrite(t) ==
    LET k == task[t] IN
    /\ At(t, "character_write")
    /\ users' = WriteChange(k.copy, k.id,
                            [k.copy EXCEPT !.character = k.code])
    /\ Finish(t)

-----------------------------------------------------------------------------
AccountStep(t) ==
    \/ Lookup(t) \/ DrawUid(t) \/ DrawBotUid(t) \/ CreateFails(t)
    \/ NicknameWrite(t)
    \/ ToggleLook(t) \/ ToggleAdd(t) \/ ToggleCheck(t) \/ ToggleRemove(t)
    \/ CharacterWrite(t)

=============================================================================
