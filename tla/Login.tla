-------------------------------- MODULE Login --------------------------------
(***************************************************************************)
(* The login of a game client (app/api/v1/endpoints/auth.py and            *)
(* app/services/auth/google.py).  The client gets a session id and opens   *)
(* Google in a browser; Google sends the browser to the callback, which    *)
(* finds or makes the account and leaves a token in session_tokens, in     *)
(* memory; the client asks /login/status for it, which hands it out once.  *)
(* The token is what all requests of the account are made with.            *)
(*                                                                         *)
(* /login/google keeps nothing: the session id it makes up is known to the *)
(* client and to the browser that follows the link, and the callback takes *)
(* it, as the state, from any browser and with a code for any person.      *)
(***************************************************************************)
EXTENDS Accounts

CONSTANT Requests   \* what the clients of an instance do

ASSUME LoginAssumption ==
    Requests \subseteq {"login", "nickname", "toggle", "current", "bot",
                        "crash"}

VARIABLES
    mailbox,    \* session_tokens: the account of the token, by session
    signed,     \* external: the people Google has named, by session
    held        \* external: the tokens clients have got, by session

vars == <<users, task, mailbox, signed, held>>

TypeOK ==
    /\ AccountTypeOK
    /\ mailbox \in [Sessions -> Ids \cup {Nothing}]
    /\ signed \in [Sessions -> SUBSET Emails]
    /\ held \subseteq Sessions \X Ids

Init ==
    /\ AccountInit
    /\ mailbox = [s \in Sessions |-> Nothing]
    /\ signed = [s \in Sessions |-> {}]
    /\ held = {}

-----------------------------------------------------------------------------
Ask(kind) == kind \in Requests

(* A browser comes back, once or more often, with the session id as the    *)
(* state, and with a code that Google turns into the email of its user.    *)
GoogleCallback(t, s) ==
    /\ Ask("login") /\ At(t, "idle")
    /\ Become(t, [Idle EXCEPT !.pc = "google", !.session = s])
    /\ UNCHANGED <<users, mailbox, signed, held>>

(* get_google_token and get_user_info.                                     *)
GoogleAnswers(t) ==
    /\ At(t, "google")
    /\ \E email \in Emails :
         /\ Become(t, [task[t] EXCEPT !.pc = "lookup", !.email = email])
         /\ signed' = [signed EXCEPT ![task[t].session] = @ \cup {email}]
    /\ UNCHANGED <<users, mailbox, held>>

GoogleFails(t) ==
    /\ At(t, "google")
    /\ Finish(t)
    /\ UNCHANGED <<users, mailbox, signed, held>>

(* last_login is written and committed; the mutant only assigns it.        *)
NotRecorded(id) == users
Recorded(id) == [users EXCEPT ![id].recorded = TRUE]

(* The mutant sends every column of the session's copy.                    *)
RecordAll(t) ==
    LET k == task[t] IN
    /\ At(t, "record")
    /\ users' = [WriteCopy(k.copy, k.id, k.copy) EXCEPT ![k.id].recorded = TRUE]
    /\ Goto(t, "deliver")
    /\ UNCHANGED <<mailbox, signed, held>>
RecordLogin(t) ==
    /\ At(t, "record")
    /\ users' = Recorded(task[t].id)
    /\ Goto(t, "deliver")
    /\ UNCHANGED <<mailbox, signed, held>>

Deliver(t) ==
    /\ At(t, "deliver")
    /\ mailbox' = [mailbox EXCEPT ![task[t].session] = task[t].id]
    /\ Finish(t)
    /\ UNCHANGED <<users, signed, held>>

(* The entry is read and deleted with no await in between; the answer may  *)
(* not arrive, and then nobody has the token.  The mutant answers a client *)
(* that asks too early or twice as if there were an entry.                 *)
AnySession(s) == TRUE
TokenReady(s) == mailbox[s] # Nothing

LoginStatus(s) ==
    /\ TokenReady(s)
    /\ mailbox' = [mailbox EXCEPT ![s] = Nothing]
    /\ held' = held \cup {<<s, mailbox[s]>>} \/ UNCHANGED held
    /\ UNCHANGED <<users, task, signed>>

-----------------------------------------------------------------------------
(* Bounds: an instance has an id for every account that is being made.     *)
MayMake(t) ==
    \/ task[t].pc \in {"uid", "insert", "bot_uid", "bot_insert"}
    \/ At(t, "google") /\ \E email \in Emails : AccountsOf(email) = {}
    \/ At(t, "lookup") /\ AccountsOf(task[t].email) = {}
IdsLeft == Cardinality({t \in Tasks : MayMake(t)})
               < Cardinality(Ids \ DOMAIN users)
NewIds == {m \in Ids \ DOMAIN users : \A n \in Ids \ DOMAIN users : m <= n}

(* A request of whoever holds a token of the account.                      *)
Holders == {h[2] : h \in held}

Request(t) ==
    \/ \E s \in Sessions :
          /\ IdsLeft \/ \A email \in Emails : AccountsOf(email) # {}
          /\ GoogleCallback(t, s)
    \/ /\ \/ /\ Ask("nickname")
             /\ \E id \in Holders, n \in Nicknames \cup {TooLong} :
                  UpdateNickname(t, id, n)
          \/ /\ Ask("toggle")
             /\ \E id \in Holders, c \in Characters : ToggleCharacter(t, id, c)
          \/ /\ Ask("current")
             /\ \E id \in Holders, c \in Characters :
                  SetCurrentCharacter(t, id, c)
          \/ /\ Ask("bot") /\ IdsLeft /\ At(t, "idle")
             /\ Become(t, [Idle EXCEPT !.pc = "bot_uid"])
             /\ UNCHANGED users
       /\ UNCHANGED <<mailbox, signed, held>>

Continue(t) ==
    \/ GoogleAnswers(t) \/ GoogleFails(t) \/ RecordLogin(t) \/ Deliver(t)
    \/ /\ \/ AccountStep(t)
          \/ \E id \in NewIds : CreateUser(t, id) \/ CreateBotUser(t, id)
       /\ UNCHANGED <<mailbox, signed, held>>

Crash ==
    /\ Ask("crash")
    /\ task' = [t \in Tasks |-> Idle]
    /\ mailbox' = [s \in Sessions |-> Nothing]
    /\ UNCHANGED <<users, signed, held>>

Next ==
    \/ \E s \in Sessions : LoginStatus(s)
    \/ \E t \in Tasks : Request(t) \/ Continue(t)
    \/ Crash

Spec == Init /\ [][Next]_vars

(* The event loop runs every task, and Google answers or the call fails.   *)
FairSpec == Spec /\ \A t \in Tasks : WF_vars(Continue(t))

=============================================================================
