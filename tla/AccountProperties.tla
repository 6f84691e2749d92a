-------------------------- MODULE AccountProperties --------------------------
(***************************************************************************)
(* What must be true of accounts and logins, whatever requests, logins and *)
(* restarts interleave.                                                    *)
(***************************************************************************)
EXTENDS Login

(* No two accounts have one uid: two logins can draw the same number and   *)
(* both count no row that has it; the unique constraint decides.           *)
UidsUnique ==
    \A i, j \in DOMAIN users : users[i].uid = users[j].uid => i = j

(* Logins that found no account of the person and have not made one.       *)
Makes(t, email) ==
    task[t].pc \in {"uid", "insert"} /\ task[t].email = email

(* The email is not unique, and get_or_create_user selects and inserts in  *)
(* separate statements: a person can get as many accounts as logins are    *)
(* served at a time, and not one more, however often they log in.          *)
AccountsBounded ==
    \A email \in Emails :
        Cardinality(AccountsOf(email))
            + Cardinality({t \in Tasks : Makes(t, email)})
            <= Cardinality(Tasks)

(* A client gets a token of a person who has come back from Google with    *)
(* the client's session id, and of nobody else, whatever callbacks of      *)
(* other sessions, repeated callbacks and restarts come in between: the    *)
(* callback and the client meet in session_tokens by that id alone.  Which *)
(* of several such people it is, the code does not say.                    *)
OwnToken == \A h \in held : users[h[2]].email \in signed[h[1]]

(* Who holds a token, or is about to get one, has an account in the table, *)
(* with its login recorded: both commits come before the token.            *)
TokenMeansRecorded ==
    \A id \in Holders \cup {mailbox[s] : s \in Sessions} :
        id # Nothing => id \in DOMAIN users /\ users[id].recorded

-----------------------------------------------------------------------------
(* An account has a nickname that is more than blanks, and no nickname     *)
(* request that looked before it was set has still to write.               *)
NicknameAsked(id) ==
    \E t \in Tasks : At(t, "nickname_write") /\ task[t].id = id
NicknameSettled(id) ==
    ~ Strips(users[id].nickname) /\ ~ NicknameAsked(id)

(* Such a nickname is never changed again: update_nickname answers         *)
(* NICKNAME_ALREADY_SET, and logins and character requests, whose sessions *)
(* may hold a copy of the account from before, write other columns.  Two   *)
(* nickname requests that overlap are not covered: both look before either *)
(* writes, and the second write changes what the first has set.            *)
NicknameFinal ==
    [][\A id \in DOMAIN users :
         NicknameSettled(id) =>
            /\ users'[id].nickname = users[id].nickname
            /\ NicknameSettled(id)']_vars

-----------------------------------------------------------------------------
(* Every login and every request comes to an end: uids are tried a limited *)
(* number of times, and nobody waits for another request.                  *)
LoginsFinish == \A t \in Tasks : ~ At(t, "idle") ~> At(t, "idle")

=============================================================================
