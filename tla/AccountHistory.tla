---------------------------- MODULE AccountHistory ---------------------------
(***************************************************************************)
(* The accounts with a history variable: the characters each account has   *)
(* ever owned.                                                             *)
(***************************************************************************)
EXTENDS AccountProperties

VARIABLE everOwned

HistoryInit == Init /\ everOwned = [id \in Ids |-> {}]

HistoryNext ==
    /\ Next
    /\ everOwned' = [id \in Ids |-> everOwned[id] \cup
                       IF id \in DOMAIN users' THEN users'[id].owned ELSE {}]

HistorySpec == HistoryInit /\ [][HistoryNext]_<<vars, everOwned>>
FairHistorySpec == HistorySpec /\ \A t \in Tasks : WF_vars(Continue(t))

(* Nobody plays a character they never owned: a current character may be   *)
(* given away, before or after set_current_character has written it, but   *)
(* the account had it once; a new account owns the one it starts with.     *)
CurrentWasOwned ==
    \A id \in DOMAIN users : users[id].character \in everOwned[id]

=============================================================================
