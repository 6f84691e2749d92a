------------------------------ MODULE MCAccounts -----------------------------
(* Instances of the accounts for TLC.                                      *)
EXTENDS AccountProperties, TLC

Symmetry == Permutations(Emails) \cup Permutations(Sessions)
              \cup Permutations(Tasks) \cup Permutations(Names)

=============================================================================
