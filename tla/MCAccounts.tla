------------------------------ MODULE MCAccounts ------------------------------
(***************************************************************************)
(* Instances of Accounts for TLC.                                          *)
(***************************************************************************)
EXTENDS Accounts, TLC

Symmetry ==
    Permutations(Users) \cup Permutations(Calls) \cup Permutations(Passwords)

\* The users that are there at first are ACTIVE and have the same password.
ActiveInit ==
    /\ Init
    /\ \E p \in Passwords : \A u \in Users :
          user[u].exists => user[u].status = "ACTIVE" /\ user[u].password = p
ActiveSpec == ActiveInit /\ [][Next]_vars

FairActiveSpec == ActiveSpec /\ Fairness
=============================================================================
