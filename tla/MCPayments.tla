------------------------------ MODULE MCPayments ------------------------------
(***************************************************************************)
(* Instances of Payments for TLC.                                          *)
(***************************************************************************)
EXTENDS PaymentsInvariant, TLC

\* What rounds up to a cent, and two cents.
TwoAmounts == {[cents |-> 0, ticks |-> 3], [cents |-> 2, ticks |-> 0]}
OneAmount == {[cents |-> 0, ticks |-> 3]}

Empty == [w \in Wallets |-> 0]

Symmetry == Permutations(Attempts) \cup Permutations(Keys)

\* All wallets start ACTIVE, for the runs that are about attempts only.
ActiveInit == Init /\ status = [w \in Wallets |-> "ACTIVE"]
ActiveSpec == ActiveInit /\ [][Next]_vars
FairActiveSpec == ActiveSpec /\ Fairness

\* Only wallet 1 is there at first, and ACTIVE.
OneWalletInit ==
    Init /\ status = [w \in Wallets |-> IF w = 1 THEN "ACTIVE" ELSE "ABSENT"]
OneWalletSpec == OneWalletInit /\ [][Next]_vars
=============================================================================
