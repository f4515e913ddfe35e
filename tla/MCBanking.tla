------------------------------ MODULE MCBanking ------------------------------
(***************************************************************************)
(* Instances of Banking for TLC.  Amounts are in quarters of a cent, so    *)
(* there is an amount that rounds down, one that rounds up, a whole one,   *)
(* and, for the run that is about it, one that lies half way.              *)
(***************************************************************************)
EXTENDS BankingInvariant, TLC

Quarters(c, t) == [cents |-> c, ticks |-> t]

\* Nothing; rounds up to a cent.
TwoAmounts == {Quarters(0, 0), Quarters(0, 3)}
\* Rounds down to nothing; rounds up to a cent; a cent.
FineAmounts == {Quarters(0, 1), Quarters(0, 3), Quarters(1, 0)}
OneCent == {Quarters(1, 0)}
HalfCent == {Quarters(0, 2), Quarters(1, 0)}
OnlyHalfCents == {Quarters(0, 2)}

\* One wallet has been paid into, the others are empty.
FirstOpening == [w \in Wallets |-> IF w = 1 THEN 1 ELSE 0]
EqualOpening == [w \in Wallets |-> 1]

\* Requests and tasks are interchangeable: no definition names one of them.
RequestSymmetry == Permutations(Requests)
ActorSymmetry == Permutations(Requests) \cup Permutations(Tasks)

\* Wallet 1 is ACTIVE, the other is FROZEN until a task unfreezes it.
OneActiveInit ==
    Init /\ status = [w \in Wallets |-> IF w = 1 THEN "ACTIVE" ELSE "FROZEN"]
FairOneActiveSpec == OneActiveInit /\ [][Next]_vars /\ Fairness
=============================================================================
