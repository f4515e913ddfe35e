-------------------------------- MODULE Money --------------------------------
(***************************************************************************)
(* The decimal arithmetic of the ledger.  Balances, ledger amounts and     *)
(* running balances live in DECIMAL(18,2) columns: PostgreSQL rounds every *)
(* value it stores to whole cents, halves away from zero.  The amount of a *)
(* request is a positive JSON number that may be finer than a cent.        *)
(*                                                                         *)
(* A stored value is a number of cents.  An unrounded, non-negative value  *)
(* is a record of whole cents and of ticks, Ticks of which make a cent.    *)
(***************************************************************************)
EXTENDS Integers

CONSTANTS
    Ticks,      \* the ticks in a cent: the resolution of request amounts
    MaxCents    \* the largest value a DECIMAL(18,2) column holds

ASSUME MoneyAssumption ==
    /\ Ticks \in Nat \ {0}
    /\ MaxCents \in Nat

Decimal == [cents : Int, ticks : 0 .. (Ticks - 1)]

\* amount > 0, the negation of the services' "amount <= 0".
IsPositive(a) == a.cents > 0 \/ a.ticks > 0

\* Bug: the amount is truncated to whole cents before the comparison.
CoversWholeCents(b, a) == b >= a.cents

\* Number(balance) - amount >= 0.
Covers(b, a) == b > a.cents \/ (b = a.cents /\ a.ticks = 0)

\* decimalCurrentBalance.plus(decimalAmount): exact, nothing is rounded yet.
Plus(b, a) == [cents |-> b + a.cents, ticks |-> a.ticks]

\* decimalCurrentBalance.minus(decimalAmount), exact as well.
Minus(b, a) ==
    IF a.ticks = 0
    THEN [cents |-> b - a.cents, ticks |-> 0]
    ELSE [cents |-> b - a.cents - 1, ticks |-> Ticks - a.ticks]

\* Bug: the column truncates.
StoredTruncated(d) == d.cents

\* What a DECIMAL(18,2) column keeps of a non-negative value.
Stored(d) == IF 2 * d.ticks >= Ticks THEN d.cents + 1 ELSE d.cents

\* A column raises "numeric field overflow" on a value that does not fit.
Fits(c) == c <= MaxCents

\* An amount such as 0.005 that lies half way between two cents.
IsHalfCent(a) == 2 * a.ticks = Ticks
=============================================================================
