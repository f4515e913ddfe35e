-------------------------- MODULE IdempotentPayments --------------------------
(***************************************************************************)
(* What the payment module promises about the tables: a key is paid for at *)
(* most once, however often, however concurrently and with whatever        *)
(* failures its payment is attempted; and a payment and the credit of its  *)
(* wallet are one step.                                                    *)
(***************************************************************************)
EXTENDS Integers

CONSTANTS Keys, Wallets, Attempts, NoPayment, Opening, MaxCents

VARIABLES balance, status, payments

vars == <<balance, status, payments>>

Init ==
    /\ balance = Opening
    /\ status \in [Wallets -> {"ABSENT", "ACTIVE", "FROZEN", "CLOSED"}]
    /\ payments = [k \in Keys |-> NoPayment]

\* The first payment with key k, of c cents to w.
Pay(k, a, w, c) ==
    /\ payments[k] = NoPayment
    /\ status[w] = "ACTIVE"
    /\ balance[w] + c <= MaxCents
    /\ payments' = [payments EXCEPT ![k] =
          [by |-> a, wallet |-> w, amount |-> c, status |-> "INITIATED"]]
    /\ balance' = [balance EXCEPT ![w] = @ + c]
    /\ UNCHANGED status

\* Opening a wallet, or changing its status, is none of this module's business
\* and moves no money.
WalletChange(w, s) ==
    /\ status' = [status EXCEPT ![w] = s]
    /\ UNCHANGED <<balance, payments>>

Next ==
    \/ \E k \in Keys, a \in Attempts, w \in Wallets, c \in 0 .. MaxCents :
          Pay(k, a, w, c)
    \/ \E w \in Wallets, s \in {"ACTIVE", "FROZEN", "CLOSED"} : WalletChange(w, s)

Spec == Init /\ [][Next]_vars
=============================================================================
