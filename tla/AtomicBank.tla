----------------------------- MODULE AtomicBank -----------------------------
(***************************************************************************)
(* What the bank promises to whoever reads its tables: the double-entry    *)
(* ledger of the repository's README, with every transaction atomic.       *)
(*                                                                         *)
(* There are no locks, no requests under way and no uncommitted rows.  A   *)
(* transaction takes effect in one step, in whole cents, between ACTIVE    *)
(* wallets, never overdraws one, and appends to the ledger exactly the     *)
(* entries that explain the balances it leaves.                            *)
(***************************************************************************)
EXTENDS Integers, Sequences

CONSTANTS
    Wallets,    \* wallet ids
    Requests,   \* transaction ids
    NoReq,      \* the transaction of an opening entry
    Opening,    \* cents paid into each wallet at the start
    MaxCents    \* the largest balance

VARIABLES balance, status, ledger, txns

vars == <<balance, status, ledger, txns>>

Entry(t, type, c, after) ==
    [txn |-> t, type |-> type, amount |-> c, balanceAfter |-> after]

Init ==
    /\ balance = Opening
    /\ status \in [Wallets -> {"ABSENT", "ACTIVE", "FROZEN", "CLOSED"}]
    /\ ledger = [w \in Wallets |->
                    IF Opening[w] = 0 THEN <<>>
                    ELSE <<Entry(NoReq, "CREDIT", Opening[w], Opening[w])>>]
    /\ txns = [t \in Requests |-> "NONE"]

\* Transaction t takes c cents from every wallet of From and gives c cents to
\* every wallet of To: a deposit has no From, a withdrawal no To, a transfer
\* one of each.
Move(t, From, To, c) ==
    LET after(w) == IF w \in From THEN balance[w] - c ELSE balance[w] + c
        type(w) == IF w \in From THEN "DEBIT" ELSE "CREDIT"
    IN  /\ txns[t] = "NONE"
        /\ \A w \in From \cup To :
              status[w] = "ACTIVE" /\ after(w) \in 0 .. MaxCents
        /\ txns' = [txns EXCEPT ![t] = "SUCCESS"]
        /\ balance' = [w \in Wallets |->
                          IF w \in From \cup To THEN after(w) ELSE balance[w]]
        /\ ledger' = [w \in Wallets |->
                         IF w \in From \cup To
                         THEN Append(ledger[w], Entry(t, type(w), c, after(w)))
                         ELSE ledger[w]]
        /\ UNCHANGED status

Deposit(t, w, c) == Move(t, {}, {w}, c)
Withdraw(t, w, c) == Move(t, {w}, {}, c)
Transfer(t, v, w, c) == v # w /\ Move(t, {v}, {w}, c)

\* A wallet is opened for its user, empty and ACTIVE.
Open(w) ==
    /\ status[w] = "ABSENT"
    /\ status' = [status EXCEPT ![w] = "ACTIVE"]
    /\ balance' = [balance EXCEPT ![w] = 0]
    /\ UNCHANGED <<ledger, txns>>

\* A status change moves no money and never makes a wallet vanish.
SetStatus(w, s) ==
    /\ status[w] # "ABSENT"
    /\ status' = [status EXCEPT ![w] = s]
    /\ UNCHANGED <<balance, ledger, txns>>

Next ==
    \/ \E t \in Requests, c \in 0 .. MaxCents :
          \/ \E w \in Wallets : Deposit(t, w, c) \/ Withdraw(t, w, c)
          \/ \E v, w \in Wallets : Transfer(t, v, w, c)
    \/ \E w \in Wallets :
          \/ Open(w)
          \/ \E s \in {"ACTIVE", "FROZEN", "CLOSED"} : SetStatus(w, s)

Spec == Init /\ [][Next]_vars
=============================================================================
