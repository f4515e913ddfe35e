------------------------- MODULE TransactionService -------------------------
(***************************************************************************)
(* Deposits, withdrawals and transfers: transaction.service.js with the    *)
(* ledger.service.js primitive it posts through, run by concurrent         *)
(* requests over PostgreSQL at READ COMMITTED.                             *)
(*                                                                         *)
(* Each await of the service is a step of its own, so the steps of         *)
(* different requests interleave as the event loop lets them.  What a      *)
(* transaction has written but not committed is private to it (txnDraft,   *)
(* posted, entryDraft, rowDraft); Commit publishes it at once.             *)
(***************************************************************************)
EXTENDS WalletTable, Sequences, FiniteSets

CONSTANTS
    Amounts,    \* the amounts a request may ask for
    Opening,    \* Opening[w]: cents paid into w before the model starts
    PoolSize    \* connections an interactive transaction can be given

ASSUME TransactionServiceAssumption ==
    /\ Amounts \subseteq [cents : Nat, ticks : 0 .. (Ticks - 1)]
    /\ Opening \in [Wallets -> 0 .. MaxCents]
    /\ PoolSize \in Nat \ {0}

VARIABLES
    ledger,     \* ledger[w]: the committed LedgerEntry rows of wallet w
    txns,       \* txns[r]: status of r's committed Transaction row, or "NONE"
    pc,         \* pc[r]: where request r is
    op,         \* op[r]: what r asks for, the immutable columns of its row
    want,       \* want[r]: rows SELECT ... FOR UPDATE has still to lock
    seen,       \* seen[r][w]: the row as r read it under the lock
    txnDraft,   \* txnDraft[r]: status of r's uncommitted Transaction row
    posted,     \* posted[r]: wallets r has posted to
    entryDraft, \* entryDraft[r][w]: r's uncommitted LedgerEntry for w
    rowDraft    \* rowDraft[r][w]: r's uncommitted balance of w

booksVars == <<ledger, txns>>
draftVars == <<txnDraft, posted, entryDraft, rowDraft>>
requestVars == <<pc, op, want, seen, draftVars>>

-----------------------------------------------------------------------------
(* Requests.                                                               *)

OpType == {"DEPOSIT", "WITHDRAW", "TRANSFER"}

NoOp == [type |-> "NONE", sender |-> NoWallet, receiver |-> NoWallet,
         amount |-> [cents |-> 0, ticks |-> 0]]

DepositOps == [type : {"DEPOSIT"}, sender : {NoWallet}, receiver : Wallets,
               amount : Amounts]
WithdrawOps == [type : {"WITHDRAW"}, sender : Wallets, receiver : {NoWallet},
                amount : Amounts]
TransferOps == [type : {"TRANSFER"}, sender : Wallets, receiver : Wallets,
                amount : Amounts]

Operations == DepositOps \cup WithdrawOps \cup TransferOps

\* The wallet of the user who calls, and the wallets the operation touches.
OwnWallet(o) == IF o.type = "DEPOSIT" THEN o.receiver ELSE o.sender
Targets(o) == {o.sender, o.receiver} \ {NoWallet}

NoEntry == [txn |-> NoReq, type |-> "NONE", amount |-> 0, balanceAfter |-> 0]

InTransaction == {r \in Requests : pc[r] \in {"lock", "post", "commit"}}

-----------------------------------------------------------------------------
(* The posting primitive.                                                  *)

\* Bug: the direction follows the operation, not the entry.
BalanceAfterByOperation(r, w, type) ==
    Stored(IF op[r].type = "DEPOSIT" THEN Plus(seen[r][w].balance, op[r].amount)
                                     ELSE Minus(seen[r][w].balance, op[r].amount))

\* The balance ledgerService.postTransaction computes from the locked row.
BalanceAfter(r, w, type) ==
    Stored(IF type = "CREDIT" THEN Plus(seen[r][w].balance, op[r].amount)
                              ELSE Minus(seen[r][w].balance, op[r].amount))

\* The row it inserts.  Both DECIMAL columns round on their own.
EntryFor(r, w, type) ==
    [txn |-> r, type |-> type, amount |-> Stored(op[r].amount),
     balanceAfter |-> BalanceAfter(r, w, type)]

\* The insert and the update of the balance cache, inside r's transaction.
PostTransaction(r, w, type) ==
    /\ Fits(BalanceAfter(r, w, type))
    /\ entryDraft' = [entryDraft EXCEPT ![r][w] = EntryFor(r, w, type)]
    /\ rowDraft' = [rowDraft EXCEPT ![r][w] = BalanceAfter(r, w, type)]
    /\ posted' = [posted EXCEPT ![r] = @ \cup {w}]

-----------------------------------------------------------------------------
(* The steps of a request.                                                 *)

TransactionInit ==
    /\ ledger = [w \in Wallets |->
                    IF Opening[w] = 0 THEN <<>>
                    ELSE <<[txn |-> NoReq, type |-> "CREDIT",
                            amount |-> Opening[w],
                            balanceAfter |-> Opening[w]]>>]
    /\ txns = [r \in Requests |-> "NONE"]
    /\ pc = [r \in Requests |-> "idle"]
    /\ op = [r \in Requests |-> NoOp]
    /\ want = [r \in Requests |-> {}]
    /\ seen = [r \in Requests |-> [w \in Wallets |-> NoRow]]
    /\ txnDraft = [r \in Requests |-> "NONE"]
    /\ posted = [r \in Requests |-> {}]
    /\ entryDraft = [r \in Requests |-> [w \in Wallets |-> NoEntry]]
    /\ rowDraft = [r \in Requests |-> [w \in Wallets |-> 0]]

\* The controller finds the caller's wallet; the service turns down a transfer
\* to the same wallet before it opens a transaction.
IsRefused(o) == ~Exists(OwnWallet(o)) \/ o.sender = o.receiver

Receive(r, o) ==
    /\ pc[r] = "idle"
    /\ ~IsRefused(o)
    /\ pc' = [pc EXCEPT ![r] = "begin"]
    /\ op' = [op EXCEPT ![r] = o]
    /\ UNCHANGED <<tableVars, booksVars, want, seen, draftVars>>

Refuse(r, o) ==
    /\ pc[r] = "idle"
    /\ IsRefused(o)
    /\ pc' = [pc EXCEPT ![r] = "failed"]
    /\ UNCHANGED <<tableVars, booksVars, op, want, seen, draftVars>>

\* prisma.$transaction gets a connection and the locking SELECT starts: the
\* rows that match its WHERE clause are those that exist now.
Begin(r) ==
    /\ pc[r] = "begin"
    /\ Cardinality(InTransaction) < PoolSize
    /\ pc' = [pc EXCEPT ![r] = "lock"]
    /\ want' = [want EXCEPT ![r] = {w \in Targets(op[r]) : Exists(w)}]
    /\ UNCHANGED <<tableVars, booksVars, op, seen, draftVars>>

\* Bug: the sender's row is locked first, whatever its id.
IsSenderFirst(r, w) == op[r].sender \in want[r] => w = op[r].sender

\* The row that is next in the order of ORDER BY id.
IsNext(r, w) == \A v \in want[r] : w <= v

\* FOR UPDATE locks the matching rows in the order of ORDER BY id, waits for
\* each, and returns the version of the row that is committed by then.
LockRow(r, w) ==
    /\ pc[r] = "lock"
    /\ w \in want[r]
    /\ IsNext(r, w)
    /\ ~IsLocked(w)
    /\ lockedBy' = [lockedBy EXCEPT ![w] = r]
    /\ seen' = [seen EXCEPT ![r][w] = RowOf(w)]
    /\ want' = [want EXCEPT ![r] = @ \ {w}]
    /\ UNCHANGED <<balance, status, booksVars, pc, op, draftVars>>

\* Bug: the receiver's wallet is not validated.
IsAcceptableToSender(r) ==
    LET o == op[r]
    IN  /\ IsPositive(o.amount)
        /\ o.sender # NoWallet =>
              /\ seen[r][o.sender].status = "ACTIVE"
              /\ Covers(seen[r][o.sender].balance, o.amount)
        /\ Fits(Stored(o.amount))

\* _validateConstraints for every wallet, then the check of the funds, then
\* the column that has to hold the amount.
IsAcceptable(r) ==
    LET o == op[r]
    IN  /\ IsPositive(o.amount)
        /\ \A w \in Targets(o) : seen[r][w].status = "ACTIVE"
        /\ o.sender # NoWallet => Covers(seen[r][o.sender].balance, o.amount)
        /\ Fits(Stored(o.amount))

\* All rows are read: validate them and insert the PENDING Transaction row.
CreateTransaction(r) ==
    /\ pc[r] = "lock"
    /\ want[r] = {}
    /\ IsAcceptable(r)
    /\ txnDraft' = [txnDraft EXCEPT ![r] = "PENDING"]
    /\ pc' = [pc EXCEPT ![r] = "post"]
    /\ UNCHANGED <<tableVars, booksVars, op, want, seen, posted, entryDraft,
                   rowDraft>>

\* Deduct from the sender first ...
PostDebit(r) ==
    /\ pc[r] = "post"
    /\ op[r].sender \in Targets(op[r]) \ posted[r]
    /\ PostTransaction(r, op[r].sender, "DEBIT")
    /\ UNCHANGED <<tableVars, booksVars, pc, op, want, seen, txnDraft>>

\* ... then add to the receiver.
PostCredit(r) ==
    /\ pc[r] = "post"
    /\ op[r].receiver \in Targets(op[r]) \ posted[r]
    /\ op[r].sender \in posted[r] \cup {NoWallet}
    /\ PostTransaction(r, op[r].receiver, "CREDIT")
    /\ UNCHANGED <<tableVars, booksVars, pc, op, want, seen, txnDraft>>

\* Bug: the second posting is not awaited.
MarkSuccessEarly(r) ==
    /\ pc[r] = "post"
    /\ posted[r] # {}
    /\ txnDraft' = [txnDraft EXCEPT ![r] = "SUCCESS"]
    /\ pc' = [pc EXCEPT ![r] = "commit"]
    /\ UNCHANGED <<tableVars, booksVars, op, want, seen, posted, entryDraft,
                   rowDraft>>

\* All postings are made: the Transaction row becomes SUCCESS.
MarkSuccess(r) ==
    /\ pc[r] = "post"
    /\ posted[r] = Targets(op[r])
    /\ txnDraft' = [txnDraft EXCEPT ![r] = "SUCCESS"]
    /\ pc' = [pc EXCEPT ![r] = "commit"]
    /\ UNCHANGED <<tableVars, booksVars, op, want, seen, posted, entryDraft,
                   rowDraft>>

\* The end of the transaction, either way: its locks and its private state go.
EndTransaction(r) ==
    /\ lockedBy' = [w \in Wallets |->
                        IF lockedBy[w] = r THEN NoReq ELSE lockedBy[w]]
    /\ want' = [want EXCEPT ![r] = {}]
    /\ seen' = [seen EXCEPT ![r] = [w \in Wallets |-> NoRow]]
    /\ txnDraft' = [txnDraft EXCEPT ![r] = "NONE"]
    /\ posted' = [posted EXCEPT ![r] = {}]
    /\ entryDraft' = [entryDraft EXCEPT ![r] = [w \in Wallets |-> NoEntry]]
    /\ rowDraft' = [rowDraft EXCEPT ![r] = [w \in Wallets |-> 0]]

\* The callback returned: every write becomes visible at the same instant.
Commit(r) ==
    /\ pc[r] = "commit"
    /\ balance' = [w \in Wallets |->
                       IF w \in posted[r] THEN rowDraft[r][w] ELSE balance[w]]
    /\ ledger' = [w \in Wallets |->
                      IF w \in posted[r] THEN Append(ledger[w], entryDraft[r][w])
                                         ELSE ledger[w]]
    /\ txns' = [txns EXCEPT ![r] = txnDraft[r]]
    /\ pc' = [pc EXCEPT ![r] = "done"]
    /\ EndTransaction(r)
    /\ UNCHANGED <<status, op>>

\* The callback threw: nothing it wrote survives.
Rollback(r) ==
    /\ EndTransaction(r)
    /\ pc' = [pc EXCEPT ![r] = "failed"]
    /\ op' = [op EXCEPT ![r] = NoOp]
    /\ UNCHANGED <<balance, status, booksVars>>

\* A constraint of the service or of the Transaction row does not hold.
Reject(r) ==
    /\ pc[r] = "lock"
    /\ want[r] = {}
    /\ ~IsAcceptable(r)
    /\ Rollback(r)

\* The receiver's balance outgrows its column, after the sender was debited.
Overflow(r) ==
    /\ pc[r] = "post"
    /\ op[r].receiver \in Targets(op[r]) \ posted[r]
    /\ op[r].sender \in posted[r] \cup {NoWallet}
    /\ ~Fits(BalanceAfter(r, op[r].receiver, "CREDIT"))
    /\ Rollback(r)

\* The pool wait or the transaction times out, a statement fails, the
\* connection drops or the process dies: PostgreSQL rolls back.
Abort(r) ==
    /\ pc[r] \in {"begin", "lock", "post", "commit"}
    /\ Rollback(r)

\* What a request does by itself once its client has sent it.
Progress(r) ==
    \/ Begin(r)
    \/ \E w \in Wallets : LockRow(r, w)
    \/ CreateTransaction(r)
    \/ PostDebit(r)
    \/ PostCredit(r)
    \/ MarkSuccess(r)
    \/ Commit(r)
    \/ Reject(r)
    \/ Overflow(r)

TransactionNext ==
    \E r \in Requests :
        \/ \E o \in Operations : Receive(r, o) \/ Refuse(r, o)
        \/ Progress(r)
        \/ Abort(r)

\* A request is over once it has been answered.
Finished(r) == pc[r] \in {"done", "failed"}

-----------------------------------------------------------------------------
(* What ledgerService.calculateRunningBalance adds up, over the history of  *)
(* a wallet.                                                               *)
SumOfEntries(history) ==
    LET sum[i \in 0 .. Len(history)] ==
            IF i = 0 THEN 0
            ELSE IF history[i].type = "CREDIT"
                 THEN sum[i - 1] + history[i].amount
                 ELSE sum[i - 1] - history[i].amount
    IN  sum[Len(history)]

RunningBalance(w) == SumOfEntries(ledger[w])
=============================================================================
