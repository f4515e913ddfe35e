------------------------------- MODULE Banking -------------------------------
(***************************************************************************)
(* The transaction service and the wallet service over one wallet table:   *)
(* money moves while wallets are created, frozen, unfrozen and closed.     *)
(***************************************************************************)
EXTENDS TransactionService, WalletService, Functions

vars == <<tableVars, booksVars, requestVars, taskVars>>

Init ==
    /\ balance = Opening
    /\ status \in {s \in [Wallets -> WalletStatus \cup {"ABSENT"}] :
                      \A w \in Wallets : s[w] = "ABSENT" => Opening[w] = 0}
    /\ lockedBy = [w \in Wallets |-> NoReq]
    /\ TransactionInit
    /\ WalletInit

\* Nothing is left to do: every request and every task has been answered.
Quiescent ==
    /\ \A r \in Requests : Finished(r)
    /\ \A t \in Tasks : TaskFinished(t)
    /\ UNCHANGED vars

Next ==
    \/ TransactionNext /\ UNCHANGED taskVars
    \/ WalletNext /\ UNCHANGED <<booksVars, requestVars>>
    \/ Quiescent

Spec == Init /\ [][Next]_vars

\* The event loop and PostgreSQL keep serving a request they have accepted.
\* Clients owe nothing, and no request is obliged to fail.
Fairness ==
    /\ \A r \in Requests : WF_vars(Progress(r) /\ UNCHANGED taskVars)
    /\ \A t \in Tasks :
          WF_vars(TaskProgress(t) /\ UNCHANGED <<booksVars, requestVars>>)

FairSpec == Spec /\ Fairness

-----------------------------------------------------------------------------
(* Types.                                                                  *)

EntryType ==
    [txn : Requests \cup {NoReq}, type : {"DEBIT", "CREDIT", "NONE"},
     amount : Int, balanceAfter : Int]

PcType == {"idle", "begin", "lock", "post", "commit", "done", "failed"}

\* The type of every variable of the two services.
TypeOK ==
    /\ balance \in [Wallets -> Int]
    /\ status \in [Wallets -> WalletStatus \cup {"ABSENT"}]
    /\ lockedBy \in [Wallets -> Requests \cup {NoReq}]
    /\ ledger \in [Wallets -> Seq(EntryType)]
    /\ txns \in [Requests -> {"NONE", "PENDING", "SUCCESS"}]
    /\ pc \in [Requests -> PcType]
    /\ op \in [Requests -> Operations \cup {NoOp}]
    /\ want \in [Requests -> SUBSET Wallets]
    /\ seen \in [Requests -> [Wallets -> Row]]
    /\ txnDraft \in [Requests -> {"NONE", "PENDING", "SUCCESS"}]
    /\ posted \in [Requests -> SUBSET Wallets]
    /\ entryDraft \in [Requests -> [Wallets -> EntryType]]
    /\ rowDraft \in [Requests -> [Wallets -> Int]]
    /\ taskPc \in [Tasks -> {"idle", "write", "done", "failed"}]
    /\ task \in [Tasks -> TaskType \cup {NoTask}]
    /\ taskRead \in [Tasks -> WalletStatus \cup {"ABSENT"}]

-----------------------------------------------------------------------------
(* Safety.                                                                 *)

\* No interleaving of withdrawals and transfers overdraws a wallet: the funds
\* are checked on the row that FOR UPDATE holds (transaction.service.js:102,
\* 181; integration-tests.md promises it of concurrent transfers).
NoOverdraft == \A w \in Wallets : balance[w] >= 0

\* What the columns of consecutive ledger entries of a wallet must satisfy.
Signed(e) == IF e.type = "CREDIT" THEN e.amount ELSE -e.amount

Chained(l, i) ==
    l[i].balanceAfter = (IF i = 1 THEN 0 ELSE l[i - 1].balanceAfter) + Signed(l[i])

LastBalance(l) == IF l = <<>> THEN 0 ELSE l[Len(l)].balanceAfter

\* The ledger explains the cached balance entry by entry: each balanceAfter is
\* the previous one plus or minus the amount, and the last one is the balance
\* (ledger.service.js:38-50).  A lost update would break the chain.
LedgerChain ==
    \A w \in Wallets :
        /\ \A i \in 1 .. Len(ledger[w]) : Chained(ledger[w], i)
        /\ balance[w] = LastBalance(ledger[w])

\* "Ensures the cached Wallet.balance matches the ledger history"
\* (ledger.service.js:57): recomputing the balance gives the cached one.
CacheMatchesLedger == \A w \in Wallets : balance[w] = RunningBalance(w)

\* The entries by which money has left wallet w.
DebitsOf(w) == {i \in 1 .. Len(ledger[w]) : ledger[w][i].type = "DEBIT"}

\* The balance and the entry of a debit are rounded apart, so that an amount
\* of half a cent makes the cached balance part from the ledger: never below
\* it, and by no more than a cent for each debit (ledger.service.js:32-50).
DriftIsBounded ==
    \A w \in Wallets :
        balance[w] - RunningBalance(w) \in 0 .. Cardinality(DebitsOf(w))

\* What a committed transaction brought into the bank (transfers: nothing).
Inflow(r) ==
    IF txns[r] # "SUCCESS" THEN 0
    ELSE CASE op[r].type = "DEPOSIT" -> Stored(op[r].amount)
           [] op[r].type = "WITHDRAW" -> -Stored(op[r].amount)
           [] op[r].type = "TRANSFER" -> 0

\* No money is made or lost: what the wallets hold together is what was paid
\* in less what was paid out, whatever was transferred, rejected or aborted
\* on the way (transaction.service.js:166-224).
MoneyIsConserved ==
    SumFunctionOnSet(balance, Wallets) =
        SumFunctionOnSet(Opening, Wallets)
            + SumFunctionOnSet([r \in Requests |-> Inflow(r)], Requests)

\* The entries of transaction t in the ledger of wallet w.
EntriesOf(t, w) ==
    {i \in 1 .. Len(ledger[w]) : ledger[w][i].txn = t}

HasOneEntry(t, w, type) ==
    \E i \in 1 .. Len(ledger[w]) :
        /\ EntriesOf(t, w) = {i}
        /\ ledger[w][i].type = type
        /\ ledger[w][i].amount = Stored(op[t].amount)

\* All or nothing: a committed transaction is SUCCESS and has exactly one
\* entry in each wallet it names, a debit for the sender and a credit for the
\* receiver, and an uncommitted one has left no entry anywhere.
AllOrNothing ==
    \A t \in Requests :
        \/ /\ txns[t] = "NONE"
           /\ \A w \in Wallets : EntriesOf(t, w) = {}
        \/ /\ txns[t] = "SUCCESS"
           /\ \A w \in Wallets \ Targets(op[t]) : EntriesOf(t, w) = {}
           /\ op[t].sender # NoWallet => HasOneEntry(t, op[t].sender, "DEBIT")
           /\ op[t].receiver # NoWallet => HasOneEntry(t, op[t].receiver, "CREDIT")

\* Request r waits for a row that q holds.
WaitsFor(r, q) ==
    /\ pc[r] = "lock"
    /\ \E w \in want[r] : IsNext(r, w) /\ lockedBy[w] = q

\* No set of requests is waiting for itself: "ordering by ID to prevent
\* deadlocks" (transaction.service.js:162) prevents them.
NoLockCycle ==
    \A S \in (SUBSET Requests) \ {{}} :
        \E r \in S : \A q \in S : ~WaitsFor(r, q)

\* Request r can take its next step at once: there is a connection left for it,
\* the next row it locks is free, and what it debits fits the column.
IsFreeToMove(r) ==
    \/ pc[r] = "begin" /\ Cardinality(InTransaction) < PoolSize
    \/ pc[r] = "lock" /\ want[r] = {}
    \/ pc[r] = "lock" /\ \E w \in want[r] : IsNext(r, w) /\ ~IsLocked(w)
    \/ /\ pc[r] = "post"
       /\ op[r].sender \in Targets(op[r]) \ posted[r] =>
              Fits(BalanceAfter(r, op[r].sender, "DEBIT"))
    \/ pc[r] = "commit"

\* Requests wait for rows while they keep connections of the pool, and for the
\* pool while others keep rows (transaction.service.js:161-168): they never all
\* wait, so that no timeout is needed to get them going again.
SomeoneMoves ==
    (\E r \in Requests : pc[r] \in {"begin", "lock", "post", "commit"}) =>
        \E r \in Requests : IsFreeToMove(r)

\* Money only moves in a wallet that is ACTIVE when the move commits: the row
\* lock keeps the status that was validated until the balance is written.
MoneyMovesOnlyWhenActive ==
    [][\A w \in Wallets :
          ledger'[w] # ledger[w] => status[w] = "ACTIVE" /\ status'[w] = "ACTIVE"]_vars

-----------------------------------------------------------------------------
(* Implementation and progress.                                            *)

Atomic ==
    INSTANCE AtomicBank WITH
        balance <- balance, status <- status, ledger <- ledger, txns <- txns

\* The services implement the atomic bank: the committed tables go from one
\* state to the next only by whole transactions and whole status changes.
ImplementsAtomicBank == Atomic!Spec

\* A request that has been accepted is answered: lock waits and waits for a
\* connection end without the help of a timeout.
RequestsFinish == \A r \in Requests : (pc[r] # "idle") ~> Finished(r)

\* A status change that waits for the row of a busy wallet gets its turn.
TasksFinish == \A t \in Tasks : (taskPc[t] # "idle") ~> TaskFinished(t)

-----------------------------------------------------------------------------
(* What the repository says and the code does not do.                      *)

\* "Enforce that wallets in a CLOSED state cannot be reopened"
\* (wallet.service.js:58).
ClosedIsFinal ==
    [][\A w \in Wallets : status[w] = "CLOSED" => status'[w] = "CLOSED"]_vars

\* createWallet lets a user whose only wallet is CLOSED go on to the INSERT
\* (wallet.service.js:16-20): the INSERT must then not be refused.
ClosedWalletCanBeReplaced ==
    [][\A t \in Tasks :
          ~(taskRead[t] = "CLOSED" /\ InsertConflict(t))]_vars
=============================================================================
