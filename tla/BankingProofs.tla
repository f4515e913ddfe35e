---------------------------- MODULE BankingProofs ----------------------------
(***************************************************************************)
(* Proofs about Banking, for any wallets, requests, tasks, amounts and     *)
(* opening balances.                                                       *)
(***************************************************************************)
EXTENDS BankingInvariant, TLAPS

-----------------------------------------------------------------------------
(* Arithmetic of the columns.                                              *)

\* A request's amount is a decimal, and so is what is computed from it.
LEMMA OperationAmount ==
    ASSUME NEW o \in Operations \cup {NoOp}
    PROVE  /\ o.amount \in [cents : Nat, ticks : 0 .. (Ticks - 1)]
           /\ o.sender \in Wallets \cup {NoWallet}
           /\ o.receiver \in Wallets \cup {NoWallet}
           /\ o.type \in OpType \cup {"NONE"}
BY MoneyAssumption, TransactionServiceAssumption
DEF Operations, DepositOps, WithdrawOps, TransferOps, NoOp, OpType

\* Stored values are whole cents.
LEMMA StoredType ==
    ASSUME NEW b \in Int, NEW a \in [cents : Nat, ticks : 0 .. (Ticks - 1)]
    PROVE  /\ Stored(a) \in Nat
           /\ Stored(Plus(b, a)) \in Int
           /\ Stored(Minus(b, a)) \in Int
BY MoneyAssumption DEF Stored, Plus, Minus

LEMMA EntryTypes ==
    ASSUME TypeOK, NEW r \in Requests, NEW w \in Wallets,
           NEW type \in {"DEBIT", "CREDIT"}
    PROVE  /\ BalanceAfter(r, w, type) \in Int
           /\ EntryFor(r, w, type) \in EntryType
<1>1. op[r] \in Operations \cup {NoOp} /\ seen[r][w].balance \in Int
  BY DEF TypeOK, Row
<1>2. op[r].amount \in [cents : Nat, ticks : 0 .. (Ticks - 1)]
  BY <1>1, OperationAmount
<1>3. /\ Stored(op[r].amount) \in Int
      /\ Stored(Plus(seen[r][w].balance, op[r].amount)) \in Int
      /\ Stored(Minus(seen[r][w].balance, op[r].amount)) \in Int
  BY <1>1, <1>2, StoredType
<1>4. BalanceAfter(r, w, type) \in Int
  BY <1>3 DEF BalanceAfter
<1> QED
  BY <1>3, <1>4 DEF EntryFor, EntryType

-----------------------------------------------------------------------------
(* Type correctness.                                                       *)

LEMMA InitType == Init => TypeOK
<1> SUFFICES ASSUME Init PROVE TypeOK
  OBVIOUS
<1> USE DEF Init, TransactionInit, WalletInit
<1>1. balance \in [Wallets -> Int] /\ status \in [Wallets -> WalletStatus \cup {"ABSENT"}]
  BY MoneyAssumption, TransactionServiceAssumption
<1>2. ledger \in [Wallets -> Seq(EntryType)]
  <2> SUFFICES ASSUME NEW w \in Wallets PROVE ledger[w] \in Seq(EntryType)
    BY DEF Init
  <2>1. [txn |-> NoReq, type |-> "CREDIT", amount |-> Opening[w],
         balanceAfter |-> Opening[w]] \in EntryType
    BY MoneyAssumption, TransactionServiceAssumption DEF EntryType
  <2> QED
    BY <2>1
<1>3. NoRow \in Row /\ NoEntry \in EntryType
  BY DEF NoRow, Row, NoEntry, EntryType
<1> QED
  BY <1>1, <1>2, <1>3 DEF TypeOK, PcType

\* The end of a transaction resets well-typed state to well-typed state.
LEMMA EndTransactionType ==
    ASSUME TypeOK, NEW r \in Requests, EndTransaction(r)
    PROVE  /\ lockedBy' \in [Wallets -> Requests \cup {NoReq}]
           /\ want' \in [Requests -> SUBSET Wallets]
           /\ seen' \in [Requests -> [Wallets -> Row]]
           /\ txnDraft' \in [Requests -> {"NONE", "PENDING", "SUCCESS"}]
           /\ posted' \in [Requests -> SUBSET Wallets]
           /\ entryDraft' \in [Requests -> [Wallets -> EntryType]]
           /\ rowDraft' \in [Requests -> [Wallets -> Int]]
<1>1. NoRow \in Row /\ NoEntry \in EntryType
  BY DEF NoRow, Row, NoEntry, EntryType
<1> QED
  BY <1>1 DEF TypeOK, EndTransaction

\* Posting writes a well-typed entry and balance.
LEMMA PostType ==
    ASSUME TypeOK, NEW r \in Requests, NEW w \in Wallets,
           NEW type \in {"DEBIT", "CREDIT"}, PostTransaction(r, w, type)
    PROVE  /\ posted' \in [Requests -> SUBSET Wallets]
           /\ entryDraft' \in [Requests -> [Wallets -> EntryType]]
           /\ rowDraft' \in [Requests -> [Wallets -> Int]]
<1>1. BalanceAfter(r, w, type) \in Int /\ EntryFor(r, w, type) \in EntryType
  BY EntryTypes
<1>2. entryDraft' \in [Requests -> [Wallets -> EntryType]]
  BY <1>1 DEF TypeOK, PostTransaction
<1>3. rowDraft' \in [Requests -> [Wallets -> Int]]
  BY <1>1 DEF TypeOK, PostTransaction
<1>4. posted' \in [Requests -> SUBSET Wallets]
  BY DEF TypeOK, PostTransaction
<1> QED
  BY <1>2, <1>3, <1>4

\* Rolling back, for whatever reason, keeps the types.
LEMMA RollbackType ==
    ASSUME TypeOK, NEW r \in Requests, Rollback(r), UNCHANGED taskVars
    PROVE  TypeOK'
<1>1. pc' \in [Requests -> PcType] /\ op' \in [Requests -> Operations \cup {NoOp}]
  BY DEF TypeOK, PcType, Rollback
<1>2. EndTransaction(r)
  BY DEF Rollback
<1> QED
  BY <1>1, <1>2, EndTransactionType DEF TypeOK, Rollback, booksVars, taskVars

\* Every step of a request keeps the types.
LEMMA TransactionType ==
    ASSUME TypeOK, TransactionNext, UNCHANGED taskVars
    PROVE  TypeOK'
<1> USE DEF tableVars, booksVars, draftVars, taskVars
<1>1. ASSUME NEW r \in Requests, NEW o \in Operations, Receive(r, o) \/ Refuse(r, o)
      PROVE  TypeOK'
  BY <1>1 DEF TypeOK, PcType, Receive, Refuse
<1>2. ASSUME NEW r \in Requests, Begin(r) PROVE TypeOK'
  <2>1. Targets(op[r]) \subseteq Wallets
    BY OperationAmount DEF TypeOK, Targets
  <2> QED
    BY <1>2, <2>1 DEF TypeOK, PcType, Begin
<1>3. ASSUME NEW r \in Requests, NEW w \in Wallets, LockRow(r, w) PROVE TypeOK'
  <2>1. RowOf(w) \in Row
    BY DEF TypeOK, RowOf, Row
  <2>2. seen' \in [Requests -> [Wallets -> Row]]
    BY <1>3, <2>1 DEF TypeOK, LockRow
  <2>3. want' \in [Requests -> SUBSET Wallets]
    BY <1>3 DEF TypeOK, LockRow
  <2> QED
    BY <1>3, <2>2, <2>3 DEF TypeOK, LockRow
<1>4. ASSUME NEW r \in Requests, CreateTransaction(r) \/ MarkSuccess(r) PROVE TypeOK'
  BY <1>4 DEF TypeOK, PcType, CreateTransaction, MarkSuccess
<1>5. ASSUME NEW r \in Requests, PostDebit(r) PROVE TypeOK'
  <2>1. op[r].sender \in Wallets
    BY <1>5, OperationAmount DEF TypeOK, PostDebit, Targets
  <2> QED
    BY <1>5, <2>1, PostType DEF TypeOK, PostDebit
<1>6. ASSUME NEW r \in Requests, PostCredit(r) PROVE TypeOK'
  <2>1. op[r].receiver \in Wallets
    BY <1>6, OperationAmount DEF TypeOK, PostCredit, Targets
  <2> QED
    BY <1>6, <2>1, PostType DEF TypeOK, PostCredit
<1>7. ASSUME NEW r \in Requests, Commit(r) PROVE TypeOK'
  <2>1. balance' \in [Wallets -> Int]
    BY <1>7 DEF TypeOK, Commit
  <2>2. ledger' \in [Wallets -> Seq(EntryType)]
    <3>1. \A w \in Wallets : Append(ledger[w], entryDraft[r][w]) \in Seq(EntryType)
      BY DEF TypeOK
    <3> QED
      BY <1>7, <3>1 DEF TypeOK, Commit
  <2>3. txns' \in [Requests -> {"NONE", "PENDING", "SUCCESS"}] /\ pc' \in [Requests -> PcType]
    BY <1>7 DEF TypeOK, PcType, Commit
  <2> QED
    BY <1>7, <2>1, <2>2, <2>3, EndTransactionType DEF TypeOK, Commit
<1>8. ASSUME NEW r \in Requests, Reject(r) \/ Overflow(r) \/ Abort(r) PROVE TypeOK'
  BY <1>8, RollbackType DEF Reject, Overflow, Abort
<1> QED
  BY <1>1, <1>2, <1>3, <1>4, <1>5, <1>6, <1>7, <1>8 DEF TransactionNext, Progress

\* Every step of a task keeps the types.
LEMMA WalletType ==
    ASSUME TypeOK, WalletNext, UNCHANGED <<booksVars, requestVars>>
    PROVE  TypeOK'
<1> USE DEF tableVars, booksVars, draftVars, requestVars, WalletStatus
<1>1. ASSUME NEW t \in Tasks, NEW k \in TaskType, ReadWallet(t, k) \/ TurnDown(t, k)
      PROVE  TypeOK'
  <2>1. status[k.wallet] \in WalletStatus \cup {"ABSENT"}
    BY DEF TypeOK, TaskType
  <2>2. CASE ReadWallet(t, k)
    BY <2>1, <2>2 DEF TypeOK, ReadWallet
  <2>3. CASE TurnDown(t, k)
    BY <2>3 DEF TypeOK, TurnDown
  <2> QED
    BY <1>1, <2>2, <2>3
<1>2. ASSUME NEW t \in Tasks, InsertWallet(t) PROVE TypeOK'
  <2>1. task[t].wallet \in Wallets
    BY <1>2 DEF TypeOK, TaskType, NoTask, InsertWallet
  <2>2. balance' \in [Wallets -> Int] /\ status' \in [Wallets -> WalletStatus \cup {"ABSENT"}]
    BY <1>2, <2>1 DEF TypeOK, InsertWallet
  <2> QED
    BY <1>2, <2>2 DEF TypeOK, InsertWallet, EndTask
<1>3. ASSUME NEW t \in Tasks, InsertConflict(t) \/ Abandon(t) PROVE TypeOK'
  BY <1>3 DEF TypeOK, InsertConflict, Abandon, EndTask
<1>4. ASSUME NEW t \in Tasks, UpdateStatus(t) PROVE TypeOK'
  <2>1. \A kind \in DOMAIN Target : Target[kind] \in WalletStatus
    BY DEF Target
  <2>2. status' \in [Wallets -> WalletStatus \cup {"ABSENT"}]
    BY <1>4, <2>1 DEF TypeOK, UpdateStatus
  <2> QED
    BY <1>4, <2>2 DEF TypeOK, UpdateStatus, EndTask
<1> QED
  BY <1>1, <1>2, <1>3, <1>4 DEF WalletNext, TaskProgress

LEMMA NextType == TypeOK /\ [Next]_vars => TypeOK'
<1>1. TypeOK /\ UNCHANGED vars => TypeOK'
  BY DEF TypeOK, vars, tableVars, booksVars, draftVars, requestVars, taskVars
<1> QED
  BY <1>1, TransactionType, WalletType DEF Next, Quiescent

\* Every variable keeps its type, for every value of the constants.
THEOREM TypeCorrect == Spec => []TypeOK
BY InitType, NextType, PTL DEF Spec

-----------------------------------------------------------------------------
(* The inductive invariant.                                                *)

LEMMA InitInv == Init => IInv
<1> SUFFICES ASSUME Init PROVE IInv
  OBVIOUS
<1> USE DEF Init, TransactionInit
<1>1. TypeOK
  BY InitType
<1>2. RowsHeld /\ LockedRowsExist
  BY WalletTableAssumption DEF RowsHeld, LockedRowsExist, IsLocked
<1>3. RequestsInOrder
  BY DEF RequestsInOrder, IsValidated, HasItsDrafts, Targets, NoOp
<1>4. CommittedRows
  BY MoneyAssumption, TransactionServiceAssumption DEF CommittedRows, Exists
<1> QED
  BY <1>1, <1>2, <1>3, <1>4 DEF IInv

\* What is said of a request only depends on the state that is its own.
LEMMA OwnState ==
    ASSUME NEW q \in Requests,
           pc'[q] = pc[q], op'[q] = op[q], seen'[q] = seen[q],
           txnDraft'[q] = txnDraft[q], posted'[q] = posted[q],
           entryDraft'[q] = entryDraft[q], rowDraft'[q] = rowDraft[q],
           IsValidated(q), HasItsDrafts(q)
    PROVE  IsValidated(q)' /\ HasItsDrafts(q)'
<1>1. IsValidated(q)'
  BY DEF IsValidated, IsAcceptable
<1>2. HasItsDrafts(q)'
  BY DEF HasItsDrafts, EntryFor, BalanceAfter, Direction
<1> QED
  BY <1>1, <1>2

\* A validated request holds the rows of all its wallets, and they are ACTIVE.
LEMMA TargetsHeld ==
    ASSUME IInv, NEW r \in Requests, IsAcceptable(r), NEW w \in Targets(op[r])
    PROVE  /\ w \in Wallets
           /\ lockedBy[w] = r
           /\ status[w] = "ACTIVE"
           /\ seen[r][w] = RowOf(w)
           /\ seen[r][w].balance = balance[w]
<1>1. w \in Wallets
  BY OperationAmount DEF IInv, TypeOK, Targets
<1>2. seen[r][w].status = "ACTIVE"
  BY DEF IsAcceptable
<1>3. seen[r][w] = IF lockedBy[w] = r THEN RowOf(w) ELSE NoRow
  BY <1>1 DEF IInv, RowsHeld
<1> QED
  BY <1>1, <1>2, <1>3 DEF RowOf, NoRow

\* Steps that neither touch a table nor lock a row.
LEMMA PrivateInv ==
    ASSUME IInv, TypeOK', NEW r \in Requests,
           UNCHANGED <<tableVars, seen, txns>>,
           \A q \in Requests : want'[q] \subseteq want[q] \cup {w \in Wallets : Exists(w)},
           pc'[r] # "done", pc[r] # "done",
           \A q \in Requests \ {r} : pc'[q] = pc[q]
    PROVE  RowsHeld' /\ LockedRowsExist' /\ CommittedRows'
<1>1. RowsHeld'
  BY DEF IInv, RowsHeld, RowOf, tableVars
<1>2. LockedRowsExist'
  BY DEF IInv, LockedRowsExist, IsLocked, Exists, tableVars, TypeOK
<1>3. CommittedRows'
  BY DEF IInv, CommittedRows, Exists, tableVars, TypeOK
<1> QED
  BY <1>1, <1>2, <1>3

\* Ending a transaction releases its rows and leaves those of the others.
LEMMA EndInv ==
    ASSUME IInv, TypeOK', NEW r \in Requests, EndTransaction(r), UNCHANGED status,
           \A w \in Wallets : lockedBy[w] # r => balance'[w] = balance[w]
    PROVE  RowsHeld' /\ LockedRowsExist'
<1> USE DEF IInv, EndTransaction
<1>1. RowsHeld'
  <2> SUFFICES ASSUME NEW q \in Requests, NEW w \in Wallets
               PROVE  seen'[q][w] = IF lockedBy'[w] = q THEN RowOf(w)' ELSE NoRow
    BY DEF RowsHeld
  <2>1. seen[q][w] = IF lockedBy[w] = q THEN RowOf(w) ELSE NoRow
    BY DEF RowsHeld
  <2>2. lockedBy'[w] = IF lockedBy[w] = r THEN NoReq ELSE lockedBy[w]
    OBVIOUS
  <2>3. CASE q = r
    BY <2>2, <2>3, WalletTableAssumption DEF TypeOK
  <2>4. CASE q # r
    <3>1. seen'[q] = seen[q]
      BY <2>4 DEF TypeOK
    <3>2. CASE lockedBy[w] = q
      BY <2>1, <2>2, <2>4, <3>1, <3>2 DEF RowOf
    <3>3. CASE lockedBy[w] # q
      BY <2>1, <2>2, <3>1, <3>3, WalletTableAssumption
    <3> QED
      BY <3>2, <3>3
  <2> QED
    BY <2>3, <2>4
<1>2. LockedRowsExist'
  BY DEF LockedRowsExist, IsLocked, Exists, TypeOK
<1> QED
  BY <1>1, <1>2

\* A rollback leaves the tables and the other requests alone.
LEMMA RollbackInv ==
    ASSUME IInv, TypeOK', NEW r \in Requests, Rollback(r), pc[r] # "done"
    PROVE  IInv'
<1> USE DEF Rollback, booksVars
<1>1. RowsHeld' /\ LockedRowsExist'
  BY EndInv
<1>2. RequestsInOrder'
  <2> SUFFICES ASSUME NEW q \in Requests PROVE IsValidated(q)' /\ HasItsDrafts(q)'
    BY DEF RequestsInOrder
  <2>1. CASE q = r
    BY <2>1 DEF IInv, TypeOK, EndTransaction, IsValidated, HasItsDrafts
  <2>2. CASE q # r
    BY <2>2, OwnState DEF IInv, TypeOK, EndTransaction, RequestsInOrder
  <2> QED
    BY <2>1, <2>2
<1>3. CommittedRows'
  BY DEF IInv, TypeOK, CommittedRows, Exists
<1> QED
  BY <1>1, <1>2, <1>3 DEF IInv

LEMMA ReceiveInv ==
    ASSUME IInv, TypeOK', NEW r \in Requests, NEW o \in Operations,
           Receive(r, o) \/ Refuse(r, o)
    PROVE  IInv'
<1> USE DEF Receive, Refuse, booksVars, draftVars
<1>1. RowsHeld' /\ LockedRowsExist' /\ CommittedRows'
  <2>1. /\ UNCHANGED <<tableVars, seen, want, txns>>
        /\ pc[r] = "idle" /\ pc'[r] \in {"begin", "failed"}
        /\ \A q \in Requests \ {r} : pc'[q] = pc[q]
    BY DEF IInv, TypeOK
  <2> QED
    BY <2>1, PrivateInv
<1>2. RequestsInOrder'
  <2> SUFFICES ASSUME NEW q \in Requests PROVE IsValidated(q)' /\ HasItsDrafts(q)'
    BY DEF RequestsInOrder
  <2>1. CASE q = r
    <3>1. IsValidated(r)'
      BY DEF IInv, TypeOK, IsValidated, IsRefused
    <3>2. posted[r] = {}
      BY DEF IInv, RequestsInOrder, HasItsDrafts
    <3>3. posted'[r] = {} /\ pc'[r] \in {"begin", "failed"}
      BY <3>2 DEF IInv, TypeOK
    <3> QED
      BY <2>1, <3>1, <3>3 DEF HasItsDrafts
  <2>2. CASE q # r
    BY <2>2, OwnState DEF IInv, TypeOK, RequestsInOrder
  <2> QED
    BY <2>1, <2>2
<1> QED
  BY <1>1, <1>2 DEF IInv

LEMMA BeginInv ==
    ASSUME IInv, TypeOK', NEW r \in Requests, Begin(r)
    PROVE  IInv'
<1> USE DEF Begin, booksVars, draftVars
<1>1. RowsHeld' /\ LockedRowsExist' /\ CommittedRows'
  <2>1. /\ UNCHANGED <<tableVars, seen, txns>>
        /\ pc[r] = "begin" /\ pc'[r] = "lock"
        /\ \A q \in Requests \ {r} : pc'[q] = pc[q]
    BY DEF IInv, TypeOK
  <2>2. \A q \in Requests : want'[q] \subseteq want[q] \cup {w \in Wallets : Exists(w)}
    BY OperationAmount DEF IInv, TypeOK, Targets
  <2> QED
    BY <2>1, <2>2, PrivateInv
<1>2. RequestsInOrder'
  <2> SUFFICES ASSUME NEW q \in Requests PROVE IsValidated(q)' /\ HasItsDrafts(q)'
    BY DEF RequestsInOrder
  <2>1. CASE q = r
    <3>1. IsValidated(r) /\ HasItsDrafts(r)
      BY DEF IInv, RequestsInOrder
    <3>2. pc[r] = "begin" /\ pc'[r] = "lock"
      BY DEF IInv, TypeOK
    <3> QED
      BY <2>1, <3>1, <3>2 DEF IsValidated, HasItsDrafts
  <2>2. CASE q # r
    BY <2>2, OwnState DEF IInv, TypeOK, RequestsInOrder
  <2> QED
    BY <2>1, <2>2
<1> QED
  BY <1>1, <1>2 DEF IInv

LEMMA LockRowInv ==
    ASSUME IInv, TypeOK', NEW r \in Requests, NEW w \in Wallets, LockRow(r, w)
    PROVE  IInv'
<1> USE DEF LockRow, booksVars, draftVars
<1>1. RowsHeld'
  <2> SUFFICES ASSUME NEW q \in Requests, NEW v \in Wallets
               PROVE  seen'[q][v] = IF lockedBy'[v] = q THEN RowOf(v)' ELSE NoRow
    BY DEF RowsHeld
  <2>1. seen[q][v] = IF lockedBy[v] = q THEN RowOf(v) ELSE NoRow
    BY DEF IInv, RowsHeld
  <2>2. RowOf(v)' = RowOf(v)
    BY DEF RowOf
  <2>3. CASE q = r /\ v = w
    BY <2>2, <2>3 DEF IInv, TypeOK
  <2>4. CASE v # w
    BY <2>1, <2>2, <2>4 DEF IInv, TypeOK
  <2>5. CASE q # r /\ v = w
    BY <2>1, <2>5, WalletTableAssumption DEF IInv, TypeOK, IsLocked
  <2> QED
    BY <2>3, <2>4, <2>5
<1>2. LockedRowsExist'
  BY DEF IInv, TypeOK, LockedRowsExist, IsLocked, Exists
<1>3. RequestsInOrder'
  <2> SUFFICES ASSUME NEW q \in Requests PROVE IsValidated(q)' /\ HasItsDrafts(q)'
    BY DEF RequestsInOrder
  <2>1. CASE q = r
    BY <2>1 DEF IInv, TypeOK, RequestsInOrder, IsValidated, HasItsDrafts
  <2>2. CASE q # r
    BY <2>2, OwnState DEF IInv, TypeOK, RequestsInOrder
  <2> QED
    BY <2>1, <2>2
<1>4. CommittedRows'
  BY DEF IInv, TypeOK, CommittedRows, Exists
<1> QED
  BY <1>1, <1>2, <1>3, <1>4 DEF IInv

LEMMA CreateOrMarkInv ==
    ASSUME IInv, TypeOK', NEW r \in Requests, CreateTransaction(r) \/ MarkSuccess(r)
    PROVE  IInv'
<1>1. /\ UNCHANGED <<tableVars, seen, want, txns, op, posted, entryDraft, rowDraft>>
      /\ pc[r] \notin {"done", "idle"} /\ pc'[r] \in {"post", "commit"}
      /\ \A q \in Requests \ {r} : pc'[q] = pc[q] /\ txnDraft'[q] = txnDraft[q]
  BY DEF IInv, TypeOK, CreateTransaction, MarkSuccess, booksVars
<1>2. RowsHeld' /\ LockedRowsExist' /\ CommittedRows'
  BY <1>1, PrivateInv
<1>3. RequestsInOrder'
  <2> SUFFICES ASSUME NEW q \in Requests PROVE IsValidated(q)' /\ HasItsDrafts(q)'
    BY DEF RequestsInOrder
  <2>1. IsValidated(q) /\ HasItsDrafts(q)
    BY DEF IInv, RequestsInOrder
  <2>2. CASE q = r
    <3>1. IsAcceptable(r)
      BY <2>1, <2>2 DEF CreateTransaction, MarkSuccess, IsValidated
    <3>2. IsAcceptable(r)'
      BY <1>1, <3>1 DEF IsAcceptable
    <3>3. IsValidated(r)'
      BY <1>1, <2>1, <2>2, <3>2 DEF IsValidated, CreateTransaction, MarkSuccess
    <3>4. pc'[r] = "commit" => posted[r] = Targets(op[r]) /\ txnDraft'[r] = "SUCCESS"
      BY DEF IInv, TypeOK, CreateTransaction, MarkSuccess
    <3>5. HasItsDrafts(r)'
      BY <1>1, <2>1, <2>2, <3>4 DEF HasItsDrafts, EntryFor, BalanceAfter, Direction
    <3> QED
      BY <2>2, <3>3, <3>5
  <2>3. CASE q # r
    BY <1>1, <2>1, <2>3, OwnState
  <2> QED
    BY <2>2, <2>3
<1> QED
  BY <1>2, <1>3 DEF IInv

\* Posting in the direction that belongs to the wallet.
LEMMA PostInv ==
    ASSUME IInv, TypeOK', NEW r \in Requests, NEW w \in Targets(op[r]),
           pc[r] = "post", PostTransaction(r, w, Direction(r, w)),
           UNCHANGED <<tableVars, booksVars, pc, op, want, seen, txnDraft>>
    PROVE  IInv'
<1>1. RowsHeld' /\ LockedRowsExist' /\ CommittedRows'
  BY PrivateInv DEF booksVars
<1>2. RequestsInOrder'
  <2> SUFFICES ASSUME NEW q \in Requests PROVE IsValidated(q)' /\ HasItsDrafts(q)'
    BY DEF RequestsInOrder
  <2>1. IsValidated(q) /\ HasItsDrafts(q)
    BY DEF IInv, RequestsInOrder
  <2>2. CASE q = r
    <3>1. IsValidated(r)'
      BY <2>1, <2>2 DEF IsValidated, IsAcceptable
    <3>2. \A v, type : /\ EntryFor(r, v, type)' = EntryFor(r, v, type)
                       /\ BalanceAfter(r, v, type)' = BalanceAfter(r, v, type)
                       /\ Direction(r, v)' = Direction(r, v)
      BY DEF EntryFor, BalanceAfter, Direction
    <3>3. w \in Wallets
      BY OperationAmount DEF IInv, TypeOK, Targets
    <3>4. /\ posted'[r] = posted[r] \cup {w}
          /\ entryDraft'[r][w] = EntryFor(r, w, Direction(r, w))
          /\ rowDraft'[r][w] = BalanceAfter(r, w, Direction(r, w))
          /\ Fits(rowDraft'[r][w])
      BY <3>3 DEF IInv, TypeOK, PostTransaction
    <3>5. \A v \in posted[r] \ {w} :
             entryDraft'[r][v] = entryDraft[r][v] /\ rowDraft'[r][v] = rowDraft[r][v]
      BY DEF IInv, TypeOK, PostTransaction
    <3>6. \A v \in posted'[r] :
             /\ entryDraft'[r][v] = EntryFor(r, v, Direction(r, v))'
             /\ rowDraft'[r][v] = BalanceAfter(r, v, Direction(r, v))'
             /\ Fits(rowDraft[r][v])'
      BY <2>1, <2>2, <3>2, <3>4, <3>5 DEF HasItsDrafts, Fits
    <3>7. HasItsDrafts(r)'
      BY <2>1, <2>2, <3>4, <3>6 DEF HasItsDrafts
    <3> QED
      BY <2>2, <3>1, <3>7
  <2>3. CASE q # r
    BY <2>1, <2>3, OwnState DEF IInv, TypeOK, PostTransaction
  <2> QED
    BY <2>2, <2>3
<1> QED
  BY <1>1, <1>2 DEF IInv

LEMMA PostDebitInv ==
    ASSUME IInv, TypeOK', NEW r \in Requests, PostDebit(r)
    PROVE  IInv'
<1>1. Direction(r, op[r].sender) = "DEBIT"
  BY DEF Direction
<1> QED
  BY <1>1, PostInv DEF PostDebit

LEMMA PostCreditInv ==
    ASSUME IInv, TypeOK', NEW r \in Requests, PostCredit(r)
    PROVE  IInv'
<1>1. op[r].sender # op[r].receiver
  BY DEF IInv, RequestsInOrder, IsValidated, PostCredit
<1>2. Direction(r, op[r].receiver) = "CREDIT"
  BY <1>1 DEF Direction
<1> QED
  BY <1>2, PostInv DEF PostCredit

\* A validated posting leaves a balance that is not negative.
LEMMA PostedNotNegative ==
    ASSUME IInv, NEW r \in Requests, pc[r] \in {"post", "commit"}, NEW w \in Targets(op[r])
    PROVE  BalanceAfter(r, w, Direction(r, w)) >= 0
<1>1. IsAcceptable(r)
  BY DEF IInv, RequestsInOrder, IsValidated
<1>2. w \in Wallets /\ seen[r][w].balance = balance[w] /\ balance[w] \in Nat
  BY <1>1, TargetsHeld, MoneyAssumption DEF IInv, CommittedRows
<1>3. op[r].amount \in [cents : Nat, ticks : 0 .. (Ticks - 1)]
  BY OperationAmount DEF IInv, TypeOK
<1>4. CASE w = op[r].sender
  <2>1. Covers(balance[w], op[r].amount)
    BY <1>1, <1>2, <1>4 DEF IsAcceptable, Targets
  <2> QED
    BY <1>2, <1>3, <1>4, <2>1, MoneyAssumption
    DEF BalanceAfter, Direction, Covers, Stored, Minus
<1>5. CASE w # op[r].sender
  BY <1>2, <1>3, <1>5, MoneyAssumption DEF BalanceAfter, Direction, Stored, Plus
<1> QED
  BY <1>4, <1>5

\* What a commit does to the tables, in terms of the committed rows.
LEMMA CommitEffect ==
    ASSUME IInv, NEW r \in Requests, Commit(r)
    PROVE  /\ posted[r] = Targets(op[r])
           /\ IsAcceptable(r)
           /\ \A w \in Targets(op[r]) :
                 /\ w \in Wallets /\ lockedBy[w] = r /\ status[w] = "ACTIVE"
                 /\ balance'[w] = BalanceAfter(r, w, Direction(r, w))
                 /\ balance'[w] \in 0 .. MaxCents
                 /\ ledger'[w] = Append(ledger[w], EntryFor(r, w, Direction(r, w)))
           /\ \A w \in Wallets \ Targets(op[r]) :
                 balance'[w] = balance[w] /\ ledger'[w] = ledger[w]
<1>1. pc[r] = "commit" /\ IsValidated(r) /\ HasItsDrafts(r)
  BY DEF IInv, RequestsInOrder, Commit
<1>2. posted[r] = Targets(op[r]) /\ IsAcceptable(r)
  BY <1>1 DEF IsValidated, HasItsDrafts
<1>3. ASSUME NEW w \in Targets(op[r])
      PROVE  /\ w \in Wallets /\ lockedBy[w] = r /\ status[w] = "ACTIVE"
             /\ balance'[w] = BalanceAfter(r, w, Direction(r, w))
             /\ balance'[w] \in 0 .. MaxCents
             /\ ledger'[w] = Append(ledger[w], EntryFor(r, w, Direction(r, w)))
  <2>1. w \in Wallets /\ lockedBy[w] = r /\ status[w] = "ACTIVE"
    BY <1>2, TargetsHeld
  <2>2. balance'[w] = rowDraft[r][w] /\ ledger'[w] = Append(ledger[w], entryDraft[r][w])
    BY <1>2, <2>1 DEF Commit
  <2>3. /\ rowDraft[r][w] = BalanceAfter(r, w, Direction(r, w))
        /\ entryDraft[r][w] = EntryFor(r, w, Direction(r, w))
        /\ rowDraft[r][w] <= MaxCents
    BY <1>1, <1>2 DEF HasItsDrafts, Fits
  <2>4. rowDraft[r][w] \in Int /\ rowDraft[r][w] >= 0
    BY <1>1, <2>1, <2>3, PostedNotNegative DEF IInv, TypeOK
  <2> QED
    BY <2>1, <2>2, <2>3, <2>4, MoneyAssumption
<1>4. \A w \in Wallets \ Targets(op[r]) :
         balance'[w] = balance[w] /\ ledger'[w] = ledger[w]
  BY <1>2 DEF Commit
<1> QED
  BY <1>2, <1>3, <1>4

LEMMA CommitInv ==
    ASSUME IInv, TypeOK', NEW r \in Requests, Commit(r)
    PROVE  IInv'
<1>1. \A w \in Wallets : lockedBy[w] # r => balance'[w] = balance[w]
  BY CommitEffect
<1>2. RowsHeld' /\ LockedRowsExist'
  BY <1>1, EndInv DEF Commit
<1>3. RequestsInOrder'
  <2> SUFFICES ASSUME NEW q \in Requests PROVE IsValidated(q)' /\ HasItsDrafts(q)'
    BY DEF RequestsInOrder
  <2>1. IsValidated(q) /\ HasItsDrafts(q)
    BY DEF IInv, RequestsInOrder
  <2>2. CASE q = r
    <3>1. pc[r] = "commit" /\ pc'[r] = "done" /\ posted'[r] = {} /\ op' = op
      BY DEF IInv, TypeOK, Commit, EndTransaction
    <3> QED
      BY <2>1, <2>2, <3>1 DEF IsValidated, HasItsDrafts
  <2>3. CASE q # r
    BY <2>1, <2>3, OwnState DEF IInv, TypeOK, Commit, EndTransaction
  <2> QED
    BY <2>2, <2>3
<1>4. CommittedRows'
  <2>1. ASSUME NEW w \in Wallets
        PROVE  balance'[w] \in 0 .. MaxCents /\ (~Exists(w)' => balance'[w] = 0)
    <3>1. CASE w \in Targets(op[r])
      BY <3>1, CommitEffect DEF Exists, Commit
    <3>2. CASE w \notin Targets(op[r])
      BY <3>2, CommitEffect DEF Exists, Commit, IInv, CommittedRows
    <3> QED
      BY <3>1, <3>2
  <2>2. txnDraft[r] = "SUCCESS"
    BY DEF IInv, RequestsInOrder, HasItsDrafts, Commit
  <2>3. ASSUME NEW q \in Requests
        PROVE  txns'[q] = IF pc'[q] = "done" THEN "SUCCESS" ELSE "NONE"
    BY <2>2 DEF IInv, TypeOK, CommittedRows, Commit
  <2> QED
    BY <2>1, <2>3 DEF CommittedRows
<1> QED
  BY <1>2, <1>3, <1>4 DEF IInv

\* No lock is taken or given up, no row vanishes, locked rows stay as they are.
KeepsLockedRows ==
    /\ lockedBy' = lockedBy
    /\ \A w \in Wallets :
          /\ Exists(w) => Exists(w)'
          /\ IsLocked(w) => RowOf(w)' = RowOf(w)
          /\ balance'[w] = balance[w]

\* Tasks change rows that nobody has locked, and nothing of the requests.
LEMMA TaskInv ==
    ASSUME IInv, TypeOK', WalletNext, UNCHANGED <<booksVars, requestVars>>
    PROVE  IInv'
<1> USE DEF booksVars, requestVars, draftVars
<1>1. KeepsLockedRows
  <2>1. ASSUME NEW t \in Tasks, InsertWallet(t) PROVE KeepsLockedRows
    <3> DEFINE w == task[t].wallet
    <3>1. /\ w \in Wallets /\ ~Exists(w) /\ ~IsLocked(w) /\ balance[w] = 0
      <4>1. w \in Wallets
        BY <2>1 DEF IInv, TypeOK, TaskType, NoTask, InsertWallet
      <4> QED
        BY <2>1, <4>1 DEF InsertWallet, IInv, LockedRowsExist, CommittedRows
    <3>2. /\ status' = [status EXCEPT ![w] = "ACTIVE"]
          /\ balance' = [balance EXCEPT ![w] = 0]
          /\ lockedBy' = lockedBy
      BY <2>1 DEF InsertWallet
    <3> HIDE DEF w
    <3>3. ASSUME NEW v \in Wallets
          PROVE  status'[v] = (IF v = w THEN "ACTIVE" ELSE status[v]) /\ balance'[v] = balance[v]
      BY <3>1, <3>2 DEF IInv, TypeOK
    <3>4. \A v \in Wallets : /\ Exists(v) => Exists(v)'
                             /\ IsLocked(v) => RowOf(v)' = RowOf(v)
      BY <3>1, <3>3 DEF Exists, RowOf
    <3> QED
      BY <3>2, <3>3, <3>4 DEF KeepsLockedRows
  <2>2. ASSUME NEW t \in Tasks, UpdateStatus(t) PROVE KeepsLockedRows
    <3> DEFINE w == task[t].wallet
    <3>1. \E s \in WalletStatus : status' = [status EXCEPT ![w] = s]
      <4>1. \A kind \in DOMAIN Target : Target[kind] \in WalletStatus
        BY DEF Target, WalletStatus
      <4> QED
        BY <2>2, <4>1 DEF UpdateStatus
    <3>2. ~IsLocked(w) /\ balance' = balance /\ lockedBy' = lockedBy
      BY <2>2 DEF UpdateStatus
    <3> HIDE DEF w
    <3> QED
      BY <3>1, <3>2 DEF IInv, TypeOK, KeepsLockedRows, WalletStatus, Exists, RowOf, IsLocked
  <2>3. ASSUME UNCHANGED tableVars PROVE KeepsLockedRows
    BY <2>3 DEF KeepsLockedRows, tableVars, Exists, RowOf
  <2> QED
    BY <2>1, <2>2, <2>3
    DEF WalletNext, TaskProgress, ReadWallet, TurnDown, InsertConflict, Abandon
<1>2. RowsHeld'
  BY <1>1, WalletTableAssumption DEF KeepsLockedRows, IInv, RowsHeld, IsLocked
<1>3. LockedRowsExist'
  BY <1>1 DEF KeepsLockedRows, IInv, TypeOK, LockedRowsExist, IsLocked
<1>4. RequestsInOrder'
  <2> SUFFICES ASSUME NEW q \in Requests PROVE IsValidated(q)' /\ HasItsDrafts(q)'
    BY DEF RequestsInOrder
  <2> QED
    BY OwnState DEF IInv, RequestsInOrder
<1>5. CommittedRows'
  BY <1>1 DEF KeepsLockedRows, IInv, CommittedRows
<1> QED
  BY <1>2, <1>3, <1>4, <1>5 DEF IInv

LEMMA NextInv == IInv /\ [Next]_vars => IInv'
<1> SUFFICES ASSUME IInv, [Next]_vars PROVE IInv'
  OBVIOUS
<1>1. TypeOK'
  BY NextType DEF IInv
<1>2. CASE TransactionNext
  BY <1>1, <1>2, ReceiveInv, BeginInv, LockRowInv, CreateOrMarkInv, PostDebitInv,
     PostCreditInv, CommitInv, RollbackInv
  DEF TransactionNext, Progress, Reject, Overflow, Abort
<1>3. CASE WalletNext /\ UNCHANGED <<booksVars, requestVars>>
  BY <1>1, <1>3, TaskInv
<1>4. CASE UNCHANGED vars
  <2>1. UNCHANGED <<tableVars, booksVars, requestVars>>
    BY <1>4 DEF vars
  <2>2. RowsHeld' /\ LockedRowsExist' /\ CommittedRows'
    BY <2>1 DEF IInv, RowsHeld, LockedRowsExist, CommittedRows, RowOf, Exists, IsLocked,
                tableVars, booksVars, requestVars
  <2>3. RequestsInOrder'
    BY <2>1, OwnState DEF IInv, RequestsInOrder, requestVars, draftVars
  <2> QED
    BY <1>1, <2>2, <2>3 DEF IInv
<1> QED
  BY <1>2, <1>3, <1>4 DEF Next, Quiescent

\* The invariant holds in every reachable state.
THEOREM InvariantHolds == Spec => []IInv
BY InitInv, NextInv, PTL DEF Spec

-----------------------------------------------------------------------------
(* What it gives.                                                          *)

\* No wallet is ever overdrawn, whatever runs concurrently with what: the
\* funds were checked on a row that cannot have changed since.
THEOREM NeverOverdrawn == Spec => []NoOverdraft
<1>1. IInv => NoOverdraft
  BY MoneyAssumption DEF IInv, CommittedRows, NoOverdraft
<1> QED
  BY <1>1, InvariantHolds, PTL

\* Money moves only in wallets that are ACTIVE when it does: freezing and
\* closing wait for the rows of the transactions that validated them.
THEOREM ActiveWhenMoved == Spec => MoneyMovesOnlyWhenActive
<1>1. IInv /\ [Next]_vars =>
        \A w \in Wallets :
           ledger'[w] # ledger[w] => status[w] = "ACTIVE" /\ status'[w] = "ACTIVE"
  <2> SUFFICES ASSUME IInv, [Next]_vars, NEW w \in Wallets, ledger'[w] # ledger[w]
               PROVE  status[w] = "ACTIVE" /\ status'[w] = "ACTIVE"
    OBVIOUS
  <2>1. PICK r \in Requests : Commit(r)
    BY DEF Next, TransactionNext, WalletNext, Quiescent, vars, booksVars, Progress,
           Receive, Refuse, Begin, LockRow, CreateTransaction, PostDebit, PostCredit,
           MarkSuccess, Reject, Overflow, Abort, Rollback
  <2>2. w \in Targets(op[r])
    BY <2>1, CommitEffect
  <2> QED
    BY <2>1, <2>2, CommitEffect DEF Commit
<1> QED
  BY <1>1, InvariantHolds, PTL DEF Spec, MoneyMovesOnlyWhenActive

-----------------------------------------------------------------------------
(* The ledger explains the balances, if no amount is a half cent.          *)

\* No request asks for an amount half way between two cents.
NoHalfCents == \A a \in Amounts : ~IsHalfCent(a)

\* Rounding the new balance and rounding the amount then agree.
LEMMA RoundingAgrees ==
    ASSUME NEW b \in Int, NEW a \in [cents : Nat, ticks : 0 .. (Ticks - 1)]
    PROVE  /\ Stored(Plus(b, a)) = b + Stored(a)
           /\ ~IsHalfCent(a) => Stored(Minus(b, a)) = b - Stored(a)
<1>1. a.cents \in Nat /\ a.ticks \in Nat /\ Ticks \in Nat \ {0} /\ a.ticks < Ticks
  BY MoneyAssumption
<1>2. Stored(Plus(b, a)) = b + Stored(a)
  BY <1>1 DEF Stored, Plus
<1>3. ASSUME a.ticks = 0
      PROVE  Stored(Minus(b, a)) = b - Stored(a)
  BY <1>1, <1>3 DEF Stored, Minus
<1>4. ASSUME a.ticks # 0, ~IsHalfCent(a)
      PROVE  Stored(Minus(b, a)) = b - Stored(a)
  <2>1. CASE 2 * a.ticks > Ticks
    <3>1. Stored(a) = a.cents + 1 /\ ~(2 * (Ticks - a.ticks) >= Ticks)
      BY <1>1, <2>1 DEF Stored
    <3> QED
      BY <1>1, <1>4, <3>1 DEF Stored, Minus
  <2>2. CASE 2 * a.ticks < Ticks
    <3>1. Stored(a) = a.cents /\ 2 * (Ticks - a.ticks) >= Ticks
      BY <1>1, <2>2 DEF Stored
    <3> QED
      BY <1>1, <1>4, <3>1 DEF Stored, Minus
  <2> QED
    BY <1>1, <1>4, <2>1, <2>2 DEF IsHalfCent
<1> QED
  BY <1>2, <1>3, <1>4

\* What is posted moves the committed balance by the entry's amount.
LEMMA PostedExactly ==
    ASSUME NoHalfCents, IInv, NEW r \in Requests, IsAcceptable(r),
           NEW w \in Targets(op[r]), op[r] \in Operations
    PROVE  LET e == EntryFor(r, w, Direction(r, w))
           IN  /\ e \in EntryType
               /\ e.balanceAfter = balance[w] + Signed(e)
               /\ e.balanceAfter = BalanceAfter(r, w, Direction(r, w))
               /\ e.amount = Stored(op[r].amount)
               /\ e.txn = r
               /\ e.type = Direction(r, w)
<1> DEFINE e == EntryFor(r, w, Direction(r, w))
<1>1. w \in Wallets /\ seen[r][w].balance = balance[w]
  BY TargetsHeld
<1>2. op[r].amount \in Amounts /\ ~IsHalfCent(op[r].amount)
  BY DEF Operations, DepositOps, WithdrawOps, TransferOps, NoHalfCents
<1>3. op[r].amount \in [cents : Nat, ticks : 0 .. (Ticks - 1)] /\ balance[w] \in Int
  BY <1>1, <1>2, TransactionServiceAssumption DEF IInv, TypeOK
<1>4. /\ Stored(Plus(balance[w], op[r].amount)) = balance[w] + Stored(op[r].amount)
      /\ Stored(Minus(balance[w], op[r].amount)) = balance[w] - Stored(op[r].amount)
      /\ Stored(op[r].amount) \in Int
  BY <1>2, <1>3, RoundingAgrees, StoredType DEF IsHalfCent
<1>5. Direction(r, w) \in {"DEBIT", "CREDIT"}
  BY DEF Direction
<1>6. e \in EntryType
  BY <1>1, <1>5, EntryTypes DEF IInv
<1>7. e.balanceAfter = balance[w] + Signed(e)
  BY <1>1, <1>3, <1>4, <1>5 DEF EntryFor, BalanceAfter, Signed
<1> QED
  BY <1>6, <1>7 DEF EntryFor

\* A chain stays a chain when an entry is appended that continues it.
LEMMA AppendToChain ==
    ASSUME NEW l \in Seq(EntryType), NEW e \in EntryType,
           \A i \in 1 .. Len(l) : Chained(l, i),
           e.balanceAfter = LastBalance(l) + Signed(e)
    PROVE  /\ \A i \in 1 .. Len(Append(l, e)) : Chained(Append(l, e), i)
           /\ LastBalance(Append(l, e)) = e.balanceAfter
<1> DEFINE m == Append(l, e)
<1>1. Len(m) = Len(l) + 1 /\ Len(l) \in Nat /\ m[Len(m)] = e /\ m # <<>>
  OBVIOUS
<1>2. \A i \in 1 .. Len(l) : m[i] = l[i]
  OBVIOUS
<1>3. l = <<>> <=> Len(l) = 0
  OBVIOUS
<1>4. ASSUME NEW i \in 1 .. Len(m) PROVE Chained(m, i)
  <2>1. CASE i \in 1 .. Len(l)
    <3>1. Chained(l, i)
      BY <2>1
    <3>2. m[i] = l[i] /\ (i # 1 => m[i - 1] = l[i - 1])
      BY <1>1, <1>2, <2>1
    <3> QED
      BY <3>1, <3>2 DEF Chained
  <2>2. CASE i = Len(l) + 1
    BY <1>1, <1>2, <1>3, <2>2 DEF Chained, LastBalance
  <2> QED
    BY <1>1, <2>1, <2>2
<1>5. LastBalance(m) = e.balanceAfter
  BY <1>1 DEF LastBalance
<1> QED
  BY <1>4, <1>5

\* Steps that are not commits change neither the ledger nor a balance.
LEMMA OnlyCommitsMoveMoney ==
    ASSUME IInv, [Next]_vars, \A r \in Requests : ~Commit(r)
    PROVE  ledger' = ledger /\ txns' = txns /\ \A w \in Wallets : balance'[w] = balance[w]
<1>1. ASSUME NEW t \in Tasks, InsertWallet(t)
      PROVE  \A w \in Wallets : balance'[w] = balance[w]
  <2>1. task[t].wallet \in Wallets
    BY <1>1 DEF IInv, TypeOK, TaskType, NoTask, InsertWallet
  <2> QED
    BY <1>1, <2>1 DEF InsertWallet, IInv, TypeOK, CommittedRows
<1>2. UNCHANGED <<booksVars, tableVars>> \/ UNCHANGED <<booksVars, balance>>
        \/ (UNCHANGED booksVars /\ \E t \in Tasks : InsertWallet(t))
  BY DEF Next, TransactionNext, WalletNext, Quiescent, vars, tableVars, booksVars,
       Progress, Receive, Refuse, Begin, LockRow, CreateTransaction, PostDebit, PostCredit,
       MarkSuccess, Reject, Overflow, Abort, Rollback,
       TaskProgress, ReadWallet, TurnDown, InsertConflict, UpdateStatus, Abandon
<1> QED
  BY <1>1, <1>2 DEF booksVars, tableVars

\* What was committed is not asked for again: its operation stays what it was.
LEMMA CommittedStays ==
    ASSUME IInv, [Next]_vars, \A r \in Requests : ~Commit(r),
           NEW t \in Requests, txns[t] = "SUCCESS"
    PROVE  op'[t] = op[t]
<1>1. pc[t] = "done"
  BY DEF IInv, CommittedRows
<1> QED
  BY <1>1 DEF IInv, TypeOK, Next, TransactionNext, WalletNext, Quiescent, vars, requestVars,
     Progress, Receive, Refuse, Begin, LockRow, CreateTransaction, PostDebit, PostCredit,
     MarkSuccess, Reject, Overflow, Abort, Rollback

\* Entry by entry the ledger adds up to the balance each entry records, and
\* the last one is the cached Wallet.balance: no update of it is ever lost.
THEOREM LedgerExplainsBalances ==
    ASSUME NoHalfCents
    PROVE  Spec => []LedgerChain
<1>1. Init => LedgerChain
  <2> SUFFICES ASSUME Init, NEW w \in Wallets
               PROVE  /\ \A i \in 1 .. Len(ledger[w]) : Chained(ledger[w], i)
                      /\ balance[w] = LastBalance(ledger[w])
    BY DEF LedgerChain
  <2>1. CASE Opening[w] = 0
    BY <2>1 DEF Init, TransactionInit, LastBalance
  <2>2. CASE Opening[w] # 0
    BY <2>2, MoneyAssumption, TransactionServiceAssumption
    DEF Init, TransactionInit, Chained, LastBalance, Signed
  <2> QED
    BY <2>1, <2>2
<1>2. IInv /\ LedgerChain /\ [Next]_vars => LedgerChain'
  <2> SUFFICES ASSUME IInv, LedgerChain, [Next]_vars, NEW w \in Wallets
               PROVE  /\ \A i \in 1 .. Len(ledger'[w]) : Chained(ledger'[w], i)
                      /\ balance'[w] = LastBalance(ledger'[w])
    BY DEF LedgerChain
  <2>1. /\ \A i \in 1 .. Len(ledger[w]) : Chained(ledger[w], i)
        /\ balance[w] = LastBalance(ledger[w])
    BY DEF LedgerChain
  <2>2. CASE ledger'[w] = ledger[w] /\ balance'[w] = balance[w]
    BY <2>1, <2>2
  <2>3. ASSUME NEW r \in Requests, Commit(r), w \in Targets(op[r])
        PROVE  /\ \A i \in 1 .. Len(ledger'[w]) : Chained(ledger'[w], i)
               /\ balance'[w] = LastBalance(ledger'[w])
    <3> DEFINE e == EntryFor(r, w, Direction(r, w))
    <3>1. IsAcceptable(r) /\ op[r] \in Operations
      BY <2>3, CommitEffect DEF Commit, IInv, RequestsInOrder, IsValidated
    <3>2. e \in EntryType /\ e.balanceAfter = LastBalance(ledger[w]) + Signed(e)
      BY <2>1, <2>3, <3>1, PostedExactly
    <3>3. ledger'[w] = Append(ledger[w], e) /\ balance'[w] = e.balanceAfter
      BY <2>3, <3>1, CommitEffect, PostedExactly
    <3>4. ledger[w] \in Seq(EntryType)
      BY DEF IInv, TypeOK
    <3> HIDE DEF e
    <3> QED
      BY <2>1, <3>2, <3>3, <3>4, AppendToChain
  <2> QED
    BY <2>2, <2>3, CommitEffect, OnlyCommitsMoveMoney
<1> QED
  BY <1>1, <1>2, InvariantHolds, PTL DEF Spec

-----------------------------------------------------------------------------
(* All or nothing.                                                         *)

\* Appending an entry of r adds it to r's entries and to nobody else's.
LEMMA EntriesAfterAppend ==
    ASSUME NEW l \in Seq(EntryType), NEW e \in EntryType,
           NEW m, m = Append(l, e), NEW t
    PROVE  /\ e.txn # t => {i \in 1 .. Len(m) : m[i].txn = t} = {i \in 1 .. Len(l) : l[i].txn = t}
           /\ e.txn = t /\ {i \in 1 .. Len(l) : l[i].txn = t} = {} =>
                 {i \in 1 .. Len(m) : m[i].txn = t} = {Len(m)}
           /\ Len(m) \in 1 .. Len(m) /\ m[Len(m)] = e
           /\ \A i \in 1 .. Len(l) : i \in 1 .. Len(m) /\ m[i] = l[i]
<1>1. Len(m) = Len(l) + 1 /\ Len(l) \in Nat /\ m[Len(m)] = e
  OBVIOUS
<1>2. \A i \in 1 .. Len(l) : m[i] = l[i]
  OBVIOUS
<1>3. 1 .. Len(m) = (1 .. Len(l)) \cup {Len(m)}
  BY <1>1
<1> QED
  BY <1>1, <1>2, <1>3

\* A transaction that is committed has all its entries, any other none: what
\* was debited for a credit that failed is never seen.
THEOREM AllOrNothingHolds == Spec => []AllOrNothing
<1> DEFINE Settled(t) ==
        \/ txns[t] = "NONE" /\ \A w \in Wallets : EntriesOf(t, w) = {}
        \/ /\ txns[t] = "SUCCESS"
           /\ \A w \in Wallets \ Targets(op[t]) : EntriesOf(t, w) = {}
           /\ op[t].sender # NoWallet => HasOneEntry(t, op[t].sender, "DEBIT")
           /\ op[t].receiver # NoWallet => HasOneEntry(t, op[t].receiver, "CREDIT")
<1>1. Init => AllOrNothing
  <2> SUFFICES ASSUME Init, NEW t \in Requests
               PROVE  txns[t] = "NONE" /\ \A w \in Wallets : EntriesOf(t, w) = {}
    BY DEF AllOrNothing
  <2>1. ASSUME NEW w \in Wallets, NEW i \in 1 .. Len(ledger[w]) PROVE ledger[w][i].txn # t
    <3>1. CASE Opening[w] = 0
      BY <2>1, <3>1 DEF Init, TransactionInit
    <3>2. CASE Opening[w] # 0
      BY <2>1, <3>2, WalletTableAssumption DEF Init, TransactionInit
    <3> QED
      BY <3>1, <3>2
  <2> QED
    BY <2>1 DEF Init, TransactionInit, EntriesOf
<1>2. IInv /\ AllOrNothing /\ [Next]_vars => AllOrNothing'
  <2> SUFFICES ASSUME IInv, AllOrNothing, [Next]_vars, NEW t \in Requests PROVE Settled(t)'
    BY DEF AllOrNothing
  <2>1. Settled(t)
    BY DEF AllOrNothing
  <2>2. ASSUME ledger' = ledger, txns' = txns, txns[t] = "SUCCESS" => op'[t] = op[t]
        PROVE  Settled(t)'
    <3>1. \A w : EntriesOf(t, w)' = EntriesOf(t, w)
      BY <2>2 DEF EntriesOf
    <3>2. CASE txns[t] = "NONE"
      BY <2>1, <2>2, <3>1, <3>2
    <3>3. CASE txns[t] = "SUCCESS"
      BY <2>1, <2>2, <3>1, <3>3 DEF HasOneEntry, Targets
    <3> QED
      BY <2>1, <3>2, <3>3
  <2>3. CASE \A r \in Requests : ~Commit(r)
    BY <2>2, <2>3, CommittedStays, OnlyCommitsMoveMoney
  <2>4. ASSUME NEW r \in Requests, Commit(r) PROVE Settled(t)'
    <3> DEFINE e(w) == EntryFor(r, w, Direction(r, w))
    <3>1. /\ op[r] \in Operations /\ op[r].sender # op[r].receiver
          /\ txns[r] = "NONE" /\ txnDraft[r] = "SUCCESS" /\ op' = op
          /\ txns' = [txns EXCEPT ![r] = txnDraft[r]]
      BY <2>4 DEF Commit, IInv, RequestsInOrder, IsValidated, HasItsDrafts, CommittedRows
    <3>2. ASSUME NEW w \in Targets(op[r])
          PROVE  /\ w \in Wallets /\ ledger[w] \in Seq(EntryType) /\ e(w) \in EntryType
                 /\ ledger'[w] = Append(ledger[w], e(w)) /\ e(w).txn = r
                 /\ e(w).type = Direction(r, w) /\ e(w).amount = Stored(op[r].amount)
      <4>1. w \in Wallets /\ ledger'[w] = Append(ledger[w], e(w))
        BY <2>4, <3>2, CommitEffect
      <4>2. Direction(r, w) \in {"DEBIT", "CREDIT"}
        BY DEF Direction
      <4>3. e(w) \in EntryType
        BY <4>1, <4>2, EntryTypes DEF IInv
      <4> QED
        BY <4>1, <4>3 DEF EntryFor, IInv, TypeOK
    <3>3. \A w \in Wallets \ Targets(op[r]) : ledger'[w] = ledger[w]
      BY <2>4, CommitEffect
    <3> HIDE DEF e
    <3>4. CASE t # r
      <4>1. \A w \in Wallets : EntriesOf(t, w)' = EntriesOf(t, w)
        BY <3>2, <3>3, <3>4, EntriesAfterAppend DEF EntriesOf
      <4>2. ASSUME NEW w \in Wallets, NEW type, HasOneEntry(t, w, type)
            PROVE  HasOneEntry(t, w, type)'
        <5>1. PICK i \in 1 .. Len(ledger[w]) : /\ EntriesOf(t, w) = {i}
                                               /\ ledger[w][i].type = type
                                               /\ ledger[w][i].amount = Stored(op[t].amount)
          BY <4>2 DEF HasOneEntry
        <5>2. i \in 1 .. Len(ledger'[w]) /\ ledger'[w][i] = ledger[w][i]
          BY <3>2, <3>3, <5>1, EntriesAfterAppend
        <5> QED
          BY <3>1, <4>1, <5>1, <5>2 DEF HasOneEntry
      <4>3. txns'[t] = txns[t]
        BY <3>1, <3>4 DEF IInv, TypeOK
      <4>4. CASE txns[t] = "NONE"
        BY <2>1, <4>1, <4>3, <4>4
      <4>5. CASE txns[t] = "SUCCESS"
        <5>1. op[t] \in Operations \cup {NoOp}
          BY DEF IInv, TypeOK
        <5>2. op[t].sender \in Wallets \cup {NoWallet} /\ op[t].receiver \in Wallets \cup {NoWallet}
          BY <5>1, OperationAmount
        <5>3. ASSUME NEW w \in Wallets, op[t].sender = w
              PROVE  HasOneEntry(t, w, "DEBIT")'
          <6>1. HasOneEntry(t, w, "DEBIT")
            BY <2>1, <4>5, <5>3, WalletTableAssumption DEF NoWallet
          <6> QED
            BY <4>2, <6>1
        <5>4. ASSUME NEW w \in Wallets, op[t].receiver = w
              PROVE  HasOneEntry(t, w, "CREDIT")'
          <6>1. HasOneEntry(t, w, "CREDIT")
            BY <2>1, <4>5, <5>4, WalletTableAssumption DEF NoWallet
          <6> QED
            BY <4>2, <6>1
        <5>5. /\ op[t].sender # NoWallet => HasOneEntry(t, op[t].sender, "DEBIT")'
              /\ op[t].receiver # NoWallet => HasOneEntry(t, op[t].receiver, "CREDIT")'
          BY <3>1, <5>2, <5>3, <5>4 DEF HasOneEntry, EntriesOf
        <5> QED
          BY <2>1, <3>1, <4>1, <4>3, <4>5, <5>5 DEF HasOneEntry, Targets
      <4> QED
        BY <2>1, <4>4, <4>5
    <3>5. CASE t = r
      <4>1. \A w \in Wallets : EntriesOf(r, w) = {}
        BY <2>1, <3>1, <3>5
      <4>2. ASSUME NEW w \in Targets(op[r]) PROVE HasOneEntry(r, w, Direction(r, w))'
        <5>1. /\ EntriesOf(r, w)' = {Len(ledger'[w])}
              /\ Len(ledger'[w]) \in 1 .. Len(ledger'[w])
              /\ ledger'[w][Len(ledger'[w])] = e(w)
          BY <3>2, <4>1, <4>2, EntriesAfterAppend DEF EntriesOf
        <5> QED
          BY <3>1, <3>2, <5>1 DEF HasOneEntry, Direction
      <4>3. \A w \in Wallets \ Targets(op[r]) : EntriesOf(r, w)' = {}
        BY <3>3, <4>1 DEF EntriesOf
      <4>4. txns'[r] = "SUCCESS"
        BY <3>1 DEF IInv, TypeOK
      <4>5. op[r].sender # NoWallet => HasOneEntry(r, op[r].sender, "DEBIT")'
        BY <3>1, <4>2 DEF Targets, Direction, HasOneEntry, EntriesOf
      <4>6. op[r].receiver # NoWallet => HasOneEntry(r, op[r].receiver, "CREDIT")'
        BY <3>1, <4>2 DEF Targets, Direction, HasOneEntry, EntriesOf
      <4> QED
        BY <3>1, <3>5, <4>3, <4>4, <4>5, <4>6 DEF HasOneEntry, Targets
    <3> QED
      BY <3>4, <3>5
  <2> QED
    BY <2>3, <2>4
<1> QED
  BY <1>1, <1>2, InvariantHolds, PTL DEF Spec

-----------------------------------------------------------------------------
(* The services implement the atomic bank.                                 *)

\* Wallet rows are never deleted.
LEMMA RowsStay ==
    ASSUME IInv, [Next]_vars, NEW w \in Wallets, Exists(w)
    PROVE  Exists(w)'
<1>1. CASE TransactionNext
  BY <1>1 DEF Exists, TransactionNext, tableVars, Progress, Receive, Refuse, Begin, LockRow,
     CreateTransaction, PostDebit, PostCredit, MarkSuccess, Commit, Reject, Overflow, Abort,
     Rollback
<1>2. CASE WalletNext
  <2>1. \A kind \in DOMAIN Target : Target[kind] # "ABSENT"
    BY DEF Target
  <2> QED
    BY <1>2, <2>1 DEF IInv, TypeOK, Exists, WalletNext, tableVars, TaskProgress, ReadWallet,
       TurnDown, InsertWallet, InsertConflict, UpdateStatus, Abandon
<1>3. CASE UNCHANGED vars
  BY <1>3 DEF Exists, vars, tableVars
<1> QED
  BY <1>1, <1>2, <1>3 DEF Next, Quiescent

LEMMA UpdatedRowsStay == Spec => []UpdatedRowsExist
<1>1. Init => UpdatedRowsExist
  BY DEF Init, WalletInit, UpdatedRowsExist, NoTask, Target
<1>2. IInv /\ UpdatedRowsExist /\ [Next]_vars => UpdatedRowsExist'
  <2> SUFFICES ASSUME IInv, UpdatedRowsExist, [Next]_vars, NEW t \in Tasks,
                      task'[t].kind \in DOMAIN Target
               PROVE  status'[task'[t].wallet] # "ABSENT"
    BY DEF UpdatedRowsExist, Exists
  <2>1. CASE task'[t] = task[t]
    <3>1. Exists(task[t].wallet)
      BY <2>1 DEF UpdatedRowsExist
    <3>2. task[t].wallet \in Wallets
      BY <2>1 DEF IInv, TypeOK, TaskType, NoTask, Target
    <3> QED
      BY <2>1, <3>1, <3>2, RowsStay DEF Exists
  <2>2. ASSUME NEW k \in TaskType, ReadWallet(t, k)
        PROVE  status'[task'[t].wallet] # "ABSENT"
    <3>1. task'[t] = k /\ status' = status
      BY <2>2 DEF ReadWallet, tableVars, IInv, TypeOK
    <3>2. k.kind # "CREATE"
      BY <3>1 DEF Target
    <3> QED
      BY <2>2, <3>1, <3>2 DEF ReadWallet, Passes, Exists
  <2>3. \/ task'[t] = task[t]
        \/ \E k \in TaskType : ReadWallet(t, k)
        \/ task'[t] = NoTask
    <3>1. CASE UNCHANGED taskVars
      BY <3>1 DEF taskVars
    <3>2. ASSUME NEW u \in Tasks, NEW k \in TaskType, ReadWallet(u, k)
          PROVE  <2>3
      BY <3>2 DEF IInv, TypeOK, ReadWallet
    <3>3. ASSUME NEW u \in Tasks, EndTask(u, "done") \/ EndTask(u, "failed")
          PROVE  <2>3
      BY <3>3 DEF IInv, TypeOK, EndTask
    <3>4. ASSUME NEW u \in Tasks, NEW k \in TaskType, TurnDown(u, k)
          PROVE  <2>3
      BY <3>4 DEF TurnDown
    <3> QED
      BY <3>1, <3>2, <3>3, <3>4
      DEF Next, WalletNext, Quiescent, vars, taskVars, TaskProgress, InsertWallet,
          InsertConflict, UpdateStatus, Abandon
  <2>4. task'[t] # NoTask
    BY DEF NoTask, Target
  <2> QED
    BY <2>1, <2>2, <2>3, <2>4
<1> QED
  BY <1>1, <1>2, InvariantHolds, PTL DEF Spec

\* A commit is one atomic move of whole cents.
LEMMA CommitIsMove ==
    ASSUME NoHalfCents, IInv, NEW r \in Requests, Commit(r)
    PROVE  Atomic!Next
<1> DEFINE c == Stored(op[r].amount)
           From == {op[r].sender} \ {NoWallet}
           To == {op[r].receiver} \ {NoWallet}
           dir(w) == IF w \in From THEN "DEBIT" ELSE "CREDIT"
           after(w) == IF w \in From THEN balance[w] - c ELSE balance[w] + c
<1>1. /\ IsAcceptable(r) /\ op[r] \in Operations /\ op[r].sender # op[r].receiver
      /\ txns[r] = "NONE" /\ txnDraft[r] = "SUCCESS"
  BY CommitEffect
  DEF Commit, IInv, RequestsInOrder, IsValidated, HasItsDrafts, CommittedRows
<1>2. c \in 0 .. MaxCents
  BY <1>1, OperationAmount, StoredType, MoneyAssumption DEF IsAcceptable, Fits
<1>3. Targets(op[r]) = From \cup To
  BY DEF Targets
<1>4. ASSUME NEW w \in From \cup To
      PROVE  /\ w \in Wallets /\ status[w] = "ACTIVE"
             /\ after(w) \in 0 .. MaxCents
             /\ balance'[w] = after(w)
             /\ ledger'[w] = Append(ledger[w], Atomic!Entry(r, dir(w), c, after(w)))
  <2> DEFINE e == EntryFor(r, w, Direction(r, w))
  <2>1. w \in Targets(op[r]) /\ w \in Wallets /\ w # NoWallet
    BY <1>3, CommitEffect DEF Targets
  <2>2. Direction(r, w) = dir(w)
    BY <2>1 DEF Direction
  <2>3. /\ e.balanceAfter = balance[w] + Signed(e) /\ e.amount = c /\ e.type = dir(w)
        /\ e.balanceAfter = BalanceAfter(r, w, Direction(r, w))
    BY <1>1, <2>1, <2>2, PostedExactly
  <2>4. e.balanceAfter = after(w)
    BY <1>2, <2>1, <2>3, MoneyAssumption DEF Signed, IInv, TypeOK
  <2>5. e = Atomic!Entry(r, dir(w), c, after(w))
    BY <2>2, <2>3, <2>4 DEF EntryFor, Atomic!Entry
  <2>6. /\ status[w] = "ACTIVE" /\ balance'[w] = e.balanceAfter
        /\ e.balanceAfter \in 0 .. MaxCents /\ ledger'[w] = Append(ledger[w], e)
    BY <2>1, <2>3, CommitEffect
  <2> HIDE DEF e, after, dir, c
  <2> QED
    BY <2>1, <2>4, <2>5, <2>6
<1>5. \A w \in Wallets \ (From \cup To) : balance'[w] = balance[w] /\ ledger'[w] = ledger[w]
  BY <1>3, CommitEffect
<1>6. /\ txns' = [txns EXCEPT ![r] = "SUCCESS"] /\ UNCHANGED status
      /\ balance' = [w \in Wallets |-> balance'[w]]
      /\ ledger' = [w \in Wallets |-> ledger'[w]]
  BY <1>1 DEF Commit
<1>7. Atomic!Move(r, From, To, c)
  BY <1>1, <1>4, <1>5, <1>6 DEF Atomic!Move
<1>8. CASE op[r] \in DepositOps
  <2>1. From = {} /\ To = {op[r].receiver} /\ op[r].receiver \in Wallets
    BY <1>8, WalletTableAssumption DEF DepositOps, NoWallet
  <2> HIDE DEF From, To, c
  <2>2. Atomic!Deposit(r, op[r].receiver, c)
    BY <1>7, <2>1 DEF Atomic!Deposit
  <2> QED
    BY <1>2, <2>1, <2>2 DEF Atomic!Next
<1>9. CASE op[r] \in WithdrawOps
  <2>1. From = {op[r].sender} /\ To = {} /\ op[r].sender \in Wallets
    BY <1>9, WalletTableAssumption DEF WithdrawOps, NoWallet
  <2> HIDE DEF From, To, c
  <2>2. Atomic!Withdraw(r, op[r].sender, c)
    BY <1>7, <2>1 DEF Atomic!Withdraw
  <2> QED
    BY <1>2, <2>1, <2>2 DEF Atomic!Next
<1>10. CASE op[r] \in TransferOps
  <2>1. /\ From = {op[r].sender} /\ To = {op[r].receiver}
        /\ op[r].sender \in Wallets /\ op[r].receiver \in Wallets
    BY <1>10, WalletTableAssumption DEF TransferOps, NoWallet
  <2> HIDE DEF From, To, c
  <2>2. Atomic!Transfer(r, op[r].sender, op[r].receiver, c)
    BY <1>1, <1>7, <2>1 DEF Atomic!Transfer
  <2> QED
    BY <1>2, <2>1, <2>2 DEF Atomic!Next
<1> QED
  BY <1>1, <1>8, <1>9, <1>10 DEF Operations

\* A step of a task is an atomic opening or status change, or none.
LEMMA TaskIsAtomic ==
    ASSUME IInv, UpdatedRowsExist, WalletNext, UNCHANGED <<booksVars, requestVars>>
    PROVE  Atomic!Next \/ UNCHANGED Atomic!vars
<1> USE DEF booksVars
<1>1. ASSUME NEW t \in Tasks, InsertWallet(t) PROVE Atomic!Next
  <2>1. task[t].wallet \in Wallets
    BY <1>1 DEF IInv, TypeOK, TaskType, NoTask, InsertWallet
  <2>2. status[task[t].wallet] = "ABSENT"
    BY <1>1 DEF InsertWallet, Exists
  <2>3. Atomic!Open(task[t].wallet)
    BY <1>1, <2>2 DEF InsertWallet, Atomic!Open
  <2> QED
    BY <2>1, <2>3 DEF Atomic!Next
<1>2. ASSUME NEW t \in Tasks, UpdateStatus(t) PROVE Atomic!Next
  <2>1. task[t].wallet \in Wallets
    BY <1>2 DEF IInv, TypeOK, TaskType, NoTask, UpdateStatus, Target
  <2>2. status[task[t].wallet] # "ABSENT"
    BY <1>2 DEF UpdateStatus, UpdatedRowsExist, Exists
  <2>3. \A kind \in DOMAIN Target : Target[kind] \in {"ACTIVE", "FROZEN", "CLOSED"}
    BY DEF Target
  <2>4. Target[task[t].kind] \in {"ACTIVE", "FROZEN", "CLOSED"}
    BY <1>2, <2>3 DEF UpdateStatus
  <2>5. Atomic!SetStatus(task[t].wallet, Target[task[t].kind])
    BY <1>2, <2>2 DEF UpdateStatus, Atomic!SetStatus
  <2> QED
    BY <2>1, <2>4, <2>5 DEF Atomic!Next
<1>3. ASSUME UNCHANGED tableVars PROVE UNCHANGED Atomic!vars
  BY <1>3 DEF tableVars, Atomic!vars
<1> QED
  BY <1>1, <1>2, <1>3
  DEF WalletNext, TaskProgress, ReadWallet, TurnDown, InsertConflict, Abandon

\* What the tables show is a behaviour of the atomic bank: concurrent requests
\* and status changes have the effect of whole transactions, one at a time.
THEOREM Refinement ==
    ASSUME NoHalfCents
    PROVE  Spec => ImplementsAtomicBank
<1>1. Init => Atomic!Init
  BY DEF Init, TransactionInit, WalletStatus, Atomic!Init, Atomic!Entry
<1>2. IInv /\ UpdatedRowsExist /\ [Next]_vars => [Atomic!Next]_(Atomic!vars)
  <2> SUFFICES ASSUME IInv, UpdatedRowsExist, [Next]_vars
               PROVE  Atomic!Next \/ UNCHANGED Atomic!vars
    OBVIOUS
  <2>1. CASE \E r \in Requests : Commit(r)
    BY <2>1, CommitIsMove
  <2>2. CASE TransactionNext /\ \A r \in Requests : ~Commit(r)
    BY <2>2 DEF TransactionNext, tableVars, booksVars, Progress, Receive, Refuse, Begin,
       LockRow, CreateTransaction, PostDebit, PostCredit, MarkSuccess, Reject, Overflow,
       Abort, Rollback, Atomic!vars
  <2>3. CASE WalletNext /\ UNCHANGED <<booksVars, requestVars>>
    BY <2>3, TaskIsAtomic
  <2>4. CASE UNCHANGED vars
    BY <2>4 DEF vars, tableVars, booksVars, Atomic!vars
  <2> QED
    BY <2>1, <2>2, <2>3, <2>4 DEF Next, Quiescent
<1> QED
  BY <1>1, <1>2, InvariantHolds, UpdatedRowsStay, PTL
  DEF Spec, ImplementsAtomicBank, Atomic!Spec
=============================================================================
