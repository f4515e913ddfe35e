---------------------------- MODULE LockingProofs ----------------------------
(***************************************************************************)
(* No deadlock on the rows of the wallet table: the argument of ORDER BY   *)
(* id, for any number of requests over any wallets with a largest id.      *)
(***************************************************************************)
EXTENDS BankingProofs, Sums

-----------------------------------------------------------------------------
(* Rows are locked upwards.                                                *)

\* Giving up rows, or neither locking nor waiting, keeps the order.
LEMMA EndKeepsOrder ==
    ASSUME IInv, LocksInOrder, NEW r \in Requests, EndTransaction(r),
           \A q \in Requests \ {r} : pc'[q] = pc[q]
    PROVE  LocksInOrder'
<1> SUFFICES ASSUME NEW q \in Requests, NEW v \in Wallets, lockedBy'[v] = q
             PROVE  /\ pc'[q] \in {"lock", "post", "commit"}
                    /\ \A w \in want'[q] : v < w
  BY DEF LocksInOrder
<1>1. lockedBy[v] = q /\ q # r
  BY WalletTableAssumption DEF EndTransaction
<1>2. want'[q] = want[q]
  BY <1>1 DEF EndTransaction, IInv, TypeOK
<1> QED
  BY <1>1, <1>2 DEF LocksInOrder

LEMMA StepKeepsOrder ==
    ASSUME IInv, LocksInOrder, NEW r \in Requests, NEW o \in Operations,
           Receive(r, o) \/ Refuse(r, o) \/ Progress(r) \/ Abort(r)
    PROVE  LocksInOrder'
<1>1. ASSUME UNCHANGED <<lockedBy, want>>, pc'[r] \in {"post", "commit"} \/ pc[r] \in {"idle", "begin"},
             \A q \in Requests \ {r} : pc'[q] = pc[q]
      PROVE  LocksInOrder'
  BY <1>1 DEF LocksInOrder
<1>2. CASE Receive(r, o) \/ Refuse(r, o)
  BY <1>1, <1>2 DEF Receive, Refuse, tableVars, IInv, TypeOK
<1>3. CASE Begin(r)
  <2>1. /\ pc[r] = "begin" /\ lockedBy' = lockedBy
        /\ \A q \in Requests \ {r} : pc'[q] = pc[q] /\ want'[q] = want[q]
    BY <1>3 DEF Begin, tableVars, IInv, TypeOK
  <2> QED
    BY <2>1 DEF LocksInOrder
<1>4. ASSUME NEW w \in Wallets, LockRow(r, w) PROVE LocksInOrder'
  <2> SUFFICES ASSUME NEW q \in Requests, NEW v \in Wallets, lockedBy'[v] = q
               PROVE  /\ pc'[q] \in {"lock", "post", "commit"}
                      /\ \A u \in want'[q] : v < u
    BY DEF LocksInOrder
  <2>1. /\ pc' = pc /\ pc[r] = "lock" /\ w \in want[r] /\ \A u \in want[r] : w <= u
        /\ lockedBy' = [lockedBy EXCEPT ![w] = r]
        /\ want' = [want EXCEPT ![r] = want[r] \ {w}]
    BY <1>4 DEF LockRow, IsNext
  <2>2. CASE v = w
    <3>1. q = r
      BY <2>1, <2>2 DEF IInv, TypeOK
    <3>2. \A u \in want'[r] : u \in want[r] /\ u # w
      BY <2>1 DEF IInv, TypeOK
    <3>3. want[r] \subseteq Nat
      BY WalletTableAssumption DEF IInv, TypeOK
    <3> QED
      BY <2>1, <2>2, <3>1, <3>2, <3>3, WalletTableAssumption
  <2>3. CASE v # w
    <3>1. lockedBy[v] = q
      BY <2>1, <2>3 DEF IInv, TypeOK
    <3>2. want'[q] \subseteq want[q]
      BY <2>1 DEF IInv, TypeOK
    <3> QED
      BY <2>1, <3>1, <3>2 DEF LocksInOrder
  <2> QED
    BY <2>2, <2>3
<1>5. CASE CreateTransaction(r) \/ PostDebit(r) \/ PostCredit(r) \/ MarkSuccess(r)
  BY <1>1, <1>5 DEF CreateTransaction, PostDebit, PostCredit, MarkSuccess, tableVars, IInv, TypeOK
<1>6. CASE Commit(r) \/ Reject(r) \/ Overflow(r) \/ Abort(r)
  <2>1. EndTransaction(r) /\ \A q \in Requests \ {r} : pc'[q] = pc[q]
    BY <1>6 DEF Commit, Reject, Overflow, Abort, Rollback, IInv, TypeOK
  <2> QED
    BY <2>1, EndKeepsOrder
<1> QED
  BY <1>2, <1>3, <1>4, <1>5, <1>6 DEF Progress

\* A request only waits for rows that come after all those it holds.
THEOREM LocksAreOrdered == Spec => []LocksInOrder
<1>1. Init => LocksInOrder
  BY WalletTableAssumption DEF Init, LocksInOrder
<1>2. IInv /\ LocksInOrder /\ [Next]_vars => LocksInOrder'
  <2> SUFFICES ASSUME IInv, LocksInOrder, [Next]_vars PROVE LocksInOrder'
    OBVIOUS
  <2>1. CASE TransactionNext
    <3>1. PICK r \in Requests : \/ \E o \in Operations : Receive(r, o) \/ Refuse(r, o)
                                \/ Progress(r) \/ Abort(r)
      BY <2>1 DEF TransactionNext
    <3>2. CASE \E o \in Operations : Receive(r, o) \/ Refuse(r, o)
      BY <3>2, StepKeepsOrder
    <3>3. CASE Progress(r) \/ Abort(r)
      <4>1. op[r] \in Operations
        BY <3>3 DEF IInv, RequestsInOrder, IsValidated, Progress, Begin, LockRow,
           CreateTransaction, PostDebit, PostCredit, MarkSuccess, Commit, Reject, Overflow, Abort
      <4> QED
        BY <3>3, <4>1, StepKeepsOrder
    <3> QED
      BY <3>1, <3>2, <3>3
  <2>2. CASE UNCHANGED <<lockedBy, want, pc>>
    BY <2>2 DEF LocksInOrder
  <2> QED
    BY <2>1, <2>2 DEF Next, WalletNext, Quiescent, vars, tableVars, requestVars, TaskProgress,
       ReadWallet, TurnDown, InsertWallet, InsertConflict, UpdateStatus, Abandon
<1> QED
  BY <1>1, <1>2, InvariantHolds, PTL DEF Spec

-----------------------------------------------------------------------------
(* No set of requests waits for itself.                                    *)

\* The row r waits for comes before any row that its holder waits for.
LEMMA WaitsUpwards ==
    ASSUME IInv, LocksInOrder, NEW r \in Requests, NEW q \in Requests,
           NEW v \in want[r], lockedBy[v] = q, NEW w \in want[q]
    PROVE  v < w
BY DEF LocksInOrder, IInv, TypeOK

\* Taking the rows in the order of their ids excludes every circle of waiting
\* requests, of two or of more.
THEOREM NoDeadlock ==
    ASSUME NEW B \in Nat, \A w \in Wallets : w <= B
    PROVE  Spec => []NoLockCycle
<1>1. IInv /\ LocksInOrder => NoLockCycle
  <2> SUFFICES ASSUME IInv, LocksInOrder, NEW S \in SUBSET Requests, S # {},
                      \A r \in S : \E q \in S : WaitsFor(r, q)
               PROVE  FALSE
    BY DEF NoLockCycle
  <2> DEFINE Blocked == {w \in Wallets : \E r \in S, q \in S :
                            w \in want[r] /\ IsNext(r, w) /\ lockedBy[w] = q}
             Above == {B - w : w \in Blocked}
  <2>1. \A r \in S : \E w \in Blocked : w \in want[r] /\ IsNext(r, w)
    BY DEF WaitsFor, IInv, TypeOK
  <2>2. Above \in SUBSET Nat /\ Above # {}
    <3>1. Blocked # {}
      BY <2>1
    <3>2. \A w \in Blocked : w \in Nat /\ w <= B
      BY WalletTableAssumption
    <3> QED
      BY <3>1, <3>2
  <2>3. PICK n \in Above : \A m \in Above : n <= m
    BY <2>2, LeastElement
  <2>4. PICK v \in Blocked : n = B - v
    BY <2>3
  <2>5. PICK r \in S, q \in S : v \in want[r] /\ IsNext(r, v) /\ lockedBy[v] = q
    BY <2>4
  <2>6. PICK w \in Blocked : w \in want[q] /\ IsNext(q, w)
    BY <2>1, <2>5
  <2>7. v < w
    BY <2>5, <2>6, WaitsUpwards
  <2>8. B - w \in Above /\ v \in Nat /\ w \in Nat
    BY <2>4, <2>6, WalletTableAssumption
  <2>9. B - v <= B - w
    BY <2>3, <2>4, <2>8
  <2> QED
    BY <2>7, <2>8, <2>9
<1> QED
  BY <1>1, LocksAreOrdered, InvariantHolds, PTL

-----------------------------------------------------------------------------
(* Somebody can always move.                                               *)

\* A debit never outgrows the column.
LEMMA DebitFits ==
    ASSUME IInv, NEW r \in Requests, pc[r] = "post",
           op[r].sender \in Targets(op[r])
    PROVE  Fits(BalanceAfter(r, op[r].sender, "DEBIT"))
<1> DEFINE s == op[r].sender
           a == op[r].amount
<1>1. IsAcceptable(r) /\ op[r] \in Operations
  BY DEF IInv, RequestsInOrder, IsValidated
<1>2. seen[r][s].balance = balance[s] /\ balance[s] \in 0 .. MaxCents
  BY <1>1, TargetsHeld DEF IInv, CommittedRows
<1>3. a.cents \in Nat /\ a.ticks \in 0 .. (Ticks - 1)
  BY <1>1, OperationAmount
<1>4. Stored(Minus(balance[s], a)) <= balance[s]
  BY <1>2, <1>3, MoneyAssumption DEF Stored, Minus
<1>5. Stored(Minus(balance[s], a)) \in Int
  BY <1>1, <1>2, OperationAmount, StoredType
<1> QED
  BY <1>2, <1>4, <1>5, MoneyAssumption DEF BalanceAfter, Fits

\* A request that locks rows has them all, or there is one that comes next.
LEMMA NextRow ==
    ASSUME IInv, NEW r \in Requests, want[r] # {}
    PROVE  \E w \in want[r] : IsNext(r, w)
<1>1. want[r] \in SUBSET Nat
  BY WalletTableAssumption DEF IInv, TypeOK
<1> QED
  BY <1>1, LeastElement DEF IsNext

\* However many requests share the pool and the rows, as long as one of them is
\* not answered there is one that waits for nobody.
THEOREM NeverAllWait ==
    ASSUME NEW B \in Nat, \A w \in Wallets : w <= B
    PROVE  Spec => []SomeoneMoves
<1>1. IInv /\ LocksInOrder /\ NoLockCycle => SomeoneMoves
  <2> SUFFICES ASSUME IInv, LocksInOrder, NoLockCycle,
                      NEW r \in Requests, pc[r] \in {"begin", "lock", "post", "commit"}
               PROVE  \E q \in Requests : IsFreeToMove(q)
    BY DEF SomeoneMoves
  <2>1. CASE InTransaction = {}
    <3>1. pc[r] = "begin"
      BY <2>1 DEF InTransaction
    <3>2. Cardinality(InTransaction) < PoolSize
      BY <2>1, FS_EmptySet, TransactionServiceAssumption
    <3> QED
      BY <3>1, <3>2 DEF IsFreeToMove
  <2>2. ASSUME NEW q \in Requests, pc[q] \in {"post", "commit"}
        PROVE  IsFreeToMove(q)
    BY <2>2, DebitFits DEF IsFreeToMove
  <2>3. CASE InTransaction # {} /\ \A q \in Requests : pc[q] \notin {"post", "commit"}
    <3> DEFINE S == {q \in Requests : pc[q] = "lock"}
    <3>1. S \in (SUBSET Requests) \ {{}}
      BY <2>3 DEF InTransaction
    <3>2. PICK q \in S : \A p \in S : ~WaitsFor(q, p)
      BY <3>1 DEF NoLockCycle
    <3>3. ASSUME NEW w \in want[q], IsNext(q, w) PROVE ~IsLocked(w)
      <4>1. w \in Wallets /\ lockedBy[w] \in Requests \cup {NoReq}
        BY DEF IInv, TypeOK
      <4>2. lockedBy[w] \in Requests => lockedBy[w] \in S
        BY <2>3, <4>1 DEF LocksInOrder
      <4>3. lockedBy[w] \notin S
        BY <3>2, <3>3 DEF WaitsFor
      <4> QED
        BY <4>1, <4>2, <4>3 DEF IsLocked
    <3>4. CASE want[q] = {}
      BY <3>2, <3>4 DEF IsFreeToMove
    <3>5. CASE want[q] # {}
      BY <3>2, <3>3, <3>5, NextRow DEF IsFreeToMove
    <3> QED
      BY <3>4, <3>5
  <2> QED
    BY <2>1, <2>2, <2>3
<1> QED
  BY <1>1, LocksAreOrdered, NoDeadlock, InvariantHolds, PTL
=============================================================================
