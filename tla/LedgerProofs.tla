---------------------------- MODULE LedgerProofs ----------------------------
(***************************************************************************)
(* What the ledger and the balances add up to, for any wallets, requests   *)
(* and amounts: the recomputed balance of a wallet, and the whole bank.    *)
(***************************************************************************)
EXTENDS BankingProofs, Sums

-----------------------------------------------------------------------------
(* The sum of the entries of a history.                                    *)

\* One step of calculateRunningBalance, from the sums s of the entries before.
SumUpTo(l, s, i) ==
    IF i = 0 THEN 0
    ELSE IF l[i].type = "CREDIT" THEN s[i - 1] + l[i].amount
                                 ELSE s[i - 1] - l[i].amount

\* s holds the sums of the first entries of l, up to n of them.
PartialSums(l, n, s) ==
    /\ s = [i \in 0 .. n |-> SumUpTo(l, s, i)]
    /\ \A i \in 0 .. n : s[i] \in Int

LEMMA EntryFields ==
    ASSUME NEW l \in Seq(EntryType), NEW i \in 1 .. Len(l)
    PROVE  l[i].amount \in Int /\ l[i].type \in {"DEBIT", "CREDIT", "NONE"}
<1>1. l[i] \in EntryType
  OBVIOUS
<1> QED
  BY <1>1 DEF EntryType

\* The sums of n entries and the next entry give the sums of n + 1.
LEMMA ExtendSums ==
    ASSUME NEW l \in Seq(EntryType), NEW n \in Nat, n + 1 <= Len(l),
           NEW s, PartialSums(l, n, s)
    PROVE  PartialSums(l, n + 1, [i \in 0 .. (n + 1) |->
                                     IF i = n + 1 THEN s[n] + Signed(l[n + 1]) ELSE s[i]])
<1> DEFINE t == [i \in 0 .. (n + 1) |->
                    IF i = n + 1 THEN s[n] + Signed(l[n + 1]) ELSE s[i]]
<1>1. s[n] \in Int /\ l[n + 1].amount \in Int
  BY EntryFields DEF PartialSums
<1>2. \A i \in 0 .. n : t[i] = s[i] /\ s[i] \in Int /\ s[i] = SumUpTo(l, s, i)
  BY DEF PartialSums
<1>3. t[n + 1] = s[n] + Signed(l[n + 1]) /\ t[n] = s[n]
  BY <1>2
<1> HIDE DEF t
<1>4. \A i \in 0 .. (n + 1) : t[i] = SumUpTo(l, t, i) /\ t[i] \in Int
  <2> SUFFICES ASSUME NEW i \in 0 .. (n + 1)
               PROVE  t[i] = SumUpTo(l, t, i) /\ t[i] \in Int
    OBVIOUS
  <2>1. CASE i = n + 1
    BY <1>1, <1>3, <2>1 DEF SumUpTo, Signed
  <2>2. CASE i \in 0 .. n
    <3>1. i = 0 \/ t[i - 1] = s[i - 1]
      BY <1>2, <2>2
    <3> QED
      BY <1>2, <2>2, <3>1 DEF SumUpTo
  <2> QED
    BY <2>1, <2>2
<1>5. t = [i \in 0 .. (n + 1) |-> SumUpTo(l, t, i)]
  <2>1. t = [i \in 0 .. (n + 1) |-> t[i]]
    BY DEF t
  <2> QED
    BY <1>4, <2>1
<1>6. PartialSums(l, n + 1, t)
  BY <1>4, <1>5 DEF PartialSums
<1> QED
  BY <1>6 DEF t

\* Every history has its partial sums.
LEMMA SumsExist ==
    ASSUME NEW l \in Seq(EntryType)
    PROVE  \E s : PartialSums(l, Len(l), s)
<1> DEFINE X == {n \in Nat : n <= Len(l) => \E s : PartialSums(l, n, s)}
<1>1. 0 \in X
  <2>1. PartialSums(l, 0, [i \in 0 .. 0 |-> 0])
    BY DEF PartialSums, SumUpTo
  <2> QED
    BY <2>1
<1>2. ASSUME NEW n \in Nat, n \in X PROVE n + 1 \in X
  <2> SUFFICES ASSUME n + 1 <= Len(l) PROVE \E s : PartialSums(l, n + 1, s)
    OBVIOUS
  <2>1. PICK s : PartialSums(l, n, s)
    BY <1>2
  <2> QED
    BY <2>1, ExtendSums
<1>3. Nat \subseteq X
  <2> HIDE DEF X
  <2> QED
    BY <1>1, <1>2, Induction
<1> QED
  BY <1>3

\* They are the ones that SumOfEntries computes.
LEMMA SumsAreComputed ==
    ASSUME NEW l \in Seq(EntryType), NEW s, PartialSums(l, Len(l), s)
    PROVE  SumOfEntries(l) = s[Len(l)]
<1> DEFINE Step(t) == [i \in 0 .. Len(l) |->
                          IF i = 0 THEN 0
                          ELSE IF l[i].type = "CREDIT" THEN t[i - 1] + l[i].amount
                                                       ELSE t[i - 1] - l[i].amount]
           sum == CHOOSE t : t = Step(t)
           X == {n \in Nat : n <= Len(l) => sum[n] = s[n]}
<1>1. sum = Step(sum)
  <2>1. s = Step(s)
    BY DEF PartialSums, SumUpTo
  <2> HIDE DEF Step
  <2> QED
    BY <2>1
<1>2. SumOfEntries(l) = sum[Len(l)]
  BY DEF SumOfEntries
<1> HIDE DEF sum
<1>3. \A i \in 0 .. Len(l) : sum[i] = SumUpTo(l, sum, i) /\ s[i] = SumUpTo(l, s, i)
  BY <1>1 DEF PartialSums, SumUpTo
<1>4. 0 \in X
  BY <1>3 DEF SumUpTo
<1>5. ASSUME NEW n \in Nat, n \in X PROVE n + 1 \in X
  <2> SUFFICES ASSUME n + 1 <= Len(l) PROVE sum[n + 1] = s[n + 1]
    OBVIOUS
  <2>1. n + 1 \in 0 .. Len(l) /\ n + 1 # 0 /\ (n + 1) - 1 = n /\ sum[n] = s[n]
    BY <1>5
  <2> QED
    BY <1>3, <2>1 DEF SumUpTo
<1>6. Nat \subseteq X
  <2> HIDE DEF X
  <2> QED
    BY <1>4, <1>5, Induction
<1>7. Len(l) \in X
  BY <1>6
<1> QED
  BY <1>2, <1>7

\* An entry adds what it is worth, and no entry is worth nothing.
LEMMA SumAfterAppend ==
    ASSUME NEW l \in Seq(EntryType), NEW e \in EntryType
    PROVE  /\ SumOfEntries(l) \in Int
           /\ SumOfEntries(Append(l, e)) = SumOfEntries(l) + Signed(e)
<1> DEFINE m == Append(l, e)
<1>1. /\ m \in Seq(EntryType) /\ Len(m) = Len(l) + 1 /\ m[Len(m)] = e
      /\ \A i \in 1 .. Len(l) : m[i] = l[i]
      /\ Len(l) \in Nat
  OBVIOUS
<1>2. PICK s : PartialSums(l, Len(l), s)
  BY SumsExist
<1> HIDE DEF m
<1>3. PartialSums(m, Len(l), s)
  <2>1. \A i \in 0 .. Len(l) : SumUpTo(m, s, i) = SumUpTo(l, s, i)
    <3> SUFFICES ASSUME NEW i \in 0 .. Len(l) PROVE SumUpTo(m, s, i) = SumUpTo(l, s, i)
      OBVIOUS
    <3>1. i = 0 \/ m[i] = l[i]
      BY <1>1
    <3> QED
      BY <3>1 DEF SumUpTo
  <2> QED
    BY <1>2, <2>1 DEF PartialSums
<1> DEFINE t == [i \in 0 .. (Len(l) + 1) |->
                    IF i = Len(l) + 1 THEN s[Len(l)] + Signed(m[Len(l) + 1]) ELSE s[i]]
<1>4. PartialSums(m, Len(m), t)
  BY <1>1, <1>3, ExtendSums
<1>5. SumOfEntries(m) = t[Len(m)] /\ SumOfEntries(l) = s[Len(l)]
  BY <1>1, <1>2, <1>4, SumsAreComputed
<1>6. s[Len(l)] \in Int
  BY <1>1, <1>2 DEF PartialSums
<1>7. SumOfEntries(m) = SumOfEntries(l) + Signed(e)
  BY <1>1, <1>5
<1> QED
  BY <1>5, <1>6, <1>7 DEF m

LEMMA SumOfNone == SumOfEntries(<<>>) = 0
<1>1. <<>> \in Seq(EntryType) /\ Len(<<>>) = 0
  OBVIOUS
<1>2. PICK s : PartialSums(<<>>, 0, s)
  BY <1>1, SumsExist
<1> QED
  BY <1>1, <1>2, SumsAreComputed DEF PartialSums, SumUpTo

LEMMA SumOfOne ==
    ASSUME NEW e \in EntryType
    PROVE  SumOfEntries(<<e>>) = Signed(e)
<1>1. <<>> \in Seq(EntryType) /\ <<e>> = Append(<<>>, e)
  OBVIOUS
<1>2. SumOfEntries(<<e>>) = 0 + Signed(e)
  BY <1>1, SumAfterAppend, SumOfNone
<1>3. Signed(e) \in Int
  BY DEF Signed, EntryType
<1> QED
  BY <1>2, <1>3

-----------------------------------------------------------------------------
(* Recomputed balances.                                                    *)

\* What a step does to the books of wallet w: nothing, or what a commit does.
LEMMA WalletStep ==
    ASSUME IInv, [Next]_vars, NEW w \in Wallets
    PROVE  \/ ledger'[w] = ledger[w] /\ balance'[w] = balance[w]
           \/ \E r \in Requests :
                 /\ IsAcceptable(r) /\ op[r] \in Operations /\ w \in Targets(op[r])
                 /\ balance'[w] = BalanceAfter(r, w, Direction(r, w))
                 /\ ledger'[w] = Append(ledger[w], EntryFor(r, w, Direction(r, w)))
<1>1. ASSUME NEW r \in Requests, Commit(r)
      PROVE  IsAcceptable(r) /\ op[r] \in Operations
  BY <1>1, CommitEffect DEF Commit, IInv, RequestsInOrder, IsValidated
<1> QED
  BY <1>1, CommitEffect, OnlyCommitsMoveMoney

\* The opening balance is the sum of the opening entry.
LEMMA OpeningSum ==
    ASSUME Init, NEW w \in Wallets
    PROVE  RunningBalance(w) = balance[w]
<1>1. CASE Opening[w] = 0
  BY <1>1, SumOfNone DEF Init, TransactionInit, RunningBalance
<1>2. CASE Opening[w] # 0
  <2> DEFINE e == [txn |-> NoReq, type |-> "CREDIT", amount |-> Opening[w],
                   balanceAfter |-> Opening[w]]
  <2>1. e \in EntryType /\ Signed(e) = Opening[w]
    BY MoneyAssumption, TransactionServiceAssumption DEF EntryType, Signed
  <2>2. ledger[w] = <<e>> /\ balance[w] = Opening[w]
    BY <1>2 DEF Init, TransactionInit
  <2> HIDE DEF e
  <2> QED
    BY <2>1, <2>2, SumOfOne DEF RunningBalance
<1> QED
  BY <1>1, <1>2

\* Recomputing a balance from the ledger gives the cached Wallet.balance, as
\* calculateRunningBalance says, if no amount is a half cent.
THEOREM CacheIsRecomputed ==
    ASSUME NoHalfCents
    PROVE  Spec => []CacheMatchesLedger
<1>1. Init => CacheMatchesLedger
  BY OpeningSum DEF CacheMatchesLedger
<1>2. IInv /\ CacheMatchesLedger /\ [Next]_vars => CacheMatchesLedger'
  <2> SUFFICES ASSUME IInv, CacheMatchesLedger, [Next]_vars, NEW w \in Wallets
               PROVE  balance'[w] = SumOfEntries(ledger'[w])
    BY DEF CacheMatchesLedger, RunningBalance
  <2>1. balance[w] = SumOfEntries(ledger[w]) /\ ledger[w] \in Seq(EntryType)
    BY DEF CacheMatchesLedger, RunningBalance, IInv, TypeOK
  <2>2. CASE ledger'[w] = ledger[w] /\ balance'[w] = balance[w]
    BY <2>1, <2>2
  <2>3. ASSUME NEW r \in Requests, NEW e, e = EntryFor(r, w, Direction(r, w)),
               IsAcceptable(r), op[r] \in Operations, w \in Targets(op[r]),
               balance'[w] = BalanceAfter(r, w, Direction(r, w)),
               ledger'[w] = Append(ledger[w], e)
        PROVE  balance'[w] = SumOfEntries(ledger'[w])
    <3>1. e \in EntryType /\ balance'[w] = balance[w] + Signed(e)
      BY <2>3, PostedExactly
    <3> QED
      BY <2>1, <2>3, <3>1, SumAfterAppend
  <2> QED
    BY <2>2, <2>3, WalletStep
<1> QED
  BY <1>1, <1>2, InvariantHolds, PTL DEF Spec

-----------------------------------------------------------------------------
(* What rounding may do to them, whatever the amounts.                     *)

\* A debit that is rounded apart from its entry takes as much as the entry
\* says, or a cent less.
LEMMA RoundingDrift ==
    ASSUME NEW b \in Int, NEW a \in [cents : Nat, ticks : 0 .. (Ticks - 1)]
    PROVE  Stored(Minus(b, a)) - (b - Stored(a)) \in 0 .. 1
<1>1. CASE IsHalfCent(a)
  <2>1. /\ a.cents \in Nat /\ a.ticks \in Nat /\ Ticks \in Nat \ {0}
        /\ 2 * a.ticks = Ticks /\ a.ticks # 0
    BY <1>1, MoneyAssumption DEF IsHalfCent
  <2>2. Stored(a) = a.cents + 1
    BY <2>1 DEF Stored
  <2>3. Stored(Minus(b, a)) = b - a.cents
    BY <2>1 DEF Stored, Minus
  <2> QED
    BY <2>1, <2>2, <2>3
<1>2. CASE ~IsHalfCent(a)
  BY <1>2, RoundingAgrees, StoredType
<1> QED
  BY <1>1, <1>2

\* What is posted moves the balance by the entry's amount, or, for a debit, by
\* a cent less.
LEMMA PostedWithinACent ==
    ASSUME IInv, NEW r \in Requests, IsAcceptable(r), NEW w \in Targets(op[r]),
           op[r] \in Operations
    PROVE  LET e == EntryFor(r, w, Direction(r, w))
               d == BalanceAfter(r, w, Direction(r, w)) - (balance[w] + Signed(e))
           IN  /\ e \in EntryType
               /\ e.type = Direction(r, w) /\ e.type \in {"DEBIT", "CREDIT"}
               /\ d \in 0 .. (IF e.type = "DEBIT" THEN 1 ELSE 0)
<1> DEFINE e == EntryFor(r, w, Direction(r, w))
<1>1. w \in Wallets /\ seen[r][w].balance = balance[w] /\ balance[w] \in Int
  BY TargetsHeld DEF IInv, TypeOK
<1>2. op[r].amount \in [cents : Nat, ticks : 0 .. (Ticks - 1)]
  BY OperationAmount
<1>3. Direction(r, w) \in {"DEBIT", "CREDIT"}
  BY DEF Direction
<1>4. e \in EntryType /\ e.type = Direction(r, w) /\ e.amount = Stored(op[r].amount)
  BY <1>1, <1>3, EntryTypes DEF IInv, EntryFor
<1>5. /\ Stored(Plus(balance[w], op[r].amount)) = balance[w] + Stored(op[r].amount)
      /\ Stored(Minus(balance[w], op[r].amount)) - (balance[w] - Stored(op[r].amount)) \in 0 .. 1
      /\ Stored(op[r].amount) \in Int
      /\ Stored(Minus(balance[w], op[r].amount)) \in Int
  BY <1>1, <1>2, RoundingAgrees, RoundingDrift, StoredType
<1> HIDE DEF e
<1>6. CASE Direction(r, w) = "CREDIT"
  BY <1>1, <1>4, <1>5, <1>6 DEF BalanceAfter, Signed, e
<1>7. CASE Direction(r, w) = "DEBIT"
  BY <1>1, <1>4, <1>5, <1>7 DEF BalanceAfter, Signed, e
<1> QED
  BY <1>3, <1>4, <1>6, <1>7 DEF e

\* A debit is one debit more, and a credit none.
LEMMA DebitsAfterAppend ==
    ASSUME NEW l \in Seq(EntryType), NEW e \in EntryType,
           NEW m, m = Append(l, e)
    PROVE  LET debits(h) == {i \in 1 .. Len(h) : h[i].type = "DEBIT"}
           IN  /\ Cardinality(debits(l)) \in Nat
               /\ Cardinality(debits(m)) =
                     Cardinality(debits(l)) + (IF e.type = "DEBIT" THEN 1 ELSE 0)
<1> DEFINE debits(h) == {i \in 1 .. Len(h) : h[i].type = "DEBIT"}
<1>1. Len(m) = Len(l) + 1 /\ Len(l) \in Nat /\ m[Len(m)] = e
  OBVIOUS
<1>2. \A i \in 1 .. Len(l) : m[i] = l[i]
  OBVIOUS
<1>3. 1 .. Len(m) = (1 .. Len(l)) \cup {Len(m)} /\ Len(m) \notin 1 .. Len(l)
  BY <1>1
<1>4. IsFiniteSet(debits(l)) /\ Cardinality(debits(l)) \in Nat
  <2>1. IsFiniteSet(1 .. Len(l))
    BY <1>1, FS_Interval
  <2>2. debits(l) \in SUBSET (1 .. Len(l))
    OBVIOUS
  <2> QED
    BY <2>1, <2>2, FS_Subset, FS_CardinalityType
<1>5. ASSUME e.type = "DEBIT"
      PROVE  Cardinality(debits(m)) = Cardinality(debits(l)) + 1
  <2>1. debits(m) = debits(l) \cup {Len(m)} /\ Len(m) \notin debits(l)
    BY <1>1, <1>2, <1>3, <1>5
  <2> HIDE DEF debits
  <2> QED
    BY <1>4, <1>5, <2>1, FS_AddElement
<1>6. ASSUME e.type # "DEBIT"
      PROVE  Cardinality(debits(m)) = Cardinality(debits(l))
  <2>1. debits(m) = debits(l)
    BY <1>1, <1>2, <1>3, <1>6
  <2> QED
    BY <2>1
<1>7. Cardinality(debits(m)) = Cardinality(debits(l)) + (IF e.type = "DEBIT" THEN 1 ELSE 0)
  <2> HIDE DEF debits
  <2> QED
    BY <1>4, <1>5, <1>6
<1> QED
  BY <1>4, <1>7

\* Half cents or not, the cached balance is never below what the ledger adds up
\* to, and above it by no more than a cent for each debit.
THEOREM DriftBound == Spec => []DriftIsBounded
<1>1. Init => DriftIsBounded
  <2> SUFFICES ASSUME Init, NEW w \in Wallets
               PROVE  balance[w] - RunningBalance(w) \in 0 .. Cardinality(DebitsOf(w))
    BY DEF DriftIsBounded
  <2>1. balance[w] = RunningBalance(w) /\ balance[w] \in Int
    BY OpeningSum, InitType DEF TypeOK
  <2>2. ledger[w] \in Seq(EntryType) /\ Len(ledger[w]) \in Nat
    BY InitType DEF TypeOK
  <2>3. IsFiniteSet(1 .. Len(ledger[w])) /\ DebitsOf(w) \in SUBSET (1 .. Len(ledger[w]))
    BY <2>2, FS_Interval DEF DebitsOf
  <2>4. Cardinality(DebitsOf(w)) \in Nat
    BY <2>3, FS_Subset, FS_CardinalityType
  <2> QED
    BY <2>1, <2>4
<1>2. IInv /\ DriftIsBounded /\ [Next]_vars => DriftIsBounded'
  <2> SUFFICES ASSUME IInv, DriftIsBounded, [Next]_vars, NEW w \in Wallets
               PROVE  (balance[w] - RunningBalance(w) \in 0 .. Cardinality(DebitsOf(w)))'
    BY DEF DriftIsBounded
  <2>1. /\ balance[w] - SumOfEntries(ledger[w]) \in 0 .. Cardinality(DebitsOf(w))
        /\ ledger[w] \in Seq(EntryType) /\ balance[w] \in Int /\ balance'[w] \in Int
    BY NextType DEF DriftIsBounded, RunningBalance, IInv, TypeOK
  <2>2. CASE ledger'[w] = ledger[w] /\ balance'[w] = balance[w]
    BY <2>1, <2>2 DEF DebitsOf, RunningBalance
  <2>3. ASSUME NEW r \in Requests, NEW e, e = EntryFor(r, w, Direction(r, w)),
               IsAcceptable(r), op[r] \in Operations, w \in Targets(op[r]),
               balance'[w] = BalanceAfter(r, w, Direction(r, w)),
               ledger'[w] = Append(ledger[w], e)
        PROVE  (balance[w] - RunningBalance(w) \in 0 .. Cardinality(DebitsOf(w)))'
    <3>1. /\ e \in EntryType
          /\ balance'[w] - (balance[w] + Signed(e)) \in 0 .. (IF e.type = "DEBIT" THEN 1 ELSE 0)
      BY <2>3, PostedWithinACent
    <3>2. /\ SumOfEntries(ledger[w]) \in Int
          /\ SumOfEntries(ledger'[w]) = SumOfEntries(ledger[w]) + Signed(e)
      BY <2>1, <2>3, <3>1, SumAfterAppend
    <3>3. /\ Cardinality(DebitsOf(w)) \in Nat
          /\ Cardinality(DebitsOf(w)') =
                Cardinality(DebitsOf(w)) + (IF e.type = "DEBIT" THEN 1 ELSE 0)
      BY <2>1, <2>3, <3>1, DebitsAfterAppend DEF DebitsOf
    <3>4. Signed(e) \in Int
      BY <3>1 DEF Signed, EntryType
    <3>5. balance'[w] - SumOfEntries(ledger'[w]) \in 0 .. Cardinality(DebitsOf(w)')
      BY <2>1, <3>1, <3>2, <3>3, <3>4
    <3> QED
      BY <3>5 DEF RunningBalance
  <2> QED
    BY <2>2, <2>3, WalletStep
<1> QED
  BY <1>1, <1>2, InvariantHolds, PTL DEF Spec

-----------------------------------------------------------------------------
(* The whole bank.                                                         *)

\* What a commit brings into the bank is a number of cents.
LEMMA InflowType ==
    ASSUME IInv, NEW r \in Requests
    PROVE  Inflow(r) \in Int
<1>1. txns[r] = "SUCCESS" => op[r] \in Operations
  BY DEF IInv, CommittedRows, RequestsInOrder, IsValidated
<1>2. Stored(op[r].amount) \in Nat
  <2>1. op[r] \in Operations \cup {NoOp}
    BY DEF IInv, TypeOK
  <2> QED
    BY <2>1, OperationAmount, StoredType
<1>3. op[r] \in Operations => op[r].type \in {"DEPOSIT", "WITHDRAW", "TRANSFER"}
  BY DEF Operations, DepositOps, WithdrawOps, TransferOps
<1> QED
  BY <1>1, <1>2, <1>3 DEF Inflow

\* A commit brings into the wallets together what its operation says.
LEMMA CommitMovesSum ==
    ASSUME NoHalfCents, IInv, NEW r \in Requests, Commit(r), IsFiniteSet(Wallets),
           \A w \in Wallets : balance'[w] \in Int
    PROVE  /\ Inflow(r)' \in Int
           /\ SumFunctionOnSet(balance', Wallets) =
                 SumFunctionOnSet(balance, Wallets) + Inflow(r)'
<1> DEFINE c == Stored(op[r].amount)
           s == op[r].sender
           d == op[r].receiver
<1>1. /\ IsAcceptable(r) /\ op[r] \in Operations /\ s # d
      /\ txns[r] = "NONE" /\ txnDraft[r] = "SUCCESS"
  BY CommitEffect
  DEF Commit, IInv, RequestsInOrder, IsValidated, HasItsDrafts, CommittedRows
<1>2. c \in Nat /\ \A w \in Wallets : balance[w] \in Int
  <2>1. c \in Nat
    BY <1>1, OperationAmount, StoredType
  <2> QED
    BY <2>1 DEF IInv, TypeOK
<1>3. txns'[r] = "SUCCESS" /\ op' = op
  BY <1>1 DEF Commit, IInv, TypeOK
<1>4. ASSUME NEW w \in Targets(op[r])
      PROVE  /\ w \in Wallets
             /\ balance'[w] = IF w = s THEN balance[w] - c ELSE balance[w] + c
  <2>1. /\ w \in Wallets
        /\ balance'[w] = BalanceAfter(r, w, Direction(r, w))
    BY <1>4, CommitEffect
  <2> DEFINE e == EntryFor(r, w, Direction(r, w))
  <2>2. balance'[w] = balance[w] + Signed(e) /\ e.amount = c /\ e.type = Direction(r, w)
    BY <1>1, <1>4, <2>1, PostedExactly
  <2> HIDE DEF e
  <2> QED
    BY <1>2, <2>1, <2>2 DEF Signed, Direction
<1>5. \A w \in Wallets \ Targets(op[r]) : balance'[w] = balance[w]
  BY CommitEffect
<1>6. ASSUME NEW f, NEW g, NEW x \in Wallets,
             \A w \in Wallets : f[w] \in Int /\ g[w] \in Int,
             \A w \in Wallets \ {x} : g[w] = f[w]
      PROVE  SumFunctionOnSet(g, Wallets) = SumFunctionOnSet(f, Wallets) + (g[x] - f[x])
  <2>1. \A w \in Wallets : f[w] \in Int /\ g[w] \in Int
    BY <1>6
  <2>2. \A w \in Wallets \ {x} : g[w] = f[w]
    BY <1>6
  <2> QED
    BY ONLY <2>1, <2>2, IsFiniteSet(Wallets), x \in Wallets, SumChange
<1>7. CASE op[r] \in DepositOps
  <2>1. /\ Targets(op[r]) = {d} /\ d # s /\ op[r].type = "DEPOSIT"
    BY <1>1, <1>7, WalletTableAssumption DEF DepositOps, Targets, NoWallet
  <2>2. /\ d \in Wallets /\ balance'[d] = balance[d] + c
        /\ \A w \in Wallets \ {d} : balance'[w] = balance[w]
    BY <1>4, <1>5, <2>1
  <2>3. Inflow(r)' = c
    BY <1>3, <2>1 DEF Inflow
  <2> HIDE DEF c, d
  <2>4. SumFunctionOnSet(balance', Wallets) =
            SumFunctionOnSet(balance, Wallets) + (balance'[d] - balance[d])
    BY <1>2, <1>6, <2>2
  <2> QED
    BY <1>2, <2>2, <2>3, <2>4
<1>8. CASE op[r] \in WithdrawOps
  <2>1. /\ Targets(op[r]) = {s} /\ op[r].type = "WITHDRAW"
    BY <1>8, WalletTableAssumption DEF WithdrawOps, Targets, NoWallet
  <2>2. /\ s \in Wallets /\ balance'[s] = balance[s] - c
        /\ \A w \in Wallets \ {s} : balance'[w] = balance[w]
    BY <1>4, <1>5, <2>1
  <2>3. Inflow(r)' = -c
    BY <1>3, <2>1 DEF Inflow
  <2> HIDE DEF c, s
  <2>4. SumFunctionOnSet(balance', Wallets) =
            SumFunctionOnSet(balance, Wallets) + (balance'[s] - balance[s])
    BY <1>2, <1>6, <2>2
  <2> QED
    BY <1>2, <2>2, <2>3, <2>4
<1>9. CASE op[r] \in TransferOps
  <2>1. Targets(op[r]) = {s, d} /\ op[r].type = "TRANSFER"
    BY <1>9, WalletTableAssumption DEF TransferOps, Targets, NoWallet
  <2>2. /\ s \in Wallets /\ balance'[s] = balance[s] - c
        /\ d \in Wallets /\ balance'[d] = balance[d] + c
        /\ \A w \in Wallets \ {s, d} : balance'[w] = balance[w]
    BY <1>1, <1>4, <1>5, <2>1
  <2>3. Inflow(r)' = 0
    BY <1>3, <2>1 DEF Inflow
  <2> DEFINE debited == [w \in Wallets |-> IF w = s THEN balance'[w] ELSE balance[w]]
  <2>4. /\ \A w \in Wallets : debited[w] \in Int
        /\ debited[s] = balance'[s] /\ \A w \in Wallets \ {s} : debited[w] = balance[w]
        /\ debited[d] = balance[d] /\ \A w \in Wallets \ {d} : balance'[w] = debited[w]
    BY <1>1, <1>2, <2>2
  <2> HIDE DEF c, s, d, debited
  <2>5. SumFunctionOnSet(debited, Wallets) =
            SumFunctionOnSet(balance, Wallets) + (debited[s] - balance[s])
    BY <1>2, <1>6, <2>2, <2>4
  <2>6. SumFunctionOnSet(balance', Wallets) =
            SumFunctionOnSet(debited, Wallets) + (balance'[d] - debited[d])
    BY <1>2, <1>6, <2>2, <2>4
  <2>7. SumFunctionOnSet(balance, Wallets) \in Int
    BY <1>2, SumType
  <2> QED
    BY <1>2, <2>2, <2>3, <2>4, <2>5, <2>6, <2>7
<1> QED
  BY <1>1, <1>7, <1>8, <1>9 DEF Operations

\* What the wallets hold together is what was deposited less what was withdrawn:
\* a transfer, an abort and a status change neither make money nor lose any.
THEOREM Conservation ==
    ASSUME NoHalfCents, IsFiniteSet(Wallets), IsFiniteSet(Requests)
    PROVE  Spec => []MoneyIsConserved
<1> DEFINE flow == [r \in Requests |-> Inflow(r)]
<1>1. Init => MoneyIsConserved
  <2> SUFFICES ASSUME Init PROVE MoneyIsConserved
    OBVIOUS
  <2>1. balance = Opening /\ \A r \in Requests : flow[r] = 0
    BY DEF Init, TransactionInit, Inflow
  <2>2. \A w \in Wallets : Opening[w] \in Int
    BY <2>1, InitType DEF TypeOK
  <2> HIDE DEF flow
  <2>3. SumFunctionOnSet(flow, Requests) = 0 /\ SumFunctionOnSet(Opening, Wallets) \in Int
    BY <2>1, <2>2, SumZero, SumType
  <2> QED
    BY <2>1, <2>3 DEF MoneyIsConserved, flow
<1>2. IInv /\ MoneyIsConserved /\ [Next]_vars => MoneyIsConserved'
  <2> SUFFICES ASSUME IInv, MoneyIsConserved, [Next]_vars PROVE MoneyIsConserved'
    OBVIOUS
  <2>1. IInv'
    BY NextInv
  <2>2. \A w \in Wallets : balance[w] \in Int /\ balance'[w] \in Int
    BY <2>1 DEF IInv, TypeOK
  <2>3. \A r \in Requests : flow[r] = Inflow(r) /\ flow'[r] = Inflow(r)' /\ flow[r] \in Int
    BY InflowType
  <2> HIDE DEF flow
  <2>4. SumFunctionOnSet(Opening, Wallets) \in Int /\ SumFunctionOnSet(flow, Requests) \in Int
        /\ SumFunctionOnSet(balance, Wallets) \in Int
    <3>1. \A w \in Wallets : Opening[w] \in Int
      BY TransactionServiceAssumption
    <3> QED
      BY <2>2, <2>3, <3>1, SumType
  <2>5. /\ SumFunctionOnSet(balance, Wallets) =
              SumFunctionOnSet(Opening, Wallets) + SumFunctionOnSet(flow, Requests)
        /\ MoneyIsConserved' <=>
              SumFunctionOnSet(balance', Wallets) =
                  SumFunctionOnSet(Opening, Wallets) + SumFunctionOnSet(flow', Requests)
    BY DEF MoneyIsConserved, flow
  <2>6. CASE \A r \in Requests : ~Commit(r)
    <3>1. \A w \in Wallets : balance'[w] = balance[w]
      BY <2>6, OnlyCommitsMoveMoney
    <3>2. ASSUME NEW r \in Requests PROVE flow'[r] = flow[r]
      <4>1. txns' = txns /\ (txns[r] = "SUCCESS" => op'[r] = op[r])
        BY <2>6, OnlyCommitsMoveMoney, CommittedStays
      <4>2. CASE txns[r] = "SUCCESS"
        BY <2>3, <4>1, <4>2 DEF Inflow
      <4>3. CASE txns[r] # "SUCCESS"
        BY <2>3, <4>1, <4>3 DEF Inflow
      <4> QED
        BY <4>2, <4>3
    <3>3. SumFunctionOnSet(balance', Wallets) = SumFunctionOnSet(balance, Wallets)
      BY <2>2, <3>1, SumCongruence
    <3>4. SumFunctionOnSet(flow', Requests) = SumFunctionOnSet(flow, Requests)
      BY <2>3, <3>2, SumCongruence
    <3> QED
      BY <2>5, <3>3, <3>4
  <2>7. ASSUME NEW r \in Requests, Commit(r) PROVE MoneyIsConserved'
    <3>1. /\ flow'[r] \in Int
          /\ SumFunctionOnSet(balance', Wallets) = SumFunctionOnSet(balance, Wallets) + flow'[r]
      BY <2>2, <2>3, <2>7, CommitMovesSum
    <3>2. flow[r] = 0
      <4>1. txns[r] = "NONE"
        BY <2>7 DEF Commit, IInv, CommittedRows
      <4> QED
        BY <2>3, <4>1 DEF Inflow
    <3>3. ASSUME NEW q \in Requests \ {r} PROVE flow'[q] = flow[q]
      <4>1. txns'[q] = txns[q] /\ op' = op
        BY <2>7 DEF Commit, IInv, TypeOK
      <4>2. Inflow(q)' = Inflow(q)
        BY <4>1 DEF Inflow
      <4> QED
        BY <2>3, <4>2
    <3>4. \A q \in Requests : flow[q] \in Int /\ flow'[q] \in Int
      BY <2>3, <3>1, <3>3
    <3>5. SumFunctionOnSet(flow', Requests) =
              SumFunctionOnSet(flow, Requests) + (flow'[r] - flow[r])
      BY <3>3, <3>4, SumChange
    <3> QED
      BY <2>4, <2>5, <3>1, <3>2, <3>5
  <2> QED
    BY <2>6, <2>7
<1> QED
  BY <1>1, <1>2, InvariantHolds, PTL DEF Spec
=============================================================================
