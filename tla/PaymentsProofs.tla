---------------------------- MODULE PaymentsProofs ----------------------------
(***************************************************************************)
(* Proofs about Payments, for any attempts, keys, wallets and amounts: a   *)
(* key is charged at most once, answers and jobs follow commits, and the   *)
(* payment service implements IdempotentPayments.                          *)
(***************************************************************************)
EXTENDS PaymentsInvariant, Sums

\* What is stored of an amount, alone and added to whole cents.
LEMMA StoredCredit ==
    ASSUME NEW b \in Int, NEW a \in Amounts
    PROVE  /\ Stored(a) \in Nat
           /\ Stored(Plus(b, a)) = b + Stored(a)
BY PaymentAssumption, MoneyAssumption DEF Stored, Plus

-----------------------------------------------------------------------------
(* Type correctness.                                                       *)

LEMMA InitType == Init => TypeOK
<1> SUFFICES ASSUME Init PROVE TypeOK
  OBVIOUS
<1> USE DEF Init, PaymentInit, WorkerInit, WalletInit
<1>1. /\ balance \in [Wallets -> Int]
      /\ status \in [Wallets -> WalletStatus \cup {"ABSENT"}]
      /\ lockedBy \in [Wallets -> Attempts \cup {NoReq}]
  BY MoneyAssumption, PaymentAssumption
<1>2. /\ payments \in [Keys -> [by : Attempts, wallet : Wallets, amount : Nat,
                                status : {"INITIATED"}] \cup {NoPayment}]
      /\ charges \subseteq Attempts
      /\ cache \in [Keys -> Attempts \cup {NoAttempt}]
      /\ locked \in [Keys -> BOOLEAN]
  OBVIOUS
<1>3. /\ job \in [Attempts -> {"none", "waiting", "active", "failed"}]
      /\ ppc \in [Attempts -> PaymentPc]
      /\ payload \in [Attempts -> PayloadType \cup {NoPayload}]
      /\ answer \in [Attempts -> Attempts \cup {NoAttempt}]
  BY DEF PaymentPc
<1>4. row \in [Attempts -> Row]
  BY DEF NoRow, Row
<1>5. /\ tries \in [Attempts -> 0 .. MaxTries] /\ stalls \in [Attempts -> 0 .. (MaxStalls + 1)]
  BY DEF MaxTries, MaxStalls
<1>6. /\ taskPc \in [Tasks -> {"idle", "write", "done", "failed"}]
      /\ task \in [Tasks -> TaskType \cup {NoTask}]
      /\ taskRead \in [Tasks -> WalletStatus \cup {"ABSENT"}]
  OBVIOUS
<1> QED
  BY <1>1, <1>2, <1>3, <1>4, <1>5, <1>6 DEF TypeOK

\* Steps that leave the tables and their payments alone.
LEMMA QuietType ==
    ASSUME TypeOK, UNCHANGED <<tableVars, storeVars, workerVars, taskVars>>,
           cache' \in [Keys -> Attempts \cup {NoAttempt}],
           locked' \in [Keys -> BOOLEAN],
           job' \in [Attempts -> {"none", "waiting", "active", "failed"}],
           ppc' \in [Attempts -> PaymentPc],
           payload' \in [Attempts -> PayloadType \cup {NoPayload}],
           row' \in [Attempts -> Row],
           answer' \in [Attempts -> Attempts \cup {NoAttempt}]
    PROVE  TypeOK'
BY DEF TypeOK, tableVars, storeVars, workerVars, taskVars

LEMMA RollbackType ==
    ASSUME TypeOK, NEW a \in Attempts, EndPayment(a), NEW label \in PaymentPc, Goto(a, label),
           UNCHANGED <<balance, status, storeVars, redisVars, job, payload, workerVars, taskVars>>,
           answer' \in [Attempts -> Attempts \cup {NoAttempt}]
    PROVE  TypeOK'
<1>1. lockedBy' \in [Wallets -> Attempts \cup {NoReq}]
  BY DEF TypeOK, EndPayment
<1>2. row' \in [Attempts -> Row]
  BY DEF TypeOK, EndPayment, Row, NoRow
<1>3. ppc' \in [Attempts -> PaymentPc]
  BY DEF TypeOK, Goto
<1> QED
  BY <1>1, <1>2, <1>3 DEF TypeOK, storeVars, redisVars, workerVars, taskVars

\* The steps of an attempt, without its failures.
LEMMA ProgressType ==
    ASSUME PaymentInv, NEW a \in Attempts, PaymentProgress(a),
           UNCHANGED <<workerVars, taskVars>>
    PROVE  TypeOK'
<1>0. TypeOK /\ Attempts = Requests /\ NoAttempt = NoReq
  BY DEF PaymentInv, Attempts, NoAttempt
<1>1. ASSUME ppc[a] # "idle" PROVE Key(a) \in Keys /\ Receiver(a) \in Wallets
  BY <1>1 DEF PaymentInv, IsPlaced, PayloadType, Key, Receiver
<1>2. ASSUME NEW label \in PaymentPc, Goto(a, label) PROVE ppc' \in [Attempts -> PaymentPc]
  BY <1>0, <1>2 DEF TypeOK, Goto
<1>3. CASE CacheHit(a) \/ CacheMiss(a) \/ AlreadyProcessing(a)
  BY <1>0, <1>1, <1>2, <1>3, QuietType
  DEF TypeOK, CacheHit, CacheMiss, AlreadyProcessing, PaymentPc, tableVars, storeVars, redisVars
<1>4. ASSUME NEW ok \in BOOLEAN, Claim(a, ok) PROVE TypeOK'
  <2>1. (IF ok THEN "lock" ELSE "failed") \in PaymentPc
    BY DEF PaymentPc
  <2> QED
    BY <1>0, <1>1, <1>2, <1>4, <2>1, QuietType DEF TypeOK, Claim, tableVars, storeVars
<1>5. ASSUME NEW ok \in BOOLEAN, CacheResponse(a, ok) PROVE TypeOK'
  <2>1. (IF ok THEN "publish" ELSE "release") \in PaymentPc
    BY DEF PaymentPc
  <2> QED
    BY <1>0, <1>1, <1>2, <1>5, <2>1, QuietType DEF TypeOK, CacheResponse, tableVars, storeVars
<1>6. ASSUME NEW ok \in BOOLEAN, Publish(a, ok) PROVE TypeOK'
  <2>1. "release" \in PaymentPc
    BY DEF PaymentPc
  <2> QED
    BY <1>0, <1>2, <1>6, <2>1, QuietType DEF TypeOK, Publish, tableVars, storeVars, redisVars
<1>7. ASSUME NEW ok \in BOOLEAN, Release(a, ok) PROVE TypeOK'
  <2>1. (IF ok /\ answer[a] # NoAttempt THEN "done" ELSE "failed") \in PaymentPc
    BY DEF PaymentPc
  <2> QED
    BY <1>0, <1>1, <1>2, <1>7, <2>1, QuietType DEF TypeOK, Release, tableVars, storeVars
<1>8. CASE LockWallet(a)
  <2>1. Receiver(a) \in Wallets
    BY <1>1, <1>8 DEF LockWallet
  <2>2. RowOf(Receiver(a)) \in Row
    BY <1>0, <2>1 DEF TypeOK, RowOf, Row
  <2> QED
    BY <1>0, <1>8, <2>1, <2>2
    DEF TypeOK, LockWallet, Goto, PaymentPc, storeVars, redisVars, workerVars, taskVars
<1>9. CASE Post(a) \/ InsertPayment(a)
  BY <1>0, <1>2, <1>9, QuietType
  DEF TypeOK, Post, InsertPayment, PaymentPc, tableVars, storeVars, redisVars
<1>10. CASE RejectPayment(a) \/ DuplicateKey(a)
  <2>1. RollbackTo(a, "release") /\ "release" \in PaymentPc
    BY <1>10 DEF RejectPayment, DuplicateKey, PaymentPc
  <2> QED
    BY <1>0, <2>1, RollbackType DEF RollbackTo, TypeOK, storeVars, redisVars
<1>11. ASSUME NEW ok \in BOOLEAN, Commit(a, ok) PROVE TypeOK'
  <2>1. payload[a] \in PayloadType /\ row[a] \in Row
    BY <1>0, <1>11 DEF PaymentInv, IsPlaced, TypeOK, Commit
  <2>2. Stored(payload[a].amount) \in Nat /\ Credited(a) \in Int
    BY <2>1, StoredCredit DEF PayloadType, Row, Credited
  <2>3. Key(a) \in Keys /\ Receiver(a) \in Wallets
    BY <1>1, <1>11 DEF Commit
  <2>4. lockedBy' \in [Wallets -> Attempts \cup {NoReq}] /\ row' \in [Attempts -> Row]
    BY <1>0, <1>11 DEF TypeOK, Commit, EndPayment, Row, NoRow
  <2>5. payments' \in [Keys -> [by : Attempts, wallet : Wallets, amount : Nat,
                                 status : {"INITIATED"}] \cup {NoPayment}]
    BY <1>0, <1>11, <2>2, <2>3 DEF TypeOK, Commit
  <2>6. balance' \in [Wallets -> Int] /\ charges' \subseteq Attempts
    BY <1>0, <1>11, <2>2, <2>3 DEF TypeOK, Commit
  <2>7. ppc' \in [Attempts -> PaymentPc]
    BY <1>0, <1>11 DEF TypeOK, Commit, Goto, PaymentPc
  <2> QED
    BY <1>0, <1>11, <2>4, <2>5, <2>6, <2>7 DEF TypeOK, Commit, redisVars, workerVars, taskVars
<1> QED
  BY <1>3, <1>4, <1>5, <1>6, <1>7, <1>8, <1>9, <1>10, <1>11 DEF PaymentProgress

LEMMA PaymentType ==
    ASSUME PaymentInv, PaymentNext, UNCHANGED <<workerVars, taskVars>>
    PROVE  TypeOK'
<1> USE DEF PaymentPc, tableVars, storeVars, redisVars, attemptVars, workerVars, taskVars, Goto
<1>1. ASSUME NEW a \in Attempts, NEW p \in PayloadType, Receive(a, p) PROVE TypeOK'
  BY <1>1 DEF PaymentInv, TypeOK, Receive
<1>2. ASSUME NEW a \in Attempts, Fail(a) \/ Die(a) PROVE TypeOK'
  <2>1. /\ TypeOK /\ NoAttempt \in Attempts \cup {NoAttempt}
        /\ "failed" \in PaymentPc /\ "release" \in PaymentPc
    BY DEF PaymentInv
  <2>2. CASE Die(a)
    BY <2>1, <2>2, RollbackType DEF Die, TypeOK
  <2>3. CASE RollbackTo(a, "release")
    BY <2>1, <2>3, RollbackType DEF RollbackTo, TypeOK
  <2>4. CASE /\ Goto(a, "failed") /\ answer' = [answer EXCEPT ![a] = NoAttempt]
             /\ UNCHANGED <<tableVars, storeVars, redisVars, job, payload, row>>
    BY <2>1, <2>4, QuietType DEF TypeOK
  <2> QED
    BY <1>2, <2>2, <2>3, <2>4 DEF Fail
<1>3. ASSUME NEW k \in Keys, LockExpires(k) \/ CacheExpires(k) PROVE TypeOK'
  BY <1>3 DEF PaymentInv, TypeOK, LockExpires, CacheExpires
<1> QED
  BY <1>1, <1>2, <1>3, ProgressType DEF PaymentNext

LEMMA WorkerType ==
    ASSUME PaymentInv, WorkerNext,
           UNCHANGED <<tableVars, storeVars, redisVars, attemptVars, taskVars>>
    PROVE  TypeOK'
<1> PICK j \in Attempts : Take(j) \/ Throw(j) \/ Stall(j)
  BY DEF WorkerNext, WorkerProgress
<1>1. tries[j] < MaxTries /\ stalls[j] <= MaxStalls
  BY DEF PaymentInv, IsPlaced, Take, Throw, Stall
<1> QED
  BY <1>1 DEF PaymentInv, TypeOK, Take, Throw, Stall, workerVars, MaxTries, MaxStalls,
              tableVars, storeVars, redisVars, attemptVars, taskVars

LEMMA WalletType ==
    ASSUME PaymentInv, WalletNext, UNCHANGED <<paymentVars, workerVars>>
    PROVE  TypeOK'
<1> USE DEF tableVars, paymentVars, storeVars, redisVars, attemptVars, workerVars, WalletStatus
<1>1. ASSUME NEW t \in Tasks, NEW k \in TaskType, ReadWallet(t, k) \/ TurnDown(t, k)
      PROVE  TypeOK'
  <2>1. status[k.wallet] \in WalletStatus \cup {"ABSENT"}
    BY DEF PaymentInv, TypeOK, TaskType
  <2> QED
    BY <1>1, <2>1 DEF PaymentInv, TypeOK, ReadWallet, TurnDown
<1>2. ASSUME NEW t \in Tasks, InsertWallet(t) PROVE TypeOK'
  <2>1. task[t].wallet \in Wallets
    BY <1>2 DEF PaymentInv, TypeOK, TaskType, NoTask, InsertWallet
  <2>2. balance' \in [Wallets -> Int] /\ status' \in [Wallets -> WalletStatus \cup {"ABSENT"}]
    BY <1>2, <2>1 DEF PaymentInv, TypeOK, InsertWallet
  <2> QED
    BY <1>2, <2>2 DEF PaymentInv, TypeOK, InsertWallet, EndTask
<1>3. ASSUME NEW t \in Tasks, InsertConflict(t) \/ Abandon(t) PROVE TypeOK'
  BY <1>3 DEF PaymentInv, TypeOK, InsertConflict, Abandon, EndTask
<1>4. ASSUME NEW t \in Tasks, UpdateStatus(t) PROVE TypeOK'
  <2>1. \A kind \in DOMAIN Target : Target[kind] \in WalletStatus
    BY DEF Target
  <2>2. status' \in [Wallets -> WalletStatus \cup {"ABSENT"}]
    BY <1>4, <2>1 DEF PaymentInv, TypeOK, UpdateStatus
  <2> QED
    BY <1>4, <2>2 DEF PaymentInv, TypeOK, UpdateStatus, EndTask
<1> QED
  BY <1>1, <1>2, <1>3, <1>4 DEF WalletNext, TaskProgress

LEMMA NextType == PaymentInv /\ [Next]_vars => TypeOK'
<1>1. PaymentInv /\ UNCHANGED vars => TypeOK'
  BY DEF PaymentInv, TypeOK, vars, tableVars, paymentVars, storeVars, redisVars, attemptVars,
         workerVars, taskVars
<1> QED
  BY <1>1, PaymentType, WorkerType, WalletType DEF Next, Quiescent

-----------------------------------------------------------------------------
(* The inductive invariant.                                                *)

LEMMA InitInv == Init => PaymentInv
<1> SUFFICES ASSUME Init PROVE PaymentInv
  OBVIOUS
<1> USE DEF Init, PaymentInit, WorkerInit
<1>1. TypeOK
  BY InitType
<1>2. \A a \in Attempts : HoldsItsRow(a) /\ OwnsItsKey(a) /\ IsPlaced(a)
  BY WalletTableAssumption
  DEF HoldsItsRow, OwnsItsKey, IsPlaced, InTransaction, MaxTries, MaxStalls, Attempts, NoAttempt
<1>3. ChargesMatch /\ AnswersAreCommitted /\ EventsFollowCommits
  BY DEF ChargesMatch, AnswersAreCommitted, EventsFollowCommits
<1>4. AnswersHaveEvents
  BY WalletTableAssumption DEF AnswersHaveEvents, Attempts, NoAttempt
<1>5. \A w \in Wallets : ~Exists(w) => balance[w] = 0
  BY DEF Exists
<1> QED
  BY <1>1, <1>2, <1>3, <1>4, <1>5 DEF PaymentInv

\* What is particular to an attempt.
Own(b) == <<ppc[b], payload[b], row[b], answer[b], job[b], tries[b], stalls[b]>>

\* A step keeps what is said of attempt b if it leaves b's own state, its row
\* and its charge alone, and its key if b has inserted it.
LEMMA Bystander ==
    ASSUME PaymentInv, NEW b \in Attempts, Own(b)' = Own(b),
           \A w \in Wallets : lockedBy'[w] = b <=> lockedBy[w] = b,
           \A w \in Wallets : lockedBy[w] = b => RowOf(w)' = RowOf(w),
           b \in charges' <=> b \in charges,
           ppc[b] = "commit" =>
              /\ payments'[Key(b)] = payments[Key(b)]
              /\ \A c \in Attempts : ppc'[c] = "commit" /\ payload'[c].key = Key(b) => c = b
    PROVE  HoldsItsRow(b)' /\ OwnsItsKey(b)' /\ IsPlaced(b)'
<1>1. /\ ppc'[b] = ppc[b] /\ payload'[b] = payload[b] /\ row'[b] = row[b]
      /\ answer'[b] = answer[b] /\ job'[b] = job[b]
      /\ tries'[b] = tries[b] /\ stalls'[b] = stalls[b]
  BY DEF Own
<1>2. IsPlaced(b)'
  BY <1>1 DEF PaymentInv, IsPlaced, Unsent
<1>3. OwnsItsKey(b)'
  BY <1>1 DEF PaymentInv, OwnsItsKey, Key
<1>4. IsPayable(b)' = IsPayable(b)
  BY <1>1 DEF IsPayable, Credited
<1>5. ASSUME NEW w \in Wallets, ppc[b] \in InTransaction, payload[b].wallet = w
      PROVE  /\ balance'[w] = balance[w] /\ status'[w] = status[w]
             /\ row[b] = RowOf(w) /\ Exists(w)
  <2>1. RowOf(w)' = RowOf(w) /\ row[b] = RowOf(w) /\ Exists(w)
    BY <1>5 DEF PaymentInv, HoldsItsRow, Receiver
  <2> QED
    BY <2>1 DEF RowOf
<1>6. HoldsItsRow(b)'
  <2>1. \A w \in Wallets :
           lockedBy'[w] = b <=> ppc'[b] \in InTransaction /\ payload'[b].wallet = w
    BY <1>1 DEF PaymentInv, HoldsItsRow, Receiver
  <2>2. ppc'[b] \in InTransaction =>
           /\ row'[b] = [balance |-> balance'[payload'[b].wallet],
                         status |-> status'[payload'[b].wallet]]
           /\ status'[payload'[b].wallet] # "ABSENT"
    <3>1. ppc[b] \in InTransaction => payload[b].wallet \in Wallets
      BY DEF PaymentInv, IsPlaced, PayloadType, InTransaction
    <3> QED
      BY <1>1, <1>5, <3>1 DEF RowOf, Exists
  <2>3. ppc'[b] \in {"insert", "commit"} => IsPayable(b)'
    BY <1>1, <1>4 DEF PaymentInv, HoldsItsRow
  <2> QED
    BY <2>1, <2>2, <2>3 DEF HoldsItsRow, RowOf, Exists, Receiver
<1> QED
  BY <1>2, <1>3, <1>6

\* A step of attempt a that writes neither the tables nor their payments.
LEMMA CalmInv ==
    ASSUME PaymentInv, TypeOK', NEW a \in Attempts,
           UNCHANGED <<balance, status, storeVars, workerVars>>,
           \A b \in Attempts \ {a} : Own(b)' = Own(b),
           \A b \in Attempts \ {a}, w \in Wallets : lockedBy'[w] = b <=> lockedBy[w] = b,
           payload'[a] = payload[a] \/ ppc[a] = "idle",
           ppc'[a] = "commit" =>
              /\ payload'[a] = payload[a]
              /\ \A b \in Attempts : ppc[b] = "commit" => Key(b) # Key(a),
           HoldsItsRow(a)', OwnsItsKey(a)', IsPlaced(a)',
           AnswersAreCommitted', EventsFollowCommits', AnswersHaveEvents'
    PROVE  PaymentInv'
<1>1. ASSUME NEW b \in Attempts \ {a} PROVE HoldsItsRow(b)' /\ OwnsItsKey(b)' /\ IsPlaced(b)'
  <2>1. \A w : RowOf(w)' = RowOf(w)
    BY DEF RowOf
  <2>2. \A c \in Attempts \ {a} : ppc'[c] = ppc[c] /\ payload'[c] = payload[c]
    BY DEF Own
  <2>3. ppc[b] = "commit" =>
           \A c \in Attempts : ppc'[c] = "commit" /\ payload'[c].key = Key(b) => c = b
    BY <2>2 DEF PaymentInv, OwnsItsKey, Key
  <2> QED
    BY <1>1, <2>1, <2>3, Bystander DEF storeVars
<1>2. ChargesMatch'
  <2>1. \A c \in charges : c \in Attempts /\ Key(c)' = Key(c)
    BY DEF PaymentInv, TypeOK, IsPlaced, Unsent, Own, Key
  <2> QED
    BY <2>1 DEF PaymentInv, ChargesMatch, storeVars
<1> QED
  BY <1>1, <1>2 DEF PaymentInv, Exists

LEMMA ReceiveInv ==
    ASSUME PaymentInv, TypeOK', NEW a \in Attempts, NEW p \in PayloadType, Receive(a, p),
           UNCHANGED workerVars
    PROVE  PaymentInv'
<1> USE DEF Receive, Goto, tableVars, storeVars, redisVars, workerVars, PaymentInv
<1>1. \A b \in Attempts \ {a} : Own(b)' = Own(b)
  BY DEF TypeOK, Own
<1>2. ppc'[a] = "check" /\ payload'[a] = p
  BY DEF TypeOK
<1>3. HoldsItsRow(a)' /\ OwnsItsKey(a)' /\ IsPlaced(a)'
  BY <1>2 DEF HoldsItsRow, OwnsItsKey, IsPlaced, InTransaction, Unsent
<1>4. answer[a] = NoAttempt /\ job[a] = "none"
  BY DEF IsPlaced
<1>5. AnswersAreCommitted'
  BY <1>1, <1>4 DEF AnswersAreCommitted, Own, Key
<1>6. EventsFollowCommits' /\ AnswersHaveEvents'
  BY DEF EventsFollowCommits, AnswersHaveEvents
<1> QED
  BY <1>1, <1>2, <1>3, <1>5, <1>6, CalmInv

\* What a's own step to a label has to keep of a, and of what is shared.
OwnStep(a, label) ==
    /\ label \in PaymentPc \ {"idle"} /\ Goto(a, label)
    /\ UNCHANGED <<balance, status, payments, charges, payload, tries, stalls>>
    /\ \A b \in Attempts \ {a} :
          /\ row'[b] = row[b] /\ answer'[b] = answer[b] /\ job'[b] = job[b]
          /\ \A w \in Wallets : lockedBy'[w] = b <=> lockedBy[w] = b
    /\ \A w \in Wallets : lockedBy'[w] = a <=> label \in InTransaction /\ Receiver(a) = w
    /\ label \in InTransaction => row'[a] = RowOf(Receiver(a)) /\ Exists(Receiver(a))
    /\ label \in {"insert", "commit"} => row' = row /\ IsPayable(a)
    /\ label = "commit" => OwnsItsKey(a)' /\ ~KeyIsPending(Key(a))
    /\ IsPlaced(a)'
    /\ \/ answer'[a] = NoAttempt \/ answer'[a] = answer[a]
       \/ payments[Key(a)].by = answer'[a] /\ answer'[a] \in Attempts
    /\ job'[a] = job[a] \/ a \in charges
    /\ answer'[a] = a => job'[a] # "none"
    /\ \A k \in Keys : cache'[k] # NoAttempt => payments[k].by = cache'[k]

LEMMA OwnStepInv ==
    ASSUME PaymentInv, TypeOK', NEW a \in Attempts, NEW label, OwnStep(a, label)
    PROVE  PaymentInv'
<1> USE DEF OwnStep, storeVars, workerVars
<1>1. /\ ppc'[a] = label
      /\ \A b \in Attempts \ {a} : ppc'[b] = ppc[b]
      /\ \A b \in Attempts \ {a} : Own(b)' = Own(b)
  BY DEF PaymentInv, TypeOK, Goto, Own, workerVars
<1>2. HoldsItsRow(a)'
  BY <1>1 DEF HoldsItsRow, InTransaction, RowOf, Exists, Receiver, IsPayable, Credited
<1>3. OwnsItsKey(a)'
  BY <1>1 DEF OwnsItsKey
<1>4. AnswersAreCommitted'
  BY DEF PaymentInv, AnswersAreCommitted, storeVars, Key
<1>5. EventsFollowCommits' /\ AnswersHaveEvents'
  BY DEF PaymentInv, EventsFollowCommits, AnswersHaveEvents, storeVars
<1>6. ppc'[a] = "commit" => \A b \in Attempts : ppc[b] = "commit" => Key(b) # Key(a)
  BY <1>1 DEF KeyIsPending
<1> QED
  BY <1>1, <1>2, <1>3, <1>4, <1>5, <1>6, CalmInv

LEMMA CheckInv ==
    ASSUME PaymentInv, TypeOK', NEW a \in Attempts,
           CacheHit(a) \/ CacheMiss(a) \/ AlreadyProcessing(a), UNCHANGED workerVars
    PROVE  PaymentInv'
<1> USE DEF PaymentPc, tableVars, storeVars, redisVars, workerVars, InTransaction
<1>1. /\ ppc[a] \in {"check", "claim"} /\ ~(ppc[a] \in InTransaction)
      /\ \A w \in Wallets : lockedBy[w] # a
      /\ payload[a] \in PayloadType /\ Key(a) \in Keys /\ a \notin charges
  BY DEF PaymentInv, HoldsItsRow, IsPlaced, Unsent, PayloadType, Key,
         CacheHit, CacheMiss, AlreadyProcessing
<1>2. \A k \in Keys : cache'[k] # NoAttempt => payments[k].by = cache'[k]
  BY DEF PaymentInv, AnswersAreCommitted, CacheHit, CacheMiss, AlreadyProcessing
<1>3. CASE CacheHit(a)
  <2>1. /\ answer'[a] = cache[Key(a)] /\ answer'[a] \in Attempts
        /\ payments[Key(a)].by = answer'[a] /\ answer'[a] # a
    <3> DEFINE c == cache[Key(a)]
    <3>1. answer'[a] = c /\ c \in Attempts /\ c # NoAttempt
      BY <1>1, <1>3, WalletTableAssumption DEF PaymentInv, TypeOK, CacheHit, Attempts, NoAttempt
    <3>2. payments[Key(a)].by = c
      BY <1>1, <3>1 DEF PaymentInv, AnswersAreCommitted
    <3>3. payments[Key(a)] # NoPayment
      BY <3>1, <3>2 DEF NoPayment
    <3>4. c \in charges
      BY <1>1, <3>2, <3>3 DEF PaymentInv, ChargesMatch
    <3> QED
      BY <1>1, <3>1, <3>2, <3>4
  <2>2. IsPlaced(a)'
    BY <1>1, <1>3, <2>1 DEF PaymentInv, TypeOK, IsPlaced, Unsent, CacheHit, Goto
  <2>3. OwnStep(a, "done")
    BY <1>1, <1>2, <1>3, <2>1, <2>2 DEF CacheHit, OwnStep, PaymentInv, TypeOK
  <2> QED
    BY <2>3, OwnStepInv
<1>4. CASE CacheMiss(a) \/ AlreadyProcessing(a)
  <2>1. IsPlaced(a)'
    BY <1>1, <1>4 DEF PaymentInv, TypeOK, IsPlaced, Unsent, CacheMiss, AlreadyProcessing, Goto
  <2>2. answer' = answer /\ (answer[a] = a => job[a] # "none")
    BY <1>4 DEF PaymentInv, AnswersHaveEvents, CacheMiss, AlreadyProcessing
  <2>3. CacheMiss(a) => OwnStep(a, "claim")
    BY <1>1, <1>2, <2>1, <2>2 DEF CacheMiss, OwnStep
  <2>4. AlreadyProcessing(a) => OwnStep(a, "failed")
    BY <1>1, <1>2, <2>1, <2>2 DEF AlreadyProcessing, OwnStep
  <2> QED
    BY <1>4, <2>3, <2>4, OwnStepInv
<1> QED
  BY <1>3, <1>4

LEMMA ClaimInv ==
    ASSUME PaymentInv, TypeOK', NEW a \in Attempts, NEW ok \in BOOLEAN, Claim(a, ok),
           UNCHANGED workerVars
    PROVE  PaymentInv'
<1> USE DEF tableVars, storeVars, workerVars
<1> DEFINE label == IF ok THEN "lock" ELSE "failed"
<1>1. label \in PaymentPc /\ label \notin InTransaction /\ label # "idle" /\ Goto(a, label)
  BY DEF PaymentPc, InTransaction, Claim
<1>2. \A w \in Wallets : lockedBy[w] # a
  BY DEF PaymentInv, HoldsItsRow, Claim, InTransaction
<1>3. IsPlaced(a)'
  BY DEF PaymentInv, TypeOK, IsPlaced, Unsent, Claim, Goto
<1>4. answer[a] = a => job[a] # "none"
  BY DEF PaymentInv, AnswersHaveEvents
<1>5. \A k \in Keys : cache'[k] # NoAttempt => payments[k].by = cache'[k]
  BY DEF PaymentInv, AnswersAreCommitted, Claim
<1> HIDE DEF label
<1>6. label \notin {"insert", "commit"}
  BY <1>1 DEF InTransaction
<1>7. OwnStep(a, label)
  BY <1>1, <1>2, <1>3, <1>4, <1>5, <1>6 DEF Claim, OwnStep
<1> QED
  BY <1>7, OwnStepInv

LEMMA LockWalletInv ==
    ASSUME PaymentInv, TypeOK', NEW a \in Attempts, LockWallet(a), UNCHANGED workerVars
    PROVE  PaymentInv'
<1> USE DEF storeVars, redisVars, workerVars
<1>1. /\ Receiver(a) \in Wallets /\ lockedBy[Receiver(a)] = NoReq
      /\ \A w \in Wallets : lockedBy[w] # a
  BY DEF PaymentInv, HoldsItsRow, IsPlaced, PayloadType, Receiver, LockWallet, InTransaction, IsLocked
<1>2. \A w \in Wallets : lockedBy'[w] = IF w = Receiver(a) THEN a ELSE lockedBy[w]
  BY <1>1 DEF PaymentInv, TypeOK, LockWallet
<1>3. row'[a] = RowOf(Receiver(a)) /\ \A b \in Attempts \ {a} : row'[b] = row[b]
  BY DEF PaymentInv, TypeOK, LockWallet
<1>4. IsPlaced(a)'
  BY DEF PaymentInv, TypeOK, IsPlaced, Unsent, LockWallet, Goto
<1>5. answer[a] = a => job[a] # "none"
  BY DEF PaymentInv, AnswersHaveEvents
<1>6. \A k \in Keys : cache'[k] # NoAttempt => payments[k].by = cache'[k]
  BY DEF PaymentInv, AnswersAreCommitted, LockWallet
<1>7. NoReq \notin Attempts
  BY WalletTableAssumption DEF Attempts
<1>8. /\ \A b \in Attempts \ {a}, w \in Wallets : lockedBy'[w] = b <=> lockedBy[w] = b
      /\ \A w \in Wallets : lockedBy'[w] = a <=> Receiver(a) = w
  BY <1>1, <1>2, <1>7
<1>9. "post" \in PaymentPc /\ "post" \in InTransaction
  BY DEF PaymentPc, InTransaction
<1>10. OwnStep(a, "post")
  BY <1>3, <1>4, <1>5, <1>6, <1>8, <1>9 DEF LockWallet, OwnStep
<1> QED
  BY <1>10, OwnStepInv

LEMMA WriteInv ==
    ASSUME PaymentInv, TypeOK', NEW a \in Attempts, Post(a) \/ InsertPayment(a),
           UNCHANGED workerVars
    PROVE  PaymentInv'
<1> USE DEF tableVars, storeVars, redisVars, workerVars
<1>1. /\ ppc[a] \in {"post", "insert"} /\ IsPayable(a)
      /\ row[a] = RowOf(Receiver(a)) /\ Exists(Receiver(a))
      /\ \A w \in Wallets : lockedBy[w] = a <=> Receiver(a) = w
  BY DEF PaymentInv, HoldsItsRow, InTransaction, Post, InsertPayment
<1>2. IsPlaced(a)'
  BY DEF PaymentInv, TypeOK, IsPlaced, Unsent, Post, InsertPayment, Goto
<1>3. answer[a] = a => job[a] # "none"
  BY DEF PaymentInv, AnswersHaveEvents
<1>4. \A k \in Keys : cache'[k] # NoAttempt => payments[k].by = cache'[k]
  BY DEF PaymentInv, AnswersAreCommitted, Post, InsertPayment
<1>5. CASE Post(a)
  <2>1. "insert" \in PaymentPc /\ "insert" \in InTransaction
    BY DEF PaymentPc, InTransaction
  <2>2. OwnStep(a, "insert")
    BY <1>1, <1>2, <1>3, <1>4, <1>5, <2>1 DEF Post, OwnStep
  <2> QED
    BY <2>2, OwnStepInv
<1>6. CASE InsertPayment(a)
  <2>1. "commit" \in PaymentPc /\ "commit" \in InTransaction
    BY DEF PaymentPc, InTransaction
  <2>2. OwnsItsKey(a)'
    BY <1>6 DEF PaymentInv, TypeOK, InsertPayment, OwnsItsKey, KeyIsPending, Goto, Key
  <2>3. OwnStep(a, "commit")
    BY <1>1, <1>2, <1>3, <1>4, <1>6, <2>1, <2>2 DEF InsertPayment, OwnStep
  <2> QED
    BY <2>3, OwnStepInv
<1> QED
  BY <1>5, <1>6

LEMMA AfterwardsInv ==
    ASSUME PaymentInv, TypeOK', NEW a \in Attempts, NEW ok \in BOOLEAN,
           CacheResponse(a, ok) \/ Publish(a, ok) \/ Release(a, ok), UNCHANGED workerVars
    PROVE  PaymentInv'
<1> USE DEF tableVars, storeVars, redisVars, workerVars
<1>1. /\ ppc[a] \notin InTransaction /\ \A w \in Wallets : lockedBy[w] # a
      /\ payload[a] \in PayloadType /\ Key(a) \in Keys
      /\ a \in charges => payments[Key(a)].by = a
  BY DEF PaymentInv, HoldsItsRow, IsPlaced, ChargesMatch, PayloadType, Key, InTransaction,
         CacheResponse, Publish, Release
<1>2. answer[a] = a => job[a] # "none"
  BY DEF PaymentInv, AnswersHaveEvents
<1>3. \A k \in Keys : cache[k] # NoAttempt => payments[k].by = cache[k]
  BY DEF PaymentInv, AnswersAreCommitted
<1>4. a # NoAttempt
  BY WalletTableAssumption DEF Attempts, NoAttempt
<1>5. CASE CacheResponse(a, ok)
  <2> DEFINE label == IF ok THEN "publish" ELSE "release"
  <2>1. label \in PaymentPc \ {"idle"} /\ label \notin InTransaction /\ Goto(a, label)
    BY <1>5 DEF PaymentPc, InTransaction, CacheResponse
  <2>2. IsPlaced(a)'
    BY <1>5 DEF PaymentInv, TypeOK, IsPlaced, Unsent, CacheResponse, Goto
  <2>3. \A k \in Keys : cache'[k] # NoAttempt => payments[k].by = cache'[k]
    BY <1>1, <1>3, <1>5 DEF PaymentInv, TypeOK, IsPlaced, CacheResponse
  <2> HIDE DEF label
  <2>4. label \notin {"insert", "commit"}
    BY <2>1 DEF InTransaction
  <2>5. OwnStep(a, label)
    BY <1>1, <1>2, <1>5, <2>1, <2>2, <2>3, <2>4 DEF CacheResponse, OwnStep
  <2> QED
    BY <2>5, OwnStepInv
<1>6. CASE Publish(a, ok)
  <2>1. a \in charges /\ job'[a] = "waiting" /\ answer'[a] \in {a, NoAttempt}
    BY <1>6 DEF PaymentInv, TypeOK, IsPlaced, Publish
  <2>2. IsPlaced(a)'
    BY <1>6, <2>1 DEF PaymentInv, TypeOK, IsPlaced, Unsent, Publish, Goto
  <2>3. \A b \in Attempts \ {a} : answer'[b] = answer[b] /\ job'[b] = job[b]
    BY <1>6 DEF PaymentInv, TypeOK, Publish
  <2>4. "release" \in PaymentPc \ {"idle"} /\ "release" \notin InTransaction
    BY DEF PaymentPc, InTransaction
  <2>5. OwnStep(a, "release")
    BY <1>1, <1>3, <1>4, <1>6, <2>1, <2>2, <2>3, <2>4 DEF Publish, OwnStep
  <2> QED
    BY <2>5, OwnStepInv
<1>7. CASE Release(a, ok)
  <2> DEFINE label == IF ok /\ answer[a] # NoAttempt THEN "done" ELSE "failed"
  <2>1. label \in PaymentPc \ {"idle"} /\ label \notin InTransaction /\ Goto(a, label)
    BY <1>7 DEF PaymentPc, InTransaction, Release
  <2>2. answer'[a] = IF ok THEN answer[a] ELSE NoAttempt
    BY <1>7 DEF PaymentInv, TypeOK, Release
  <2>3. IsPlaced(a)'
    BY <1>7, <2>2 DEF PaymentInv, TypeOK, IsPlaced, Unsent, Release, Goto
  <2>4. \A b \in Attempts \ {a} : answer'[b] = answer[b]
    BY <1>7 DEF PaymentInv, TypeOK, Release
  <2> HIDE DEF label
  <2>5. label \notin {"insert", "commit"}
    BY <2>1 DEF InTransaction
  <2>6. OwnStep(a, label)
    BY <1>1, <1>2, <1>3, <1>4, <1>7, <2>1, <2>2, <2>3, <2>4, <2>5 DEF Release, OwnStep
  <2> QED
    BY <2>6, OwnStepInv
<1> QED
  BY <1>5, <1>6, <1>7

\* The end of a transaction that does not commit, and the end of the process.
LEMMA EndInv ==
    ASSUME PaymentInv, TypeOK', NEW a \in Attempts, NEW label \in {"release", "failed"},
           ppc[a] \notin {"idle", "done", "failed"}, Goto(a, label),
           label = "failed" \/ ppc[a] # "release",
           label = "failed" => answer'[a] = NoAttempt,
           label = "release" => answer' = answer,
           \A b \in Attempts \ {a} : answer'[b] = answer[b],
           UNCHANGED <<balance, status, storeVars, redisVars, job, payload, workerVars>>,
           EndPayment(a)
    PROVE  PaymentInv'
<1> USE DEF storeVars, redisVars, workerVars
<1>1. \A w \in Wallets : lockedBy'[w] = IF lockedBy[w] = a THEN NoReq ELSE lockedBy[w]
  BY DEF EndPayment
<1>2. NoReq \notin Attempts /\ a # NoAttempt
  BY WalletTableAssumption DEF Attempts, NoAttempt
<1>3. label \in PaymentPc \ {"idle"} /\ label \notin InTransaction
  BY DEF PaymentPc, InTransaction
<1>4. IsPlaced(a)'
  BY DEF PaymentInv, TypeOK, IsPlaced, Unsent, Goto
<1>5. answer'[a] = a => job[a] # "none"
  BY <1>2 DEF PaymentInv, AnswersHaveEvents
<1>6. \A k \in Keys : cache[k] # NoAttempt => payments[k].by = cache[k]
  BY DEF PaymentInv, AnswersAreCommitted
<1>7. \A b \in Attempts \ {a} : row'[b] = row[b]
  BY DEF PaymentInv, TypeOK, EndPayment
<1>8. /\ \A b \in Attempts \ {a}, w \in Wallets : lockedBy'[w] = b <=> lockedBy[w] = b
      /\ \A w \in Wallets : lockedBy'[w] # a
  BY <1>1, <1>2
<1>9. label \notin {"insert", "commit"} /\ (answer'[a] = NoAttempt \/ answer'[a] = answer[a])
  OBVIOUS
<1>10. OwnStep(a, label)
  BY <1>3, <1>4, <1>5, <1>6, <1>7, <1>8, <1>9 DEF OwnStep
<1> QED
  BY <1>10, OwnStepInv

LEMMA FailureInv ==
    ASSUME PaymentInv, TypeOK', NEW a \in Attempts,
           RejectPayment(a) \/ DuplicateKey(a) \/ Fail(a) \/ Die(a), UNCHANGED workerVars
    PROVE  PaymentInv'
<1>1. \A b \in Attempts \ {a} : [answer EXCEPT ![a] = NoAttempt][b] = answer[b]
  BY DEF PaymentInv, TypeOK
<1>2. [answer EXCEPT ![a] = NoAttempt][a] = NoAttempt
  BY DEF PaymentInv, TypeOK
<1>3. ASSUME ppc[a] \in {"lock", "post", "insert", "commit", "cache", "publish"},
             RollbackTo(a, "release")
      PROVE  PaymentInv'
  BY <1>3, EndInv DEF RollbackTo
<1>4. CASE Die(a)
  BY <1>1, <1>2, <1>4, EndInv DEF Die
<1>5. ASSUME ppc[a] \in {"check", "claim", "release"}, Goto(a, "failed"),
             answer' = [answer EXCEPT ![a] = NoAttempt],
             UNCHANGED <<tableVars, storeVars, redisVars, job, payload, row>>
      PROVE  PaymentInv'
  <2>1. /\ ppc[a] \notin InTransaction /\ \A w \in Wallets : lockedBy[w] # a
    BY <1>5 DEF PaymentInv, HoldsItsRow, InTransaction
  <2>2. IsPlaced(a)'
    BY <1>2, <1>5 DEF PaymentInv, TypeOK, IsPlaced, Unsent, Goto, storeVars, workerVars
  <2>3. "failed" \in PaymentPc \ {"idle"} /\ "failed" \notin InTransaction /\ a # NoAttempt
    BY WalletTableAssumption DEF PaymentPc, InTransaction, Attempts, NoAttempt
  <2>4. \A k \in Keys : cache[k] # NoAttempt => payments[k].by = cache[k]
    BY DEF PaymentInv, AnswersAreCommitted
  <2>5. OwnStep(a, "failed")
    BY <1>1, <1>2, <1>5, <2>1, <2>2, <2>3, <2>4
    DEF OwnStep, tableVars, storeVars, redisVars, workerVars
  <2> QED
    BY <2>5, OwnStepInv
<1> QED
  BY <1>3, <1>4, <1>5 DEF RejectPayment, DuplicateKey, Fail

\* What a commit writes: the first payment with its key, credited to the
\* balance that the row lock has kept.
LEMMA CommitEffect ==
    ASSUME PaymentInv, NEW a \in Attempts, NEW ok \in BOOLEAN, Commit(a, ok)
    PROVE  LET w == Receiver(a)
               c == Stored(payload[a].amount)
           IN  /\ w \in Wallets /\ Key(a) \in Keys /\ payload[a] \in PayloadType
               /\ lockedBy[w] = a /\ Exists(w) /\ status[w] = "ACTIVE"
               /\ payments[Key(a)] = NoPayment
               /\ c \in 0 .. MaxCents /\ balance[w] + c <= MaxCents
               /\ balance' = [balance EXCEPT ![w] = balance[w] + c]
               /\ payments' = [payments EXCEPT ![Key(a)] =
                     [by |-> a, wallet |-> w, amount |-> c, status |-> "INITIATED"]]
<1>1. payload[a] \in PayloadType /\ IsPayable(a) /\ row[a] = RowOf(Receiver(a))
      /\ Exists(Receiver(a)) /\ payments[Key(a)] = NoPayment
  BY DEF PaymentInv, IsPlaced, HoldsItsRow, OwnsItsKey, InTransaction, Commit
<1>2. Receiver(a) \in Wallets /\ Key(a) \in Keys /\ payload[a].amount \in Amounts
  BY <1>1 DEF PayloadType, Receiver, Key
<1>3. lockedBy[Receiver(a)] = a
  BY <1>2 DEF PaymentInv, HoldsItsRow, InTransaction, Commit
<1>4. row[a].balance = balance[Receiver(a)] /\ row[a].status = status[Receiver(a)]
      /\ balance[Receiver(a)] \in Int
  BY <1>1, <1>2 DEF RowOf, PaymentInv, TypeOK
<1>5. /\ Stored(payload[a].amount) \in Nat
      /\ Credited(a) = balance[Receiver(a)] + Stored(payload[a].amount)
  BY <1>2, <1>4, StoredCredit DEF Credited
<1>6. Stored(payload[a].amount) <= MaxCents /\ Credited(a) <= MaxCents
      /\ status[Receiver(a)] = "ACTIVE"
  BY <1>1, <1>4 DEF IsPayable, Fits
<1>7. Stored(payload[a].amount) \in 0 .. MaxCents
  BY <1>5, <1>6, MoneyAssumption
<1> QED
  BY <1>1, <1>2, <1>3, <1>5, <1>6, <1>7 DEF Commit

LEMMA CommitInv ==
    ASSUME PaymentInv, TypeOK', NEW a \in Attempts, NEW ok \in BOOLEAN, Commit(a, ok),
           UNCHANGED workerVars
    PROVE  PaymentInv'
<1> USE DEF workerVars
<1>1. /\ Receiver(a) \in Wallets /\ Key(a) \in Keys /\ payload[a] \in PayloadType
      /\ lockedBy[Receiver(a)] = a /\ Exists(Receiver(a)) /\ payments[Key(a)] = NoPayment
  BY CommitEffect
<1>2. a # NoAttempt /\ NoReq \notin Attempts /\ a \notin charges /\ ppc[a] = "commit"
  BY WalletTableAssumption DEF Attempts, NoAttempt, PaymentInv, IsPlaced, Unsent, Commit
<1>3. /\ \A k \in Keys \ {Key(a)} : payments'[k] = payments[k]
      /\ payments'[Key(a)].by = a
      /\ charges' = charges \cup {a}
      /\ \A w \in Wallets \ {Receiver(a)} : balance'[w] = balance[w]
      /\ status' = status /\ payload' = payload /\ job' = job /\ answer' = answer /\ cache' = cache
  BY <1>1 DEF PaymentInv, TypeOK, Commit, redisVars
<1>4. ppc'[a] \in {"cache", "release"}
  BY DEF PaymentInv, TypeOK, Commit, Goto
<1>5. \A b \in Attempts \ {a} : Own(b)' = Own(b) /\ ppc'[b] = ppc[b]
  BY DEF PaymentInv, TypeOK, Commit, EndPayment, Goto, Own
<1>6. \A w \in Wallets : lockedBy'[w] = IF lockedBy[w] = a THEN NoReq ELSE lockedBy[w]
  BY DEF Commit, EndPayment
<1>7. ASSUME NEW b \in Attempts \ {a} PROVE HoldsItsRow(b)' /\ OwnsItsKey(b)' /\ IsPlaced(b)'
  <2>1. \A w \in Wallets : lockedBy'[w] = b <=> lockedBy[w] = b
    BY <1>2, <1>6
  <2>2. \A w \in Wallets : lockedBy[w] = b => RowOf(w)' = RowOf(w)
    BY <1>1, <1>3 DEF RowOf
  <2>3. ppc[b] = "commit" =>
           /\ payments'[Key(b)] = payments[Key(b)]
           /\ \A c \in Attempts : ppc'[c] = "commit" /\ payload'[c].key = Key(b) => c = b
    <3>1. ppc[b] = "commit" => Key(b) \in Keys /\ Key(b) # Key(a)
      BY <1>2 DEF PaymentInv, OwnsItsKey, IsPlaced, PayloadType, Key
    <3>2. ppc[b] = "commit" =>
             \A c \in Attempts : ppc[c] = "commit" /\ Key(c) = Key(b) => c = b
      BY DEF PaymentInv, OwnsItsKey
    <3> QED
      BY <1>3, <1>4, <1>5, <3>1, <3>2 DEF Key
  <2> QED
    BY <1>3, <1>5, <2>1, <2>2, <2>3, Bystander
<1>8. HoldsItsRow(a)' /\ OwnsItsKey(a)'
  BY <1>2, <1>4, <1>6 DEF HoldsItsRow, OwnsItsKey, InTransaction
<1>9. IsPlaced(a)'
  BY <1>1, <1>2, <1>3, <1>4 DEF PaymentInv, IsPlaced, Unsent
<1>10. ChargesMatch'
  <2>1. \A c \in charges : Key(c) # Key(a) /\ Key(c) \in Keys
    <3> TAKE c \in charges
    <3>1. c \in Attempts /\ c # NoAttempt /\ payments[Key(c)].by = c
      BY <1>2 DEF PaymentInv, TypeOK, ChargesMatch, Attempts, NoAttempt
    <3>2. payments[Key(a)].by = NoAttempt
      BY <1>1 DEF NoPayment
    <3>3. ppc[c] # "idle"
      BY <3>1 DEF PaymentInv, IsPlaced, Unsent
    <3> QED
      BY <3>1, <3>2, <3>3 DEF PaymentInv, IsPlaced, PayloadType, Key
  <2>2. \A c \in charges' : payments'[Key(c)].by = c
    BY <1>3, <2>1 DEF PaymentInv, ChargesMatch
  <2>3. \A k \in Keys : payments'[k] # NoPayment =>
           payments'[k].by \in charges' /\ Key(payments'[k].by) = k
    BY <1>3 DEF PaymentInv, ChargesMatch
  <2> QED
    BY <1>3, <2>2, <2>3 DEF ChargesMatch, Key
<1>11. AnswersAreCommitted'
  <2>1. \A b \in Attempts : answer[b] # NoAttempt => Key(b) # Key(a) /\ Key(b) \in Keys
    BY <1>1 DEF PaymentInv, AnswersAreCommitted, IsPlaced, PayloadType, Key, NoPayment
  <2>2. \A k \in Keys : cache[k] # NoAttempt => k # Key(a)
    BY <1>1 DEF PaymentInv, AnswersAreCommitted, NoPayment
  <2> QED
    BY <1>3, <2>1, <2>2 DEF PaymentInv, AnswersAreCommitted, Key
<1>12. EventsFollowCommits' /\ AnswersHaveEvents'
  BY <1>3 DEF PaymentInv, EventsFollowCommits, AnswersHaveEvents
<1>13. \A w \in Wallets : ~Exists(w)' => balance'[w] = 0
  BY <1>1, <1>3 DEF PaymentInv, Exists
<1> QED
  BY <1>7, <1>8, <1>9, <1>10, <1>11, <1>12, <1>13 DEF PaymentInv

LEMMA ExpiryInv ==
    ASSUME PaymentInv, TypeOK', NEW k \in Keys, LockExpires(k) \/ CacheExpires(k),
           UNCHANGED workerVars
    PROVE  PaymentInv'
<1> USE DEF tableVars, storeVars, attemptVars, workerVars
<1>1. UNCHANGED <<tableVars, storeVars, attemptVars, job>>
  BY DEF LockExpires, CacheExpires
<1>2. ASSUME NEW b \in Attempts PROVE HoldsItsRow(b)' /\ OwnsItsKey(b)' /\ IsPlaced(b)'
  BY <1>1 DEF PaymentInv, HoldsItsRow, OwnsItsKey, IsPlaced, Unsent, Key, Receiver, RowOf,
              Exists, IsPayable, Credited
<1>3. \A q \in Keys : cache'[q] # NoAttempt => cache'[q] = cache[q]
  BY DEF PaymentInv, TypeOK, LockExpires, CacheExpires
<1>4. ChargesMatch' /\ EventsFollowCommits' /\ AnswersHaveEvents'
  BY <1>1 DEF PaymentInv, ChargesMatch, EventsFollowCommits, AnswersHaveEvents, Key
<1>5. AnswersAreCommitted'
  BY <1>1, <1>3 DEF PaymentInv, AnswersAreCommitted, Key
<1> QED
  BY <1>1, <1>2, <1>4, <1>5 DEF PaymentInv, Exists

LEMMA WorkerInv ==
    ASSUME PaymentInv, TypeOK', WorkerNext,
           UNCHANGED <<tableVars, storeVars, redisVars, attemptVars, taskVars>>
    PROVE  PaymentInv'
<1> USE DEF tableVars, storeVars, redisVars, attemptVars, workerVars
<1> PICK j \in Attempts : Take(j) \/ Throw(j) \/ Stall(j)
  BY DEF WorkerNext, WorkerProgress
<1>1. /\ job[j] # "none" /\ job'[j] # "none"
      /\ \A b \in Attempts \ {j} : job'[b] = job[b] /\ tries'[b] = tries[b] /\ stalls'[b] = stalls[b]
  BY DEF PaymentInv, TypeOK, Take, Throw, Stall
<1>2. job'[j] # "failed" => tries'[j] < MaxTries /\ stalls'[j] <= MaxStalls
  BY DEF PaymentInv, TypeOK, IsPlaced, Take, Throw, Stall, MaxTries, MaxStalls
<1>3. ASSUME NEW b \in Attempts PROVE HoldsItsRow(b)' /\ OwnsItsKey(b)'
  BY DEF PaymentInv, HoldsItsRow, OwnsItsKey, Key, Receiver, RowOf, Exists, IsPayable, Credited
<1>4. ASSUME NEW b \in Attempts PROVE IsPlaced(b)'
  BY <1>1, <1>2 DEF PaymentInv, IsPlaced, Unsent
<1>5. ChargesMatch' /\ AnswersAreCommitted'
  BY DEF PaymentInv, ChargesMatch, AnswersAreCommitted, Key
<1>6. EventsFollowCommits' /\ AnswersHaveEvents'
  BY <1>1 DEF PaymentInv, EventsFollowCommits, AnswersHaveEvents
<1> QED
  BY <1>3, <1>4, <1>5, <1>6 DEF PaymentInv, Exists

\* The wallet service leaves the rows alone that a transaction holds, and opens
\* wallets with nothing in them.
LEMMA WalletEffect ==
    ASSUME PaymentInv, WalletNext
    PROVE  /\ lockedBy' = lockedBy /\ balance' = balance
           /\ \/ status' = status
              \/ \E w \in Wallets, s \in WalletStatus :
                    /\ status' = [status EXCEPT ![w] = s]
                    /\ ~Exists(w) \/ ~IsLocked(w)
<1>1. ASSUME NEW t \in Tasks, InsertWallet(t)
      PROVE  /\ lockedBy' = lockedBy /\ balance' = balance
             /\ \E w \in Wallets, s \in WalletStatus :
                   status' = [status EXCEPT ![w] = s] /\ ~Exists(w)
  <2> DEFINE w == task[t].wallet
  <2>1. w \in Wallets /\ ~Exists(w)
    BY <1>1 DEF PaymentInv, TypeOK, TaskType, NoTask, InsertWallet
  <2>2. balance[w] = 0 /\ balance \in [Wallets -> Int]
    BY <2>1 DEF PaymentInv, TypeOK
  <2>3. status' = [status EXCEPT ![w] = "ACTIVE"] /\ balance' = [balance EXCEPT ![w] = 0]
        /\ lockedBy' = lockedBy
    BY <1>1 DEF InsertWallet
  <2>4. "ACTIVE" \in WalletStatus
    BY DEF WalletStatus
  <2> HIDE DEF w
  <2> QED
    BY <2>1, <2>2, <2>3, <2>4
<1>2. ASSUME NEW t \in Tasks, UpdateStatus(t)
      PROVE  /\ lockedBy' = lockedBy /\ balance' = balance
             /\ \E w \in Wallets, s \in WalletStatus :
                   status' = [status EXCEPT ![w] = s] /\ ~IsLocked(w)
  <2> DEFINE w == task[t].wallet
  <2>1. w \in Wallets
    BY <1>2 DEF PaymentInv, TypeOK, TaskType, NoTask, UpdateStatus, Target
  <2>2. \A kind \in DOMAIN Target : Target[kind] \in WalletStatus
    BY DEF Target, WalletStatus
  <2>3. Target[task[t].kind] \in WalletStatus
    BY <1>2, <2>2 DEF UpdateStatus
  <2> QED
    BY <1>2, <2>1, <2>3 DEF UpdateStatus
<1>3. ASSUME UNCHANGED tableVars
      PROVE  lockedBy' = lockedBy /\ balance' = balance /\ status' = status
  BY <1>3 DEF tableVars
<1> QED
  BY <1>1, <1>2, <1>3
  DEF WalletNext, TaskProgress, ReadWallet, TurnDown, InsertConflict, Abandon

LEMMA TaskInv ==
    ASSUME PaymentInv, TypeOK', WalletNext, UNCHANGED <<paymentVars, workerVars>>
    PROVE  PaymentInv'
<1> USE DEF paymentVars, storeVars, redisVars, attemptVars, workerVars
<1>1. \A w \in Wallets : /\ Exists(w) => Exists(w)'
                         /\ Exists(w) /\ IsLocked(w) => RowOf(w)' = RowOf(w)
  <2>1. "ABSENT" \notin WalletStatus
    BY DEF WalletStatus
  <2> QED
    BY <2>1, WalletEffect DEF PaymentInv, TypeOK, Exists, RowOf
<1>2. lockedBy' = lockedBy /\ balance' = balance
  BY WalletEffect
<1>3. ASSUME NEW b \in Attempts PROVE HoldsItsRow(b)' /\ OwnsItsKey(b)' /\ IsPlaced(b)'
  <2>1. Own(b)' = Own(b)
    BY DEF Own
  <2>2. ASSUME NEW w \in Wallets, lockedBy[w] = b PROVE RowOf(w)' = RowOf(w)
    <3>1. IsLocked(w)
      BY <2>2, WalletTableAssumption DEF IsLocked, Attempts
    <3>2. Exists(w)
      BY <2>2 DEF PaymentInv, HoldsItsRow
    <3> QED
      BY <1>1, <3>1, <3>2
  <2>3. ppc[b] = "commit" =>
           \A c \in Attempts : ppc'[c] = "commit" /\ payload'[c].key = Key(b) => c = b
    BY DEF PaymentInv, OwnsItsKey, Key
  <2> QED
    BY <1>2, <2>1, <2>2, <2>3, Bystander
<1>4. ChargesMatch' /\ AnswersAreCommitted' /\ EventsFollowCommits' /\ AnswersHaveEvents'
  BY DEF PaymentInv, ChargesMatch, AnswersAreCommitted, EventsFollowCommits, AnswersHaveEvents, Key
<1>5. \A w \in Wallets : ~Exists(w)' => balance'[w] = 0
  BY <1>1, <1>2 DEF PaymentInv
<1> QED
  BY <1>3, <1>4, <1>5 DEF PaymentInv

LEMMA NextInv == PaymentInv /\ [Next]_vars => PaymentInv'
<1> SUFFICES ASSUME PaymentInv, [Next]_vars PROVE PaymentInv'
  OBVIOUS
<1>1. TypeOK'
  BY NextType
<1>2. CASE PaymentNext /\ UNCHANGED <<workerVars, taskVars>>
  BY <1>1, <1>2, ReceiveInv, CheckInv, ClaimInv, LockWalletInv, WriteInv, CommitInv,
     AfterwardsInv, FailureInv, ExpiryInv
  DEF PaymentNext, PaymentProgress
<1>3. CASE WorkerNext /\ UNCHANGED <<tableVars, storeVars, redisVars, attemptVars, taskVars>>
  BY <1>1, <1>3, WorkerInv
<1>4. CASE WalletNext /\ UNCHANGED <<paymentVars, workerVars>>
  BY <1>1, <1>4, TaskInv
<1>5. CASE UNCHANGED vars
  <2>1. UNCHANGED <<tableVars, paymentVars, workerVars>>
    BY <1>5 DEF vars
  <2>2. ASSUME NEW b \in Attempts PROVE HoldsItsRow(b)' /\ OwnsItsKey(b)' /\ IsPlaced(b)'
    BY <2>1 DEF PaymentInv, HoldsItsRow, OwnsItsKey, IsPlaced, Unsent, Key, Receiver, RowOf,
                Exists, IsPayable, Credited, tableVars, paymentVars, storeVars, attemptVars, workerVars
  <2>3. ChargesMatch' /\ AnswersAreCommitted' /\ EventsFollowCommits' /\ AnswersHaveEvents'
    BY <2>1 DEF PaymentInv, ChargesMatch, AnswersAreCommitted, EventsFollowCommits,
                AnswersHaveEvents, Key, paymentVars, storeVars, redisVars, attemptVars
  <2> QED
    BY <1>1, <2>1, <2>2, <2>3 DEF PaymentInv, Exists, tableVars
<1> QED
  BY <1>2, <1>3, <1>4, <1>5 DEF Next, Quiescent

\* The invariant holds in every reachable state.
THEOREM InvariantHolds == Spec => []PaymentInv
BY InitInv, NextInv, PTL DEF Spec

-----------------------------------------------------------------------------
(* What it gives.                                                          *)

\* Every variable keeps its type, for every value of the constants.
THEOREM TypeCorrect == Spec => []TypeOK
<1>1. PaymentInv => TypeOK
  BY DEF PaymentInv
<1> QED
  BY <1>1, InvariantHolds, PTL

\* However many attempts carry a key, one at most is charged for it, whatever
\* fails, expires or overlaps.
THEOREM KeysAreChargedOnce == Spec => []ChargedOnce
<1>1. PaymentInv => ChargedOnce
  BY DEF PaymentInv, ChargesMatch, ChargedOnce
<1> QED
  BY <1>1, InvariantHolds, PTL

\* Charges and Payment rows go together.
THEOREM ChargesHavePayments == Spec => []ChargeHasPayment
<1>1. PaymentInv => ChargeHasPayment
  <2> SUFFICES ASSUME PaymentInv, NEW a \in Attempts
               PROVE  a \in charges <=> \E k \in Keys : payments[k].by = a
    BY DEF ChargeHasPayment
  <2>1. ASSUME a \in charges PROVE Key(a) \in Keys /\ payments[Key(a)].by = a
    BY <2>1 DEF PaymentInv, ChargesMatch, IsPlaced, Unsent, PayloadType, Key
  <2>2. ASSUME NEW k \in Keys, payments[k].by = a PROVE a \in charges
    BY <2>2, WalletTableAssumption DEF PaymentInv, ChargesMatch, NoPayment, Attempts, NoAttempt
  <2> QED
    BY <2>1, <2>2
<1> QED
  BY <1>1, InvariantHolds, PTL

\* Nobody is answered with a payment that is not committed.
THEOREM AnswersFollowCommits == Spec => []AnswersAreCommitted
<1>1. PaymentInv => AnswersAreCommitted
  BY DEF PaymentInv
<1> QED
  BY <1>1, InvariantHolds, PTL

\* No job is published for a payment that is not committed.
THEOREM EventsAreOfCommits == Spec => []EventsFollowCommits
<1>1. PaymentInv => EventsFollowCommits
  BY DEF PaymentInv
<1> QED
  BY <1>1, InvariantHolds, PTL

\* None is missing for a payment that was answered at first hand.
THEOREM EventsMatchAnswers == Spec => []AnswersHaveEvents
<1>1. PaymentInv => AnswersHaveEvents
  BY DEF PaymentInv
<1> QED
  BY <1>1, InvariantHolds, PTL

\* Whoever has a row locked gets on, or waits for the key of one that does: it
\* is between its SELECT and its commit, and there waits at its INSERT only.
THEOREM WaitsStayShort == Spec => []WaitsAreShort
<1>1. PaymentInv => WaitsAreShort
  <2> SUFFICES ASSUME PaymentInv, NEW a \in Attempts, NEW w \in Wallets,
                      lockedBy[w] = a
               PROVE  IsMoving(a) \/ \E b \in Attempts : WaitsFor(a, b) /\ IsMoving(b)
    BY DEF WaitsAreShort
  <2>1. ppc[a] \in InTransaction
    BY DEF PaymentInv, HoldsItsRow
  <2>2. ASSUME NEW b \in Attempts, ppc[b] \in {"post", "commit"}
        PROVE  IsMoving(b)
    BY <2>2 DEF IsMoving, WaitsFor, Answered
  <2>3. CASE ppc[a] \in {"post", "commit"}
    BY <2>2, <2>3
  <2>4. CASE ppc[a] = "insert" /\ \E b \in Attempts : WaitsFor(a, b)
    BY <2>2, <2>4 DEF WaitsFor
  <2>5. CASE ppc[a] = "insert" /\ ~ \E b \in Attempts : WaitsFor(a, b)
    BY <2>5 DEF IsMoving, Answered
  <2> QED
    BY <2>1, <2>3, <2>4, <2>5 DEF InTransaction
<1> QED
  BY <1>1, InvariantHolds, PTL

-----------------------------------------------------------------------------
(* The balances are what was paid.                                         *)

LEMMA PaymentAmounts ==
    ASSUME TypeOK, NEW k \in Keys
    PROVE  /\ payments[k].amount \in Int
           /\ payments[k] = NoPayment \/ payments[k].wallet \in Wallets
BY DEF TypeOK, NoPayment

\* A commit adds one payment to those of its receiver, and none to the others.
LEMMA CommitPays ==
    ASSUME IsFiniteSet(Keys), PaymentInv, NEW a \in Attempts, NEW ok \in BOOLEAN,
           Commit(a, ok), NEW w \in Wallets
    PROVE  PaidTo(w)' =
             IF w = Receiver(a) THEN PaidTo(w) + Stored(payload[a].amount) ELSE PaidTo(w)
<1> DEFINE c == Stored(payload[a].amount)
           amount == [k \in Keys |-> payments[k].amount]
           keys == {k \in Keys : payments[k].wallet = w}
<1>1. /\ Key(a) \in Keys /\ payments[Key(a)] = NoPayment /\ c \in Int
      /\ payments' = [payments EXCEPT ![Key(a)] =
            [by |-> a, wallet |-> Receiver(a), amount |-> c, status |-> "INITIATED"]]
  BY CommitEffect
<1>2. /\ payments'[Key(a)].wallet = Receiver(a) /\ payments'[Key(a)].amount = c
      /\ \A k \in Keys \ {Key(a)} : payments'[k] = payments[k]
  BY <1>1 DEF PaymentInv, TypeOK
<1>3. Key(a) \notin keys
  BY <1>1, WalletTableAssumption DEF NoPayment, NoWallet
<1>4. \A k \in Keys : amount[k] \in Int /\ amount'[k] \in Int
  BY <1>1, <1>2, PaymentAmounts DEF PaymentInv
<1>5. \A k \in keys : amount'[k] = amount[k]
  BY <1>2, <1>3
<1>6. IsFiniteSet(keys) /\ keys \subseteq Keys
  BY FS_Subset
<1>7. /\ amount'[Key(a)] = c
      /\ keys' = IF w = Receiver(a) THEN keys \cup {Key(a)} ELSE keys
  BY <1>1, <1>2, <1>3
<1>8. PaidTo(w) = SumFunctionOnSet(amount, keys) /\ PaidTo(w)' = SumFunctionOnSet(amount', keys')
  BY DEF PaidTo
<1> HIDE DEF c, amount, keys
<1>9. /\ SumFunctionOnSet(amount', keys) = SumFunctionOnSet(amount, keys)
      /\ SumFunctionOnSet(amount, keys) \in Int
  BY <1>4, <1>5, <1>6, SumCongruence, SumType
<1>10. CASE w = Receiver(a)
  <2>1. \A k \in keys \cup {Key(a)} : amount'[k] \in Int
    BY <1>1, <1>4, <1>6
  <2>2. SumFunctionOnSet(amount', keys \cup {Key(a)}) =
            amount'[Key(a)] + SumFunctionOnSet(amount', keys)
    BY <1>3, <1>6, <2>1, SumAdd
  <2> QED
    BY <1>1, <1>7, <1>8, <1>9, <1>10, <2>2 DEF c
<1>11. CASE w # Receiver(a)
  BY <1>7, <1>8, <1>9, <1>11
<1> QED
  BY <1>10, <1>11

\* Only a commit changes what the tables show of payments.
LEMMA OnlyCommitsPay ==
    ASSUME PaymentNext, \A a \in Attempts, ok \in BOOLEAN : ~Commit(a, ok)
    PROVE  UNCHANGED <<balance, status, payments>>
BY DEF PaymentNext, PaymentProgress, Receive, CacheHit, CacheMiss, Claim, AlreadyProcessing,
       LockWallet, Post, InsertPayment, RejectPayment, DuplicateKey, CacheResponse, Publish,
       Release, Fail, Die, RollbackTo, LockExpires, CacheExpires, tableVars, storeVars

\* Every balance is what the wallet held at first and the payments made to it:
\* no credit is lost under a concurrent one, and none is posted twice.
THEOREM BalancesArePaid ==
    ASSUME IsFiniteSet(Keys)
    PROVE  Spec => []PaymentsExplainBalances
<1>1. Init => PaymentsExplainBalances
  <2> SUFFICES ASSUME Init, NEW w \in Wallets PROVE balance[w] = Opening[w] + PaidTo(w)
    BY DEF PaymentsExplainBalances
  <2> DEFINE amount == [k \in Keys |-> payments[k].amount]
             keys == {k \in Keys : payments[k].wallet = w}
  <2>1. keys = {} /\ IsFiniteSet({})
    BY WalletTableAssumption, FS_EmptySet DEF Init, PaymentInit, NoPayment, NoWallet
  <2>2. PaidTo(w) = SumFunctionOnSet(amount, keys)
    BY DEF PaidTo
  <2>3. balance[w] = Opening[w] /\ Opening[w] \in Int
    BY PaymentAssumption, MoneyAssumption DEF Init
  <2> HIDE DEF amount, keys
  <2>4. SumFunctionOnSet(amount, {}) = 0
    BY <2>1, SumZero
  <2> QED
    BY <2>1, <2>2, <2>3, <2>4
<1>2. PaymentInv /\ PaymentsExplainBalances /\ [Next]_vars => PaymentsExplainBalances'
  <2> SUFFICES ASSUME PaymentInv, PaymentsExplainBalances, [Next]_vars
               PROVE  PaymentsExplainBalances'
    OBVIOUS
  <2>1. CASE UNCHANGED <<balance, payments>>
    BY <2>1 DEF PaymentsExplainBalances, PaidTo
  <2>2. ASSUME NEW a \in Attempts, NEW ok \in BOOLEAN, Commit(a, ok)
        PROVE  PaymentsExplainBalances'
    <3> SUFFICES ASSUME NEW w \in Wallets PROVE balance'[w] = Opening[w] + PaidTo(w)'
      BY DEF PaymentsExplainBalances
    <3> DEFINE c == Stored(payload[a].amount)
    <3>1. c \in Int /\ balance' = [balance EXCEPT ![Receiver(a)] = balance[Receiver(a)] + c]
      BY <2>2, CommitEffect
    <3>2. PaidTo(w)' = IF w = Receiver(a) THEN PaidTo(w) + c ELSE PaidTo(w)
      BY <2>2, CommitPays
    <3>3. balance[w] = Opening[w] + PaidTo(w) /\ Opening[w] \in Int
      BY PaymentAssumption, MoneyAssumption DEF PaymentsExplainBalances
    <3>4. PaidTo(w) \in Int
      <4>1. \A k \in Keys : payments[k].amount \in Int
        BY PaymentAmounts DEF PaymentInv
      <4>2. IsFiniteSet({k \in Keys : payments[k].wallet = w})
        BY FS_Subset
      <4> QED
        BY <4>1, <4>2, SumType DEF PaidTo
    <3>5. balance'[w] = IF w = Receiver(a) THEN balance[w] + c ELSE balance[w]
      BY <3>1 DEF PaymentInv, TypeOK
    <3> HIDE DEF c
    <3> QED
      BY <3>1, <3>2, <3>3, <3>4, <3>5
  <2>3. CASE PaymentNext
    BY <2>1, <2>2, <2>3, OnlyCommitsPay
  <2>4. CASE WorkerNext /\ UNCHANGED <<tableVars, storeVars, redisVars, attemptVars, taskVars>>
    BY <2>1, <2>4 DEF tableVars, storeVars
  <2>5. CASE WalletNext /\ UNCHANGED <<paymentVars, workerVars>>
    BY <2>1, <2>5, WalletEffect DEF paymentVars, storeVars
  <2>6. CASE UNCHANGED vars
    BY <2>1, <2>6 DEF vars, tableVars, paymentVars, storeVars
  <2> QED
    BY <2>3, <2>4, <2>5, <2>6 DEF Next, Quiescent
<1> QED
  BY <1>1, <1>2, InvariantHolds, PTL DEF Spec

-----------------------------------------------------------------------------
(* The payment service implements IdempotentPayments.                      *)

\* What the tables show is a behaviour of IdempotentPayments: every key is paid
\* for once, whole, and to an ACTIVE wallet.
THEOREM Refinement == Spec => ImplementsIdempotentPayments
<1>1. Init => Idempotent!Init
  BY DEF Init, PaymentInit, WalletStatus, Idempotent!Init
<1>2. ASSUME PaymentInv, NEW a \in Attempts, NEW ok \in BOOLEAN, Commit(a, ok)
      PROVE  Idempotent!Next
  <2> DEFINE w == Receiver(a)
             c == Stored(payload[a].amount)
  <2>1. /\ w \in Wallets /\ Key(a) \in Keys /\ status[w] = "ACTIVE"
        /\ payments[Key(a)] = NoPayment /\ c \in 0 .. MaxCents /\ balance[w] + c <= MaxCents
        /\ balance' = [balance EXCEPT ![w] = balance[w] + c]
        /\ payments' = [payments EXCEPT ![Key(a)] =
              [by |-> a, wallet |-> w, amount |-> c, status |-> "INITIATED"]]
    BY <1>2, CommitEffect
  <2>2. status' = status
    BY <1>2 DEF Commit
  <2> HIDE DEF w, c
  <2>3. Idempotent!Pay(Key(a), a, w, c)
    BY <2>1, <2>2 DEF Idempotent!Pay
  <2> QED
    BY <2>1, <2>3 DEF Idempotent!Next
<1>3. ASSUME PaymentInv, WalletNext, UNCHANGED paymentVars
      PROVE  [Idempotent!Next]_(Idempotent!vars)
  <2>1. balance' = balance /\ payments' = payments
    BY <1>3, WalletEffect DEF paymentVars, storeVars
  <2>2. CASE status' = status
    BY <2>1, <2>2 DEF Idempotent!vars
  <2>3. ASSUME NEW w \in Wallets, NEW s \in WalletStatus, status' = [status EXCEPT ![w] = s]
        PROVE  Idempotent!Next
    <3>1. Idempotent!WalletChange(w, s)
      BY <2>1, <2>3 DEF Idempotent!WalletChange
    <3> QED
      BY <2>3, <3>1 DEF Idempotent!Next, WalletStatus
  <2> QED
    BY <1>3, <2>2, <2>3, WalletEffect
<1>4. PaymentInv /\ [Next]_vars => [Idempotent!Next]_(Idempotent!vars)
  <2> SUFFICES ASSUME PaymentInv, [Next]_vars PROVE [Idempotent!Next]_(Idempotent!vars)
    OBVIOUS
  <2>1. CASE \E a \in Attempts, ok \in BOOLEAN : Commit(a, ok)
    BY <1>2, <2>1
  <2>2. CASE UNCHANGED <<balance, status, payments>>
    BY <2>2 DEF Idempotent!vars
  <2>3. CASE PaymentNext
    BY <2>1, <2>2, <2>3, OnlyCommitsPay
  <2>4. CASE WorkerNext /\ UNCHANGED <<tableVars, storeVars, redisVars, attemptVars, taskVars>>
    BY <2>2, <2>4 DEF tableVars, storeVars
  <2>5. CASE WalletNext /\ UNCHANGED <<paymentVars, workerVars>>
    BY <1>3, <2>5
  <2>6. CASE UNCHANGED vars
    BY <2>2, <2>6 DEF vars, tableVars, paymentVars, storeVars
  <2> QED
    BY <2>3, <2>4, <2>5, <2>6 DEF Next, Quiescent
<1> QED
  BY <1>1, <1>4, InvariantHolds, PTL DEF Spec, ImplementsIdempotentPayments, Idempotent!Spec
=============================================================================
