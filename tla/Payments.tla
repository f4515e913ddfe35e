------------------------------- MODULE Payments -------------------------------
(***************************************************************************)
(* Attempts to pay, the worker that processes their jobs, and the wallet   *)
(* service that may freeze or close the receiver's wallet meanwhile.       *)
(***************************************************************************)
EXTENDS PaymentWorker, WalletService, Functions

vars == <<tableVars, paymentVars, workerVars, taskVars>>

Init ==
    /\ balance = Opening
    /\ status \in {s \in [Wallets -> WalletStatus \cup {"ABSENT"}] :
                      \A w \in Wallets : s[w] = "ABSENT" => Opening[w] = 0}
    /\ lockedBy = [w \in Wallets |-> NoReq]
    /\ PaymentInit
    /\ WorkerInit
    /\ WalletInit

\* Nothing is left to do: all is answered and no job is left.
Quiescent ==
    /\ \A a \in Attempts : Answered(a) /\ job[a] \in {"none", "failed"}
    /\ \A t \in Tasks : TaskFinished(t)
    /\ UNCHANGED vars

Next ==
    \/ PaymentNext /\ UNCHANGED <<workerVars, taskVars>>
    \/ WorkerNext /\ UNCHANGED <<tableVars, storeVars, redisVars, attemptVars, taskVars>>
    \/ WalletNext /\ UNCHANGED <<paymentVars, workerVars>>
    \/ Quiescent

Spec == Init /\ [][Next]_vars

\* The event loop goes on with a request it has accepted and the worker with a
\* job.  Nothing is assumed of clients, of failures or of when keys expire.
Fairness ==
    \A a \in Attempts :
        /\ WF_vars(PaymentProgress(a) /\ UNCHANGED <<workerVars, taskVars>>)
        /\ WF_vars(/\ WorkerProgress(a)
                   /\ UNCHANGED <<tableVars, storeVars, redisVars, attemptVars, taskVars>>)

FairSpec == Spec /\ Fairness

-----------------------------------------------------------------------------
PaymentPc == {"idle", "check", "claim", "lock", "post", "insert", "commit",
              "cache", "publish", "release", "done", "failed"}

\* The type of every variable.
TypeOK ==
    /\ balance \in [Wallets -> Int]
    /\ status \in [Wallets -> WalletStatus \cup {"ABSENT"}]
    /\ lockedBy \in [Wallets -> Attempts \cup {NoReq}]
    /\ payments \in [Keys -> [by : Attempts, wallet : Wallets, amount : Nat,
                              status : {"INITIATED"}] \cup {NoPayment}]
    /\ charges \subseteq Attempts
    /\ cache \in [Keys -> Attempts \cup {NoAttempt}]
    /\ locked \in [Keys -> BOOLEAN]
    /\ job \in [Attempts -> {"none", "waiting", "active", "failed"}]
    /\ ppc \in [Attempts -> PaymentPc]
    /\ payload \in [Attempts -> PayloadType \cup {NoPayload}]
    /\ row \in [Attempts -> Row]
    /\ answer \in [Attempts -> Attempts \cup {NoAttempt}]
    /\ tries \in [Attempts -> 0 .. MaxTries]
    /\ stalls \in [Attempts -> 0 .. (MaxStalls + 1)]
    /\ taskPc \in [Tasks -> {"idle", "write", "done", "failed"}]
    /\ task \in [Tasks -> TaskType \cup {NoTask}]
    /\ taskRead \in [Tasks -> WalletStatus \cup {"ABSENT"}]

-----------------------------------------------------------------------------
(* Safety.                                                                 *)

\* "Prevents duplicate charges during retries" (README.md:9): however many
\* attempts carry a key, and whatever fails or expires, one of them is charged.
ChargedOnce ==
    \A a, b \in charges : Key(a) = Key(b) => a = b

\* A charge and its Payment row are committed together, and no other attempt
\* may take the row over.
ChargeHasPayment ==
    \A a \in Attempts :
        a \in charges <=> \E k \in Keys : payments[k].by = a

\* Whoever is answered with a payment, at first hand or from the cache, is
\* answered with the payment that its key has committed.
AnswersAreCommitted ==
    /\ \A a \in Attempts : answer[a] # NoAttempt => payments[Key(a)].by = answer[a]
    /\ \A k \in Keys : cache[k] # NoAttempt => payments[k].by = cache[k]

\* A job is only published for a payment that is committed.
EventsFollowCommits ==
    \A a \in Attempts : job[a] # "none" => a \in charges

\* The payment an attempt is told it has made has its job in the queue, so
\* that the event of an answered payment cannot get lost: the job is added
\* before the answer (payment.service.js:130-137).
AnswersHaveEvents ==
    \A a \in Attempts : answer[a] = a => job[a] # "none"

\* What the payments committed for wallet w add up to.
PaidTo(w) ==
    SumFunctionOnSet([k \in Keys |-> payments[k].amount],
                     {k \in Keys : payments[k].wallet = w})

\* A wallet holds what its payments have brought: no credit is lost, none is
\* posted twice, whichever attempts overlapped (payment.service.js:59-117).
PaymentsExplainBalances ==
    \A w \in Wallets : balance[w] = Opening[w] + PaidTo(w)

\* Attempt a waits for b: for its wallet's row, or for the key that b has
\* inserted and not committed.
WaitsFor(a, b) ==
    \/ ppc[a] = "lock" /\ lockedBy[Receiver(a)] = b
    \/ ppc[a] = "insert" /\ ppc[b] = "commit" /\ Key(b) = Key(a)

\* Attempt a is under way and waits for nobody.
IsMoving(a) ==
    /\ ppc[a] # "idle" /\ ~Answered(a)
    /\ \A b \in Attempts : ~WaitsFor(a, b)

\* A transaction that has a row locked gets on by itself, or waits for the key
\* of one that does: whoever waits for a wallet, a payment or a status change,
\* waits for two transactions at most, and nobody waits in a circle
\* (payment.service.js:62-117 locks the row before it inserts the key).
WaitsAreShort ==
    \A a \in Attempts :
        (\E w \in Wallets : lockedBy[w] = a) =>
            \/ IsMoving(a)
            \/ \E b \in Attempts : WaitsFor(a, b) /\ IsMoving(b)

-----------------------------------------------------------------------------
(* Implementation and progress.                                            *)

Idempotent ==
    INSTANCE IdempotentPayments WITH
        balance <- balance, status <- status, payments <- payments

\* The tables change only by first payments, whole, and by status changes.
ImplementsIdempotentPayments == Idempotent!Spec

\* Every attempt is answered, also if it waits for a wallet or for the key.
AttemptsFinish ==
    \A a \in Attempts : (ppc[a] # "idle") ~> Answered(a)

\* No job is retried for ever.
JobsEnd == \A a \in Attempts : (job[a] # "none") ~> (job[a] = "failed")

-----------------------------------------------------------------------------
(* What the repository says and the code does not do.                      *)

\* "We update the status to SUCCESS after background processing confirms it"
\* (payment.worker.js:25).
PaymentsSucceed ==
    \A a \in Attempts :
        (job[a] = "waiting") ~>
            \E k \in Keys : payments[k].by = a /\ payments[k].status = "SUCCESS"
=============================================================================
