---------------------------- MODULE PaymentService ----------------------------
(***************************************************************************)
(* Payments: PaymentService.processPayment, run by concurrent attempts     *)
(* that may carry the same Idempotency-Key, over Redis (the idempotency    *)
(* cache and a lock, both with a time to live), one database transaction   *)
(* and a job queue.                                                        *)
(*                                                                         *)
(* Every await is a step.  A call may fail without an effect (Fail), or    *)
(* take effect and lose its reply (the steps with ok = FALSE); the process *)
(* may die between any two calls (Die).                                    *)
(***************************************************************************)
EXTENDS WalletTable

CONSTANTS
    Keys,       \* values of the Idempotency-Key header
    Amounts,    \* amounts a payment may be of
    Opening     \* Opening[w]: the balance of w before the model starts

\* An attempt is a request of the wallet table: it locks one row.
Attempts == Requests
NoAttempt == NoReq

ASSUME PaymentAssumption ==
    /\ Amounts \subseteq [cents : Nat, ticks : 0 .. (Ticks - 1)]
    /\ Opening \in [Wallets -> 0 .. MaxCents]

VARIABLES
    payments,   \* payments[k]: the committed Payment row with key k
    charges,    \* attempts whose Transaction and LedgerEntry are committed
    cache,      \* cache[k]: the payment in idempotency:k, or NoAttempt
    locked,     \* locked[k]: whether idempotency_lock:k is set
    job,        \* job[a]: state of the PAYMENT_SUCCESS job of a's payment
    ppc,        \* ppc[a]: where attempt a is
    payload,    \* payload[a]: what a asks for
    row,        \* row[a]: the wallet row a read under the lock
    answer      \* answer[a]: the payment a is answered with, or NoAttempt

storeVars == <<payments, charges>>
redisVars == <<cache, locked>>
attemptVars == <<ppc, payload, row, answer>>
paymentVars == <<storeVars, redisVars, job, attemptVars>>

PayloadType == [key : Keys, wallet : Wallets, amount : Amounts]

NoPayload == [key |-> "NONE", wallet |-> NoWallet,
              amount |-> [cents |-> 0, ticks |-> 0]]

\* A payment is named by the attempt that made it.
NoPayment == [by |-> NoAttempt, wallet |-> NoWallet, amount |-> 0,
              status |-> "NONE"]

Key(a) == payload[a].key
Receiver(a) == payload[a].wallet

PaymentInit ==
    /\ payments = [k \in Keys |-> NoPayment]
    /\ charges = {}
    /\ cache = [k \in Keys |-> NoAttempt]
    /\ locked = [k \in Keys |-> FALSE]
    /\ job = [a \in Attempts |-> "none"]
    /\ ppc = [a \in Attempts |-> "idle"]
    /\ payload = [a \in Attempts |-> NoPayload]
    /\ row = [a \in Attempts |-> NoRow]
    /\ answer = [a \in Attempts |-> NoAttempt]

Goto(a, label) == ppc' = [ppc EXCEPT ![a] = label]

-----------------------------------------------------------------------------
(* The idempotency check.                                                  *)

\* A client sends a payment, or sends it again.
Receive(a, p) ==
    /\ ppc[a] = "idle"
    /\ payload' = [payload EXCEPT ![a] = p]
    /\ Goto(a, "check")
    /\ UNCHANGED <<tableVars, storeVars, redisVars, job, row, answer>>

\* GET idempotency:k finds the response of an earlier attempt ...
CacheHit(a) ==
    /\ ppc[a] = "check"
    /\ cache[Key(a)] # NoAttempt
    /\ answer' = [answer EXCEPT ![a] = cache[Key(a)]]
    /\ Goto(a, "done")
    /\ UNCHANGED <<tableVars, storeVars, redisVars, job, payload, row>>

\* ... or nothing.
CacheMiss(a) ==
    /\ ppc[a] = "check"
    /\ cache[Key(a)] = NoAttempt
    /\ Goto(a, "claim")
    /\ UNCHANGED <<tableVars, storeVars, redisVars, job, payload, row, answer>>

\* SET idempotency_lock:k NX EX 10.  The call is outside of the try block, so
\* an attempt that loses the reply leaves the lock to its time to live.
Claim(a, ok) ==
    /\ ppc[a] = "claim"
    /\ ~locked[Key(a)]
    /\ locked' = [locked EXCEPT ![Key(a)] = TRUE]
    /\ Goto(a, IF ok THEN "lock" ELSE "failed")
    /\ UNCHANGED <<tableVars, storeVars, cache, job, payload, row, answer>>

AlreadyProcessing(a) ==
    /\ ppc[a] = "claim"
    /\ locked[Key(a)]
    /\ Goto(a, "failed")
    /\ UNCHANGED <<tableVars, storeVars, redisVars, job, payload, row, answer>>

-----------------------------------------------------------------------------
(* The database transaction.                                               *)

\* SELECT ... FOR UPDATE of the receiver's row.
LockWallet(a) ==
    /\ ppc[a] = "lock"
    /\ Exists(Receiver(a))
    /\ ~IsLocked(Receiver(a))
    /\ lockedBy' = [lockedBy EXCEPT ![Receiver(a)] = a]
    /\ row' = [row EXCEPT ![a] = RowOf(Receiver(a))]
    /\ Goto(a, "post")
    /\ UNCHANGED <<balance, status, storeVars, redisVars, job, payload, answer>>

Credited(a) == Stored(Plus(row[a].balance, payload[a].amount))

IsPayable(a) ==
    /\ row[a].status = "ACTIVE"
    /\ IsPositive(payload[a].amount)
    /\ Fits(Stored(payload[a].amount))
    /\ Fits(Credited(a))

\* Bug: the event is published from inside the transaction.
PostAndPublish(a) ==
    /\ ppc[a] = "post"
    /\ IsPayable(a)
    /\ job' = [job EXCEPT ![a] = "waiting"]
    /\ Goto(a, "insert")
    /\ UNCHANGED <<tableVars, storeVars, redisVars, payload, row, answer>>

\* The Transaction row (SUCCESS from the start), its ledger entry and the new
\* balance: writes of this transaction only, nobody sees them yet.
Post(a) ==
    /\ ppc[a] = "post"
    /\ IsPayable(a)
    /\ Goto(a, "insert")
    /\ UNCHANGED <<tableVars, storeVars, redisVars, job, payload, row, answer>>

\* An INSERT waits for the end of a transaction that has inserted its key.
KeyIsPending(k) == \E b \in Attempts : ppc[b] = "commit" /\ Key(b) = k

\* Bug: idempotencyKey is not unique.
InsertAnyPayment(a) ==
    /\ ppc[a] = "insert"
    /\ Goto(a, "commit")
    /\ UNCHANGED <<tableVars, storeVars, redisVars, job, payload, row, answer>>

\* Bug: the response is cached from inside the transaction.
InsertAndCache(a) ==
    /\ ppc[a] = "insert"
    /\ ~KeyIsPending(Key(a))
    /\ payments[Key(a)] = NoPayment
    /\ cache' = [cache EXCEPT ![Key(a)] = a]
    /\ Goto(a, "commit")
    /\ UNCHANGED <<tableVars, storeVars, locked, job, payload, row, answer>>

\* createPayment: the INSERT finds no row with its key.
InsertPayment(a) ==
    /\ ppc[a] = "insert"
    /\ ~KeyIsPending(Key(a))
    /\ payments[Key(a)] = NoPayment
    /\ Goto(a, "commit")
    /\ UNCHANGED <<tableVars, storeVars, redisVars, job, payload, row, answer>>

\* Bug: the transaction is left open.
KeepOpen(a) ==
    /\ row' = [row EXCEPT ![a] = NoRow]
    /\ UNCHANGED lockedBy

\* The row locks of a's transaction go, and what it read.
EndPayment(a) ==
    /\ lockedBy' = [w \in Wallets |->
                        IF lockedBy[w] = a THEN NoReq ELSE lockedBy[w]]
    /\ row' = [row EXCEPT ![a] = NoRow]

Commit(a, ok) ==
    /\ ppc[a] = "commit"
    /\ payments' = [payments EXCEPT ![Key(a)] =
                       [by |-> a, wallet |-> Receiver(a),
                        amount |-> Stored(payload[a].amount),
                        status |-> "INITIATED"]]
    /\ charges' = charges \cup {a}
    /\ balance' = [balance EXCEPT ![Receiver(a)] = Credited(a)]
    /\ EndPayment(a)
    /\ Goto(a, IF ok THEN "cache" ELSE "release")
    /\ UNCHANGED <<status, redisVars, job, payload, answer>>

\* Bug: the posting is not passed the transaction's client and outlives it.
RollbackButPosted(a, label) ==
    /\ EndPayment(a)
    /\ Goto(a, label)
    /\ charges' = IF ppc[a] \in {"insert", "commit"} THEN charges \cup {a}
                                                    ELSE charges
    /\ UNCHANGED <<balance, status, payments, redisVars, job, payload, answer>>

\* The transaction is rolled back.
RollbackTo(a, label) ==
    /\ EndPayment(a)
    /\ Goto(a, label)
    /\ UNCHANGED <<balance, status, storeVars, redisVars, job, payload, answer>>

\* No such wallet, or one that cannot be credited.
RejectPayment(a) ==
    /\ \/ ppc[a] = "lock" /\ ~Exists(Receiver(a))
       \/ ppc[a] = "post" /\ ~IsPayable(a)
    /\ RollbackTo(a, "release")

\* Payment.idempotencyKey is unique: P2002.
DuplicateKey(a) ==
    /\ ppc[a] = "insert"
    /\ payments[Key(a)] # NoPayment
    /\ RollbackTo(a, "release")

-----------------------------------------------------------------------------
(* After the transaction.                                                  *)

\* SET idempotency:k EX 86400.
CacheResponse(a, ok) ==
    /\ ppc[a] = "cache"
    /\ cache' = [cache EXCEPT ![Key(a)] = a]
    /\ Goto(a, IF ok THEN "publish" ELSE "release")
    /\ UNCHANGED <<tableVars, storeVars, locked, job, payload, row, answer>>

\* Bug: the error of a failed publication is swallowed.
PublishOrAnswer(a, ok) ==
    /\ ppc[a] = "publish"
    /\ job' = [job EXCEPT ![a] = IF ok THEN "waiting" ELSE @]
    /\ answer' = [answer EXCEPT ![a] = a]
    /\ Goto(a, "release")
    /\ UNCHANGED <<tableVars, storeVars, redisVars, payload, row>>

\* eventService.publishPaymentEvent adds the job; the response is returned.
Publish(a, ok) ==
    /\ ppc[a] = "publish"
    /\ job' = [job EXCEPT ![a] = "waiting"]
    /\ answer' = [answer EXCEPT ![a] = IF ok THEN a ELSE NoAttempt]
    /\ Goto(a, "release")
    /\ UNCHANGED <<tableVars, storeVars, redisVars, payload, row>>

\* finally: DEL idempotency_lock:k, whoever has set it.  An error of the DEL
\* takes the place of the response.
Release(a, ok) ==
    /\ ppc[a] = "release"
    /\ locked' = [locked EXCEPT ![Key(a)] = FALSE]
    /\ answer' = [answer EXCEPT ![a] = IF ok THEN @ ELSE NoAttempt]
    /\ Goto(a, IF ok /\ answer[a] # NoAttempt THEN "done" ELSE "failed")
    /\ UNCHANGED <<tableVars, storeVars, cache, job, payload, row>>

-----------------------------------------------------------------------------
(* Failures and time.                                                      *)

\* A call fails without an effect: inside the try block, finally comes next.
Fail(a) ==
    \/ /\ ppc[a] \in {"check", "claim", "release"}
       /\ Goto(a, "failed")
       /\ answer' = [answer EXCEPT ![a] = NoAttempt]
       /\ UNCHANGED <<tableVars, storeVars, redisVars, job, payload, row>>
    \/ /\ ppc[a] \in {"lock", "post", "insert", "commit", "cache", "publish"}
       /\ RollbackTo(a, "release")

\* The process dies: PostgreSQL rolls back, Redis keeps what it has.
Die(a) ==
    /\ ppc[a] \notin {"idle", "done", "failed"}
    /\ EndPayment(a)
    /\ Goto(a, "failed")
    /\ answer' = [answer EXCEPT ![a] = NoAttempt]
    /\ UNCHANGED <<balance, status, storeVars, redisVars, job, payload>>

LockExpires(k) ==
    /\ locked[k]
    /\ locked' = [locked EXCEPT ![k] = FALSE]
    /\ UNCHANGED <<tableVars, storeVars, cache, job, attemptVars>>

CacheExpires(k) ==
    /\ cache[k] # NoAttempt
    /\ cache' = [cache EXCEPT ![k] = NoAttempt]
    /\ UNCHANGED <<tableVars, storeVars, locked, job, attemptVars>>

PaymentProgress(a) ==
    \/ CacheHit(a) \/ CacheMiss(a) \/ AlreadyProcessing(a)
    \/ LockWallet(a) \/ Post(a) \/ InsertPayment(a)
    \/ RejectPayment(a) \/ DuplicateKey(a)
    \/ \E ok \in BOOLEAN :
          Claim(a, ok) \/ Commit(a, ok) \/ CacheResponse(a, ok)
          \/ Publish(a, ok) \/ Release(a, ok)

PaymentNext ==
    \/ \E a \in Attempts :
          \/ \E p \in PayloadType : Receive(a, p)
          \/ PaymentProgress(a) \/ Fail(a) \/ Die(a)
    \/ \E k \in Keys : LockExpires(k) \/ CacheExpires(k)

Answered(a) == ppc[a] \in {"done", "failed"}
=============================================================================
