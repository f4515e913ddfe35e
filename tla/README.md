# A TLA+ model of the banking API

This directory specifies the core of the banking API in TLA+, model-checks it
with TLC and proves the main results with TLAPS. Paths below are relative to
the repository; `src/modules/...` is where the services are.

The API is a Node.js/Express server over PostgreSQL (through Prisma), Redis and
BullMQ. A single process interleaves many requests at their `await`s, several
processes may share the database, and a separate connection runs the queue
workers. What can go wrong is therefore in the interleaving of awaits, in row
locks, in failures between two calls and in keys that expire - and that is what
the model is about.

## 1. Inventory

| Part | State | Operations | Interacts with | What makes it correct | Modelled |
|---|---|---|---|---|---|
| Transactions (`transaction.service.js`, controller, repository) | `Transaction` rows | deposit, withdraw, transfer | locks `Wallet` rows, posts to the ledger | never overdrawn, all or nothing, no deadlock, only ACTIVE wallets | yes |
| Ledger (`ledger.service.js`, repository) | `LedgerEntry` rows, `Wallet.balance` (a cache of them) | postTransaction, calculateRunningBalance | inside the transactions of others | the entries explain the balance | yes |
| Wallets (`wallet.service.js`, controller, repository) | `Wallet` rows | create, freeze, unfreeze, close | races with everything that locks the row | CLOSED is final, one wallet per user, no money moved by a status change | yes |
| Payments (`payment.service.js`, repository, routes) | `Payment` rows, `idempotency:*` and `idempotency_lock:*` in Redis | processPayment (verifyPayment throws at its first query) | locks a `Wallet` row, posts, publishes a job | one charge per key, truthful answers, no lost credit | yes |
| Payment queue and worker (`event.service.js`, `payment.worker.js`) | jobs | add, process, retry, stall | updates `Payment` | retries end; the payment becomes SUCCESS | yes |
| Sessions (`auth.service.js`, `auth.middleware.js`, `jwt.js`) | `User.refreshToken` | register, login, refresh, logout, authenticate | reads user status | one user per e-mail, revoked means revoked | yes |
| Users (`user.service.js`) | `User` rows | profile, password, status, role, soft delete | read by authenticate | deleted users stay out, no update undoes another | yes |
| Request pipeline (`app.js`, `routes.js`, the routes files, `validate*.js`, `error.middleware.js`) | none | routing, limiting, authentication, validation, error mapping | every route; waits for Redis and PostgreSQL | every request is answered, errors map as documented | yes |
| Startup and shutdown (`server.js`, `db.js`, `redis.js`) | HTTP server, connections, the process itself | bootstrap, gracefulShutdown | requests, workers, database, Redis | drained before it exits with 0, in order, within 10 s | yes |
| Gateway webhook route, mock accounts, ledger and audit reads | none | routes that only read, or only fail | behind the pipeline | who may call them, what they answer | yes, as routes |
| Rate limiter | counters in Redis | count a request | every `/api` route, before anything else | - | partly: that it waits, and may refuse; the counter is the library's |
| Audit writes, webhook dispatch, notifications | - | never called, or only log | - | - | no: no behaviour |
| Logging, Swagger, constants, scripts | none | output, developers' tools | - | - | no: no state |

Each service is modelled as its signatures say, and `RequestPipeline` says how a
request gets to it. `validation.middleware.js` parses `req.body` against schemas
that wrap it in `{ body }`, and `validate.js` finds no `body` in the payment
schemas; so some routes turn valid requests down and payments reach the service
unvalidated. For the user routes, where it decides what can happen at all, this
is part of `Accounts` too. In the payment model amounts are what a client may
send.

The hazards - what is hard to test, with the line where it bites and the
property that watches it - are listed in `PROJECT.json`.

## 2. The modules

```
  Money                  decimals: cents, and ticks of a cent; DECIMAL(18,2)
    WalletTable          the Wallet table and its row locks
      TransactionService deposit, withdraw, transfer, posting
      WalletService      create, freeze, unfreeze, close
      PaymentService     processPayment over Redis and PostgreSQL
        PaymentWorker    the queue and its worker
  Banking   = TransactionService + WalletService    implements AtomicBank
  Payments  = PaymentWorker + WalletService         implements IdempotentPayments
  Accounts               users, sessions, administration
                                                    implements AtomicAccounts
  RequestPipeline        routes, middlewares, error handler: what is answered
    Server               the process: requests, worker, shutdown
                                                    implements GracefulStop
  BankingInvariant       the inductive invariants of Banking
    BankingProofs        its theorems
      LockingProofs      the order of its locks, and that never all wait
      LedgerProofs       the sums over its ledgers and its wallets
  PaymentsInvariant      the inductive invariant of Payments
    PaymentsProofs       its theorems
  Sums                   induction over naturals and finite sets, and what the
                         sum of a function over a finite set is
  AccountsProofs, ServerProofs   the theorems of Accounts and Server
  MCBanking, MCPayments, MCAccounts, MCServer   instances for TLC
```

### Correspondence with the code

* **Money.** A stored value is a number of cents; a request amount has cents and
  `ticks`, `Ticks` of which are a cent, so amounts finer than a cent exist and
  are rounded where a DECIMAL(18,2) column rounds them, halves up (`Stored`).
  `Covers` is `Number(balance) - amount >= 0` and compares exactly; floating
  point is left out. Values that do not fit the column (`Fits`) raise an error.
* **WalletTable.** `balance`, `status`, `lockedBy` are the committed columns and
  the row locks. `userId` is unique, so there is at most one wallet for each
  user and a wallet is named by its user. `ABSENT` is the lack of a row. Rows
  are never deleted.
* **TransactionService.** One action per await: `Receive`/`Refuse` (the
  controller's lookup, and the same-wallet check), `Begin` (a connection of the
  pool), `LockRow` (one row of `SELECT ... ORDER BY id FOR UPDATE`),
  `CreateTransaction` or `Reject` (validation and the PENDING row), `PostDebit`,
  `PostCredit` or `Overflow`, `MarkSuccess`, `Commit`. `Abort` is every failure
  from the outside: timeout, lost connection, dead process. What a transaction
  writes before it commits is in `txnDraft`, `posted`, `entryDraft`,
  `rowDraft`, private to it as under READ COMMITTED; `Commit` publishes it and
  `EndTransaction` drops it together with its locks. The insert of the entry and
  the update of the balance are one step, `PostTransaction`: both are private,
  so no one can tell them apart from two.
* **WalletService.** Two steps for each call: `ReadWallet`/`TurnDown`, then
  `InsertWallet`, `InsertConflict` (P2002) or `UpdateStatus`, whose UPDATE waits
  for the row lock. `Abandon` is a failure in between. That the user exists is
  assumed.
* **PaymentService.** One action per call to Redis or PostgreSQL. A call may fail
  (`Fail`), take effect and lose its reply (`ok = FALSE`), or be the last one of
  its process (`Die`); keys expire at any time (`LockExpires`, `CacheExpires`).
  A unique key that another transaction has inserted and not committed makes an
  INSERT wait (`KeyIsPending`). A payment is named by the attempt that made it.
* **PaymentWorker.** `Take`, `Throw` (the update goes to the configuration
  module instead of a client and throws at every try) and `Stall` (BullMQ takes
  the job of a dead worker back, once).
* **AtomicBank**, **IdempotentPayments**, **AtomicAccounts**,
  **GracefulStop.** What the services promise to a reader of the tables: whole
  transactions and whole status changes; at most one payment per key, in the
  same step as its credit; calls that take effect at one instant, on the row as
  it is then and on their own column of it, or are refused for a reason that
  holds at that instant. And what the process promises its clients: connections
  are accepted while it serves, the open ones can only go away once it drains,
  and a stop that reports success leaves none. No locks, drafts, keys, queries,
  workers or timers.
* **Accounts.** One action per query: `CheckEmail` and `InsertUser` or
  `EmailConflict` (register), `ReadCredentials`, `Sign` and `StoreToken` (login),
  `Refresh`, `Admit`/`Deny`/`RejectBody` (authenticate, authorize, validate),
  `Find` and one of `Logout`, `SoftDelete`, `Administer`. A user is named by the
  unique e-mail. An access token is a user who was issued one; it may expire at
  any time (`TokenExpired`). A refresh token is its payload and the second it
  was signed in, so two logins in one second get the same. A write may take
  effect and lose its reply. The schemas of the PATCH routes keep every value
  from the service: `RejectBody` answers flat bodies, and after a nested one
  `Administer` writes nothing, a profile or password update fails. So through
  the routes only the owner's deletion changes a status, and nothing a role.

* **RequestPipeline.** A constant module: a route is who may call it, how its
  body is checked, and the answers its handler can give; `Entered`, `Routed`,
  `Authenticated`, `Validated` are the stretches of code between two awaits, and
  `errorMiddleware` is the table from errors to statuses. `"Error"` is every
  error without a class of `src/errors`. That includes the classes that
  `auth.service.js` defines for itself, so a duplicate e-mail and wrong
  credentials are answered 500 as well, where `auth.test.js:36, 82` expect 409
  and 401. `LetsThrough` has one entry for each way a route uses the two
  `validate` middlewares.
* **Server.** `Receive` takes a request of a connection that is open or, while
  the server listens, of a new one; bodies arrive whole. `Limit`,
  `Authenticate`, `Handle` and `Ping` are its awaits: a query is answered or
  fails, a Redis command waits as long as Redis is down, since
  `maxRetriesPerRequest` is null. (`env.js` keeps no `REDIS_URL`, so
  `redisClient` always uses `localhost:6379`, while the workers read
  `process.env.REDIS_URL`; the model has one Redis.) A client may hang up at any
  time, and its handler goes on. `Crash` (uncaughtException, unhandledRejection)
  can start a shutdown from the beginning, `Signal` once `listen` was called;
  before that a signal kills (`Kill`). Each call of `gracefulShutdown` goes
  through `HttpClosed`, `Disconnect`, `WorkersClosed` and `Quit` or `StepFails`,
  and its timer may fire at any moment. The calls share everything else, and
  whoever ends first decides the exit code. After an error of `listen`
  the process runs without a server (`unbound`), as Express gives that error to
  the callback that logs success.

Operators marked `Bug:` are variants of the one that follows them, each with a
mistake that could have been made in the code. They are used by no
specification; putting one in the place of its neighbour violates the property
that `PROJECT.json` names beside it, which shows that the property can fail.

## 3. What is checked

| Run | Instance | Shows |
|---|---|---|
| `banking` | 2 requests, 1 wallet-service call, 2 wallets in any status, amounts of 0.25, 0.75 and 1 cent, columns up to 2 cents | `TypeOK`, `IInv`, `NoOverdraft`, `LedgerChain`, `CacheMatchesLedger`, `AllOrNothing`, `MoneyIsConserved`, `MoneyMovesOnlyWhenActive`, `NoLockCycle`, `ImplementsAtomicBank` |
| `progress` | 3 requests over 2 connections, 1 wallet-service call, wallet 1 ACTIVE and the other FROZEN, amounts of half a cent, fairness | `SomeoneMoves`, `DriftIsBounded`, `RequestsFinish`, `TasksFinish` |
| `payments` | 2 attempts, 2 keys, amounts of 1 and 2 cents, columns up to 2 cents, fairness | `TypeOK`, `PaymentsExplainBalances`, `ImplementsIdempotentPayments`, `AttemptsFinish`, `JobsEnd` |
| `retries` | 3 attempts, 1 key, 2 wallets of which one may be created, 1 wallet-service call | `PaymentInv`, `ChargedOnce`, `ChargeHasPayment`, `AnswersAreCommitted`, `EventsFollowCommits`, `AnswersHaveEvents`, `WaitsAreShort` |
| `accounts` | 3 requests, 2 users (there or not, administrator or not), 2 passwords, 2 seconds | `TypeOK`, `AccountInv`, `RegisteredOnce`, `AccountIsKept`, `DeletedIsShutOut`, `SessionsStartByLogin`, `ImplementsAtomicAccounts` |
| `server` | 2 connections, 2 shutdowns, 3 requests (`/live`; `/health`; a payment, which passes limiter, authenticate and handler), a job, Redis up or down, fairness | `TypeOK`, `ServerInv`, `CleanExitIsDrained`, `CleanExitEndsJobs`, `ImplementsGracefulStop`, `ShutdownEnds`, `RequestsAnswered` |

Runs that end in a violation, each of a sentence in the repository:

| Run | Says | Happens |
|---|---|---|
| `half_cents` | "Ensures the cached Wallet.balance matches the ledger history" (`ledger.service.js:57`) | Of a withdrawal of 0.005 from 0.01 the entry is stored as 0.01 and the balance as 0.01. |
| `reopened` | "Enforce that wallets in a CLOSED state cannot be reopened" (`wallet.service.js:58`) | An unfreeze reads, a close writes, the unfreeze writes: CLOSED becomes ACTIVE. |
| `replacement` | a closed wallet does not count (`wallet.service.js:16-18`) | The closed row still holds the unique `userId`: the INSERT is refused. |
| `never_succeeds` | "We update the status to SUCCESS after background processing confirms it" (`payment.worker.js:25`) | The update throws at each of its three tries. |
| `logout` | "Session Revocation (Logout) -> Instant subsequent blocking" (`auth.test.js:116`) | `authenticate` never looks at the session: the access token keeps working. |
| `bad_input` | "Format Interception -> Invalid payload triggers validation error" (`auth.test.js:41`) | The formatter reads `error.errors`, which zod 4 does not have, and throws: 500, not 400. |

The lock on a key lives for 10 seconds and is deleted by whoever reaches
`finally` first, so two attempts with one key can run the block of
`payment.service.js:58` side by side ("Ensure no concurrent duplicate
processing", line 43). `retries` and the proofs let them: that the charge stays
single is due to the unique key alone.

**Bounds.** Two requests are enough to lose an update, to overdraw, to post a
stale status or to deadlock on two rows; rings of three and more are excluded by
the theorem `NoDeadlock`. The third request of `progress` finds both connections
taken, also while those that have them wait for a row; its amounts of half a
cent are those for which balance and ledger part. 0.25 and 0.75 cents are rounded
down and up, and a column of two cents overflows after two deposits. Three
attempts are the least for which the first deletes the lock of the second and
lets in the third. Two wallets let one key wait for another attempt's INSERT
(with one wallet the row lock orders them first). Three account requests are a registration,
its rival and a login, or an update that has read a row, a deletion and a
request that tries to get in. Two shutdowns are what it takes for one to
undercut the other, two connections for one to be idle while the other has a
request; a third request kind would be a mixture of the three. The users that are there
at first are ACTIVE and share a password in these runs; the theorems start from
any. `MaxCents`, `PoolSize`,
`MaxTries` and `MaxStalls` are limits of the system itself, taken small where
they are constants of the model. Requests, attempts, keys and tasks are
interchangeable, and the runs without liveness use that symmetry; the ids of
wallets are ordered and are not. `Receive` happens once for each request, so
the runs are finite without further constraint.

**Fairness.** Weak fairness of what a request, an attempt, a task or a worker
does by itself once it has been accepted: the event loop resumes every
continuation, PostgreSQL grants a free lock, BullMQ hands out a waiting job.
Clients owe nothing (`Receive`, `Refuse`, `ReadWallet` are not fair), and
nothing must fail, time out or expire for anyone to make progress. PostgreSQL
queues the waiters of a row; with finitely many requests, each using a row once,
weak fairness gives the same result without the queue. In `Server` the
event loop resumes what a request waits for (`Serve`), and fires each timer that
was set: `ShutdownEnds` rests on the timers alone, as no other step of a shutdown
is fair, and `RequestsAnswered` excepts requests that need a Redis that is down.
A process that has exited does nothing, so `server` does not look for deadlocks;
no other passing run is without that check. No liveness is claimed of
`Accounts`; the `logout` run is under the fairness of its calls, so that its
counterexample is not one of a system that stops.

## 4. What is proved

`BankingProofs`, for all constants that satisfy the assumptions of `Money`,
`WalletTable` and `TransactionService` (any number of wallets, requests and
tasks, any amounts, any pool):

| Theorem | Statement |
|---|---|
| `TypeCorrect` | `Spec => []TypeOK` |
| `InvariantHolds` | `Spec => []IInv` |
| `NeverOverdrawn` | `Spec => []NoOverdraft` |
| `ActiveWhenMoved` | `Spec => MoneyMovesOnlyWhenActive` |
| `LedgerExplainsBalances` | `NoHalfCents` proves `Spec => []LedgerChain` |
| `AllOrNothingHolds` | `Spec => []AllOrNothing` |
| `Refinement` | `NoHalfCents` proves `Spec => ImplementsAtomicBank` |

`LockingProofs`, for the same, and ids with any bound `B`:

| Theorem | Statement |
|---|---|
| `LocksAreOrdered` | `Spec => []LocksInOrder` |
| `NoDeadlock` | `\A w \in Wallets : w <= B` proves `Spec => []NoLockCycle` |
| `NeverAllWait` | `\A w \in Wallets : w <= B` proves `Spec => []SomeoneMoves` |

`LedgerProofs`, for the same:

| Theorem | Statement |
|---|---|
| `CacheIsRecomputed` | `NoHalfCents` proves `Spec => []CacheMatchesLedger` |
| `DriftBound` | `Spec => []DriftIsBounded` |
| `Conservation` | `NoHalfCents`, finitely many wallets and requests prove `Spec => []MoneyIsConserved` |

`PaymentsProofs`, for any wallets, keys, attempts, amounts and limits of the
queue:

| Theorem | Statement |
|---|---|
| `InvariantHolds` | `Spec => []PaymentInv` |
| `TypeCorrect` | `Spec => []TypeOK` |
| `KeysAreChargedOnce` | `Spec => []ChargedOnce` |
| `ChargesHavePayments` | `Spec => []ChargeHasPayment` |
| `AnswersFollowCommits` | `Spec => []AnswersAreCommitted` |
| `EventsAreOfCommits` | `Spec => []EventsFollowCommits` |
| `EventsMatchAnswers` | `Spec => []AnswersHaveEvents` |
| `WaitsStayShort` | `Spec => []WaitsAreShort` |
| `BalancesArePaid` | finitely many keys prove `Spec => []PaymentsExplainBalances` |
| `Refinement` | `Spec => ImplementsIdempotentPayments` |

`ServerProofs`, for any connections, shutdowns and requests:

| Theorem | Statement |
|---|---|
| `TypeCorrect` | `Spec => []TypeOK` |
| `InvariantHolds` | `Spec => []ServerInv` |
| `ExitsDrained` | `Spec => []CleanExitIsDrained` |
| `ExitsWithoutJobs` | `Spec => []CleanExitEndsJobs` |
| `Refinement` | `Spec => ImplementsGracefulStop` |

`AccountsProofs`, for any users, passwords and number of requests:

| Theorem | Statement |
|---|---|
| `TypeCorrect` | `Spec => []TypeOK` |
| `InvariantHolds` | `Spec => []AccountInv` |
| `AccountsAreKept` | `Spec => []AccountIsKept` |
| `RegistersOnce` | `Spec => []RegisteredOnce` |
| `DeletedStaysOut` | `Spec => DeletedIsShutOut` |
| `OnlyLoginsStartSessions` | `Spec => SessionsStartByLogin` |
| `Refinement` | `Spec => ImplementsAtomicAccounts` |

**The argument for accounts.** A login compares the password in one step and
stores its token in a later one, and calls are told things that must stay true
while others write. `AccountInv` says so for each call: rows never vanish, a
password and a role never change once their row is there (`RowsGrow`), INACTIVE
stays. A step is then looked at twice: what it does to its own call
(`StepIsTruthful`, `StepIsEntitled`), and that it disturbs no other
(`WaitingIsTruthful`, `WaitingIsEntitled`). The refinement says what this adds
up to. A login takes effect in `StoreToken`, a registration in `InsertUser`, the
others in their UPDATE or in the query they are answered from; what they had
read by then is still so (`IsTruthful`, `IsEntitled`), and each UPDATE names one
column. A `StoreToken` that saved the row it had read (`StoreInRow`) would undo a
deletion that came in between. What is not kept in this way is the caller's
status: it is read by `authenticate` alone, and `AtomicAccounts` does not ask for
it when a call takes effect.

**The argument for the bank.** `NoOverdraft` is not inductive: a commit writes a balance that
was computed several steps before. `IInv` carries the fact over these steps.
`RowsHeld` says that what a request has read is the committed row exactly as
long as it holds the lock; `IsValidated`, that the funds, the statuses and the
amount it was let in with still hold of what it read; `HasItsDrafts`, that its
drafts are those these rows determine. A commit then finds the balance and the
status it read, so the new balance is the committed one plus or minus the
amount, and not negative. `IInv` has one proof step for each action and one for
each conjunct under it.

`LedgerChain` needs more than `IInv`: the entry's amount and its new balance are
rounded separately, and agree unless the amount ends in exactly half a cent.
`NoHalfCents` says that none does; `half_cents` shows it cannot be dropped. The
refinement maps `Commit` to one `Move` of the abstract bank, `InsertWallet` to
`Open`, `UpdateStatus` to `SetStatus`, and everything else to a stutter.

**The argument for the locks.** `LocksInOrder` says that whatever row a request
holds is smaller than the next one it will ask for. In a circle everyone waits
for a row that another one of the circle holds, and asks for a larger one yet
(`WaitsUpwards`): from any member there is one that waits for a larger row. The
rows are numbers up to `B`, so `B - row` would be a set of numbers without a
least element (`LeastElement`).

The same order shows that nobody needs a timeout to get on (`SomeoneMoves`). If
nobody has a connection, the pool can give one. Of those that have one, a
request that has its rows can post, as the debit it was let in with fits the
column, and one that has posted can commit. And if all of them are still after
rows, they do not wait in a circle, so one of them asks for a row that is free.
The pool must have at least one connection (`TransactionServiceAssumption`).
TLC's own deadlock check says nothing here, as every request may abort; this
invariant is what `RequestsFinish` rests on besides fairness.

**The argument for the ledger.** `CacheMatchesLedger`, `MoneyIsConserved` and
`PaymentsExplainBalances` speak of sums, and sums are recursive functions.
`Sums` proves induction from the least element of a set of numbers
(`Induction`, `SubsetInduction`: sets of numbers and sets of subsets in the
place of predicates), with it that the recursive function behind
`SumFunctionOnSet` exists, and how it changes with one of its values
(`SumChange`). `LedgerProofs` does the same for the running balance of a ledger:
it is the last of its partial sums, which `SumAfterAppend` extends by one entry.
A commit appends one entry to each wallet it names, so `CacheIsRecomputed`
follows from the step that `LedgerChain` is about, and `Conservation` from
`CommitMovesSum`: a transfer changes two terms of the sum, by amounts that
cancel.

Without `NoHalfCents` the balance is still within bounds. The amount of a debit
rounds up where the balance it leaves rounds up as well (`RoundingDrift`), so
each debit can leave the balance a cent above what the entries add up to, never
below, and a credit nothing: `DriftBound`. `half_cents` shows that the cent is
really lost.

**The argument for the payments.** The lock in Redis proves nothing, since it may
expire. What does is the pair of locks in the database: from its SELECT to the
end of its transaction an attempt holds its wallet's row, so what it read is
still there when it commits (`HoldsItsRow`); and from its INSERT on it is the
only one with its key (`OwnsItsKey`), because a rival's INSERT waits or fails.
`ChargesMatch` then follows from one commit to the next, and `IsPlaced` says
what can be true of an attempt before, at and after its commit, which is what
answers, jobs and charges are compared with. `BalancesArePaid` adds the payments
up: a commit makes one key's payment and moves one wallet by the same amount
(`CommitPays`). An attempt locks its row before it inserts its key and asks for
nothing after that, so whoever holds a row either gets on or waits for the key
of one that does (`WaitsAreShort`): this needs no order of ids, and is what
`AttemptsFinish` and a status change that meets a payment rest on.

**The argument for the server.** The calls of `gracefulShutdown` share the
server, the worker and the database, so each must be right about the others'
steps too. `Drained` says what a call may rely on at each of its awaits; it
stays true beside any other because a server that is closing never opens again
and a worker that was told to close takes no job. A call with an error may begin
before there is a server, and skip the drain; it exits with 1, which is why exit
code 0 still tells the truth. The refinement maps the state of the process to
that of `GracefulStop` and forgets calls, worker and requests.

**Only model-checked.** `RequestsFinish`, `TasksFinish`, `AttemptsFinish`,
`JobsEnd`, `ShutdownEnds`, `RequestsAnswered`: liveness under fairness is out of
TLAPS's reach. `SomeoneMoves` and `WaitsAreShort` are what those about the bank
and about attempts need of safety.
All other properties of the passing runs are theorems.

## 5. Not modelled

* `publishWebhookEvent` and the worker behind it: only reached after the query
  of `verifyPayment`, which throws (`payment.repository.js:1, 11`).
  `publishNotificationEvent` and `createAudit`: called from nowhere.
  `shared/middlewares/auth.js`: imported by nothing. Should one of them come to
  life, `verifyPayment` first: two notifications of one payment are applied in
  any order.
* The counter of the rate limiter, the stream of a body, the retries inside of
  ioredis and BullMQ's delays: the libraries' own.
* Floating point: `Number(balance) - amount` and the exact posting disagree
  beyond 2^53 cents only.
* Logging, Swagger, constants, the scripts for the README and for
  imports: no behaviour of the running system.
* Two logins in one second sign equal refresh tokens: the model has it
  (`Tokens`), but nothing in the repository says what should follow.

The plan of the project - the bank, the payments, the accounts, the request
pipeline and the server, each with its abstract specification, its invariants
and its proofs - is carried out. What would come next is `verifyPayment` with
the webhook queue, once the repository is repaired.
