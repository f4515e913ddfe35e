----------------------------- MODULE PaymentWorker -----------------------------
(***************************************************************************)
(* The payment-processing queue (BullMQ) and payment.worker.js, which is   *)
(* to set a payment to SUCCESS once its job has been processed.            *)
(*                                                                         *)
(* The worker calls paymentRepository.updateStatus without a client.  The  *)
(* default client of that repository is the module shared/config/env,      *)
(* which has no models, so the call throws before it reaches the database. *)
(* The job of attempt j's payment is job[j].                               *)
(***************************************************************************)
EXTENDS PaymentService

VARIABLES
    tries,          \* tries[j]: how often j has been processed
    stalls          \* stalls[j]: how often j was taken from a dead worker

workerVars == <<tries, stalls>>

MaxTries == 3       \* attempts: 3
MaxStalls == 1      \* BullMQ's maxStalledCount

WorkerInit ==
    /\ tries = [j \in Attempts |-> 0]
    /\ stalls = [j \in Attempts |-> 0]

\* The worker takes a job; it then waits two seconds.
Take(j) ==
    /\ job[j] = "waiting"
    /\ job' = [job EXCEPT ![j] = "active"]
    /\ UNCHANGED workerVars

\* Bug: one try too many.
ThrowOnceMore(j) ==
    /\ job[j] = "active"
    /\ tries' = [tries EXCEPT ![j] = @ + 1]
    /\ job' = [job EXCEPT ![j] =
                  IF tries[j] < MaxTries THEN "waiting" ELSE "failed"]
    /\ UNCHANGED stalls

\* Bug: a try that throws is not counted.
ThrowUncounted(j) ==
    /\ job[j] = "active"
    /\ job' = [job EXCEPT ![j] = "waiting"]
    /\ UNCHANGED workerVars

\* updateStatus throws: BullMQ retries the job, or gives it up.
Throw(j) ==
    /\ job[j] = "active"
    /\ tries' = [tries EXCEPT ![j] = @ + 1]
    /\ job' = [job EXCEPT ![j] =
                  IF tries[j] + 1 < MaxTries THEN "waiting" ELSE "failed"]
    /\ UNCHANGED stalls

\* The worker dies with the job: BullMQ hands it out again, but not for ever.
Stall(j) ==
    /\ job[j] = "active"
    /\ stalls' = [stalls EXCEPT ![j] = @ + 1]
    /\ job' = [job EXCEPT ![j] =
                  IF stalls[j] < MaxStalls THEN "waiting" ELSE "failed"]
    /\ UNCHANGED tries

WorkerProgress(j) == Take(j) \/ Throw(j)
WorkerNext == \E j \in Attempts : WorkerProgress(j) \/ Stall(j)
=============================================================================
