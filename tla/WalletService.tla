---------------------------- MODULE WalletService ----------------------------
(***************************************************************************)
(* Creating, freezing, unfreezing and closing wallets: wallet.service.js.  *)
(*                                                                         *)
(* Every operation reads the wallet, validates what it read and then       *)
(* writes, with no transaction and no row lock around the two queries.     *)
(* The UPDATE waits for a transaction that holds the row.                  *)
(***************************************************************************)
EXTENDS WalletTable

CONSTANT Tasks      \* requests of users and administrators to this service

VARIABLES
    taskPc,     \* taskPc[t]: where task t is
    task,       \* task[t]: what t asks for
    taskRead    \* taskRead[t]: the status t read, kept until it has written

taskVars == <<taskPc, task, taskRead>>

TaskKind == {"CREATE", "FREEZE", "UNFREEZE", "CLOSE"}
TaskType == [kind : TaskKind, wallet : Wallets]
NoTask == [kind |-> "NONE", wallet |-> NoWallet]

\* Bug: a status that the enum of the schema does not have.
TargetMisspelt == [FREEZE |-> "BLOCKED", UNFREEZE |-> "ACTIVE", CLOSE |-> "CLOSED"]

\* The status each operation writes.
Target == [FREEZE |-> "FROZEN", UNFREEZE |-> "ACTIVE", CLOSE |-> "CLOSED"]

WalletInit ==
    /\ taskPc = [t \in Tasks |-> "idle"]
    /\ task = [t \in Tasks |-> NoTask]
    /\ taskRead = [t \in Tasks |-> "ABSENT"]

\* createWallet goes on if the user has no wallet or a closed one; the others
\* if the wallet is there and not closed.
Passes(kind, s) ==
    IF kind = "CREATE" THEN s \in {"ABSENT", "CLOSED"}
                       ELSE s \in {"ACTIVE", "FROZEN"}

ReadWallet(t, k) ==
    /\ taskPc[t] = "idle"
    /\ Passes(k.kind, status[k.wallet])
    /\ taskPc' = [taskPc EXCEPT ![t] = "write"]
    /\ task' = [task EXCEPT ![t] = k]
    /\ taskRead' = [taskRead EXCEPT ![t] = status[k.wallet]]
    /\ UNCHANGED tableVars

TurnDown(t, k) ==
    /\ taskPc[t] = "idle"
    /\ ~Passes(k.kind, status[k.wallet])
    /\ taskPc' = [taskPc EXCEPT ![t] = "failed"]
    /\ UNCHANGED <<tableVars, task, taskRead>>

EndTask(t, result) ==
    /\ taskPc' = [taskPc EXCEPT ![t] = result]
    /\ task' = [task EXCEPT ![t] = NoTask]
    /\ taskRead' = [taskRead EXCEPT ![t] = "ABSENT"]

\* Bug: an upsert, which resets the wallet that the user has.
UpsertWallet(t) ==
    LET w == task[t].wallet
    IN  /\ taskPc[t] = "write"
        /\ task[t].kind = "CREATE"
        /\ status' = [status EXCEPT ![w] = "ACTIVE"]
        /\ balance' = [balance EXCEPT ![w] = 0]
        /\ EndTask(t, "done")
        /\ UNCHANGED lockedBy

\* INSERT a wallet for the user: an ACTIVE row with balance 0.00 ...
InsertWallet(t) ==
    LET w == task[t].wallet
    IN  /\ taskPc[t] = "write"
        /\ task[t].kind = "CREATE"
        /\ ~Exists(w)
        /\ status' = [status EXCEPT ![w] = "ACTIVE"]
        /\ balance' = [balance EXCEPT ![w] = 0]
        /\ EndTask(t, "done")
        /\ UNCHANGED lockedBy

\* ... unless the unique constraint on userId finds one there (P2002).
InsertConflict(t) ==
    /\ taskPc[t] = "write"
    /\ task[t].kind = "CREATE"
    /\ Exists(task[t].wallet)
    /\ EndTask(t, "failed")
    /\ UNCHANGED tableVars

\* UPDATE the status of the row by its id, whatever the status is by now.
UpdateStatus(t) ==
    LET w == task[t].wallet
    IN  /\ taskPc[t] = "write"
        /\ task[t].kind \in DOMAIN Target
        /\ ~IsLocked(w)
        /\ status' = [status EXCEPT ![w] = Target[task[t].kind]]
        /\ EndTask(t, "done")
        /\ UNCHANGED <<balance, lockedBy>>

\* The process dies, or the write fails, between the two queries.
Abandon(t) ==
    /\ taskPc[t] = "write"
    /\ EndTask(t, "failed")
    /\ UNCHANGED tableVars

TaskProgress(t) == InsertWallet(t) \/ InsertConflict(t) \/ UpdateStatus(t)

WalletNext ==
    \E t \in Tasks :
        \/ \E k \in TaskType : ReadWallet(t, k) \/ TurnDown(t, k)
        \/ TaskProgress(t)
        \/ Abandon(t)

TaskFinished(t) == taskPc[t] \in {"done", "failed"}
=============================================================================
