--------------------------- MODULE BankingInvariant ---------------------------
(***************************************************************************)
(* The inductive invariant of Banking.  NoOverdraft, LedgerChain and the   *)
(* refinement speak of committed rows only; a commit keeps them because of *)
(* what holds, step by step, of the requests still in their transactions.  *)
(***************************************************************************)
EXTENDS Banking

\* What a request has read under a row lock is the committed row, for as long
\* as it holds the lock, and nobody keeps a row whose lock it gave up.
RowsHeld ==
    \A r \in Requests, w \in Wallets :
        seen[r][w] = IF lockedBy[w] = r THEN RowOf(w) ELSE NoRow

\* Only existing rows are waited for or locked.
LockedRowsExist ==
    /\ \A w \in Wallets : IsLocked(w) => Exists(w)
    /\ \A r \in Requests : \A w \in want[r] : Exists(w)

\* An accepted request names distinct wallets; from the PENDING row on, what
\* was validated still holds.
IsValidated(r) ==
    /\ pc[r] \in {"begin", "lock", "post", "commit", "done"} =>
          op[r] \in Operations /\ op[r].sender # op[r].receiver
    /\ pc[r] \in {"post", "commit"} => IsAcceptable(r)

\* The direction in which r posts to w.
Direction(r, w) == IF w = op[r].sender THEN "DEBIT" ELSE "CREDIT"

\* The uncommitted rows are those the locked rows and the amount determine.
HasItsDrafts(r) ==
    /\ posted[r] \subseteq Targets(op[r])
    /\ pc[r] \notin {"post", "commit"} => posted[r] = {}
    /\ pc[r] = "commit" => posted[r] = Targets(op[r]) /\ txnDraft[r] = "SUCCESS"
    /\ \A w \in posted[r] :
          /\ entryDraft[r][w] = EntryFor(r, w, Direction(r, w))
          /\ rowDraft[r][w] = BalanceAfter(r, w, Direction(r, w))
          /\ Fits(rowDraft[r][w])

RequestsInOrder == \A r \in Requests : IsValidated(r) /\ HasItsDrafts(r)

\* Committed rows: a balance fits its column, a wallet without a row is worth
\* nothing, and the transactions committed are those of the requests done.
CommittedRows ==
    /\ \A w \in Wallets :
          balance[w] \in 0 .. MaxCents /\ (~Exists(w) => balance[w] = 0)
    /\ \A r \in Requests :
          txns[r] = IF pc[r] = "done" THEN "SUCCESS" ELSE "NONE"

\* Every commit finds the rows it read unchanged, which is what makes the
\* posting of stale balances impossible (transaction.service.js:46, 95, 163).
IInv ==
    /\ TypeOK
    /\ RowsHeld
    /\ LockedRowsExist
    /\ RequestsInOrder
    /\ CommittedRows

\* Rows are locked upwards: who waits for a row holds only rows before it, and
\* only an open transaction holds any (transaction.service.js:166).
LocksInOrder ==
    \A r \in Requests, v \in Wallets :
        lockedBy[v] = r =>
            /\ pc[r] \in {"lock", "post", "commit"}
            /\ \A w \in want[r] : v < w

\* A task that goes on to an UPDATE has found the row, and rows never vanish.
UpdatedRowsExist ==
    \A t \in Tasks : task[t].kind \in DOMAIN Target => Exists(task[t].wallet)
=============================================================================
