-------------------------- MODULE PaymentsInvariant --------------------------
(***************************************************************************)
(* The inductive invariant of Payments.  That a key is charged once speaks *)
(* of committed rows only; it holds because at most one transaction at a   *)
(* time has inserted the key, and none after the key is committed.         *)
(***************************************************************************)
EXTENDS Payments

InTransaction == {"post", "insert", "commit"}

\* Attempt a has the row of its receiver, and of no other wallet, from
\* SELECT ... FOR UPDATE until its transaction ends; what it read is the row.
HoldsItsRow(a) ==
    /\ \A w \in Wallets :
          lockedBy[w] = a <=> ppc[a] \in InTransaction /\ Receiver(a) = w
    /\ ppc[a] \in InTransaction =>
          row[a] = RowOf(Receiver(a)) /\ Exists(Receiver(a))
    /\ ppc[a] \in {"insert", "commit"} => IsPayable(a)

\* Until it commits, the key that a has inserted is a's alone.
OwnsItsKey(a) ==
    ppc[a] = "commit" =>
        /\ payments[Key(a)] = NoPayment
        /\ \A b \in Attempts : ppc[b] = "commit" /\ Key(b) = Key(a) => b = a

\* What has become of a shows in where it is.
Unsent(a) == ppc[a] \in {"idle", "check", "claim", "lock", "post", "insert", "commit"}
IsPlaced(a) ==
    /\ ppc[a] # "idle" => payload[a] \in PayloadType
    /\ Unsent(a) => a \notin charges
    /\ ppc[a] \in {"cache", "publish"} => a \in charges
    /\ job[a] # "none" => ppc[a] \in {"release", "done", "failed"}
    /\ answer[a] # NoAttempt => ppc[a] \in {"release", "done"}
    /\ job[a] # "failed" => tries[a] < MaxTries /\ stalls[a] <= MaxStalls

\* Charges and payments are the same thing, seen from the attempt and from the
\* key.
ChargesMatch ==
    /\ \A a \in charges : payments[Key(a)].by = a
    /\ \A k \in Keys :
          payments[k] # NoPayment =>
              payments[k].by \in charges /\ Key(payments[k].by) = k

PaymentInv ==
    /\ TypeOK
    /\ \A a \in Attempts : HoldsItsRow(a) /\ OwnsItsKey(a) /\ IsPlaced(a)
    /\ ChargesMatch
    /\ AnswersAreCommitted
    /\ EventsFollowCommits
    /\ AnswersHaveEvents
    /\ \A w \in Wallets : ~Exists(w) => balance[w] = 0
=============================================================================
