------------------------- MODULE OptimisticStrategy -------------------------
(***************************************************************************)
(* OptimisticBidStrategy: the bid is judged on an unlocked read, and one   *)
(* conditional UPDATE checks the version, the window and the price again.  *)
(* When it misses, the attempt rolls back, the miss is classified on a     *)
(* connection of its own, and the call tries again or gives up.            *)
(***************************************************************************)
EXTENDS BidStore

VARIABLES attempt,   \* the loop variable of place_bid
          misses     \* history: how often the call's UPDATE has missed

vars == <<storeVars, attempt, misses>>

(* The type invariant of the optimistic strategy. *)
TypeOK ==
  /\ StoreTypeOK
  /\ attempt \in [Calls -> 1..MaxAttempts]
  /\ misses \in [Calls -> 0..MaxAttempts]

Init ==
  /\ StoreInit
  /\ attempt = [c \in Calls |-> 1]
  /\ misses = [c \in Calls |-> 0]

-----------------------------------------------------------------------------
Check(c) == CheckExisting(c, "check", "read", attempt[c], attempt[c] - 1)

Read(c) == ReadAuction(c, "read", "clock", attempt[c], 0)

Evaluate(c) == EvaluateNow(c, "clock", "insert", attempt[c], 0)

NoVersionPredicate(c, row, now) ==   \* mutated form
  /\ now >= row.starts_at
  /\ now < row.ends_at
  /\ command[c].amount_cents >= minimum_acceptable_bid(row)

NoEndPredicate(c, row, now) ==   \* mutated form
  /\ row.version = seen[c].version
  /\ now >= row.starts_at
  /\ command[c].amount_cents >= minimum_acceptable_bid(row)

NextVersionPredicate(c, row, now) ==   \* mutated form: off by one
  /\ row.version = seen[c].version + 1
  /\ now >= row.starts_at
  /\ now < row.ends_at
  /\ command[c].amount_cents >= minimum_acceptable_bid(row)

(***************************************************************************)
(* The WHERE clause of the UPDATE, on a version of the auction's row.      *)
(***************************************************************************)
Qualifies(c, row, now) ==
  /\ row.version = seen[c].version
  /\ now >= row.starts_at
  /\ now < row.ends_at
  /\ command[c].amount_cents >= minimum_acceptable_bid(row)

Miss(c) ==
  /\ misses' = [misses EXCEPT ![c] = @ + 1]
  /\ Rollback(c, "missed")
  /\ UNCHANGED attempt

(***************************************************************************)
(* The UPDATE reads the validation clock and finds the row by the last     *)
(* committed version of it ...                                             *)
(***************************************************************************)
StartUpdate(c) ==
  /\ pc[c] = "update"
  /\ LET hit == Qualifies(c, auctions[command[c].auction_id], clock)
     IN  \/ ~ hit /\ Miss(c)
         \/ /\ hit
            /\ readTime' = [readTime EXCEPT ![c] = clock]
            /\ Proceed(c, "updating")
            /\ UNCHANGED <<seen, rowLock, inserted, updated, attempt, misses>>

(***************************************************************************)
(* ... then it waits for a transaction that has the row locked, and checks *)
(* the clause again on the row it left, with the time it read before.      *)
(***************************************************************************)
FinishUpdate(c) ==
  LET row == auctions[command[c].auction_id]
  IN  /\ pc[c] = "updating"
      /\ rowLock[command[c].auction_id] = NULL
      /\ \/ ~ Qualifies(c, row, readTime[c]) /\ Miss(c)
         \/ /\ Qualifies(c, row, readTime[c])
            /\ WriteAuction(c, row.version + 1)
            /\ UNCHANGED <<attempt, misses>>

(***************************************************************************)
(* _classify_after_miss.                                                   *)
(***************************************************************************)
ClassifyCheck(c) ==
  CheckExisting(c, "classify_check", "classify_read", 1, 0)

ClassifyRead(c) ==
  ReadAuction(c, "classify_read", "classify_clock", attempt[c], attempt[c])

ClassifyEvaluate(c) ==
  LET verdict == evaluate_bid(seen[c], command[c].amount_cents, clock)
  IN  /\ pc[c] = "classify_clock"
      /\ UNCHANGED misses
      /\ \/ RefuseBid(c, verdict, attempt[c], attempt[c]) /\ UNCHANGED attempt
         \/ /\ verdict = "accepted"
            /\ attempt[c] >= MaxAttempts
            /\ Return(c, rejected("conflict_retry_exhausted", NULL,
                                  attempt[c], attempt[c]))
            /\ UNCHANGED attempt
         \/ /\ verdict = "accepted"
            /\ attempt[c] < MaxAttempts
            /\ attempt' = [attempt EXCEPT ![c] = @ + 1]
            /\ Rollback(c, "connect")

(***************************************************************************)
(* QueryCanceled becomes StrategyBusyError in _attempt, but not in the two *)
(* handlers that run on a miss and on a UniqueViolation.  LockNotAvailable *)
(* is handled nowhere.                                                     *)
(***************************************************************************)
Handled == {"check", "read", "clock", "insert", "update", "updating", "commit"}

WaitExpires(c) ==
  \/ StatementTimeout(c, Handled)
  \/ LockTimeout(c, "updating", "LockNotAvailable")

-----------------------------------------------------------------------------
NoRetry == UNCHANGED <<attempt, misses>>

CallStep(c) ==
  \/ Connect(c) /\ NoRetry
  \/ Check(c) /\ NoRetry
  \/ Read(c) /\ NoRetry
  \/ Evaluate(c) /\ NoRetry
  \/ InsertBid(c) /\ NoRetry
  \/ StartUpdate(c)
  \/ FinishUpdate(c)
  \/ Commit(c, attempt[c], attempt[c] - 1) /\ NoRetry
  \/ ClassifyCheck(c) /\ NoRetry
  \/ ClassifyRead(c) /\ NoRetry
  \/ ClassifyEvaluate(c)
  \/ ResolveDuplicate(c) /\ NoRetry

Next ==
  \/ Tick /\ NoRetry
  \/ \E a \in Auctions, l \in Listings : create(a, l) /\ NoRetry
  \/ \E c \in Calls, cmd \in Commands : place_bid(c, cmd) /\ NoRetry
  \/ \E c \in Calls : \/ CallStep(c)
                      \/ PoolTimeout(c) /\ NoRetry
                      \/ LoseConnection(c) /\ NoRetry
                      \/ WaitExpires(c) /\ NoRetry
  \/ Quiescent /\ NoRetry

Spec == Init /\ [][Next]_vars

-----------------------------------------------------------------------------
(***************************************************************************)
(* A call that is to classify a miss was overtaken: the auction has had as *)
(* many bids committed as the call has had attempts, or it has closed.     *)
(***************************************************************************)
MissMeansOvertaken ==
  \A c \in Calls : pc[c] \in {"missed", "classify_check", "classify_read"} =>
    LET row == auctions[command[c].auction_id]
    IN  row.version >= attempt[c] \/ clock >= row.ends_at

(***************************************************************************)
(* StrategyBusyError is what a caller sees when a bounded wait for a lock  *)
(* expires.                                                                *)
(***************************************************************************)
LockWaitsEndBusy == \A c \in Calls : ~ Ended(c, "LockNotAvailable")

(***************************************************************************)
(* An outcome tells how many conflicts its call met.                       *)
(***************************************************************************)
ConflictsAreReported ==
  \A c \in Calls :
    Ended(c, "accepted") \/ Ended(c, "replayed") \/ Ended(c, "rejected")
      => result[c].conflicts = misses[c]

=============================================================================
