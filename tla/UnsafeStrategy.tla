--------------------------- MODULE UnsafeStrategy ---------------------------
(***************************************************************************)
(* UnsafeBidStrategy: the baseline that reads, checks and writes with      *)
(* neither a row lock nor a version predicate.                             *)
(***************************************************************************)
EXTENDS BidStore

VARIABLE overlapped   \* history: have two calls ever been connected at once?

vars == <<storeVars, overlapped>>

Check(c) == CheckExisting(c, "check", "read", 1, 0)

Read(c) == ReadAuction(c, "read", "clock", 1, 0)

Evaluate(c) == EvaluateNow(c, "clock", "insert", 1, 0)

SameVersion(c) ==   \* mutated form: the version is not incremented
  /\ pc[c] = "update"
  /\ rowLock[command[c].auction_id] = NULL
  /\ WriteAuction(c, seen[c].version)

CurrentVersion(c) ==   \* mutated form: SET version = version + 1
  /\ pc[c] = "update"
  /\ rowLock[command[c].auction_id] = NULL
  /\ WriteAuction(c, auctions[command[c].auction_id].version + 1)

(***************************************************************************)
(* The UPDATE waits for the row, then overwrites whatever it finds there.  *)
(***************************************************************************)
UpdateAuction(c) ==
  /\ pc[c] = "update"
  /\ rowLock[command[c].auction_id] = NULL
  /\ WriteAuction(c, seen[c].version + 1)

(***************************************************************************)
(* No handler names QueryCanceled or LockNotAvailable.                     *)
(***************************************************************************)
WaitExpires(c) ==
  \/ StatementTimeout(c, {})
  \/ LockTimeout(c, "update", "LockNotAvailable")

CallStep(c) ==
  \/ Connect(c)
  \/ Check(c)
  \/ Read(c)
  \/ Evaluate(c)
  \/ InsertBid(c)
  \/ UpdateAuction(c)
  \/ Commit(c, 1, 0)
  \/ ResolveDuplicate(c)

Next ==
  /\ \/ Tick
     \/ \E a \in Auctions, l \in Listings : create(a, l)
     \/ \E c \in Calls, cmd \in Commands : place_bid(c, cmd)
     \/ \E c \in Calls : \/ CallStep(c)
                         \/ PoolTimeout(c)
                         \/ LoseConnection(c)
                         \/ WaitExpires(c)
     \/ Quiescent
  /\ overlapped' = (overlapped \/ \E c, d \in Calls :
                                    c # d /\ Connected(c)' /\ Connected(d)')

Init == StoreInit /\ overlapped = FALSE

Spec == Init /\ [][Next]_vars

-----------------------------------------------------------------------------
(***************************************************************************)
(* Lost updates corrupt the history but never the row: it satisfies the    *)
(* CHECK constraints and the deferred foreign key, and its price, winner   *)
(* and version are those of one stored bid.                                *)
(***************************************************************************)
RowsDescribeABid ==
  \A a \in Auctions : auctions[a] # NULL =>
    /\ ValidSnapshot(auctions[a])
    /\ auctions[a].version > 0 =>
         \E b \in bids : /\ b.auction_id = a
                         /\ b.id = auctions[a].winning_bid_id
                         /\ b.amount_cents = auctions[a].current_price_cents
                         /\ b.auction_version = auctions[a].version

(***************************************************************************)
(* Its faults are those of concurrency alone: as long as no two calls are  *)
(* connected at once, the baseline does what SerialSpec promises.          *)
(***************************************************************************)
SequentialIsSerial == SerialInit /\ [][~ overlapped' => SerialNext]_vars

=============================================================================
