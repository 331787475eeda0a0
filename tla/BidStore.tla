------------------------------ MODULE BidStore ------------------------------
(***************************************************************************)
(* PostgreSQL as the bid strategies use it (READ COMMITTED, a pool of      *)
(* connections, row locks, the unique index on bids.request_id), and the   *)
(* helpers of bidding.db.strategies that all three strategies share.       *)
(*                                                                         *)
(* A step is one SQL statement, with the Python that runs on its result up *)
(* to the next statement.  The COMMIT of a transaction that wrote nothing  *)
(* is part of the step before it: all it does is to free the locks.        *)
(*                                                                         *)
(* An INSERT or UPDATE is private to its transaction until the COMMIT, so  *)
(* it is kept in inserted and updated; other transactions feel it only     *)
(* through the locks.  The KEY SHARE lock that the foreign key of bids     *)
(* takes on the auction is left out: it conflicts with FOR UPDATE alone,   *)
(* which only the pessimistic strategy uses, and there the inserting       *)
(* transaction already holds it.                                           *)
(***************************************************************************)
EXTENDS SerialAuction

VARIABLES pc,        \* the statement a call executes next
          seen,      \* the auction the call has read
          readTime,  \* the database time the call has read
          rowLock,   \* the transaction that holds the lock of an auction row
          inserted,  \* the uncommitted bid of a transaction
          updated    \* the uncommitted auction row of a transaction

txnVars == <<seen, readTime, rowLock, inserted, updated>>

storeVars == <<auctions, bids, clock, command, arrived, result, pc, txnVars>>

(***************************************************************************)
(* Where a call waits for a connection, and what it does once it has one.  *)
(***************************************************************************)
AfterConnect == [connect |-> "check", reacquire |-> "resolve",
                 missed |-> "classify_check"]

Acquiring == {"connect", "reacquire", "missed"}

Labels ==
  {"idle", "done", "check", "read", "lock", "clock", "recheck", "insert",
   "update", "updating", "commit", "resolve",
   "classify_check", "classify_read", "classify_clock"} \cup Acquiring

Connected(c) == pc[c] \notin {"idle", "done"} \cup Acquiring

(* The type invariant of the database and of the calls running against it:
   every column, row lock, uncommitted write and local of place_bid keeps its
   domain. *)
StoreTypeOK ==
  /\ SerialTypeOK
  /\ pc \in [Calls -> Labels]
  /\ seen \in [Calls -> AuctionSnapshot \cup {NULL}]
  /\ readTime \in [Calls -> Time]
  /\ rowLock \in [Auctions -> Calls \cup {NULL}]
  /\ inserted \in [Calls -> AcceptedBid \cup {NULL}]
  /\ updated \in [Calls -> AuctionSnapshot \cup {NULL}]

StoreInit ==
  /\ SerialInit
  /\ pc = [c \in Calls |-> "idle"]
  /\ seen = [c \in Calls |-> NULL]
  /\ readTime = [c \in Calls |-> 0]
  /\ rowLock = [a \in Auctions |-> NULL]
  /\ inserted = [c \in Calls |-> NULL]
  /\ updated = [c \in Calls |-> NULL]

-----------------------------------------------------------------------------
Goto(c, label) == pc' = [pc EXCEPT ![c] = label]

KeepsLocks(c) ==   \* mutated form: the row lock outlives the transaction
  /\ rowLock' = rowLock
  /\ inserted' = [inserted EXCEPT ![c] = NULL]
  /\ updated' = [updated EXCEPT ![c] = NULL]
  /\ seen' = [seen EXCEPT ![c] = NULL]
  /\ readTime' = [readTime EXCEPT ![c] = 0]

(***************************************************************************)
(* The transaction is over and the frame of the call's attempt is left.    *)
(***************************************************************************)
EndTransaction(c) ==
  /\ rowLock' = [a \in Auctions |-> IF rowLock[a] = c THEN NULL
                                    ELSE rowLock[a]]
  /\ inserted' = [inserted EXCEPT ![c] = NULL]
  /\ updated' = [updated EXCEPT ![c] = NULL]
  /\ seen' = [seen EXCEPT ![c] = NULL]
  /\ readTime' = [readTime EXCEPT ![c] = 0]

(***************************************************************************)
(* The call ends without having committed a write.                         *)
(***************************************************************************)
Return(c, outcome) ==
  /\ result' = [result EXCEPT ![c] = outcome]
  /\ Goto(c, "done")
  /\ EndTransaction(c)
  /\ UNCHANGED <<auctions, bids, clock, command, arrived>>

(***************************************************************************)
(* The transaction rolls back and the call carries on elsewhere.           *)
(***************************************************************************)
Rollback(c, label) ==
  /\ Goto(c, label)
  /\ EndTransaction(c)
  /\ UNCHANGED serialVars

(***************************************************************************)
(* The call's next statement, when nothing but its own frame changes.      *)
(***************************************************************************)
Proceed(c, label) == Goto(c, label) /\ UNCHANGED serialVars

-----------------------------------------------------------------------------
Tick == PassTime /\ UNCHANGED <<pc, txnVars>>

create(a, listing) == List(a, listing) /\ UNCHANGED <<pc, txnVars>>

place_bid(c, cmd) ==
  /\ Call(c, cmd)
  /\ Goto(c, "connect")
  /\ UNCHANGED txnVars

PoolFull == Cardinality({c \in Calls : Connected(c)}) >= PoolSize

Connect(c) ==
  /\ pc[c] \in Acquiring
  /\ ~ PoolFull
  /\ Proceed(c, AfterConnect[pc[c]])
  /\ UNCHANGED txnVars

(***************************************************************************)
(* psycopg_pool.PoolTimeout: every connection was busy, or the pool was    *)
(* reconnecting, for too long.  No strategy handles it.                    *)
(***************************************************************************)
PoolTimeout(c) ==
  /\ pc[c] \in Acquiring
  /\ Return(c, raised("PoolTimeout"))

(***************************************************************************)
(* The connection breaks, or the process that serves the call stops: the   *)
(* server rolls the transaction back.                                      *)
(***************************************************************************)
LoseConnection(c) ==
  /\ Connected(c)
  /\ Return(c, raised("OperationalError"))

(***************************************************************************)
(* statement_timeout cancels the statement of a call.  A strategy handles  *)
(* QueryCanceled at some of its statements.                                *)
(***************************************************************************)
StatementTimeout(c, handled) ==
  /\ Connected(c)
  /\ Return(c, raised(IF pc[c] \in handled THEN "StrategyBusyError"
                      ELSE "QueryCanceled"))

(***************************************************************************)
(* What an _existing_bid statement finds, turned into an answer.           *)
(***************************************************************************)
Answers(c, attempts, conflicts) ==
  {replay_or_reject(bid, command[c], attempts, conflicts) :
     bid \in BidsOf(command[c].request_id)}

AnswerExisting(c, attempts, conflicts) ==
  \E outcome \in Answers(c, attempts, conflicts) : Return(c, outcome)

CheckExisting(c, from, to, attempts, conflicts) ==
  /\ pc[c] = from
  /\ \/ AnswerExisting(c, attempts, conflicts)
     \/ /\ BidsOf(command[c].request_id) = {}
        /\ Proceed(c, to)
        /\ UNCHANGED txnVars

(***************************************************************************)
(* _read_auction without a lock.                                           *)
(***************************************************************************)
ReadAuction(c, from, to, attempts, conflicts) ==
  LET row == auctions[command[c].auction_id]
  IN  /\ pc[c] = from
      /\ \/ /\ row = NULL
            /\ Return(c, rejected("auction_not_found", NULL,
                                  attempts, conflicts))
         \/ /\ row # NULL
            /\ seen' = [seen EXCEPT ![c] = row]
            /\ Proceed(c, to)
            /\ UNCHANGED <<readTime, rowLock, inserted, updated>>

(***************************************************************************)
(* What place_bid does with a verdict other than "accepted".               *)
(***************************************************************************)
RefuseBid(c, verdict, attempts, conflicts) ==
  /\ verdict # "accepted"
  /\ Return(c, IF verdict = "OverflowError" THEN raised("OverflowError")
               ELSE rejected(verdict, minimum_acceptable_bid(seen[c]),
                             attempts, conflicts))

(***************************************************************************)
(* _database_time, followed at once by evaluate_bid.                       *)
(***************************************************************************)
EvaluateNow(c, from, to, attempts, conflicts) ==
  LET verdict == evaluate_bid(seen[c], command[c].amount_cents, clock)
  IN  /\ pc[c] = from
      /\ \/ RefuseBid(c, verdict, attempts, conflicts)
         \/ /\ verdict = "accepted"
            /\ readTime' = [readTime EXCEPT ![c] = clock]
            /\ Proceed(c, to)
            /\ UNCHANGED <<seen, rowLock, inserted, updated>>

(***************************************************************************)
(* Another transaction has inserted a bid with this request id and has not *)
(* ended: the unique index makes an INSERT wait for it.                    *)
(***************************************************************************)
RequestInFlight(c) ==
  \E d \in Calls \ {c} : /\ inserted[d] # NULL
                         /\ inserted[d].request_id = command[c].request_id

(***************************************************************************)
(* lock_timeout ends a wait for a request id, or for the auction row at    *)
(* the statement named.                                                    *)
(***************************************************************************)
LockTimeout(c, statement, exception) ==
  /\ \/ pc[c] = "insert" /\ RequestInFlight(c)
     \/ /\ pc[c] = statement
        /\ rowLock[command[c].auction_id] \notin {c, NULL}
  /\ Return(c, raised(exception))

(***************************************************************************)
(* The row of the bid is written with the version the call has read, plus  *)
(* one, and the clock of the INSERT.                                       *)
(***************************************************************************)
PutBid(c) ==
  /\ inserted' = [inserted EXCEPT ![c] =
       NewBid(c, command[c], seen[c].version + 1, clock)]
  /\ Proceed(c, "update")
  /\ UNCHANGED <<seen, readTime, rowLock, updated>>

NoUniqueIndex(c) ==   \* mutated form: request_id is not unique
  pc[c] = "insert" /\ PutBid(c)

NoIndexWait(c) ==   \* mutated form: an uncommitted duplicate is a violation
  /\ pc[c] = "insert"
  /\ LET free == BidsOf(command[c].request_id) = {} /\ ~ RequestInFlight(c)
     IN  \/ ~ free /\ Rollback(c, "reacquire")
         \/ free /\ PutBid(c)

InsertBid(c) ==
  /\ pc[c] = "insert"
  /\ ~ RequestInFlight(c)
  /\ \/ /\ BidsOf(command[c].request_id) # {}    \* UniqueViolation
        /\ Rollback(c, "reacquire")
     \/ /\ BidsOf(command[c].request_id) = {}
        /\ PutBid(c)

(***************************************************************************)
(* An UPDATE has the row lock of the auction and writes a new row.         *)
(***************************************************************************)
WriteAuction(c, version) ==
  LET a == command[c].auction_id
  IN  /\ rowLock' = [rowLock EXCEPT ![a] = c]
      /\ updated' = [updated EXCEPT ![c] =
           WithWinner(auctions[a], c, command[c].amount_cents, version)]
      /\ Proceed(c, "commit")
      /\ UNCHANGED <<seen, readTime, inserted>>

LostAnswerIsBusy(c, attempts, conflicts) ==   \* mutated form: a connection
  /\ pc[c] = "commit"                         \* lost in COMMIT reads as busy
  /\ bids' = bids \cup {inserted[c]}
  /\ auctions' = [auctions EXCEPT ![command[c].auction_id] = updated[c]]
  /\ result' = [result EXCEPT ![c] = raised("StrategyBusyError")]
  /\ Goto(c, "done")
  /\ EndTransaction(c)
  /\ UNCHANGED <<clock, command, arrived>>

(***************************************************************************)
(* COMMIT makes both writes visible at once.  It answers with the bid, or  *)
(* its answer is lost and the caller sees a broken connection.             *)
(***************************************************************************)
Commit(c, attempts, conflicts) ==
  /\ pc[c] = "commit"
  /\ bids' = bids \cup {inserted[c]}
  /\ auctions' = [auctions EXCEPT ![command[c].auction_id] = updated[c]]
  /\ \E outcome \in {accepted(inserted[c], attempts, conflicts),
                     raised("OperationalError")} :
       result' = [result EXCEPT ![c] = outcome]
  /\ Goto(c, "done")
  /\ EndTransaction(c)
  /\ UNCHANGED <<clock, command, arrived>>

(***************************************************************************)
(* _resolve_duplicate_request, after a UniqueViolation, on a connection of *)
(* its own; with no such bid it raises RuntimeError.                       *)
(***************************************************************************)
ResolveDuplicate(c) ==
  /\ pc[c] = "resolve"
  /\ \E outcome \in IF BidsOf(command[c].request_id) = {}
                     THEN {raised("RuntimeError")}
                     ELSE Answers(c, 1, 0) :
       Return(c, outcome)

(***************************************************************************)
(* All calls have ended and time has run out.                              *)
(***************************************************************************)
Quiescent ==
  /\ \A c \in Calls : pc[c] = "done"
  /\ UNCHANGED storeVars

-----------------------------------------------------------------------------
(***************************************************************************)
(* Two calls that ask for the same thing under the same request id.        *)
(***************************************************************************)
SameRequest(cmd, other) ==
  /\ cmd.request_id = other.request_id
  /\ cmd.auction_id = other.auction_id
  /\ strip[cmd.bidder_id] = strip[other.bidder_id]
  /\ cmd.amount_cents = other.amount_cents

Ended(c, status) == result[c] # NULL /\ result[c].status = status

(***************************************************************************)
(* Of two calls with the same request, when one is accepted the other is   *)
(* never turned away, unless it came before the auction existed or opened: *)
(* it replays the bid, or fails with an exception and may be repeated.     *)
(***************************************************************************)
DuplicateReplays ==
  \A c, d \in Calls :
    Ended(c, "accepted") /\ Ended(d, "rejected")
    /\ SameRequest(command[c], command[d])
      => result[d].rejection_reason \in
           {"auction_not_found", "auction_not_started"}

(***************************************************************************)
(* A UniqueViolation is always that of the request id, so the RuntimeError *)
(* of _resolve_duplicate_request never happens.                            *)
(***************************************************************************)
ResolveFindsBid ==
  \A c \in Calls : pc[c] \in {"reacquire", "resolve"} =>
    BidsOf(command[c].request_id) # {}

(***************************************************************************)
(* The accepted_outside_window check of check_auction_invariants: every    *)
(* bid of an auction bears a time inside its window.                       *)
(***************************************************************************)
AcceptedInsideWindow ==
  \A b \in bids :
    derive_auction_state(auctions[b.auction_id], b.accepted_at) = "open"

=============================================================================
