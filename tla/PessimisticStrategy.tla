------------------------ MODULE PessimisticStrategy -------------------------
(***************************************************************************)
(* PessimisticBidStrategy.place_bid: the auction row is locked with SELECT *)
(* ... FOR UPDATE before the bid is judged, and stays locked to the end.   *)
(***************************************************************************)
EXTENDS BidStore

vars == storeVars

Check(c) == CheckExisting(c, "check", "lock", 1, 0)

ReadWithoutLock(c) ==   \* mutated form: FOR UPDATE is left out
  ReadAuction(c, "lock", "clock", 1, 0)

(***************************************************************************)
(* SELECT ... FOR UPDATE waits for the holder of the lock to end and reads *)
(* the row as the holder left it.                                          *)
(***************************************************************************)
LockAuction(c) ==
  LET a == command[c].auction_id
  IN  /\ pc[c] = "lock"
      /\ rowLock[a] = NULL
      /\ \/ /\ auctions[a] = NULL
            /\ Return(c, rejected("auction_not_found", NULL, 1, 0))
         \/ /\ auctions[a] # NULL
            /\ rowLock' = [rowLock EXCEPT ![a] = c]
            /\ seen' = [seen EXCEPT ![c] = auctions[a]]
            /\ Proceed(c, "clock")
            /\ UNCHANGED <<readTime, inserted, updated>>

TransactionTime(c) ==   \* mutated form: now() in place of clock_timestamp()
  /\ pc[c] = "clock"
  /\ readTime' = [readTime EXCEPT ![c] = arrived[c]]
  /\ Proceed(c, "recheck")
  /\ UNCHANGED <<seen, rowLock, inserted, updated>>

ReadClock(c) ==
  /\ pc[c] = "clock"
  /\ readTime' = [readTime EXCEPT ![c] = clock]
  /\ Proceed(c, "recheck")
  /\ UNCHANGED <<seen, rowLock, inserted, updated>>

NoRecheck(c) ==   \* mutated form: the request is not looked up again
  LET verdict == evaluate_bid(seen[c], command[c].amount_cents, readTime[c])
  IN  /\ pc[c] = "recheck"
      /\ \/ RefuseBid(c, verdict, 1, 0)
         \/ /\ verdict = "accepted"
            /\ Proceed(c, "insert")
            /\ UNCHANGED txnVars

(***************************************************************************)
(* The request is looked up again under the lock, and the bid is judged.   *)
(***************************************************************************)
Recheck(c) ==
  LET verdict == evaluate_bid(seen[c], command[c].amount_cents, readTime[c])
  IN  /\ pc[c] = "recheck"
      /\ \/ AnswerExisting(c, 1, 0)
         \/ /\ BidsOf(command[c].request_id) = {}
            /\ \/ RefuseBid(c, verdict, 1, 0)
               \/ /\ verdict = "accepted"
                  /\ Proceed(c, "insert")
                  /\ UNCHANGED txnVars

SameVersion(c) ==   \* mutated form: the version is not incremented
  /\ pc[c] = "update"
  /\ rowLock[command[c].auction_id] \in {c, NULL}
  /\ WriteAuction(c, auctions[command[c].auction_id].version)

UpdateAuction(c) ==
  /\ pc[c] = "update"
  /\ rowLock[command[c].auction_id] \in {c, NULL}
  /\ WriteAuction(c, auctions[command[c].auction_id].version + 1)

(***************************************************************************)
(* LockNotAvailable and QueryCanceled become StrategyBusyError, except in  *)
(* the handler of UniqueViolation, which the clause that follows it does   *)
(* not cover.                                                              *)
(***************************************************************************)
Handled == {"check", "lock", "clock", "recheck", "insert", "update", "commit"}

WaitExpires(c) ==
  \/ StatementTimeout(c, Handled)
  \/ LockTimeout(c, "lock", "StrategyBusyError")

CallStep(c) ==
  \/ Connect(c)
  \/ Check(c)
  \/ LockAuction(c)
  \/ ReadClock(c)
  \/ Recheck(c)
  \/ InsertBid(c)
  \/ UpdateAuction(c)
  \/ Commit(c, 1, 0)
  \/ ResolveDuplicate(c)

Next ==
  \/ Tick
  \/ \E a \in Auctions, l \in Listings : create(a, l)
  \/ \E c \in Calls, cmd \in Commands : place_bid(c, cmd)
  \/ \E c \in Calls : \/ CallStep(c)
                      \/ PoolTimeout(c)
                      \/ LoseConnection(c)
                      \/ WaitExpires(c)
  \/ Quiescent

Init == StoreInit

Spec == Init /\ [][Next]_vars

(***************************************************************************)
(* A thread that can run does run; nothing makes a timeout or a lost       *)
(* connection happen.                                                      *)
(***************************************************************************)
FairSpec == Spec /\ \A c \in Calls : WF_vars(CallStep(c))

-----------------------------------------------------------------------------
(***************************************************************************)
(* Why the strategy is serial.  A call is pending from its first statement *)
(* to its last; the holder of a row lock has read the row as it is         *)
(* committed; the bid it is about to write was judged on that row, at an   *)
(* instant of the call; and what it has written is what the rules say,     *)
(* under a request id that nobody else has used or is using.               *)
(***************************************************************************)
Holding == {"clock", "recheck", "insert", "update", "commit"}

Row(c) == auctions[command[c].auction_id]

CallsArePending ==
  \A c \in Calls : /\ pc[c] = "idle" <=> command[c] = NULL
                   /\ pc[c] = "idle" => result[c] = NULL
                   /\ pc[c] \notin {"idle", "done"} => Pending(c)
                   /\ arrived[c] <= clock

HoldersSeeTheRow ==
  \A c \in Calls : pc[c] \in Holding => /\ rowLock[command[c].auction_id] = c
                                        /\ Row(c) # NULL
                                        /\ seen[c] = Row(c)

BidsAreJudged ==
  \A c \in Calls :
    /\ pc[c] \in Holding \ {"clock"} => readTime[c] \in arrived[c]..clock
    /\ pc[c] \in {"insert", "update", "commit"} =>
         evaluate_bid(seen[c], command[c].amount_cents, readTime[c])
           = "accepted"

InsertsAreSound ==
  \A c \in Calls :
    /\ inserted[c] # NULL => pc[c] \in {"update", "commit"}
    /\ pc[c] \in {"update", "commit"} =>
         /\ BidsOf(command[c].request_id) = {}
         /\ \E at \in readTime[c]..clock :
              inserted[c] = NewBid(c, command[c], seen[c].version + 1, at)
         /\ \A d \in Calls \ {c} : pc[d] \in {"update", "commit"} =>
              command[d].request_id # command[c].request_id

UpdatesAreSound ==
  \A c \in Calls : pc[c] = "commit" =>
    updated[c] = WithWinner(Row(c), c, command[c].amount_cents,
                            Row(c).version + 1)

LockProtocol ==
  /\ CallsArePending
  /\ HoldersSeeTheRow
  /\ BidsAreJudged
  /\ InsertsAreSound
  /\ UpdatesAreSound

(***************************************************************************)
(* A refusal for too low an amount quotes the minimum of the auction as it *)
(* is when the call is refused, since the row is locked.                   *)
(***************************************************************************)
RefusalQuotesRow(c) ==
  result[c] = NULL /\ result'[c] # NULL
  /\ result'[c].rejection_reason = "bid_too_low"
    => result'[c].minimum_acceptable_cents =
         minimum_acceptable_bid(auctions'[command[c].auction_id])

RefusalIsCurrent == [][\A c \in Calls : RefusalQuotesRow(c)]_vars

(***************************************************************************)
(* A call that still waits for the row lock when the auction closes is not *)
(* accepted once it has the lock.                                          *)
(***************************************************************************)
LateIsRefused(c) ==
  [](pc[c] = "lock" /\ Row(c) # NULL /\ clock >= Row(c).ends_at
       => [](~ Ended(c, "accepted")))

ExpiryHoldsAfterLockWait == \A c \in Calls : LateIsRefused(c)

(***************************************************************************)
(* Every call ends, though no timeout ever has to help: the waits for      *)
(* connections, row locks and request ids are never circular.              *)
(***************************************************************************)
CallsEnd == \A c \in Calls : pc[c] # "idle" ~> pc[c] = "done"

=============================================================================
