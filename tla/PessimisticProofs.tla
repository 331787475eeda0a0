------------------------- MODULE PessimisticProofs --------------------------
(***************************************************************************)
(* The pessimistic strategy implements SerialAuction.  LockProtocol is the *)
(* inductive invariant: the type invariant says nothing of what a call has *)
(* read, and the proof that a commit is a serial step needs to know that   *)
(* the row under the lock is still the one that the bid was judged on.     *)
(***************************************************************************)
EXTENDS PessimisticStrategy, BidStoreProofs

(***************************************************************************)
(* Every statement of the strategy is a step of SerialAuction or is        *)
(* invisible to callers.                                                   *)
(***************************************************************************)
LEMMA CommitRefines ==
  ASSUME StoreTypeOK, LockProtocol, NEW c \in Calls, Commit(c, 1, 0)
  PROVE  Accept(c)
<1> DEFINE cmd == command[c]
           row == auctions[cmd.auction_id]
<1>1. /\ Pending(c)
      /\ row # NULL
      /\ seen[c] = row
      /\ BidsOf(cmd.request_id) = {}
      /\ readTime[c] \in arrived[c]..clock
      /\ evaluate_bid(row, cmd.amount_cents, readTime[c]) = "accepted"
  BY DEF Commit, LockProtocol, CallsArePending, HoldersSeeTheRow, Holding,
         BidsAreJudged, InsertsAreSound, Row
<1>2. PICK at \in readTime[c]..clock :
        inserted[c] = NewBid(c, cmd, row.version + 1, at)
  BY <1>1 DEF Commit, LockProtocol, InsertsAreSound
<1>3. updated[c] = apply_accepted_bid(row, c, cmd.amount_cents, readTime[c])
  BY <1>1 DEF Commit, LockProtocol, UpdatesAreSound, Row, apply_accepted_bid
<1>4. /\ at \in arrived[c]..clock
      /\ readTime[c] <= at
  BY <1>1, BoundsAssumption DEF StoreTypeOK, SerialTypeOK, Time
<1>5. /\ bids' = bids \cup {inserted[c]}
      /\ auctions' = [auctions EXCEPT ![cmd.auction_id] = updated[c]]
      /\ UNCHANGED <<clock, command, arrived>>
  BY DEF Commit
<1> DEFINE bid == NewBid(c, cmd, row.version + 1, at)
<1>6. \/ \E n \in 1..MaxAttempts, k \in 0..MaxAttempts :
           result' = [result EXCEPT ![c] = accepted(bid, n, k)]
      \/ result' = [result EXCEPT ![c] = raised("OperationalError")]
  <2>1. 1 \in 1..MaxAttempts /\ 0 \in 0..MaxAttempts
    BY BoundsAssumption
  <2>2. \/ result' = [result EXCEPT ![c] = accepted(bid, 1, 0)]
        \/ result' = [result EXCEPT ![c] = raised("OperationalError")]
    BY <1>2 DEF Commit
  <2> QED
    BY <2>1, <2>2
<1>7. /\ readTime[c] <= at
      /\ evaluate_bid(row, cmd.amount_cents, readTime[c]) = "accepted"
      /\ bids' = bids \cup {bid}
      /\ auctions' = [auctions EXCEPT ![cmd.auction_id] =
           apply_accepted_bid(row, c, cmd.amount_cents, readTime[c])]
  BY <1>1, <1>2, <1>3, <1>4, <1>5
<1>8. \E now, inserted_at \in arrived[c]..clock :
        LET b == NewBid(c, cmd, row.version + 1, inserted_at)
        IN  /\ now <= inserted_at
            /\ evaluate_bid(row, cmd.amount_cents, now) = "accepted"
            /\ bids' = bids \cup {b}
            /\ auctions' = [auctions EXCEPT ![cmd.auction_id] =
                 apply_accepted_bid(row, c, cmd.amount_cents, now)]
            /\ \/ \E n \in 1..MaxAttempts, k \in 0..MaxAttempts :
                    result' = [result EXCEPT ![c] = accepted(b, n, k)]
               \/ result' = [result EXCEPT ![c] = raised("OperationalError")]
  <2>1. readTime[c] \in arrived[c]..clock /\ at \in arrived[c]..clock
    BY <1>1, <1>4
  <2> USE <2>1
  <2> WITNESS readTime[c] \in arrived[c]..clock, at \in arrived[c]..clock
  <2> QED
    BY <1>6, <1>7
<1> QED
  BY <1>1, <1>5, <1>8 DEF Accept

(* Every step of the pessimistic strategy is a step of the serial auction or
   leaves the committed rows and the answers alone. *)
LEMMA StepRefines ==
  StoreTypeOK /\ LockProtocol /\ ResolveFindsBid /\ [Next]_vars
    => [SerialNext]_serialVars
<1> SUFFICES ASSUME StoreTypeOK, LockProtocol, ResolveFindsBid, [Next]_vars
             PROVE  SerialNext \/ UNCHANGED serialVars
  OBVIOUS
<1>0. 1 \in 1..MaxAttempts /\ 0 \in 0..MaxAttempts
  BY BoundsAssumption
<1>1. CASE UNCHANGED vars
  BY <1>1 DEF vars, storeVars, serialVars
<1>2. CASE Tick
  BY <1>2 DEF Tick, SerialNext
<1>3. ASSUME NEW a \in Auctions, NEW l \in Listings, create(a, l)
      PROVE  SerialNext
  BY <1>3 DEF create, SerialNext
<1>4. ASSUME NEW c \in Calls, NEW cmd \in Commands, place_bid(c, cmd)
      PROVE  SerialNext
  BY <1>4 DEF place_bid, SerialNext
<1>5. ASSUME NEW c \in Calls, PoolTimeout(c)
      PROVE  SerialNext
  <2>1. Pending(c) /\ Return(c, raised("PoolTimeout"))
    BY <1>5 DEF PoolTimeout, Acquiring, LockProtocol, CallsArePending
  <2> QED
    BY <2>1, RaiseFails DEF Exceptions, MayRaise, SerialNext
<1>6. ASSUME NEW c \in Calls, LoseConnection(c) \/ WaitExpires(c)
      PROVE  SerialNext
  <2>1. Pending(c)
    BY <1>6 DEF LoseConnection, WaitExpires, StatementTimeout, LockTimeout,
                Connected, LockProtocol, CallsArePending
  <2>2. \E exception \in Exceptions :
          MayRaise(c, exception) /\ Return(c, raised(exception))
    BY <1>6 DEF LoseConnection, WaitExpires, StatementTimeout, LockTimeout,
                Exceptions, MayRaise
  <2> QED
    BY <2>1, <2>2, RaiseFails DEF SerialNext
<1>7. ASSUME NEW c \in Calls, CallStep(c)
      PROVE  SerialNext \/ UNCHANGED serialVars
  <2>0. pc[c] \notin {"idle", "done"} => Pending(c)
    BY DEF LockProtocol, CallsArePending
  <2>1. CASE Connect(c)
    BY <2>1 DEF Connect, Proceed
  <2>2. CASE Check(c)
    <3>1. CASE AnswerExisting(c, 1, 0)
      BY <1>0, <2>0, <2>2, <3>1, AnswerRefines
         DEF Check, CheckExisting, AnswerExisting, SerialNext
    <3> QED
      BY <2>2, <3>1 DEF Check, CheckExisting, Proceed
  <2>3. CASE LockAuction(c)
    <3>1. CASE auctions[command[c].auction_id] = NULL
      BY <1>0, <2>0, <2>3, <3>1, NotFoundRefines DEF LockAuction, SerialNext
    <3> QED
      BY <2>3, <3>1 DEF LockAuction, Proceed
  <2>4. CASE ReadClock(c)
    BY <2>4 DEF ReadClock, Proceed
  <2>5. CASE Recheck(c)
    <3> DEFINE verdict ==
                 evaluate_bid(seen[c], command[c].amount_cents, readTime[c])
    <3>1. CASE AnswerExisting(c, 1, 0)
      BY <1>0, <2>0, <2>5, <3>1, AnswerRefines
         DEF Recheck, AnswerExisting, SerialNext
    <3>2. CASE RefuseBid(c, verdict, 1, 0)
      <4> DEFINE row == auctions[command[c].auction_id]
      <4>1. /\ Pending(c)
            /\ row # NULL
            /\ seen[c] = row
            /\ readTime[c] \in arrived[c]..clock
        BY <2>0, <2>5 DEF Recheck, LockProtocol, HoldersSeeTheRow, Holding,
                          BidsAreJudged, Row
      <4>2. row \in AuctionSnapshot
        BY <4>1 DEF Pending, StoreTypeOK, SerialTypeOK, BidCommand
      <4>3. minimum_acceptable_bid(row) <= minimum_acceptable_bid(row)
        BY <4>2, MoneyAssumption
           DEF minimum_acceptable_bid, AuctionSnapshot, Money
      <4>4. Refuse(c) \/ Fail(c)
        BY <1>0, <3>2, <4>1, <4>2, <4>3, VerdictRefines
      <4> QED
        BY <4>4 DEF SerialNext
    <3> QED
      BY <2>5, <3>1, <3>2 DEF Recheck, Proceed
  <2>6. CASE InsertBid(c)
    BY <2>6 DEF InsertBid, PutBid, Rollback, Proceed
  <2>7. CASE UpdateAuction(c)
    BY <2>7 DEF UpdateAuction, WriteAuction, Proceed
  <2>8. CASE Commit(c, 1, 0)
    BY <2>8, CommitRefines DEF SerialNext
  <2>9. CASE ResolveDuplicate(c)
    <3>1. BidsOf(command[c].request_id) # {}
      BY <2>9 DEF ResolveDuplicate, ResolveFindsBid
    <3> QED
      BY <1>0, <2>0, <2>9, <3>1, AnswerRefines DEF ResolveDuplicate, SerialNext
  <2> QED
    BY <1>7, <2>1, <2>2, <2>3, <2>4, <2>5, <2>6, <2>7, <2>8, <2>9 DEF CallStep
<1>8. CASE Quiescent
  BY <1>8 DEF Quiescent, storeVars, serialVars
<1> QED
  BY <1>1, <1>2, <1>3, <1>4, <1>5, <1>6, <1>7, <1>8 DEF Next

-----------------------------------------------------------------------------
(***************************************************************************)
(* The state of the transactions keeps its type.                           *)
(***************************************************************************)
LEMMA TypeStep ==
  StoreTypeOK /\ LockProtocol /\ ResolveFindsBid /\ [Next]_vars => StoreTypeOK'
<1> SUFFICES ASSUME StoreTypeOK, LockProtocol, ResolveFindsBid, [Next]_vars
             PROVE  StoreTypeOK'
  OBVIOUS
<1>0. SerialTypeOK'
  BY StepRefines, SerialTypeStep DEF StoreTypeOK
<1>1. ASSUME NEW c \in Calls, NEW outcome, Return(c, outcome)
      PROVE  StoreTypeOK'
  BY <1>0, <1>1, EndFrame, GotoFrame DEF Return, Labels, StoreTypeOK
<1>2. ASSUME UNCHANGED <<pc, txnVars>>
      PROVE  StoreTypeOK'
  BY <1>0, <1>2 DEF StoreTypeOK, txnVars
<1>3. ASSUME NEW c \in Calls, NEW cmd \in Commands, place_bid(c, cmd)
      PROVE  StoreTypeOK'
  BY <1>0, <1>3, GotoFrame
     DEF place_bid, StoreTypeOK, txnVars, Labels, Acquiring
<1>4. ASSUME NEW c \in Calls, CallStep(c)
      PROVE  StoreTypeOK'
  <2>1. CASE Connect(c)
    <3>1. AfterConnect[pc[c]] \in Labels
      BY <2>1 DEF Connect, AfterConnect, Acquiring, Labels
    <3> QED
      BY <1>0, <2>1, <3>1, GotoFrame DEF Connect, Proceed, StoreTypeOK, txnVars
  <2>2. CASE Check(c)
    BY <1>0, <1>1, <2>2, GotoFrame
       DEF Check, CheckExisting, AnswerExisting, Proceed, StoreTypeOK,
           txnVars, Labels
  <2>3. CASE LockAuction(c)
    <3>1. CASE auctions[command[c].auction_id] = NULL
      BY <1>1, <2>3, <3>1 DEF LockAuction
    <3>2. CASE auctions[command[c].auction_id] # NULL
      <4>1. Pending(c)
        BY <2>3 DEF LockAuction, LockProtocol, CallsArePending
      <4>2. /\ command[c].auction_id \in Auctions
            /\ auctions[command[c].auction_id] \in AuctionSnapshot
        BY <3>2, <4>1 DEF Pending, StoreTypeOK, SerialTypeOK, BidCommand
      <4> QED
        BY <1>0, <2>3, <3>2, <4>2, GotoFrame
           DEF LockAuction, Proceed, StoreTypeOK, Labels
    <3> QED
      BY <3>1, <3>2
  <2>4. CASE ReadClock(c)
    BY <1>0, <2>4, GotoFrame
       DEF ReadClock, Proceed, StoreTypeOK, SerialTypeOK, Labels
  <2>5. CASE Recheck(c)
    BY <1>0, <1>1, <2>5, GotoFrame
       DEF Recheck, AnswerExisting, RefuseBid, Proceed, StoreTypeOK, txnVars,
           Labels
  <2>6. CASE InsertBid(c)
    <3>1. CASE Rollback(c, "reacquire")
      BY <1>0, <3>1, EndFrame, GotoFrame
         DEF Rollback, StoreTypeOK, Labels, Acquiring
    <3>2. CASE inserted' = [inserted EXCEPT ![c] =
                 NewBid(c, command[c], seen[c].version + 1, clock)]
               /\ Proceed(c, "update")
               /\ UNCHANGED <<seen, readTime, rowLock, updated>>
      <4>1. Pending(c) /\ seen[c] = Row(c) /\ Row(c) # NULL
        BY <2>6 DEF InsertBid, PutBid, LockProtocol, CallsArePending,
                    HoldersSeeTheRow, Holding
      <4>2. command[c] \in BidCommand /\ seen[c] \in AuctionSnapshot
        BY <4>1 DEF Pending, StoreTypeOK, SerialTypeOK, BidCommand, Row
      <4>3. seen[c].version + 1 \in Nat \ {0}
        BY <4>2 DEF AuctionSnapshot
      <4>4. NewBid(c, command[c], seen[c].version + 1, clock) \in AcceptedBid
        BY <4>2, <4>3, NewBidType DEF StoreTypeOK, SerialTypeOK
      <4> QED
        BY <1>0, <3>2, <4>4, GotoFrame DEF Proceed, StoreTypeOK, Labels
    <3> QED
      BY <2>6, <3>1, <3>2 DEF InsertBid, PutBid
  <2>7. CASE UpdateAuction(c)
    <3> DEFINE a == command[c].auction_id
    <3>1. Pending(c) /\ auctions[a] # NULL
      BY <2>7 DEF UpdateAuction, LockProtocol, CallsArePending,
                  HoldersSeeTheRow, Holding, Row
    <3>2. /\ a \in Auctions
          /\ auctions[a] \in AuctionSnapshot
          /\ command[c].amount_cents \in Money
      BY <3>1 DEF Pending, StoreTypeOK, SerialTypeOK, BidCommand
    <3>3. auctions[a].version + 1 \in Nat
      BY <3>2 DEF AuctionSnapshot
    <3>4. WithWinner(auctions[a], c, command[c].amount_cents,
                     auctions[a].version + 1) \in AuctionSnapshot
      BY <3>2, <3>3, WrittenRow
    <3> QED
      BY <1>0, <2>7, <3>2, <3>4, GotoFrame
         DEF UpdateAuction, WriteAuction, Proceed, StoreTypeOK, Labels
  <2>8. CASE Commit(c, 1, 0)
    BY <1>0, <2>8, EndFrame, GotoFrame DEF Commit, StoreTypeOK, Labels
  <2>9. CASE ResolveDuplicate(c)
    BY <1>1, <2>9 DEF ResolveDuplicate
  <2> QED
    BY <1>4, <2>1, <2>2, <2>3, <2>4, <2>5, <2>6, <2>7, <2>8, <2>9 DEF CallStep
<1> QED
  BY <1>1, <1>2, <1>3, <1>4
     DEF Next, vars, storeVars, Tick, create, PoolTimeout, LoseConnection,
         WaitExpires, StatementTimeout, LockTimeout, Quiescent

-----------------------------------------------------------------------------
(***************************************************************************)
(* A call that leaves its transaction without writing keeps the protocol.  *)
(***************************************************************************)
LEMMA LeaveKeeps ==
  ASSUME StoreTypeOK, LockProtocol, NEW c \in Calls,
         NEW label \in {"done", "reacquire"}, Goto(c, label), pc[c] # "idle",
         EndTransaction(c), label = "reacquire" => Pending(c)',
         \A d \in Calls \ {c} : result'[d] = result[d],
         UNCHANGED <<auctions, bids, clock, command, arrived>>
  PROVE  LockProtocol'
<1>1. /\ pc'[c] = label
      /\ \A d \in Calls \ {c} : pc'[d] = pc[d]
  BY GotoFrame DEF Labels, Acquiring
<1>2. /\ \A d \in Calls \ {c} : /\ inserted'[d] = inserted[d]
                                /\ updated'[d] = updated[d]
                                /\ seen'[d] = seen[d]
                                /\ readTime'[d] = readTime[d]
      /\ \A a \in Auctions : rowLock[a] # c => rowLock'[a] = rowLock[a]
      /\ inserted'[c] = NULL
  BY EndFrame
<1>3. CallsArePending'
  BY <1>1 DEF LockProtocol, CallsArePending, Pending
<1>4. HoldersSeeTheRow'
  <2> SUFFICES ASSUME NEW d \in Calls, pc'[d] \in Holding
               PROVE  /\ rowLock'[command[d].auction_id] = d
                      /\ Row(d) # NULL
                      /\ seen'[d] = Row(d)
    BY DEF HoldersSeeTheRow, Row
  <2>1. d # c /\ pc[d] \in Holding
    BY <1>1 DEF Holding
  <2>2. command[d].auction_id \in Auctions
    BY <2>1 DEF LockProtocol, CallsArePending, Holding, Pending, StoreTypeOK,
                SerialTypeOK, BidCommand
  <2> QED
    BY <1>2, <2>1, <2>2 DEF LockProtocol, HoldersSeeTheRow
<1>5. BidsAreJudged'
  BY <1>1, <1>2 DEF LockProtocol, BidsAreJudged, Holding
<1>6. InsertsAreSound'
  BY <1>1, <1>2 DEF LockProtocol, InsertsAreSound, BidsOf
<1>7. UpdatesAreSound'
  BY <1>1, <1>2 DEF LockProtocol, UpdatesAreSound, Row
<1> QED
  BY <1>3, <1>4, <1>5, <1>6, <1>7 DEF LockProtocol

(* Answering a call preserves the lock protocol. *)
LEMMA ReturnKeeps ==
  ASSUME StoreTypeOK, LockProtocol, NEW c \in Calls, NEW outcome,
         pc[c] # "idle", Return(c, outcome)
  PROVE  LockProtocol'
<1>1. \A d \in Calls \ {c} : result'[d] = result[d]
  BY DEF Return, StoreTypeOK, SerialTypeOK
<1> QED
  BY <1>1, LeaveKeeps DEF Return

(***************************************************************************)
(* A statement that moves its call on without a lock keeps the protocol.   *)
(***************************************************************************)
LEMMA MoveKeeps ==
  ASSUME StoreTypeOK, LockProtocol, NEW c \in Calls, NEW label \in Labels,
         label \notin Holding \cup {"idle"}, pc[c] \notin Holding,
         pc[c] \notin {"idle", "done"},
         Proceed(c, label), UNCHANGED txnVars
  PROVE  LockProtocol'
<1>1. /\ pc'[c] = label
      /\ \A d \in Calls \ {c} : pc'[d] = pc[d]
  BY GotoFrame DEF Proceed
<1>2. UNCHANGED <<auctions, bids, clock, command, arrived, result,
                  seen, readTime, rowLock, inserted, updated>>
  BY DEF Proceed, serialVars, txnVars
<1>3. CallsArePending'
  BY <1>1, <1>2 DEF LockProtocol, CallsArePending, Pending
<1>4. HoldersSeeTheRow'
  BY <1>1, <1>2 DEF LockProtocol, HoldersSeeTheRow, Row
<1>5. BidsAreJudged'
  BY <1>1, <1>2 DEF LockProtocol, BidsAreJudged, Holding
<1>6. InsertsAreSound'
  BY <1>1, <1>2 DEF LockProtocol, InsertsAreSound, BidsOf, Holding
<1>7. UpdatesAreSound'
  BY <1>1, <1>2 DEF LockProtocol, UpdatesAreSound, Row, Holding
<1> QED
  BY <1>3, <1>4, <1>5, <1>6, <1>7 DEF LockProtocol

(***************************************************************************)
(* The environment keeps the protocol: time only widens the intervals, and *)
(* neither a new auction nor a new call concerns a lock holder.            *)
(***************************************************************************)
LEMMA EnvironmentKeeps ==
  ASSUME StoreTypeOK, LockProtocol,
         \/ Tick
         \/ \E a \in Auctions, l \in Listings : create(a, l)
         \/ \E c \in Calls, cmd \in Commands : place_bid(c, cmd)
  PROVE  LockProtocol'
<1>0. /\ clock \in Nat
      /\ \A c \in Calls : arrived[c] \in Nat /\ readTime[c] \in Nat
  BY BoundsAssumption DEF StoreTypeOK, SerialTypeOK, Time
<1>1. CASE Tick
  <2>1. /\ clock' = clock + 1
        /\ UNCHANGED <<auctions, bids, command, arrived, result, pc,
                       seen, readTime, rowLock, inserted, updated>>
    BY <1>1 DEF Tick, PassTime, txnVars
  <2>2. CallsArePending'
    BY <1>0, <2>1 DEF LockProtocol, CallsArePending, Pending
  <2>3. HoldersSeeTheRow'
    BY <2>1 DEF LockProtocol, HoldersSeeTheRow, Row
  <2>4. BidsAreJudged'
    BY <1>0, <2>1 DEF LockProtocol, BidsAreJudged
  <2>5. InsertsAreSound'
    <3>1. \A c \in Calls : \A at \in readTime[c]..clock : at \in readTime[c]..clock'
      BY <1>0, <2>1
    <3> QED
      BY <2>1, <3>1 DEF LockProtocol, InsertsAreSound, BidsOf
  <2>6. UpdatesAreSound'
    BY <2>1 DEF LockProtocol, UpdatesAreSound, Row
  <2> QED
    BY <2>2, <2>3, <2>4, <2>5, <2>6 DEF LockProtocol
<1>2. ASSUME NEW a \in Auctions, NEW l \in Listings, create(a, l)
      PROVE  LockProtocol'
  <2>1. /\ auctions[a] = NULL
        /\ \A x \in Auctions : x # a => auctions'[x] = auctions[x]
        /\ UNCHANGED <<bids, clock, command, arrived, result, pc,
                       seen, readTime, rowLock, inserted, updated>>
    BY <1>2 DEF create, List, txnVars, StoreTypeOK, SerialTypeOK
  <2>2. \A c \in Calls : pc[c] \in Holding =>
          auctions'[command[c].auction_id] = auctions[command[c].auction_id]
    <3> SUFFICES ASSUME NEW c \in Calls, pc[c] \in Holding
                 PROVE  auctions'[command[c].auction_id]
                          = auctions[command[c].auction_id]
      OBVIOUS
    <3>1. Row(c) # NULL /\ Pending(c)
      BY DEF LockProtocol, HoldersSeeTheRow, CallsArePending, Holding
    <3> QED
      BY <2>1, <3>1 DEF Row, Pending, StoreTypeOK, SerialTypeOK, BidCommand
  <2>3. CallsArePending'
    BY <2>1 DEF LockProtocol, CallsArePending, Pending
  <2>4. HoldersSeeTheRow'
    BY <2>1, <2>2 DEF LockProtocol, HoldersSeeTheRow, Row
  <2>5. BidsAreJudged'
    BY <2>1 DEF LockProtocol, BidsAreJudged
  <2>6. InsertsAreSound'
    BY <2>1 DEF LockProtocol, InsertsAreSound, BidsOf
  <2>7. UpdatesAreSound'
    BY <2>1, <2>2 DEF LockProtocol, UpdatesAreSound, Row, Holding
  <2> QED
    BY <2>3, <2>4, <2>5, <2>6, <2>7 DEF LockProtocol
<1>3. ASSUME NEW c \in Calls, NEW cmd \in Commands, place_bid(c, cmd)
      PROVE  LockProtocol'
  <2>1. /\ pc'[c] = "connect"
        /\ \A d \in Calls \ {c} : pc'[d] = pc[d]
    BY <1>3, GotoFrame DEF place_bid, Labels, Acquiring
  <2>2. /\ command[c] = NULL
        /\ command'[c] = cmd
        /\ arrived'[c] = clock
        /\ \A d \in Calls \ {c} : /\ command'[d] = command[d]
                                  /\ arrived'[d] = arrived[d]
        /\ UNCHANGED <<auctions, bids, clock, result,
                       seen, readTime, rowLock, inserted, updated>>
    BY <1>3 DEF place_bid, Call, txnVars, StoreTypeOK, SerialTypeOK
  <2>3. cmd # NULL
    BY CommandsAssumption, NullAssumption
  <2>4. pc[c] = "idle" /\ result[c] = NULL
    BY <2>2 DEF LockProtocol, CallsArePending
  <2>5. CallsArePending'
    BY <1>0, <2>1, <2>2, <2>3, <2>4 DEF LockProtocol, CallsArePending, Pending
  <2>6. HoldersSeeTheRow'
    BY <2>1, <2>2 DEF LockProtocol, HoldersSeeTheRow, Row, Holding
  <2>7. BidsAreJudged'
    BY <2>1, <2>2 DEF LockProtocol, BidsAreJudged, Holding
  <2>8. InsertsAreSound'
    BY <2>1, <2>2, <2>4 DEF LockProtocol, InsertsAreSound, BidsOf
  <2>9. UpdatesAreSound'
    BY <2>1, <2>2 DEF LockProtocol, UpdatesAreSound, Row
  <2> QED
    BY <2>5, <2>6, <2>7, <2>8, <2>9 DEF LockProtocol
<1> QED
  BY <1>1, <1>2, <1>3

(***************************************************************************)
(* Each statement of place_bid keeps the protocol.                         *)
(***************************************************************************)
LEMMA LockKeeps ==
  ASSUME StoreTypeOK, LockProtocol, NEW c \in Calls, LockAuction(c)
  PROVE  LockProtocol'
<1> DEFINE a == command[c].auction_id
<1>1. CASE auctions[a] = NULL
  BY <1>1, ReturnKeeps DEF LockAuction
<1>2. CASE auctions[a] # NULL
  <2>1. /\ pc[c] = "lock"
        /\ rowLock[a] = NULL
        /\ UNCHANGED <<auctions, bids, clock, command, arrived, result,
                       readTime, inserted, updated>>
    BY <1>2 DEF LockAuction, Proceed, serialVars
  <2>2. /\ pc'[c] = "clock"
        /\ \A d \in Calls \ {c} : pc'[d] = pc[d]
    BY <1>2, GotoFrame DEF LockAuction, Proceed, Labels
  <2>3. a \in Auctions
    BY <2>1 DEF LockProtocol, CallsArePending, Pending, StoreTypeOK,
                SerialTypeOK, BidCommand
  <2>4. /\ rowLock'[a] = c
        /\ \A x \in Auctions : x # a => rowLock'[x] = rowLock[x]
        /\ seen'[c] = auctions[a]
        /\ \A d \in Calls \ {c} : seen'[d] = seen[d]
    BY <1>2, <2>3 DEF LockAuction, StoreTypeOK
  <2>5. CallsArePending'
    BY <2>1, <2>2 DEF LockProtocol, CallsArePending, Pending
  <2>6. HoldersSeeTheRow'
    <3> SUFFICES ASSUME NEW d \in Calls, pc'[d] \in Holding
                 PROVE  /\ rowLock'[command[d].auction_id] = d
                        /\ Row(d) # NULL
                        /\ seen'[d] = Row(d)
      BY <2>1 DEF HoldersSeeTheRow, Row
    <3>1. CASE d = c
      BY <1>2, <2>4, <3>1 DEF Row
    <3>2. CASE d # c
      <4>1. pc[d] \in Holding
        BY <2>2, <3>2
      <4>2. /\ rowLock[command[d].auction_id] = d
            /\ Row(d) # NULL
            /\ seen[d] = Row(d)
        BY <4>1 DEF LockProtocol, HoldersSeeTheRow
      <4>3. command[d].auction_id \in Auctions /\ command[d].auction_id # a
        BY <2>1, <4>1, <4>2, NullAssumption
           DEF LockProtocol, CallsArePending, Holding, Pending, StoreTypeOK,
               SerialTypeOK, BidCommand
      <4> QED
        BY <2>4, <3>2, <4>2, <4>3
    <3> QED
      BY <3>1, <3>2
  <2>7. BidsAreJudged'
    BY <2>1, <2>2, <2>4 DEF LockProtocol, BidsAreJudged, Holding
  <2>8. InsertsAreSound'
    BY <2>1, <2>2, <2>4 DEF LockProtocol, InsertsAreSound, BidsOf
  <2>9. UpdatesAreSound'
    BY <2>1, <2>2 DEF LockProtocol, UpdatesAreSound, Row
  <2> QED
    BY <2>5, <2>6, <2>7, <2>8, <2>9 DEF LockProtocol
<1> QED
  BY <1>1, <1>2

(* Reading the clock before the validation preserves the lock protocol. *)
LEMMA ReadClockKeeps ==
  ASSUME StoreTypeOK, LockProtocol, NEW c \in Calls, ReadClock(c)
  PROVE  LockProtocol'
<1>1. /\ pc[c] = "clock"
      /\ UNCHANGED <<auctions, bids, clock, command, arrived, result,
                     seen, rowLock, inserted, updated>>
  BY DEF ReadClock, Proceed, serialVars
<1>2. /\ pc'[c] = "recheck"
      /\ \A d \in Calls \ {c} : pc'[d] = pc[d]
  BY GotoFrame DEF ReadClock, Proceed, Labels
<1>3. /\ readTime'[c] = clock
      /\ \A d \in Calls \ {c} : readTime'[d] = readTime[d]
  BY DEF ReadClock, StoreTypeOK
<1>4. arrived[c] <= clock /\ arrived[c] \in Nat /\ clock \in Nat
  BY BoundsAssumption DEF LockProtocol, CallsArePending, StoreTypeOK,
                          SerialTypeOK, Time
<1>5. CallsArePending'
  BY <1>1, <1>2 DEF LockProtocol, CallsArePending, Pending
<1>6. HoldersSeeTheRow'
  BY <1>1, <1>2 DEF LockProtocol, HoldersSeeTheRow, Row, Holding
<1>7. BidsAreJudged'
  BY <1>1, <1>2, <1>3, <1>4 DEF LockProtocol, BidsAreJudged, Holding
<1>8. InsertsAreSound'
  BY <1>1, <1>2, <1>3 DEF LockProtocol, InsertsAreSound, BidsOf
<1>9. UpdatesAreSound'
  BY <1>1, <1>2 DEF LockProtocol, UpdatesAreSound, Row
<1> QED
  BY <1>5, <1>6, <1>7, <1>8, <1>9 DEF LockProtocol

(* The idempotency check made under the row lock preserves the lock protocol. *)
LEMMA RecheckKeeps ==
  ASSUME StoreTypeOK, LockProtocol, NEW c \in Calls, Recheck(c)
  PROVE  LockProtocol'
<1> DEFINE verdict ==
             evaluate_bid(seen[c], command[c].amount_cents, readTime[c])
<1>1. CASE AnswerExisting(c, 1, 0) \/ RefuseBid(c, verdict, 1, 0)
  BY <1>1, ReturnKeeps DEF Recheck, AnswerExisting, RefuseBid
<1>2. CASE verdict = "accepted" /\ Proceed(c, "insert") /\ UNCHANGED txnVars
  <2>1. /\ pc[c] = "recheck"
        /\ UNCHANGED <<auctions, bids, clock, command, arrived, result,
                       seen, readTime, rowLock, inserted, updated>>
    BY <1>2 DEF Recheck, Proceed, serialVars, txnVars
  <2>2. /\ pc'[c] = "insert"
        /\ \A d \in Calls \ {c} : pc'[d] = pc[d]
    BY <1>2, GotoFrame DEF Proceed, Labels
  <2>3. CallsArePending'
    BY <2>1, <2>2 DEF LockProtocol, CallsArePending, Pending
  <2>4. HoldersSeeTheRow'
    BY <2>1, <2>2 DEF LockProtocol, HoldersSeeTheRow, Row, Holding
  <2>5. BidsAreJudged'
    BY <1>2, <2>1, <2>2 DEF LockProtocol, BidsAreJudged, Holding
  <2>6. InsertsAreSound'
    BY <2>1, <2>2 DEF LockProtocol, InsertsAreSound, BidsOf
  <2>7. UpdatesAreSound'
    BY <2>1, <2>2 DEF LockProtocol, UpdatesAreSound, Row
  <2> QED
    BY <2>3, <2>4, <2>5, <2>6, <2>7 DEF LockProtocol
<1> QED
  BY <1>1, <1>2 DEF Recheck

(* Inserting the bid row preserves the lock protocol. *)
LEMMA InsertKeeps ==
  ASSUME StoreTypeOK, LockProtocol, NEW c \in Calls, InsertBid(c)
  PROVE  LockProtocol'
<1>0. pc[c] = "insert" /\ Pending(c)
  BY DEF InsertBid, PutBid, LockProtocol, CallsArePending
<1>1. CASE Rollback(c, "reacquire")
  <2>1. /\ UNCHANGED <<auctions, bids, clock, command, arrived, result>>
        /\ Goto(c, "reacquire") /\ EndTransaction(c)
    BY <1>1 DEF Rollback, serialVars
  <2> QED
    BY <1>0, <2>1, LeaveKeeps DEF Pending
<1>2. CASE /\ BidsOf(command[c].request_id) = {}
           /\ inserted' = [inserted EXCEPT ![c] =
                NewBid(c, command[c], seen[c].version + 1, clock)]
           /\ Proceed(c, "update")
           /\ UNCHANGED <<seen, readTime, rowLock, updated>>
  <2>1. UNCHANGED <<auctions, bids, clock, command, arrived, result,
                    seen, readTime, rowLock, updated>>
    BY <1>2 DEF Proceed, serialVars
  <2>2. /\ pc'[c] = "update"
        /\ \A d \in Calls \ {c} : pc'[d] = pc[d]
    BY <1>2, GotoFrame DEF Proceed, Labels
  <2>3. /\ inserted'[c] = NewBid(c, command[c], seen[c].version + 1, clock)
        /\ \A d \in Calls \ {c} : inserted'[d] = inserted[d]
    BY <1>2 DEF StoreTypeOK
  <2>4. clock \in readTime[c]..clock
    BY <1>0, BoundsAssumption DEF LockProtocol, BidsAreJudged, Holding,
                                  StoreTypeOK, SerialTypeOK, Time
  <2>5. ASSUME NEW d \in Calls \ {c}, pc[d] \in {"update", "commit"}
        PROVE  command[d].request_id # command[c].request_id
    <3>1. PICK at \in readTime[d]..clock :
            inserted[d] = NewBid(d, command[d], seen[d].version + 1, at)
      BY <2>5 DEF LockProtocol, InsertsAreSound
    <3>2. inserted[d].request_id = command[d].request_id
      BY <3>1 DEF NewBid
    <3>3. inserted[d] # NULL
      <4>1. command[d] \in BidCommand /\ seen[d] \in AuctionSnapshot
        BY <2>5 DEF LockProtocol, CallsArePending, Pending, HoldersSeeTheRow,
                    Holding, StoreTypeOK, SerialTypeOK
      <4>2. seen[d].version + 1 \in Nat \ {0}
        BY <4>1 DEF AuctionSnapshot
      <4>3. at \in Time
        BY BoundsAssumption DEF StoreTypeOK, SerialTypeOK, Time
      <4> QED
        BY <3>1, <4>1, <4>2, <4>3, NewBidType, NullAssumption
    <3> QED
      BY <3>2, <3>3 DEF InsertBid, PutBid, RequestInFlight
  <2>6. CallsArePending'
    BY <1>0, <2>1, <2>2 DEF LockProtocol, CallsArePending, Pending
  <2>7. HoldersSeeTheRow'
    BY <1>0, <2>1, <2>2 DEF LockProtocol, HoldersSeeTheRow, Row, Holding
  <2>8. BidsAreJudged'
    BY <1>0, <2>1, <2>2 DEF LockProtocol, BidsAreJudged, Holding
  <2>9. InsertsAreSound'
    <3> SUFFICES ASSUME NEW e \in Calls
                 PROVE  /\ inserted'[e] # NULL => pc'[e] \in {"update", "commit"}
                        /\ pc'[e] \in {"update", "commit"} =>
                             /\ BidsOf(command[e].request_id) = {}
                             /\ \E at \in readTime[e]..clock : inserted'[e] =
                                  NewBid(e, command[e], seen[e].version + 1, at)
                             /\ \A d \in Calls \ {e} :
                                  pc'[d] \in {"update", "commit"} =>
                                  command[d].request_id # command[e].request_id
      BY <2>1 DEF InsertsAreSound, BidsOf
    <3>1. CASE e = c
      BY <1>2, <2>2, <2>3, <2>4, <2>5, <3>1
    <3>2. CASE e # c
      BY <2>2, <2>3, <2>5, <3>2 DEF LockProtocol, InsertsAreSound
    <3> QED
      BY <3>1, <3>2
  <2>10. UpdatesAreSound'
    BY <2>1, <2>2 DEF LockProtocol, UpdatesAreSound, Row
  <2> QED
    BY <2>6, <2>7, <2>8, <2>9, <2>10 DEF LockProtocol
<1> QED
  BY <1>1, <1>2 DEF InsertBid, PutBid

(* Updating the auction row preserves the lock protocol. *)
LEMMA UpdateKeeps ==
  ASSUME StoreTypeOK, LockProtocol, NEW c \in Calls, UpdateAuction(c)
  PROVE  LockProtocol'
<1> DEFINE a == command[c].auction_id
<1>1. /\ pc[c] = "update"
      /\ UNCHANGED <<auctions, bids, clock, command, arrived, result,
                     seen, readTime, inserted>>
  BY DEF UpdateAuction, WriteAuction, Proceed, serialVars
<1>2. /\ pc'[c] = "commit"
      /\ \A d \in Calls \ {c} : pc'[d] = pc[d]
  BY GotoFrame DEF UpdateAuction, WriteAuction, Proceed, Labels
<1>3. a \in Auctions /\ rowLock[a] = c
  BY <1>1 DEF LockProtocol, CallsArePending, Pending, HoldersSeeTheRow,
              Holding, StoreTypeOK, SerialTypeOK, BidCommand
<1>4. /\ rowLock' = rowLock
      /\ updated'[c] = WithWinner(Row(c), c, command[c].amount_cents,
                                  Row(c).version + 1)
      /\ \A d \in Calls \ {c} : updated'[d] = updated[d]
  BY <1>3 DEF UpdateAuction, WriteAuction, StoreTypeOK, Row
<1>5. CallsArePending'
  BY <1>1, <1>2 DEF LockProtocol, CallsArePending, Pending
<1>6. HoldersSeeTheRow'
  BY <1>1, <1>2, <1>4 DEF LockProtocol, HoldersSeeTheRow, Row, Holding
<1>7. BidsAreJudged'
  BY <1>1, <1>2 DEF LockProtocol, BidsAreJudged, Holding
<1>8. InsertsAreSound'
  BY <1>1, <1>2 DEF LockProtocol, InsertsAreSound, BidsOf
<1>9. UpdatesAreSound'
  BY <1>1, <1>2, <1>4 DEF LockProtocol, UpdatesAreSound, Row
<1> QED
  BY <1>5, <1>6, <1>7, <1>8, <1>9 DEF LockProtocol

(* The commit, which publishes the writes and frees the row lock, preserves
   the lock protocol. *)
LEMMA CommitKeeps ==
  ASSUME StoreTypeOK, LockProtocol, NEW c \in Calls, Commit(c, 1, 0)
  PROVE  LockProtocol'
<1> DEFINE a == command[c].auction_id
<1>1. /\ pc[c] = "commit"
      /\ bids' = bids \cup {inserted[c]}
      /\ UNCHANGED <<clock, command, arrived>>
      /\ EndTransaction(c)
  BY DEF Commit
<1>2. /\ pc'[c] = "done"
      /\ \A d \in Calls \ {c} : pc'[d] = pc[d]
  BY GotoFrame DEF Commit, Labels
<1>3. /\ \A d \in Calls \ {c} : /\ inserted'[d] = inserted[d]
                                /\ updated'[d] = updated[d]
                                /\ seen'[d] = seen[d]
                                /\ readTime'[d] = readTime[d]
      /\ \A x \in Auctions : rowLock[x] # c => rowLock'[x] = rowLock[x]
      /\ inserted'[c] = NULL
  BY <1>1, EndFrame
<1>4. \A d \in Calls \ {c} : result'[d] = result[d]
  BY DEF Commit, StoreTypeOK, SerialTypeOK
<1>5. rowLock[a] = c
  BY <1>1 DEF LockProtocol, HoldersSeeTheRow, Holding
<1>6. inserted[c].request_id = command[c].request_id
  <2>1. PICK at \in readTime[c]..clock :
          inserted[c] = NewBid(c, command[c], seen[c].version + 1, at)
    BY <1>1 DEF LockProtocol, InsertsAreSound
  <2> QED
    BY <2>1 DEF NewBid
<1>7. ASSUME NEW d \in Calls \ {c}, pc[d] \in Holding
      PROVE  /\ command[d].auction_id \in Auctions
             /\ rowLock'[command[d].auction_id] = d
             /\ auctions'[command[d].auction_id]
                  = auctions[command[d].auction_id]
  <2>1. /\ command[d].auction_id \in Auctions
        /\ rowLock[command[d].auction_id] = d
    BY <1>7 DEF LockProtocol, CallsArePending, Pending, HoldersSeeTheRow,
                Holding, StoreTypeOK, SerialTypeOK, BidCommand
  <2>2. command[d].auction_id # a
    BY <1>5, <2>1
  <2> QED
    BY <1>3, <2>1, <2>2 DEF Commit, StoreTypeOK, SerialTypeOK
<1>8. CallsArePending'
  BY <1>1, <1>2, <1>4 DEF LockProtocol, CallsArePending, Pending
<1>9. HoldersSeeTheRow'
  <2> SUFFICES ASSUME NEW d \in Calls, pc'[d] \in Holding
               PROVE  /\ rowLock'[command[d].auction_id] = d
                      /\ auctions'[command[d].auction_id] # NULL
                      /\ seen'[d] = auctions'[command[d].auction_id]
    BY <1>1 DEF HoldersSeeTheRow, Row
  <2>1. d # c /\ pc[d] \in Holding
    BY <1>2 DEF Holding
  <2> QED
    BY <1>3, <1>7, <2>1 DEF LockProtocol, HoldersSeeTheRow, Row
<1>10. BidsAreJudged'
  BY <1>1, <1>2, <1>3 DEF LockProtocol, BidsAreJudged, Holding
<1>11. InsertsAreSound'
  <2>1. \A d \in Calls \ {c} : pc[d] \in {"update", "commit"} =>
          command[d].request_id # command[c].request_id
    BY <1>1 DEF LockProtocol, InsertsAreSound
  <2> QED
    BY <1>1, <1>2, <1>3, <1>6, <2>1 DEF LockProtocol, InsertsAreSound, BidsOf
<1>12. UpdatesAreSound'
  BY <1>1, <1>2, <1>3, <1>7 DEF LockProtocol, UpdatesAreSound, Row, Holding
<1> QED
  BY <1>8, <1>9, <1>10, <1>11, <1>12 DEF LockProtocol

(* Every step of the specification preserves the lock protocol. *)
LEMMA ProtocolStep == StoreTypeOK /\ LockProtocol /\ [Next]_vars => LockProtocol'
<1> SUFFICES ASSUME StoreTypeOK, LockProtocol, [Next]_vars
             PROVE  LockProtocol'
  OBVIOUS
<1>1. CASE UNCHANGED storeVars
  BY <1>1 DEF storeVars, txnVars, LockProtocol, CallsArePending, Pending,
              HoldersSeeTheRow, BidsAreJudged, InsertsAreSound,
              UpdatesAreSound, Row, BidsOf
<1>2. CASE \/ Tick
           \/ \E a \in Auctions, l \in Listings : create(a, l)
           \/ \E c \in Calls, cmd \in Commands : place_bid(c, cmd)
  BY <1>2, EnvironmentKeeps
<1>3. ASSUME NEW c \in Calls,
             PoolTimeout(c) \/ LoseConnection(c) \/ WaitExpires(c)
      PROVE  LockProtocol'
  <2>1. pc[c] # "idle" /\ \E outcome : Return(c, outcome)
    BY <1>3 DEF PoolTimeout, LoseConnection, WaitExpires, StatementTimeout,
                LockTimeout, Connected, Acquiring
  <2> QED
    BY <2>1, ReturnKeeps
<1>4. ASSUME NEW c \in Calls, CallStep(c)
      PROVE  LockProtocol'
  <2>1. CASE Connect(c)
    <3>1. /\ pc[c] \in Acquiring
          /\ AfterConnect[pc[c]] \in {"check", "resolve", "classify_check"}
      BY <2>1 DEF Connect, AfterConnect, Acquiring
    <3> QED
      BY <2>1, <3>1, MoveKeeps DEF Connect, Holding, Labels, Acquiring
  <2>2. CASE Check(c)
    <3>1. pc[c] = "check" /\ "lock" \in Labels
      BY <2>2 DEF Check, CheckExisting, Labels
    <3>2. CASE AnswerExisting(c, 1, 0)
      BY <3>1, <3>2, ReturnKeeps DEF AnswerExisting
    <3>3. CASE Proceed(c, "lock") /\ UNCHANGED txnVars
      BY <3>1, <3>3, MoveKeeps DEF Holding
    <3> QED
      BY <2>2, <3>2, <3>3 DEF Check, CheckExisting
  <2>3. CASE ResolveDuplicate(c)
    BY <2>3, ReturnKeeps DEF ResolveDuplicate
  <2> QED
    BY <1>4, <2>1, <2>2, <2>3, LockKeeps, ReadClockKeeps, RecheckKeeps,
       InsertKeeps, UpdateKeeps, CommitKeeps DEF CallStep
<1> QED
  BY <1>1, <1>2, <1>3, <1>4 DEF Next, vars, Quiescent

-----------------------------------------------------------------------------
(***************************************************************************)
(* Bids are never removed, and a call that was told of a UniqueViolation   *)
(* was told so while a bid with its request id was committed.              *)
(***************************************************************************)
LEMMA ResolveStep ==
  StoreTypeOK /\ LockProtocol /\ ResolveFindsBid /\ [Next]_vars
    => ResolveFindsBid'
<1> SUFFICES ASSUME StoreTypeOK, LockProtocol, ResolveFindsBid, [Next]_vars,
                    NEW c \in Calls, pc'[c] \in {"reacquire", "resolve"}
             PROVE  BidsOf(command[c].request_id)' # {}
  BY DEF ResolveFindsBid
<1> DEFINE Kept == /\ pc[c] \in {"reacquire", "resolve"}
                   /\ bids \subseteq bids'
                   /\ command'[c] = command[c]
<1>0. pc \in [Calls -> Labels]
  BY DEF StoreTypeOK
<1>1. Kept => BidsOf(command[c].request_id)' # {}
  BY DEF ResolveFindsBid, BidsOf
<1>2. CASE UNCHANGED storeVars
  BY <1>1, <1>2 DEF storeVars
<1>3. CASE Tick \/ \E a \in Auctions, l \in Listings : create(a, l)
  BY <1>1, <1>3 DEF Tick, PassTime, create, List
<1>4. ASSUME NEW d \in Calls, NEW cmd \in Commands, place_bid(d, cmd)
      PROVE  Kept
  <2>1. /\ pc'[d] = "connect"
        /\ \A x \in Calls \ {d} : pc'[x] = pc[x]
    BY <1>4, GotoFrame DEF place_bid, Labels, Acquiring
  <2> QED
    BY <1>4, <2>1 DEF place_bid, Call, StoreTypeOK, SerialTypeOK
<1>5. ASSUME NEW d \in Calls, NEW outcome, Return(d, outcome)
      PROVE  Kept
  BY <1>0, <1>5 DEF Return, Goto
<1>6. ASSUME NEW d \in Calls, NEW label \in Labels \ {"reacquire", "resolve"},
             Proceed(d, label)
      PROVE  Kept
  BY <1>0, <1>6 DEF Proceed, Goto, serialVars
<1>7. ASSUME NEW d \in Calls, Connect(d)
      PROVE  Kept
  <2>1. /\ pc' = [pc EXCEPT ![d] = AfterConnect[pc[d]]]
        /\ pc[d] \in Acquiring
        /\ UNCHANGED <<bids, command>>
    BY <1>7 DEF Connect, Proceed, Goto, serialVars
  <2>2. pc[d] # "reacquire" => AfterConnect[pc[d]] # "resolve"
                               /\ AfterConnect[pc[d]] # "reacquire"
    BY <2>1 DEF AfterConnect, Acquiring
  <2> QED
    BY <1>0, <2>1, <2>2
<1>8. ASSUME NEW d \in Calls, InsertBid(d)
      PROVE  BidsOf(command[c].request_id)' # {}
  <2>1. CASE Rollback(d, "reacquire") /\ BidsOf(command[d].request_id) # {}
    <3>1. UNCHANGED <<bids, command>> /\ pc' = [pc EXCEPT ![d] = "reacquire"]
      BY <2>1 DEF Rollback, Goto, serialVars
    <3>2. CASE c = d
      BY <2>1, <3>1, <3>2 DEF BidsOf
    <3>3. CASE c # d
      BY <1>0, <1>1, <3>1, <3>3
    <3> QED
      BY <3>2, <3>3
  <2>2. CASE PutBid(d)
    BY <1>1, <1>6, <2>2 DEF PutBid, Labels
  <2> QED
    BY <1>8, <2>1, <2>2 DEF InsertBid
<1>9. ASSUME NEW d \in Calls, Commit(d, 1, 0)
      PROVE  Kept
  BY <1>0, <1>9 DEF Commit, Goto
<1>10. ASSUME NEW d \in Calls, CallStep(d)
       PROVE  BidsOf(command[c].request_id)' # {}
  <2>1. CASE Check(d)
    BY <1>1, <1>5, <1>6, <2>1 DEF Check, CheckExisting, AnswerExisting, Labels
  <2>2. CASE LockAuction(d)
    BY <1>1, <1>5, <1>6, <2>2 DEF LockAuction, Labels
  <2>3. CASE ReadClock(d)
    BY <1>1, <1>6, <2>3 DEF ReadClock, Labels
  <2>4. CASE Recheck(d)
    BY <1>1, <1>5, <1>6, <2>4 DEF Recheck, AnswerExisting, RefuseBid, Labels
  <2>5. CASE UpdateAuction(d)
    BY <1>1, <1>6, <2>5 DEF UpdateAuction, WriteAuction, Labels
  <2>6. CASE ResolveDuplicate(d)
    BY <1>1, <1>5, <2>6 DEF ResolveDuplicate
  <2> QED
    BY <1>1, <1>7, <1>8, <1>9, <1>10, <2>1, <2>2, <2>3, <2>4, <2>5, <2>6
       DEF CallStep
<1>11. ASSUME NEW d \in Calls,
              PoolTimeout(d) \/ LoseConnection(d) \/ WaitExpires(d)
       PROVE  Kept
  BY <1>5, <1>11 DEF PoolTimeout, LoseConnection, WaitExpires,
                     StatementTimeout, LockTimeout
<1> QED
  BY <1>1, <1>2, <1>3, <1>4, <1>10, <1>11 DEF Next, vars, Quiescent

-----------------------------------------------------------------------------
(* The seeded database satisfies the type invariant and the lock protocol. *)
LEMMA InitEstablishes == Init => StoreTypeOK /\ LockProtocol /\ ResolveFindsBid
<1>1. Init => StoreTypeOK
  BY BoundsAssumption
     DEF Init, StoreInit, SerialInit, StoreTypeOK, SerialTypeOK, Time, Labels
<1>2. Init => LockProtocol
  BY DEF Init, StoreInit, SerialInit, LockProtocol, CallsArePending,
         HoldersSeeTheRow, BidsAreJudged, InsertsAreSound, UpdatesAreSound,
         Holding
<1>3. Init => ResolveFindsBid
  BY DEF Init, StoreInit, ResolveFindsBid
<1> QED
  BY <1>1, <1>2, <1>3

(***************************************************************************)
(* Tables, locks and the frames of all calls always have their types.      *)
(***************************************************************************)
THEOREM PessimisticTypeCorrect == Spec => []StoreTypeOK
BY InitEstablishes, TypeStep, ProtocolStep, ResolveStep, PTL DEF Spec

(***************************************************************************)
(* The holder of a row lock always works on the committed row.             *)
(***************************************************************************)
THEOREM PessimisticProtocol == Spec => []LockProtocol
BY InitEstablishes, TypeStep, ProtocolStep, ResolveStep, PTL DEF Spec

(***************************************************************************)
(* A call that was told of a UniqueViolation finds the bid that caused it: *)
(* _resolve_duplicate_request never raises its RuntimeError.               *)
(***************************************************************************)
THEOREM PessimisticResolves == Spec => []ResolveFindsBid
BY InitEstablishes, TypeStep, ProtocolStep, ResolveStep, PTL DEF Spec

(***************************************************************************)
(* However many calls interleave, fail or repeat each other, the callers   *)
(* of the pessimistic strategy see a serial auction.                       *)
(***************************************************************************)
THEOREM PessimisticIsSerial == Spec => SerialSpec
<1>1. Init => SerialInit
  BY DEF Init, StoreInit
<1> QED
  BY <1>1, StepRefines, PessimisticTypeCorrect, PessimisticProtocol,
     PessimisticResolves, PTL DEF Spec, SerialSpec

(***************************************************************************)
(* The bids that the pessimistic strategy commits form serial histories.   *)
(***************************************************************************)
THEOREM PessimisticHistory == Spec => []HistoryIsSerial
BY PessimisticIsSerial, SerialHistory, PTL

(***************************************************************************)
(* The pessimistic strategy carries a request out at most once and tells   *)
(* every caller the truth about it.                                        *)
(***************************************************************************)
THEOREM PessimisticOutcomes == Spec => []OutcomesAgree
BY PessimisticIsSerial, SerialOutcomes, PTL

(***************************************************************************)
(* The checker's verdict on what the pessimistic strategy has stored is    *)
(* right: a violation is reported if and only if there is one.             *)
(***************************************************************************)
THEOREM PessimisticChecker == Spec => []CheckerIsExact
BY PessimisticIsSerial, SerialChecker, PTL

-----------------------------------------------------------------------------
(***************************************************************************)
(* Only a verdict on the row under the lock refuses a bid as too low.      *)
(***************************************************************************)
LEMMA OtherOutcomes ==
  ASSUME StoreTypeOK, NEW c \in Calls, NEW outcome,
         outcome.rejection_reason # "bid_too_low",
         result' = [result EXCEPT ![c] = outcome]
  PROVE  \A d \in Calls : RefusalQuotesRow(d)
BY DEF RefusalQuotesRow, StoreTypeOK, SerialTypeOK

(* One step of the specification preserves what PessimisticRefusals states. *)
LEMMA RefusalStep ==
  StoreTypeOK /\ LockProtocol /\ [Next]_vars
    => [\A c \in Calls : RefusalQuotesRow(c)]_vars
<1> SUFFICES ASSUME StoreTypeOK, LockProtocol, Next
             PROVE  \A d \in Calls : RefusalQuotesRow(d)
  OBVIOUS
<1>0. /\ \A exception : raised(exception).rejection_reason # "bid_too_low"
      /\ \A bid, n, k : /\ accepted(bid, n, k).rejection_reason # "bid_too_low"
                        /\ replayed(bid, n, k).rejection_reason # "bid_too_low"
      /\ \A m, n, k :
           /\ rejected("auction_not_found", m, n, k).rejection_reason
                # "bid_too_low"
           /\ rejected("request_id_reused", m, n, k).rejection_reason
                # "bid_too_low"
  BY NullAssumption
     DEF raised, accepted, replayed, ReportBid, rejected, BidRejectionReason
<1>1. ASSUME UNCHANGED result
      PROVE  \A d \in Calls : RefusalQuotesRow(d)
  BY <1>1 DEF RefusalQuotesRow
<1>2. ASSUME NEW c \in Calls, NEW outcome, Return(c, outcome),
             outcome.rejection_reason # "bid_too_low"
      PROVE  \A d \in Calls : RefusalQuotesRow(d)
  BY <1>2, OtherOutcomes DEF Return
<1>3. ASSUME NEW c \in Calls, AnswerExisting(c, 1, 0)
      PROVE  \A d \in Calls : RefusalQuotesRow(d)
  BY <1>0, <1>2, <1>3 DEF AnswerExisting, Answers, replay_or_reject
<1>4. ASSUME NEW c \in Calls,
             PoolTimeout(c) \/ LoseConnection(c) \/ WaitExpires(c)
      PROVE  \A d \in Calls : RefusalQuotesRow(d)
  <2>1. \E exception : Return(c, raised(exception))
    BY <1>4 DEF PoolTimeout, LoseConnection, WaitExpires, StatementTimeout,
                LockTimeout
  <2> QED
    BY <1>0, <1>2, <2>1
<1>5. ASSUME NEW c \in Calls, CallStep(c)
      PROVE  \A d \in Calls : RefusalQuotesRow(d)
  <2>1. CASE Connect(c)
    BY <1>1, <2>1 DEF Connect, Proceed, serialVars
  <2>2. CASE Check(c)
    BY <1>1, <1>3, <2>2 DEF Check, CheckExisting, Proceed, serialVars
  <2>3. CASE LockAuction(c)
    BY <1>0, <1>1, <1>2, <2>3 DEF LockAuction, Proceed, serialVars
  <2>4. CASE ReadClock(c)
    BY <1>1, <2>4 DEF ReadClock, Proceed, serialVars
  <2>5. CASE Recheck(c)
    <3> DEFINE verdict ==
                 evaluate_bid(seen[c], command[c].amount_cents, readTime[c])
    <3>1. CASE AnswerExisting(c, 1, 0)
      BY <1>3, <3>1
    <3>2. CASE RefuseBid(c, verdict, 1, 0) /\ verdict = "OverflowError"
      BY <1>0, <1>2, <3>2 DEF RefuseBid
    <3>3. CASE RefuseBid(c, verdict, 1, 0) /\ verdict # "OverflowError"
      <4>1. seen[c] = auctions[command[c].auction_id]
        BY <2>5 DEF Recheck, LockProtocol, HoldersSeeTheRow, Holding, Row
      <4>2. /\ result' = [result EXCEPT ![c] = rejected(verdict,
                            minimum_acceptable_bid(seen[c]), 1, 0)]
            /\ auctions' = auctions
        BY <3>3 DEF RefuseBid, Return
      <4>3. rejected(verdict, minimum_acceptable_bid(seen[c]), 1, 0)
              .minimum_acceptable_cents = minimum_acceptable_bid(seen[c])
        BY DEF rejected
      <4> QED
        BY <4>1, <4>2, <4>3 DEF RefusalQuotesRow, StoreTypeOK, SerialTypeOK
    <3>4. CASE Proceed(c, "insert")
      BY <1>1, <3>4 DEF Proceed, serialVars
    <3> QED
      BY <2>5, <3>1, <3>2, <3>3, <3>4 DEF Recheck
  <2>6. CASE InsertBid(c)
    BY <1>1, <2>6 DEF InsertBid, PutBid, Rollback, Proceed, serialVars
  <2>7. CASE UpdateAuction(c)
    BY <1>1, <2>7 DEF UpdateAuction, WriteAuction, Proceed, serialVars
  <2>8. CASE Commit(c, 1, 0)
    <3>1. PICK outcome \in {accepted(inserted[c], 1, 0),
                            raised("OperationalError")} :
            result' = [result EXCEPT ![c] = outcome]
      BY <2>8 DEF Commit
    <3>2. outcome.rejection_reason # "bid_too_low"
      BY <1>0, <3>1
    <3> QED
      BY <3>1, <3>2, OtherOutcomes
  <2>9. CASE ResolveDuplicate(c)
    BY <1>0, <1>2, <2>9 DEF ResolveDuplicate, Answers, replay_or_reject
  <2> QED
    BY <1>5, <2>1, <2>2, <2>3, <2>4, <2>5, <2>6, <2>7, <2>8, <2>9 DEF CallStep
<1> QED
  BY <1>1, <1>4, <1>5
     DEF Next, Tick, PassTime, create, List, place_bid, Call, Quiescent,
         storeVars

(***************************************************************************)
(* A caller of the pessimistic strategy whose bid is too low is told the   *)
(* minimum of the auction as it is at that moment.                         *)
(***************************************************************************)
THEOREM PessimisticRefusals == Spec => RefusalIsCurrent
BY RefusalStep, PessimisticTypeCorrect, PessimisticProtocol, PTL
   DEF Spec, RefusalIsCurrent

-----------------------------------------------------------------------------
(***************************************************************************)
(* Why a refusal is final: the request of a call that was refused once its *)
(* auction had opened is never carried out afterwards.  A bid that is too  *)
(* low stays too low, since prices only rise; and a call that reads the    *)
(* clock after another has found the auction closed finds it closed too,   *)
(* since both read it under the lock of the row.                           *)
(***************************************************************************)
Refused(d) ==
  /\ Ended(d, "rejected")
  /\ result[d].rejection_reason \notin {"auction_not_found",
                                        "auction_not_started"}

NotCarriedOut(d) ==
  \A b \in BidsOf(command[d].request_id) : ~ Matches(b, command[d])

ClosedToAll(d) ==
  /\ Row(d).ends_at <= clock
  /\ \A c \in Calls : /\ pc[c] \in Holding \ {"clock"}
                      /\ command[c].auction_id = command[d].auction_id
                      => Row(d).ends_at <= readTime[c]

Grounds(d, reason) ==
  \/ reason = "request_id_reused" /\ BidsOf(command[d].request_id) # {}
  \/ /\ Row(d) # NULL
     /\ \/ /\ reason = "bid_too_low"
           /\ command[d].amount_cents < minimum_acceptable_bid(Row(d))
        \/ reason = "auction_closed" /\ ClosedToAll(d)

RefusalsStand ==
  \A d \in Calls : Refused(d) =>
    NotCarriedOut(d) /\ Grounds(d, result[d].rejection_reason)

(***************************************************************************)
(* Only a commit adds a bid, and only ReadClock takes a call past "clock". *)
(***************************************************************************)
LEMMA OnlyCommitsAdd ==
  ASSUME [Next]_vars, NEW b \in bids', b \notin bids
  PROVE  \E c \in Calls : Commit(c, 1, 0) /\ b = inserted[c]
<1>1. PICK c \in Calls : Commit(c, 1, 0)
  BY DEF Next, vars, storeVars, serialVars, Tick, PassTime, create, List,
         place_bid, Call, Quiescent, PoolTimeout, LoseConnection, WaitExpires,
         StatementTimeout, LockTimeout, CallStep, Connect, Check,
         CheckExisting, AnswerExisting, LockAuction, ReadClock, Recheck,
         RefuseBid, InsertBid, PutBid, Rollback, UpdateAuction, WriteAuction,
         ResolveDuplicate, Return, Proceed
<1> QED
  BY <1>1 DEF Commit

(* A call past its reading of the clock has read it now or before. *)
LEMMA ClockIsReadOnce ==
  ASSUME StoreTypeOK, [Next]_vars, NEW c \in Calls,
         pc'[c] \in Holding \ {"clock"}
  PROVE  /\ command'[c] = command[c]
         /\ \/ pc[c] \in Holding \ {"clock"} /\ readTime'[c] = readTime[c]
            \/ readTime'[c] = clock
<1> DEFINE Past == {"recheck", "insert", "update", "commit"}
           Goal == /\ command'[c] = command[c]
                   /\ \/ pc[c] \in Past /\ readTime'[c] = readTime[c]
                      \/ readTime'[c] = clock
<1>0. /\ pc \in [Calls -> Labels] /\ readTime \in [Calls -> Time]
      /\ command \in [Calls -> BidCommand \cup {NULL}]
      /\ pc'[c] \in Past /\ Past = Holding \ {"clock"}
  BY DEF StoreTypeOK, SerialTypeOK, Holding
<1> SUFFICES Goal
  BY <1>0
<1>1. CASE UNCHANGED <<pc, readTime, command>>
  BY <1>0, <1>1
<1>2. ASSUME NEW d \in Calls, NEW cmd \in Commands, place_bid(d, cmd)
      PROVE  Goal
  <2>1. /\ pc' = [pc EXCEPT ![d] = "connect"]
        /\ command' = [command EXCEPT ![d] = cmd]
        /\ readTime' = readTime
    BY <1>2 DEF place_bid, Call, Goto, txnVars
  <2> QED
    BY <1>0, <2>1
<1>3. ASSUME NEW d \in Calls, NEW label, label \notin Past,
             Goto(d, label), UNCHANGED command,
             readTime' = readTime \/ readTime' = [readTime EXCEPT ![d] = 0]
      PROVE  Goal
  BY <1>0, <1>3 DEF Goto
<1>5. ASSUME NEW d \in Calls, NEW outcome, Return(d, outcome)
      PROVE  Goal
  BY <1>3, <1>5 DEF Return, EndTransaction
<1>6. ASSUME NEW d \in Calls, NEW label, label \notin Past,
             (Proceed(d, label) /\ UNCHANGED readTime) \/ Rollback(d, label)
      PROVE  Goal
  BY <1>3, <1>6 DEF Proceed, Rollback, EndTransaction, serialVars
<1>7. ASSUME NEW d \in Calls, NEW label, Proceed(d, label), pc[d] \in Past,
             UNCHANGED readTime
      PROVE  Goal
  BY <1>0, <1>7 DEF Proceed, Goto, serialVars
<1>8. ASSUME NEW d \in Calls, CallStep(d)
      PROVE  Goal
  <2>1. CASE Connect(d)
    <3>1. AfterConnect[pc[d]] \notin Past
      BY <2>1 DEF Connect, AfterConnect, Acquiring
    <3> QED
      BY <1>6, <2>1, <3>1 DEF Connect, txnVars
  <2>2. CASE Check(d)
    BY <1>5, <1>6, <2>2 DEF Check, CheckExisting, AnswerExisting, txnVars
  <2>3. CASE LockAuction(d)
    BY <1>5, <1>6, <2>3 DEF LockAuction
  <2>4. CASE ReadClock(d)
    <3>1. /\ pc' = [pc EXCEPT ![d] = "recheck"]
          /\ readTime' = [readTime EXCEPT ![d] = clock]
          /\ command' = command
      BY <2>4 DEF ReadClock, Proceed, Goto, serialVars
    <3> QED
      BY <1>0, <3>1
  <2>5. CASE Recheck(d)
    BY <1>5, <1>7, <2>5 DEF Recheck, AnswerExisting, RefuseBid, txnVars
  <2>6. CASE InsertBid(d)
    BY <1>6, <1>7, <2>6 DEF InsertBid, PutBid
  <2>7. CASE UpdateAuction(d)
    BY <1>7, <2>7 DEF UpdateAuction, WriteAuction
  <2>8. CASE Commit(d, 1, 0)
    BY <1>3, <2>8 DEF Commit, EndTransaction
  <2>9. CASE ResolveDuplicate(d)
    BY <1>5, <2>9 DEF ResolveDuplicate
  <2> QED
    BY <1>8, <2>1, <2>2, <2>3, <2>4, <2>5, <2>6, <2>7, <2>8, <2>9 DEF CallStep
<1>9. ASSUME NEW d \in Calls,
             PoolTimeout(d) \/ LoseConnection(d) \/ WaitExpires(d)
      PROVE  Goal
  BY <1>5, <1>9 DEF PoolTimeout, LoseConnection, WaitExpires,
                    StatementTimeout, LockTimeout
<1>10. CASE UNCHANGED vars \/ Quiescent \/ Tick
            \/ \E a \in Auctions, l \in Listings : create(a, l)
  BY <1>1, <1>10 DEF vars, storeVars, txnVars, Quiescent, Tick, PassTime,
                     create, List
<1> QED
  BY <1>2, <1>8, <1>9, <1>10 DEF Next

(***************************************************************************)
(* How a call comes to be refused: with the bid of its request id, or on   *)
(* the row under its lock when there is none.                              *)
(***************************************************************************)
LEMMA HowRefused ==
  ASSUME StoreTypeOK, [Next]_vars, NEW d \in Calls, result[d] = NULL,
         Refused(d)'
  PROVE  \/ AnswerExisting(d, 1, 0)
         \/ /\ pc[d] = "recheck"
            /\ BidsOf(command[d].request_id) = {}
            /\ RefuseBid(d, evaluate_bid(seen[d], command[d].amount_cents,
                                         readTime[d]), 1, 0)
<1> DEFINE Goal == \/ AnswerExisting(d, 1, 0)
                   \/ /\ pc[d] = "recheck"
                      /\ BidsOf(command[d].request_id) = {}
                      /\ RefuseBid(d, evaluate_bid(seen[d],
                                     command[d].amount_cents, readTime[d]), 1, 0)
<1>0. /\ result \in [Calls -> BidOutcome \cup {NULL}]
      /\ result'[d] # NULL /\ result'[d].status = "rejected"
      /\ result'[d].rejection_reason \notin {"auction_not_found",
                                             "auction_not_started"}
  BY DEF StoreTypeOK, SerialTypeOK, Refused, Ended
<1>1. CASE UNCHANGED result
  BY <1>0, <1>1
<1>2. ASSUME NEW c \in Calls, NEW out, result' = [result EXCEPT ![c] = out]
      PROVE  /\ c = d
             /\ out.status = "rejected"
             /\ out.rejection_reason # "auction_not_found"
  BY <1>0, <1>2
<1>3. ASSUME NEW c \in Calls, NEW exception \in Exceptions,
             Return(c, raised(exception))
      PROVE  FALSE
  <2>1. raised(exception).status = "rejected"
    BY <1>2, <1>3 DEF Return
  <2> QED
    BY <2>1 DEF raised, Exceptions
<1>4. ASSUME NEW c \in Calls,
             PoolTimeout(c) \/ LoseConnection(c) \/ WaitExpires(c)
      PROVE  FALSE
  BY <1>3, <1>4 DEF PoolTimeout, LoseConnection, WaitExpires,
                    StatementTimeout, LockTimeout, Exceptions
<1>5. ASSUME NEW c \in Calls, AnswerExisting(c, 1, 0)
      PROVE  Goal
  BY <1>2, <1>5 DEF AnswerExisting, Return
<1>6. ASSUME NEW c \in Calls, CallStep(c)
      PROVE  Goal
  <2>1. CASE Connect(c) \/ ReadClock(c) \/ InsertBid(c) \/ UpdateAuction(c)
    BY <1>1, <2>1 DEF Connect, ReadClock, InsertBid, PutBid, Rollback,
                      UpdateAuction, WriteAuction, Proceed, serialVars
  <2>2. CASE Check(c)
    BY <1>1, <1>5, <2>2 DEF Check, CheckExisting, Proceed, serialVars
  <2>3. CASE LockAuction(c)
    <3>1. CASE Return(c, rejected("auction_not_found", NULL, 1, 0))
      <4>1. rejected("auction_not_found", NULL, 1, 0).rejection_reason
              # "auction_not_found"
        BY <1>2, <3>1 DEF Return
      <4> QED
        BY <4>1 DEF rejected
    <3> QED
      BY <1>1, <2>3, <3>1 DEF LockAuction, Proceed, serialVars
  <2>4. CASE Recheck(c)
    <3>1. CASE AnswerExisting(c, 1, 0)
      BY <1>5, <3>1
    <3>2. CASE /\ BidsOf(command[c].request_id) = {}
               /\ RefuseBid(c, evaluate_bid(seen[c], command[c].amount_cents,
                                            readTime[c]), 1, 0)
      <4>1. c = d
        BY <1>2, <3>2 DEF RefuseBid, Return
      <4> QED
        BY <2>4, <3>2, <4>1 DEF Recheck
    <3> QED
      BY <1>1, <2>4, <3>1, <3>2 DEF Recheck, Proceed, serialVars
  <2>5. CASE Commit(c, 1, 0)
    <3>1. PICK out \in {accepted(inserted[c], 1, 0),
                        raised("OperationalError")} :
            result' = [result EXCEPT ![c] = out]
      BY <2>5 DEF Commit
    <3>2. out.status \in {"accepted", "OperationalError"}
      BY <3>1 DEF accepted, ReportBid, raised
    <3> QED
      BY <1>2, <3>1, <3>2
  <2>6. CASE ResolveDuplicate(c)
    <3>1. CASE Return(c, raised("RuntimeError"))
      BY <1>3, <3>1 DEF Exceptions
    <3> QED
      BY <1>5, <2>6, <3>1 DEF ResolveDuplicate, AnswerExisting
  <2> QED
    BY <1>6, <2>1, <2>2, <2>3, <2>4, <2>5, <2>6 DEF CallStep
<1> QED
  BY <1>1, <1>4, <1>6 DEF Next, vars, storeVars, Tick, PassTime, create, List,
                          place_bid, Call, Quiescent

(* A refusal has its grounds when it is made. *)
LEMMA NewRefusal ==
  ASSUME StoreTypeOK, LockProtocol, OutcomesAgree, [Next]_vars,
         NEW d \in Calls, result[d] = NULL, Refused(d)'
  PROVE  (NotCarriedOut(d) /\ Grounds(d, result[d].rejection_reason))'
<1>0. result \in [Calls -> BidOutcome \cup {NULL}]
  BY DEF StoreTypeOK, SerialTypeOK
<1>1. CASE AnswerExisting(d, 1, 0)
  <2>1. PICK bid \in BidsOf(command[d].request_id) :
          Return(d, replay_or_reject(bid, command[d], 1, 0))
    BY <1>1 DEF AnswerExisting, Answers
  <2>2. /\ bids' = bids /\ command' = command
        /\ result'[d] = replay_or_reject(bid, command[d], 1, 0)
    BY <1>0, <2>1 DEF Return
  <2>3. ~ Matches(bid, command[d])
    <3>1. replay_or_reject(bid, command[d], 1, 0).status = "rejected"
      BY <2>2 DEF Refused, Ended
    <3> QED
      BY <3>1 DEF replay_or_reject, replayed, ReportBid
  <2>4. result'[d].rejection_reason = "request_id_reused"
    BY <2>2, <2>3 DEF replay_or_reject, rejected
  <2>5. \A b \in BidsOf(command[d].request_id) : b = bid
    BY DEF OutcomesAgree, BidsOf
  <2> QED
    BY <2>1, <2>2, <2>3, <2>4, <2>5 DEF NotCarriedOut, Grounds, BidsOf, Matches
<1>2. CASE /\ pc[d] = "recheck"
           /\ BidsOf(command[d].request_id) = {}
           /\ RefuseBid(d, evaluate_bid(seen[d], command[d].amount_cents,
                                        readTime[d]), 1, 0)
  <2> DEFINE verdict ==
               evaluate_bid(seen[d], command[d].amount_cents, readTime[d])
             minimum == minimum_acceptable_bid(seen[d])
             a == command[d].auction_id
  <2>1. /\ Pending(d) /\ rowLock[a] = d /\ Row(d) # NULL /\ seen[d] = Row(d)
        /\ readTime[d] \in arrived[d]..clock
    BY <1>2 DEF LockProtocol, CallsArePending, HoldersSeeTheRow, BidsAreJudged,
                Holding
  <2>2. /\ command[d].amount_cents \in Money /\ a \in Auctions
        /\ seen[d] \in AuctionSnapshot
        /\ readTime[d] \in Nat /\ clock \in Nat /\ arrived[d] \in Nat
    BY <2>1, BoundsAssumption
       DEF Pending, StoreTypeOK, SerialTypeOK, BidCommand, Time
  <2>3. /\ verdict \in {"accepted", "OverflowError", "auction_not_started",
                        "auction_closed", "bid_too_low"}
        /\ verdict = "auction_closed" => readTime[d] >= seen[d].ends_at
        /\ verdict = "bid_too_low" => command[d].amount_cents < minimum
    BY <2>2, Verdicts
  <2> HIDE DEF verdict, minimum
  <2>4. /\ verdict # "accepted"
        /\ Return(d, IF verdict = "OverflowError" THEN raised("OverflowError")
                     ELSE rejected(verdict, minimum, 1, 0))
    BY <1>2 DEF RefuseBid, verdict, minimum
  <2>5. /\ UNCHANGED <<auctions, bids, clock, command, arrived>>
        /\ result'[d] = IF verdict = "OverflowError" THEN raised("OverflowError")
                        ELSE rejected(verdict, minimum, 1, 0)
    BY <1>0, <2>4 DEF Return
  <2>6. verdict # "OverflowError"
    BY <2>5 DEF Refused, Ended, raised
  <2>7. result'[d].rejection_reason = verdict
    BY <2>5, <2>6 DEF rejected
  <2>8. verdict \in {"auction_closed", "bid_too_low"}
    BY <2>3, <2>4, <2>6, <2>7 DEF Refused
  <2>9. NotCarriedOut(d)'
    BY <1>2, <2>5 DEF NotCarriedOut, BidsOf
  <2>10. Row(d)' = Row(d)
    BY <2>5 DEF Row
  <2>11. CASE verdict = "bid_too_low"
    BY <2>1, <2>3, <2>5, <2>7, <2>9, <2>10, <2>11 DEF Grounds, minimum
  <2>12. CASE verdict = "auction_closed"
    <3>1. Row(d).ends_at <= clock
      BY <2>1, <2>2, <2>3, <2>12 DEF AuctionSnapshot
    <3>2. ASSUME NEW c \in Calls, pc'[c] \in Holding \ {"clock"},
                 command[c].auction_id = a
          PROVE  FALSE
      <4>1. pc'[d] = "done" /\ \A x \in Calls \ {d} : pc'[x] = pc[x]
        BY <2>4, GotoFrame DEF Return, Labels
      <4>2. c # d /\ pc[c] \in Holding
        BY <3>2, <4>1 DEF Holding
      <4>3. rowLock[a] = c
        BY <3>2, <4>2 DEF LockProtocol, HoldersSeeTheRow
      <4> QED
        BY <2>1, <4>2, <4>3
    <3>3. ClosedToAll(d)'
      BY <2>5, <2>10, <3>1, <3>2 DEF ClosedToAll
    <3> QED
      BY <2>1, <2>7, <2>9, <2>10, <2>12, <3>3 DEF Grounds
  <2> QED
    BY <2>8, <2>11, <2>12
<1> QED
  BY <1>1, <1>2, HowRefused

(* A refusal keeps its grounds, and they keep its request from being carried
   out. *)
LEMMA OldRefusal ==
  ASSUME StoreTypeOK, LockProtocol, ResolveFindsBid, RefusalsStand,
         [Next]_vars, NEW d \in Calls, result[d] # NULL, Refused(d)'
  PROVE  (NotCarriedOut(d) /\ Grounds(d, result[d].rejection_reason))'
<1> DEFINE a == command[d].auction_id
           reason == result[d].rejection_reason
<1>0. SerialTypeOK /\ [SerialNext]_serialVars
  BY StepRefines DEF StoreTypeOK
<1>1. /\ RowsMoveForward /\ AnswersStand /\ SerialTypeOK'
  BY <1>0, AdvanceStep, FinalStep, SerialTypeStep
<1>2. /\ command[d] # NULL /\ command'[d] = command[d]
      /\ result'[d] = result[d] /\ bids \subseteq bids'
  BY <1>1 DEF AnswersStand, LockProtocol, CallsArePending
<1>3. /\ Refused(d) /\ NotCarriedOut(d) /\ Grounds(d, reason)
  BY <1>2 DEF RefusalsStand, Refused, Ended
<1>4. /\ command[d] \in BidCommand /\ a \in Auctions
      /\ command[d].amount_cents \in Money
      /\ clock \in Nat /\ clock' \in Nat
  BY <1>0, <1>1, <1>2, BoundsAssumption DEF SerialTypeOK, BidCommand, Time
<1>5. clock <= clock'
  BY <1>0, <1>4 DEF SerialNext, serialVars, Invisible, PassTime, List, Call,
                    Fail, Accept, Replay, Refuse
<1>6. Row(d)' = auctions'[a]
  BY <1>2 DEF Row
<1>7. Row(d) # NULL => /\ Row(d) \in AuctionSnapshot
                       /\ auctions'[a] \in AuctionSnapshot
                       /\ auctions'[a] # NULL
                       /\ Later(Row(d), auctions'[a])
  BY <1>0, <1>1, <1>4 DEF Row, RowsMoveForward, SerialTypeOK
<1>8. NotCarriedOut(d)'
  <2> SUFFICES ASSUME NEW b \in bids', b.request_id = command[d].request_id,
                      Matches(b, command[d])
               PROVE  FALSE
    BY <1>2 DEF NotCarriedOut, BidsOf, Matches
  <2>1. b \notin bids
    BY <1>3 DEF NotCarriedOut, BidsOf
  <2>2. PICK c \in Calls : Commit(c, 1, 0) /\ b = inserted[c]
    BY <2>1, OnlyCommitsAdd
  <2>3. /\ pc[c] = "commit" /\ Pending(c) /\ seen[c] = Row(c) /\ Row(c) # NULL
        /\ BidsOf(command[c].request_id) = {}
        /\ readTime[c] \in arrived[c]..clock
        /\ evaluate_bid(seen[c], command[c].amount_cents, readTime[c])
             = "accepted"
    BY <2>2 DEF Commit, LockProtocol, CallsArePending, HoldersSeeTheRow,
                BidsAreJudged, InsertsAreSound, Holding
  <2>4. PICK at : b = NewBid(c, command[c], seen[c].version + 1, at)
    BY <2>2, <2>3 DEF LockProtocol, InsertsAreSound
  <2>5. /\ command[c].request_id = command[d].request_id
        /\ command[c].auction_id = a
        /\ command[c].amount_cents = command[d].amount_cents
    BY <2>4 DEF NewBid, Matches
  <2>6. Row(c) = Row(d)
    BY <2>5 DEF Row
  <2>7. Row(d) \in AuctionSnapshot /\ readTime[c] \in Nat
    BY <1>7, <2>3, <2>6, BoundsAssumption DEF StoreTypeOK, Time
  <2>8. /\ derive_auction_state(Row(d), readTime[c]) = "open"
        /\ command[d].amount_cents >= minimum_acceptable_bid(Row(d))
    BY <1>4, <2>3, <2>5, <2>6, <2>7, AcceptedVerdict
  <2>9. readTime[c] < Row(d).ends_at
    BY <2>7, <2>8 DEF derive_auction_state, AuctionSnapshot
  <2>10. minimum_acceptable_bid(Row(d)) \in Int /\ command[d].amount_cents \in Int
         /\ Row(d).ends_at \in Nat
    BY <1>4, <2>7, MoneyAssumption
       DEF minimum_acceptable_bid, AuctionSnapshot, Money
  <2>11. CASE reason = "request_id_reused"
    BY <1>3, <2>3, <2>5, <2>11 DEF Grounds
  <2>12. CASE reason = "bid_too_low"
    BY <1>3, <2>8, <2>10, <2>12 DEF Grounds
  <2>13. CASE reason = "auction_closed"
    <3>1. Row(d).ends_at <= readTime[c]
      BY <1>3, <2>3, <2>5, <2>13 DEF Grounds, ClosedToAll, Holding
    <3> QED
      BY <2>7, <2>9, <2>10, <3>1
  <2> QED
    BY <1>3, <2>11, <2>12, <2>13 DEF Grounds
<1>9. CASE reason = "request_id_reused"
  <2>1. BidsOf(command[d].request_id)' # {}
    BY <1>2, <1>3, <1>9 DEF Grounds, BidsOf
  <2> QED
    BY <1>2, <1>8, <1>9, <2>1 DEF Grounds
<1>10. CASE reason = "bid_too_low"
  <2>1. /\ Row(d) # NULL
        /\ command[d].amount_cents < minimum_acceptable_bid(Row(d))
    BY <1>3, <1>10 DEF Grounds
  <2>2. /\ minimum_acceptable_bid(Row(d)) <= minimum_acceptable_bid(auctions'[a])
        /\ minimum_acceptable_bid(Row(d)) \in Int
        /\ minimum_acceptable_bid(auctions'[a]) \in Int
        /\ command[d].amount_cents \in Int
    BY <1>4, <1>7, <2>1, MoneyAssumption
       DEF Later, minimum_acceptable_bid, AuctionSnapshot, Money
  <2>3. command[d].amount_cents < minimum_acceptable_bid(auctions'[a])
    BY <2>1, <2>2
  <2> QED
    BY <1>2, <1>6, <1>7, <1>8, <1>10, <2>1, <2>3 DEF Grounds
<1>11. CASE reason = "auction_closed"
  <2>1. Row(d) # NULL /\ ClosedToAll(d)
    BY <1>3, <1>11 DEF Grounds
  <2>2. auctions'[a].ends_at = Row(d).ends_at /\ Row(d).ends_at \in Nat
    BY <1>7, <2>1 DEF Later, AuctionSnapshot
  <2>3. auctions'[a].ends_at <= clock /\ auctions'[a].ends_at <= clock'
    BY <1>4, <1>5, <2>1, <2>2 DEF ClosedToAll
  <2>4. ASSUME NEW c \in Calls, pc'[c] \in Holding \ {"clock"},
               command'[c].auction_id = a
        PROVE  auctions'[a].ends_at <= readTime'[c]
    <3>1. /\ command'[c] = command[c]
          /\ \/ pc[c] \in Holding \ {"clock"} /\ readTime'[c] = readTime[c]
             \/ readTime'[c] = clock
      BY <2>4, ClockIsReadOnce
    <3> QED
      BY <2>1, <2>2, <2>3, <2>4, <3>1 DEF ClosedToAll
  <2>5. ClosedToAll(d)'
    BY <1>2, <1>6, <2>3, <2>4 DEF ClosedToAll
  <2> QED
    BY <1>2, <1>6, <1>7, <1>8, <1>11, <2>1, <2>5 DEF Grounds
<1> QED
  BY <1>3, <1>9, <1>10, <1>11 DEF Grounds

(* No step carries out a request that has been refused. *)
LEMMA StandStep ==
  StoreTypeOK /\ LockProtocol /\ ResolveFindsBid /\ OutcomesAgree
  /\ RefusalsStand /\ [Next]_vars => RefusalsStand'
BY NewRefusal, OldRefusal DEF RefusalsStand

(***************************************************************************)
(* A client that repeats its request and has it accepted once is never     *)
(* turned away by the pessimistic strategy, before or after, unless it     *)
(* came before the auction existed or opened: looking the request up again *)
(* under the lock sees to that.                                            *)
(***************************************************************************)
THEOREM PessimisticReplays == Spec => []DuplicateReplays
<1>1. Init => RefusalsStand
  BY DEF Init, StoreInit, SerialInit, RefusalsStand, Refused, Ended
<1>2. OutcomesAgree /\ RefusalsStand => DuplicateReplays
  <2> SUFFICES ASSUME OutcomesAgree, RefusalsStand, NEW c \in Calls,
                      NEW d \in Calls, Ended(c, "accepted"), Refused(d),
                      SameRequest(command[c], command[d])
               PROVE  FALSE
    BY DEF DuplicateReplays, Refused
  <2>1. /\ result[c].bid \in BidsOf(command[c].request_id)
        /\ Matches(result[c].bid, command[c])
    BY DEF OutcomesAgree, Ended
  <2>2. /\ result[c].bid \in BidsOf(command[d].request_id)
        /\ Matches(result[c].bid, command[d])
    BY <2>1 DEF SameRequest, Matches
  <2> QED
    BY <2>2 DEF RefusalsStand, NotCarriedOut
<1> QED
  BY <1>1, <1>2, StandStep, PessimisticTypeCorrect, PessimisticProtocol,
     PessimisticResolves, PessimisticOutcomes, PTL DEF Spec

-----------------------------------------------------------------------------
(***************************************************************************)
(* A call that comes too late: its auction is over and the call has not    *)
(* read the clock yet, or has read it since.                               *)
(***************************************************************************)
TooLate(c) ==
  /\ Row(c) # NULL
  /\ Row(c).ends_at <= clock
  /\ pc[c] \in {"lock", "clock", "recheck", "done"}
  /\ pc[c] = "recheck" => Row(c).ends_at <= readTime[c]
  /\ ~ Ended(c, "accepted")

(* Only a commit answers that a bid is accepted. *)
LEMMA OnlyCommitsAccept ==
  ASSUME StoreTypeOK, [Next]_vars, NEW c \in Calls,
         ~ Ended(c, "accepted"), Ended(c, "accepted")'
  PROVE  pc[c] = "commit"
<1>0. /\ result \in [Calls -> BidOutcome \cup {NULL}]
      /\ result'[c] # result[c] /\ result'[c].status = "accepted"
  BY DEF StoreTypeOK, SerialTypeOK, Ended
<1>1. ASSUME NEW d \in Calls, NEW out, result' = [result EXCEPT ![d] = out]
      PROVE  d = c /\ out.status = "accepted"
  BY <1>0, <1>1
<1>2. ASSUME NEW d \in Calls, NEW out, Return(d, out),
             out.status # "accepted"
      PROVE  FALSE
  BY <1>1, <1>2 DEF Return
<1>3. /\ \A reason, m : rejected(reason, m, 1, 0).status # "accepted"
      /\ \A bid : replayed(bid, 1, 0).status # "accepted"
      /\ \A exception \in Exceptions : raised(exception).status # "accepted"
  BY DEF rejected, replayed, ReportBid, raised, Exceptions
<1>4. ASSUME NEW d \in Calls, AnswerExisting(d, 1, 0)
      PROVE  FALSE
  BY <1>2, <1>3, <1>4 DEF AnswerExisting, Answers, replay_or_reject
<1>5. ASSUME NEW d \in Calls,
             PoolTimeout(d) \/ LoseConnection(d) \/ WaitExpires(d)
      PROVE  FALSE
  BY <1>2, <1>3, <1>5 DEF PoolTimeout, LoseConnection, WaitExpires,
                          StatementTimeout, LockTimeout, Exceptions
<1>6. ASSUME NEW d \in Calls, CallStep(d)
      PROVE  Commit(d, 1, 0)
  <2>1. ~ (Connect(d) \/ ReadClock(d) \/ InsertBid(d) \/ UpdateAuction(d))
    BY <1>0 DEF Connect, ReadClock, InsertBid, PutBid, Rollback,
                UpdateAuction, WriteAuction, Proceed, serialVars
  <2>2. ~ (Check(d) \/ LockAuction(d))
    BY <1>0, <1>2, <1>3, <1>4 DEF Check, CheckExisting, LockAuction, Proceed,
                                  serialVars
  <2>3. ~ Recheck(d)
    BY <1>0, <1>2, <1>3, <1>4 DEF Recheck, RefuseBid, Proceed, serialVars,
                                  Exceptions
  <2>4. ~ ResolveDuplicate(d)
    BY <1>2, <1>3, <1>4 DEF ResolveDuplicate, AnswerExisting, Exceptions
  <2> QED
    BY <1>6, <2>1, <2>2, <2>3, <2>4 DEF CallStep
<1>7. PICK d \in Calls : Commit(d, 1, 0)
  BY <1>0, <1>5, <1>6 DEF Next, vars, storeVars, Tick, PassTime, create, List,
                          place_bid, Call, Quiescent
<1> QED
  BY <1>1, <1>7 DEF Commit

(* A call that is too late stays so, whatever the others do. *)
LEMMA LateStep ==
  ASSUME StoreTypeOK, LockProtocol, ResolveFindsBid, [Next]_vars,
         NEW c \in Calls, TooLate(c)
  PROVE  TooLate(c)'
<1> DEFINE Stages == {"lock", "clock", "recheck", "done"}
           a == command[c].auction_id
<1>0. /\ pc \in [Calls -> Labels] /\ pc[c] \in Stages /\ Row(c) # NULL
      /\ Row(c).ends_at <= clock
      /\ pc[c] = "recheck" => Row(c).ends_at <= readTime[c]
  BY DEF TooLate, StoreTypeOK
<1>1. /\ SerialTypeOK /\ [SerialNext]_serialVars
      /\ RowsMoveForward /\ AnswersStand /\ SerialTypeOK'
  BY StepRefines, AdvanceStep, FinalStep, SerialTypeStep DEF StoreTypeOK
<1>2. command[c] # NULL /\ command'[c] = command[c]
  BY <1>0, <1>1 DEF AnswersStand, LockProtocol, CallsArePending
<1>3. command[c] \in BidCommand /\ a \in Auctions /\ clock \in Nat
      /\ clock' \in Nat
  BY <1>1, <1>2, BoundsAssumption DEF SerialTypeOK, BidCommand, Time
<1>4. clock <= clock'
  BY <1>1, <1>3 DEF SerialNext, serialVars, Invisible, PassTime, List, Call,
                    Fail, Accept, Replay, Refuse
<1>5. /\ Row(c)' # NULL /\ Row(c)'.ends_at = Row(c).ends_at
      /\ Row(c) \in AuctionSnapshot /\ Row(c).ends_at \in Nat
  BY <1>0, <1>1, <1>2, <1>3
     DEF Row, RowsMoveForward, Later, SerialTypeOK, AuctionSnapshot
<1>6. ~ Ended(c, "accepted")'
  BY <1>0, OnlyCommitsAccept DEF TooLate
<1>7. pc'[c] \in Stages
  <2>1. ASSUME NEW d \in Calls, NEW label, Goto(d, label),
               d = c => label \in Stages
        PROVE  pc'[c] \in Stages
    BY <1>0, <2>1 DEF Goto
  <2>2. ASSUME NEW d \in Calls, NEW out, Return(d, out)
        PROVE  pc'[c] \in Stages
    BY <2>1, <2>2 DEF Return
  <2>3. ASSUME NEW d \in Calls, CallStep(d)
        PROVE  pc'[c] \in Stages
    <3>1. CASE Connect(d)
      BY <1>0, <2>1, <3>1 DEF Connect, Proceed, Acquiring
    <3>2. CASE Check(d)
      BY <1>0, <2>1, <2>2, <3>2 DEF Check, CheckExisting, AnswerExisting,
                                    Proceed
    <3>3. CASE LockAuction(d)
      BY <2>1, <2>2, <3>3 DEF LockAuction, Proceed
    <3>4. CASE ReadClock(d)
      BY <2>1, <3>4 DEF ReadClock, Proceed
    <3>5. CASE Recheck(d)
      <4>1. CASE d # c
        BY <2>1, <2>2, <3>5, <4>1 DEF Recheck, AnswerExisting, RefuseBid,
                                      Proceed
      <4>2. CASE d = c
        <5>1. /\ pc[c] = "recheck" /\ seen[c] = Row(c)
              /\ command[c].amount_cents \in Money
              /\ readTime[c] \in Nat /\ Row(c).ends_at <= readTime[c]
          BY <1>0, <1>3, <3>5, <4>2, BoundsAssumption
             DEF Recheck, LockProtocol, HoldersSeeTheRow, Holding, BidCommand,
                 StoreTypeOK, Time
        <5>2. evaluate_bid(seen[c], command[c].amount_cents, readTime[c])
                # "accepted"
          BY <1>5, <5>1, AcceptedVerdict
             DEF derive_auction_state, AuctionSnapshot
        <5> QED
          BY <2>2, <3>5, <4>2, <5>2 DEF Recheck, AnswerExisting, RefuseBid
      <4> QED
        BY <4>1, <4>2
    <3>6. CASE InsertBid(d)
      BY <1>0, <2>1, <3>6 DEF InsertBid, PutBid, Rollback, Proceed
    <3>7. CASE UpdateAuction(d)
      BY <1>0, <2>1, <3>7 DEF UpdateAuction, WriteAuction, Proceed
    <3>8. CASE Commit(d, 1, 0)
      BY <2>1, <3>8 DEF Commit
    <3>9. CASE ResolveDuplicate(d)
      BY <2>2, <3>9 DEF ResolveDuplicate
    <3> QED
      BY <2>3, <3>1, <3>2, <3>3, <3>4, <3>5, <3>6, <3>7, <3>8, <3>9
         DEF CallStep
  <2>4. ASSUME NEW d \in Calls,
               PoolTimeout(d) \/ LoseConnection(d) \/ WaitExpires(d)
        PROVE  pc'[c] \in Stages
    BY <2>2, <2>4 DEF PoolTimeout, LoseConnection, WaitExpires,
                      StatementTimeout, LockTimeout
  <2>5. ASSUME NEW d \in Calls, NEW cmd \in Commands, place_bid(d, cmd)
        PROVE  pc'[c] \in Stages
    BY <1>2, <2>1, <2>5 DEF place_bid, Call
  <2>6. CASE UNCHANGED pc
    BY <1>0, <2>6
  <2> QED
    BY <2>3, <2>4, <2>5, <2>6 DEF Next, vars, storeVars, Tick, create,
                                  Quiescent
<1>8. pc'[c] = "recheck" => Row(c)'.ends_at <= readTime'[c]
  <2> SUFFICES ASSUME pc'[c] = "recheck"
               PROVE  Row(c)'.ends_at <= readTime'[c]
    OBVIOUS
  <2>1. \/ pc[c] \in Holding \ {"clock"} /\ readTime'[c] = readTime[c]
        \/ readTime'[c] = clock
    BY ClockIsReadOnce DEF Holding
  <2>2. pc[c] \in Holding \ {"clock"} => pc[c] = "recheck"
    BY <1>0 DEF Holding
  <2> QED
    BY <1>0, <1>5, <2>1, <2>2
<1>9. Row(c)'.ends_at <= clock'
  BY <1>0, <1>3, <1>4, <1>5
<1> QED
  BY <1>5, <1>6, <1>7, <1>8, <1>9 DEF TooLate

(***************************************************************************)
(* A pessimistic bid that still waits for the row lock when its auction    *)
(* closes is never accepted, however long the wait was and whatever        *)
(* happens meanwhile: place_bid reads the clock under the lock.            *)
(***************************************************************************)
THEOREM PessimisticExpiry == Spec => ExpiryHoldsAfterLockWait
<1>1. ASSUME NEW c \in Calls
      PROVE  Spec => LateIsRefused(c)
  <2> DEFINE Waits == /\ pc[c] = "lock"
                      /\ Row(c) # NULL
                      /\ clock >= Row(c).ends_at
  <2>1. StoreTypeOK /\ LockProtocol /\ Waits => TooLate(c)
    <3> SUFFICES ASSUME StoreTypeOK, LockProtocol, Waits
                 PROVE  TooLate(c)
      OBVIOUS
    <3>1. Pending(c)
      BY DEF LockProtocol, CallsArePending
    <3>2. command[c].auction_id \in Auctions
      BY <3>1 DEF Pending, StoreTypeOK, SerialTypeOK, BidCommand
    <3>3. Row(c) \in AuctionSnapshot /\ clock \in Nat
      BY <3>2, BoundsAssumption DEF StoreTypeOK, SerialTypeOK, Time, Row
    <3>4. Row(c).ends_at <= clock
      BY <3>3 DEF AuctionSnapshot
    <3> QED
      BY <3>1, <3>4 DEF TooLate, Pending, Ended
  <2>2. StoreTypeOK /\ LockProtocol /\ ResolveFindsBid /\ TooLate(c)
        /\ [Next]_vars => TooLate(c)'
    BY LateStep
  <2>3. TooLate(c) => ~ Ended(c, "accepted")
    BY DEF TooLate
  <2> QED
    BY <2>1, <2>2, <2>3, PessimisticTypeCorrect, PessimisticProtocol,
       PessimisticResolves, PTL DEF Spec, LateIsRefused
<1> QED
  BY <1>1 DEF ExpiryHoldsAfterLockWait

-----------------------------------------------------------------------------
(* A call neither moves nor answers another. *)
LEMMA OthersStay ==
  ASSUME StoreTypeOK, NEW c \in Calls, NEW d \in Calls \ {c},
         CallStep(d) \/ PoolTimeout(d) \/ LoseConnection(d) \/ WaitExpires(d)
  PROVE  pc'[c] = pc[c] /\ result'[c] = result[c]
<1> DEFINE Stays == pc'[c] = pc[c] /\ result'[c] = result[c]
<1>0. /\ pc \in [Calls -> Labels]
      /\ result \in [Calls -> BidOutcome \cup {NULL}]
  BY DEF StoreTypeOK, SerialTypeOK
<1>1. ASSUME NEW outcome, Return(d, outcome)
      PROVE  Stays
  BY <1>0, <1>1 DEF Return, Goto
<1>2. ASSUME NEW label, Proceed(d, label) \/ Rollback(d, label)
      PROVE  Stays
  BY <1>0, <1>2 DEF Proceed, Rollback, Goto, serialVars
<1>3. CASE Check(d) \/ LockAuction(d) \/ Recheck(d)
  BY <1>1, <1>2, <1>3 DEF Check, CheckExisting, AnswerExisting, LockAuction,
                          Recheck, RefuseBid
<1>4. CASE Connect(d) \/ ReadClock(d) \/ InsertBid(d) \/ UpdateAuction(d)
  BY <1>2, <1>4 DEF Connect, ReadClock, InsertBid, PutBid, UpdateAuction,
                    WriteAuction
<1>5. CASE Commit(d, 1, 0)
  BY <1>0, <1>5 DEF Commit, Goto
<1>6. CASE \/ ResolveDuplicate(d) \/ PoolTimeout(d)
           \/ LoseConnection(d) \/ WaitExpires(d)
  BY <1>1, <1>6 DEF ResolveDuplicate, PoolTimeout, LoseConnection, WaitExpires,
                    StatementTimeout, LockTimeout
<1> QED
  BY <1>3, <1>4, <1>5, <1>6 DEF CallStep

(* A call that repeats a committed request stays one, whatever it or the
   others do. *)
LEMMA RepeatStep ==
  ASSUME StoreTypeOK, LockProtocol, ResolveFindsBid, [Next]_vars,
         NEW c \in Calls, NEW cmd \in Commands, Repeats(c, cmd)
  PROVE  Repeats(c, cmd)'
<1>0. /\ StoreTypeOK /\ pc \in [Calls -> Labels]
      /\ command \in [Calls -> BidCommand \cup {NULL}]
      /\ cmd # NULL
  BY CommandsAssumption, NullAssumption DEF StoreTypeOK, SerialTypeOK
<1>1. AnswersStand
  BY StepRefines, FinalStep DEF StoreTypeOK
<1>2. BidsOf(cmd.request_id)' # {}
  BY <1>1 DEF AnswersStand, Repeats, BidsOf
<1>3. CASE command[c] # cmd /\ command'[c] # cmd
  BY <1>2, <1>3 DEF Repeats
<1>4. CASE command[c] # cmd /\ command'[c] = cmd
  <2>1. command[c] = NULL /\ pc[c] = "idle" /\ result[c] = NULL
    BY <1>1, <1>4 DEF AnswersStand, LockProtocol, CallsArePending
  <2>2. PICK d \in Calls, new \in Commands : place_bid(d, new)
    BY <1>4 DEF Next, vars, storeVars, serialVars, Tick, PassTime, create, List,
                Quiescent, PoolTimeout, LoseConnection, WaitExpires,
                StatementTimeout, LockTimeout, CallStep, Connect, Check,
                CheckExisting, AnswerExisting, LockAuction, ReadClock, Recheck,
                RefuseBid, InsertBid, PutBid, UpdateAuction, WriteAuction,
                Rollback, ResolveDuplicate, Return, Proceed, Commit
  <2>3. d = c /\ pc'[c] = "connect" /\ result'[c] = NULL
    BY <1>0, <1>4, <2>1, <2>2 DEF place_bid, Call, Goto
  <2> QED
    BY <1>2, <2>3 DEF Repeats, Spared, Ended
<1>5. CASE command[c] = cmd
  <2>1. command'[c] = cmd /\ pc[c] \in {"connect", "check", "done"}
    BY <1>0, <1>1, <1>5 DEF AnswersStand, Repeats
  <2>2. CASE pc'[c] = pc[c] /\ result'[c] = result[c]
    BY <1>0, <1>1, <1>5, <2>2, RepeatMoves
  <2>3. CASE Connect(c)
    <3>1. /\ pc[c] = "connect" /\ result' = result
          /\ pc' = [pc EXCEPT ![c] = AfterConnect[pc[c]]]
      BY <2>1, <2>3 DEF Connect, Proceed, Goto, Acquiring, serialVars
    <3>2. AfterConnect["connect"] = "check"
      BY DEF AfterConnect
    <3> QED
      BY <1>0, <1>1, <1>5, <3>1, <3>2, RepeatMoves
  <2>4. CASE Check(c)
    <3>1. AnswerExisting(c, 1, 0)
      BY <1>5, <2>4 DEF Check, CheckExisting, Repeats
    <3>2. PICK outcome \in Answers(c, 1, 0) : Return(c, outcome)
      BY <3>1 DEF AnswerExisting
    <3> QED
      BY <1>0, <1>1, <3>2, RepeatEnds
  <2>5. CASE PoolTimeout(c) \/ LoseConnection(c) \/ WaitExpires(c)
    <3>1. PICK e \in Exceptions : Return(c, raised(e))
      BY <2>5 DEF PoolTimeout, LoseConnection, WaitExpires, StatementTimeout,
                  LockTimeout, Exceptions
    <3> QED
      BY <1>0, <1>1, <3>1, RepeatEnds
  <2>6. ASSUME CallStep(c)
        PROVE  Connect(c) \/ Check(c)
    BY <2>1, <2>6 DEF CallStep, LockAuction, ReadClock, Recheck, InsertBid,
                      UpdateAuction, Commit, ResolveDuplicate
  <2>7. ASSUME NEW d \in Calls, NEW new \in Commands, place_bid(d, new)
        PROVE  pc'[c] = pc[c] /\ result'[c] = result[c]
    BY <1>0, <1>5, <2>7 DEF place_bid, Call, Goto
  <2>8. CASE \E d \in Calls \ {c} : \/ CallStep(d) \/ PoolTimeout(d)
                                    \/ LoseConnection(d) \/ WaitExpires(d)
    BY <2>2, <2>8, OthersStay
  <2>9. CASE UNCHANGED <<pc, result>>
    BY <2>2, <2>9
  <2>10. \/ UNCHANGED <<pc, result>>
         \/ \E d \in Calls, new \in Commands : place_bid(d, new)
         \/ \E d \in Calls : \/ CallStep(d) \/ PoolTimeout(d)
                              \/ LoseConnection(d) \/ WaitExpires(d)
    BY DEF Next, vars, storeVars, serialVars, Tick, PassTime, create, List,
           Quiescent
  <2> QED
    BY <2>2, <2>3, <2>4, <2>5, <2>6, <2>7, <2>8, <2>9, <2>10
<1> QED
  BY <1>3, <1>4, <1>5

(***************************************************************************)
(* A client that repeats a request once its bid is committed gets the bid  *)
(* or an exception, never a refusal, whatever has become of the auction    *)
(* since: place_bid looks the request up before it asks for the row lock.  *)
(***************************************************************************)
THEOREM PessimisticRetries == Spec => RetriesAreSpared
<1>1. ASSUME NEW c \in Calls, NEW cmd \in Commands
      PROVE  Spec => RetryIsSpared(c, cmd)
  <2> DEFINE Comes == command[c] = NULL /\ BidsOf(cmd.request_id) # {}
  <2>1. Comes => Repeats(c, cmd)
    BY CommandsAssumption, NullAssumption DEF Repeats
  <2>2. StoreTypeOK /\ LockProtocol /\ ResolveFindsBid /\ Repeats(c, cmd)
        /\ [Next]_vars => Repeats(c, cmd)'
    BY RepeatStep
  <2>3. Repeats(c, cmd) => (command[c] = cmd => Spared(c))
    BY DEF Repeats
  <2> QED
    BY <2>1, <2>2, <2>3, PessimisticTypeCorrect, PessimisticProtocol,
       PessimisticResolves, PTL DEF Spec, RetryIsSpared
<1> QED
  BY <1>1 DEF RetriesAreSpared

=============================================================================
