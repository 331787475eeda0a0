-------------------------- MODULE OptimisticProofs --------------------------
(***************************************************************************)
(* The optimistic strategy implements SerialAuction.  No lock protects the *)
(* row a bid is judged on; what replaces it is that rows only move         *)
(* forward, so a row whose version is the one the call has read is the row *)
(* it has read.                                                            *)
(*                                                                         *)
(* The inductive invariant has one part per call, CallIsSound, and one     *)
(* part about two calls, RequestsAreExclusive.  A step of one call touches *)
(* another only in the ways OthersKeep lists.                              *)
(***************************************************************************)
EXTENDS OptimisticStrategy, BidStoreProofs

Row(c) == auctions[command[c].auction_id]

Reading == {"clock", "insert", "update", "updating", "commit", "classify_clock"}

Writing == {"update", "updating", "commit"}

Trying == {"connect", "check", "read", "clock", "insert"} \cup Writing

(* A call is pending from its first statement to its last. *)
IsPending(c) ==
  /\ pc[c] = "idle" <=> command[c] = NULL
  /\ pc[c] = "idle" => result[c] = NULL
  /\ pc[c] \notin {"idle", "done"} => Pending(c)
  /\ arrived[c] <= clock

(* What a call has read is the auction as it is or as it was. *)
SeesThePast(c) ==
  pc[c] \in Reading => /\ Row(c) # NULL
                       /\ seen[c] # NULL
                       /\ Later(seen[c], Row(c))

(* A bid about to be written was admitted on what its call has read. *)
IsJudged(c) ==
  pc[c] \in Writing \cup {"insert"} =>
    /\ readTime[c] \in arrived[c]..clock
    /\ evaluate_bid(seen[c], command[c].amount_cents, readTime[c]) = "accepted"

(* An uncommitted bid is the next one of the auction its call has read, its
   request id is not taken, and its time lies in the call and, once the UPDATE
   has read the validation clock, in the window. *)
InsertIsSound(c) ==
  /\ inserted[c] # NULL <=> pc[c] \in Writing
  /\ pc[c] \in Writing =>
       LET at == inserted[c].accepted_at
       IN  /\ inserted[c] = NewBid(c, command[c], seen[c].version + 1, at)
           /\ BidsOf(command[c].request_id) = {}
           /\ at \in arrived[c]..clock
           /\ seen[c].starts_at <= at
           /\ pc[c] # "update" => at <= readTime[c]

(* A call whose UPDATE has found its row holds it, and it is the row read. *)
UpdateIsSound(c) ==
  pc[c] = "commit" =>
    /\ rowLock[command[c].auction_id] = c
    /\ seen[c] = Row(c)
    /\ updated[c] = WithWinner(Row(c), c, command[c].amount_cents,
                               Row(c).version + 1)

(* Every attempt but the last was overtaken by a bid of its own. *)
AttemptsAreOvertaken(c) ==
  /\ pc[c] = "idle" => attempt[c] = 1
  /\ pc[c] \in {"connect", "check", "read"} /\ attempt[c] > 1 =>
       Row(c) # NULL /\ Row(c).version >= attempt[c] - 1
  /\ pc[c] \in Reading \ {"classify_clock"} =>
       seen[c].version >= attempt[c] - 1
  /\ pc[c] \in {"missed", "classify_check", "classify_read"} =>
       /\ Row(c) # NULL
       /\ Row(c).version >= attempt[c] \/ clock >= Row(c).ends_at
  /\ pc[c] = "classify_clock" =>
       seen[c].version >= attempt[c] \/ clock >= seen[c].ends_at

(* A call misses at most once in an attempt. *)
MissesAreCounted(c) ==
  /\ misses[c] <= attempt[c]
  /\ pc[c] \in Trying \cup {"idle"} => misses[c] < attempt[c]

CallIsSound(c) ==
  /\ IsPending(c)
  /\ SeesThePast(c)
  /\ IsJudged(c)
  /\ InsertIsSound(c)
  /\ UpdateIsSound(c)
  /\ AttemptsAreOvertaken(c)
  /\ MissesAreCounted(c)

(* The unique index admits one uncommitted bid per request id. *)
RequestsAreExclusive ==
  \A c, d \in Calls : c # d /\ pc[c] \in Writing /\ pc[d] \in Writing =>
    command[c].request_id # command[d].request_id

VersionProtocol == (\A c \in Calls : CallIsSound(c)) /\ RequestsAreExclusive

-----------------------------------------------------------------------------
(***************************************************************************)
(* The types that the facts about one call rest on.                        *)
(***************************************************************************)
LEMMA CallTypes ==
  ASSUME TypeOK, NEW c \in Calls
  PROVE  /\ clock \in Nat /\ arrived[c] \in Nat /\ readTime[c] \in Nat
         /\ attempt[c] \in 1..MaxAttempts /\ attempt[c] \in Nat
         /\ misses[c] \in Nat
         /\ seen[c] # NULL => seen[c] \in AuctionSnapshot
         /\ command[c] # NULL => /\ command[c] \in BidCommand
                                 /\ command[c].auction_id \in Auctions
                                 /\ command[c].amount_cents \in Money
                                 /\ Row(c) # NULL => Row(c) \in AuctionSnapshot
<1>1. /\ clock \in Nat /\ arrived[c] \in Nat /\ readTime[c] \in Nat
      /\ attempt[c] \in 1..MaxAttempts /\ attempt[c] \in Nat
      /\ misses[c] \in Nat
  BY BoundsAssumption DEF TypeOK, StoreTypeOK, SerialTypeOK, Time
<1>2. seen[c] # NULL => seen[c] \in AuctionSnapshot
  BY DEF TypeOK, StoreTypeOK
<1>3. command[c] # NULL => command[c] \in BidCommand
  BY DEF TypeOK, StoreTypeOK, SerialTypeOK
<1>4. command[c] # NULL => /\ command[c].auction_id \in Auctions
                           /\ command[c].amount_cents \in Money
  BY <1>3 DEF BidCommand
<1>5. command[c] # NULL /\ Row(c) # NULL => Row(c) \in AuctionSnapshot
  BY <1>4 DEF Row, TypeOK, StoreTypeOK, SerialTypeOK
<1> QED
  BY <1>1, <1>2, <1>3, <1>4, <1>5

(***************************************************************************)
(* What a step may do to a call that does not take it: time may pass, its  *)
(* auction may move forward unless the call holds the row, and bids may be *)
(* added under other request ids.                                          *)
(***************************************************************************)
LEMMA OthersKeep ==
  ASSUME TypeOK, NEW d \in Calls, CallIsSound(d),
         clock' \in Time, auctions' \in [Auctions -> AuctionSnapshot \cup {NULL}],
         RowsMoveForward,
         UNCHANGED <<pc[d], seen[d], readTime[d], inserted[d], updated[d],
                     attempt[d], misses[d], command[d], arrived[d], result[d]>>,
         clock <= clock',
         pc[d] \in Writing => BidsOf(command[d].request_id)' = {},
         pc[d] = "commit" =>
           /\ rowLock'[command[d].auction_id] = rowLock[command[d].auction_id]
           /\ auctions'[command[d].auction_id] = auctions[command[d].auction_id]
  PROVE  CallIsSound(d)'
<1> DEFINE a == command[d].auction_id
<1>1. clock \in Nat /\ clock' \in Nat /\ arrived[d] \in Nat
      /\ readTime[d] \in Nat /\ attempt[d] \in Nat
  BY CallTypes, BoundsAssumption DEF Time
<1>2. pc[d] \notin {"idle", "done"} => Pending(d) /\ a \in Auctions
  BY CallTypes DEF CallIsSound, IsPending, Pending
<1>3. pc[d] \notin {"idle", "done"} /\ Row(d) # NULL =>
        /\ Row(d) \in AuctionSnapshot
        /\ auctions'[a] \in AuctionSnapshot
        /\ auctions'[a] # NULL
        /\ Later(Row(d), auctions'[a])
  BY <1>2, CallTypes DEF Row, RowsMoveForward, Pending
<1>4. Row(d)' = auctions'[a]
  BY DEF Row
<1>5. IsPending(d)'
  BY <1>1 DEF CallIsSound, IsPending, Pending
<1>6. SeesThePast(d)'
  <2> SUFFICES ASSUME pc[d] \in Reading
               PROVE  /\ auctions'[a] # NULL
                      /\ seen[d] # NULL
                      /\ Later(seen[d], auctions'[a])
    BY <1>4 DEF SeesThePast
  <2>1. Row(d) # NULL /\ seen[d] # NULL /\ Later(seen[d], Row(d))
    BY DEF CallIsSound, SeesThePast
  <2>2. seen[d] \in AuctionSnapshot
    BY <2>1, CallTypes
  <2> QED
    BY <1>3, <2>1, <2>2, LaterTransitive DEF Reading
<1>7. IsJudged(d)'
  BY <1>1 DEF CallIsSound, IsJudged
<1>8. InsertIsSound(d)'
  <2>1. pc[d] \in Writing => inserted[d].accepted_at \in Int
    BY <1>1 DEF CallIsSound, InsertIsSound
  <2>2. pc[d] \in Writing => inserted[d].accepted_at \in arrived[d]..clock'
    BY <1>1, <2>1 DEF CallIsSound, InsertIsSound
  <2> QED
    BY <2>2 DEF CallIsSound, InsertIsSound
<1>9. UpdateIsSound(d)'
  BY <1>4 DEF CallIsSound, UpdateIsSound, Row
<1>10. AttemptsAreOvertaken(d)'
  <2>1. pc[d] \notin {"idle", "done"} /\ Row(d) # NULL =>
          /\ Row(d).version <= auctions'[a].version
          /\ Row(d).ends_at = auctions'[a].ends_at
          /\ Row(d).version \in Nat /\ auctions'[a].version \in Nat
          /\ Row(d).ends_at \in Nat
    BY <1>3 DEF Later, AuctionSnapshot
  <2>2. pc[d] \in Reading => seen[d].ends_at \in Nat
    BY CallTypes DEF CallIsSound, SeesThePast, AuctionSnapshot
  <2>3. pc[d] \in {"connect", "check", "read"} /\ attempt[d] > 1 =>
          auctions'[a] # NULL /\ auctions'[a].version >= attempt[d] - 1
    BY <1>1, <1>3, <2>1 DEF CallIsSound, AttemptsAreOvertaken
  <2>4. pc[d] \in {"missed", "classify_check", "classify_read"} =>
          /\ auctions'[a] # NULL
          /\ auctions'[a].version >= attempt[d] \/ clock' >= auctions'[a].ends_at
    BY <1>1, <1>3, <2>1 DEF CallIsSound, AttemptsAreOvertaken
  <2>5. pc[d] = "classify_clock" =>
          seen[d].version >= attempt[d] \/ clock' >= seen[d].ends_at
    BY <1>1, <2>2 DEF CallIsSound, AttemptsAreOvertaken, Reading
  <2> QED
    BY <1>4, <2>3, <2>4, <2>5 DEF CallIsSound, AttemptsAreOvertaken
<1>11. MissesAreCounted(d)'
  BY DEF CallIsSound, MissesAreCounted
<1> QED
  BY <1>5, <1>6, <1>7, <1>8, <1>9, <1>10, <1>11 DEF CallIsSound

(***************************************************************************)
(* Nothing of another call's own state changes.                            *)
(***************************************************************************)
OthersUnchanged(c) ==
  \A d \in Calls \ {c} :
    UNCHANGED <<pc[d], seen[d], readTime[d], inserted[d], updated[d],
                attempt[d], misses[d], command[d], arrived[d], result[d]>>

(***************************************************************************)
(* A statement that commits nothing keeps the protocol when it leaves its  *)
(* own call sound and takes no row lock from another.                      *)
(***************************************************************************)
LEMMA StatementKeeps ==
  ASSUME TypeOK, VersionProtocol, NEW c \in Calls, OthersUnchanged(c),
         UNCHANGED <<auctions, bids, clock, command, arrived>>,
         \A a \in Auctions :
           rowLock[a] \notin {c, NULL} => rowLock'[a] = rowLock[a],
         CallIsSound(c)',
         pc'[c] \in Writing =>
           \/ pc[c] \in Writing
           \/ \A d \in Calls \ {c} : pc[d] \in Writing =>
                command[d].request_id # command[c].request_id
  PROVE  VersionProtocol'
<1>1. RowsMoveForward
  BY LaterReflexive DEF RowsMoveForward, TypeOK, StoreTypeOK, SerialTypeOK
<1>2. /\ clock' \in Time /\ clock <= clock'
      /\ auctions' \in [Auctions -> AuctionSnapshot \cup {NULL}]
  BY BoundsAssumption DEF TypeOK, StoreTypeOK, SerialTypeOK, Time
<1>3. ASSUME NEW d \in Calls \ {c}
      PROVE  CallIsSound(d)'
  <2>1. CallIsSound(d)
    BY DEF VersionProtocol
  <2>2. pc[d] \in Writing => BidsOf(command[d].request_id)' = {}
    BY <2>1 DEF OthersUnchanged, CallIsSound, InsertIsSound, BidsOf
  <2>3. pc[d] = "commit" => rowLock'[command[d].auction_id]
                              = rowLock[command[d].auction_id]
    <3> SUFFICES ASSUME pc[d] = "commit"
                 PROVE  rowLock'[command[d].auction_id]
                          = rowLock[command[d].auction_id]
      OBVIOUS
    <3>1. rowLock[command[d].auction_id] = d
      BY <2>1 DEF CallIsSound, UpdateIsSound
    <3>2. command[d].auction_id \in Auctions
      BY <2>1, CallTypes DEF CallIsSound, IsPending, Pending
    <3> QED
      BY <3>1, <3>2, NullAssumption
  <2> QED
    BY <1>1, <1>2, <2>1, <2>2, <2>3, OthersKeep DEF OthersUnchanged
<1>4. RequestsAreExclusive'
  BY DEF VersionProtocol, RequestsAreExclusive, OthersUnchanged
<1> QED
  BY <1>3, <1>4 DEF VersionProtocol

(***************************************************************************)
(* A call that leaves its transaction without writing keeps the protocol,  *)
(* if its attempts and misses are accounted for.                           *)
(***************************************************************************)
LEMMA LeaveKeeps ==
  ASSUME TypeOK, VersionProtocol, NEW c \in Calls,
         NEW label \in {"done", "reacquire", "missed", "connect"},
         Goto(c, label), EndTransaction(c), pc[c] # "idle",
         UNCHANGED <<auctions, bids, clock, command, arrived>>,
         \A d \in Calls \ {c} : UNCHANGED <<attempt[d], misses[d], result[d]>>,
         label # "done" => Pending(c)',
         AttemptsAreOvertaken(c)', MissesAreCounted(c)'
  PROVE  VersionProtocol'
<1>0. StoreTypeOK
  BY DEF TypeOK
<1>1. /\ pc'[c] = label
      /\ \A d \in Calls \ {c} : pc'[d] = pc[d]
  BY <1>0, GotoFrame DEF Labels, Acquiring
<1>2. /\ \A d \in Calls \ {c} : /\ inserted'[d] = inserted[d]
                                /\ updated'[d] = updated[d]
                                /\ seen'[d] = seen[d]
                                /\ readTime'[d] = readTime[d]
      /\ \A a \in Auctions : rowLock[a] # c => rowLock'[a] = rowLock[a]
      /\ inserted'[c] = NULL
  BY <1>0, EndFrame
<1>3. OthersUnchanged(c)
  BY <1>1, <1>2 DEF OthersUnchanged
<1>4. CallIsSound(c)'
  BY <1>1, <1>2
     DEF VersionProtocol, CallIsSound, IsPending, Pending, SeesThePast, IsJudged,
         InsertIsSound, UpdateIsSound, Reading, Writing
<1> QED
  BY <1>1, <1>2, <1>3, <1>4, StatementKeeps DEF Writing

(* Answering a call keeps the protocol. *)
LEMMA ReturnKeeps ==
  ASSUME TypeOK, VersionProtocol, NEW c \in Calls, NEW outcome,
         pc[c] # "idle", Return(c, outcome), UNCHANGED <<attempt, misses>>
  PROVE  VersionProtocol'
<1>1. \A d \in Calls \ {c} : result'[d] = result[d]
  BY DEF Return, TypeOK, StoreTypeOK, SerialTypeOK
<1>2. pc'[c] = "done"
  BY GotoFrame DEF Return, Labels, TypeOK
<1>3. AttemptsAreOvertaken(c)' /\ MissesAreCounted(c)'
  BY <1>2 DEF AttemptsAreOvertaken, MissesAreCounted, VersionProtocol,
              CallIsSound, Reading, Trying, Writing
<1> QED
  BY <1>1, <1>3, LeaveKeeps DEF Return

-----------------------------------------------------------------------------
(***************************************************************************)
(* The statements before the read and around it.                           *)
(***************************************************************************)
LEMMA MoveKeeps ==
  ASSUME TypeOK, VersionProtocol, NEW c \in Calls, NEW label,
         \/ label \in {"check", "read"} /\ pc[c] \in {"connect", "check"}
         \/ label \in {"classify_check", "classify_read"}
            /\ pc[c] \in {"missed", "classify_check"}
         \/ label = "resolve" /\ pc[c] = "reacquire",
         Proceed(c, label), UNCHANGED txnVars, NoRetry
  PROVE  VersionProtocol'
<1>1. /\ pc'[c] = label
      /\ \A d \in Calls \ {c} : pc'[d] = pc[d]
  BY GotoFrame DEF Proceed, TypeOK, Labels
<1>2. UNCHANGED <<auctions, bids, clock, command, arrived, result, seen,
                  readTime, rowLock, inserted, updated, attempt, misses>>
  BY DEF Proceed, serialVars, txnVars, NoRetry
<1>3. OthersUnchanged(c)
  BY <1>1, <1>2 DEF OthersUnchanged
<1>4. IsPending(c)'
  BY <1>1, <1>2 DEF VersionProtocol, CallIsSound, IsPending, Pending
<1>5. SeesThePast(c)' /\ IsJudged(c)' /\ UpdateIsSound(c)'
  BY <1>1 DEF SeesThePast, IsJudged, UpdateIsSound, Reading, Writing
<1>6. InsertIsSound(c)'
  BY <1>1, <1>2 DEF VersionProtocol, CallIsSound, InsertIsSound, Writing
<1>7. AttemptsAreOvertaken(c)'
  BY <1>1, <1>2
     DEF VersionProtocol, CallIsSound, AttemptsAreOvertaken, Reading, Row
<1>8. MissesAreCounted(c)'
  BY <1>1, <1>2 DEF VersionProtocol, CallIsSound, MissesAreCounted, Trying,
                    Writing
<1>9. CallIsSound(c)'
  BY <1>4, <1>5, <1>6, <1>7, <1>8 DEF CallIsSound
<1> QED
  BY <1>1, <1>2, <1>3, <1>9, StatementKeeps DEF Writing

(* Reading the auction without a lock keeps the protocol. *)
LEMMA ReadKeeps ==
  ASSUME TypeOK, VersionProtocol, NEW c \in Calls, NEW n, NEW k, NoRetry,
         \/ ReadAuction(c, "read", "clock", n, k)
         \/ ReadAuction(c, "classify_read", "classify_clock", n, k)
  PROVE  VersionProtocol'
<1>1. CASE Row(c) = NULL
  <2>1. pc[c] # "idle" /\ \E outcome : Return(c, outcome)
    BY <1>1 DEF ReadAuction, Row
  <2> QED
    BY <2>1, ReturnKeeps DEF NoRetry
<1>2. CASE Row(c) # NULL
  <2>1. \/ pc[c] = "read" /\ Goto(c, "clock")
        \/ pc[c] = "classify_read" /\ Goto(c, "classify_clock")
    BY <1>2 DEF ReadAuction, Row, Proceed
  <2>2. /\ seen' = [seen EXCEPT ![c] = Row(c)]
        /\ UNCHANGED <<auctions, bids, clock, command, arrived, result,
                       readTime, rowLock, inserted, updated, attempt, misses>>
    BY <1>2 DEF ReadAuction, Row, Proceed, serialVars, NoRetry
  <2>3. /\ \/ pc[c] = "read" /\ pc'[c] = "clock"
           \/ pc[c] = "classify_read" /\ pc'[c] = "classify_clock"
        /\ \A d \in Calls \ {c} : pc'[d] = pc[d]
    BY <2>1, GotoFrame DEF TypeOK, Labels
  <2>4. /\ seen'[c] = Row(c) /\ Row(c)' = Row(c)
        /\ \A d \in Calls \ {c} : seen'[d] = seen[d]
    BY <2>2 DEF TypeOK, StoreTypeOK, Row
  <2>5. OthersUnchanged(c)
    BY <2>2, <2>3, <2>4 DEF OthersUnchanged
  <2>6. Pending(c) /\ Row(c) \in AuctionSnapshot
    BY <1>2, <2>3, CallTypes DEF VersionProtocol, CallIsSound, IsPending, Pending
  <2>7. IsPending(c)'
    BY <2>2, <2>3 DEF VersionProtocol, CallIsSound, IsPending, Pending
  <2>8. SeesThePast(c)'
    BY <1>2, <2>4, <2>6, LaterReflexive DEF SeesThePast
  <2>9. IsJudged(c)' /\ UpdateIsSound(c)'
    BY <2>3 DEF IsJudged, UpdateIsSound, Writing
  <2>10. InsertIsSound(c)'
    BY <2>2, <2>3 DEF VersionProtocol, CallIsSound, InsertIsSound, Writing
  <2>11. AttemptsAreOvertaken(c)'
    <3>1. /\ AttemptsAreOvertaken(c)
          /\ attempt[c] \in 1..MaxAttempts /\ attempt[c] \in Nat
          /\ Row(c).version \in Nat
      BY <2>6, CallTypes DEF VersionProtocol, CallIsSound, AuctionSnapshot
    <3>2. CASE pc[c] = "read"
      <4>1. Row(c).version >= attempt[c] - 1
        BY <3>1, <3>2 DEF AttemptsAreOvertaken
      <4> QED
        BY <2>2, <2>3, <2>4, <3>2, <4>1 DEF AttemptsAreOvertaken
    <3>3. CASE pc[c] = "classify_read"
      <4>1. Row(c).version >= attempt[c] \/ clock >= Row(c).ends_at
        BY <3>1, <3>3 DEF AttemptsAreOvertaken
      <4> QED
        BY <2>2, <2>3, <2>4, <3>3, <4>1 DEF AttemptsAreOvertaken
    <3> QED
      BY <2>3, <3>2, <3>3
  <2>12. MissesAreCounted(c)'
    BY <2>2, <2>3 DEF VersionProtocol, CallIsSound, MissesAreCounted, Trying,
                      Writing
  <2>13. CallIsSound(c)'
    BY <2>7, <2>8, <2>9, <2>10, <2>11, <2>12 DEF CallIsSound
  <2> QED
    BY <2>2, <2>3, <2>5, <2>13, StatementKeeps DEF Writing
<1> QED
  BY <1>1, <1>2

(* Judging the bid on what was read keeps the protocol. *)
LEMMA EvaluateKeeps ==
  ASSUME TypeOK, VersionProtocol, NEW c \in Calls, Evaluate(c), NoRetry
  PROVE  VersionProtocol'
<1> DEFINE verdict == evaluate_bid(seen[c], command[c].amount_cents, clock)
<1>0. pc[c] = "clock"
  BY DEF Evaluate, EvaluateNow
<1>1. CASE RefuseBid(c, verdict, attempt[c], 0)
  BY <1>0, <1>1, ReturnKeeps DEF RefuseBid, NoRetry
<1>2. CASE /\ verdict = "accepted"
           /\ readTime' = [readTime EXCEPT ![c] = clock]
           /\ Proceed(c, "insert")
           /\ UNCHANGED <<seen, rowLock, inserted, updated>>
  <2>1. UNCHANGED <<auctions, bids, clock, command, arrived, result,
                    seen, rowLock, inserted, updated, attempt, misses>>
    BY <1>2 DEF Proceed, serialVars, NoRetry
  <2>2. /\ pc'[c] = "insert"
        /\ \A d \in Calls \ {c} : pc'[d] = pc[d]
    BY <1>2, GotoFrame DEF Proceed, TypeOK, Labels
  <2>3. /\ readTime'[c] = clock
        /\ \A d \in Calls \ {c} : readTime'[d] = readTime[d]
    BY <1>2 DEF TypeOK, StoreTypeOK
  <2>4. OthersUnchanged(c)
    BY <2>1, <2>2, <2>3 DEF OthersUnchanged
  <2>5. IsPending(c)'
    BY <1>0, <2>1, <2>2 DEF VersionProtocol, CallIsSound, IsPending, Pending
  <2>6. SeesThePast(c)'
    BY <1>0, <2>1, <2>2
       DEF VersionProtocol, CallIsSound, SeesThePast, Reading, Row
  <2>7. IsJudged(c)'
    <3>1. clock \in arrived[c]..clock
      BY CallTypes DEF VersionProtocol, CallIsSound, IsPending
    <3> QED
      BY <1>2, <2>1, <2>3, <3>1 DEF IsJudged
  <2>8. InsertIsSound(c)' /\ UpdateIsSound(c)'
    BY <1>0, <2>1, <2>2
       DEF VersionProtocol, CallIsSound, InsertIsSound, UpdateIsSound, Writing
  <2>9. AttemptsAreOvertaken(c)'
    BY <1>0, <2>1, <2>2
       DEF VersionProtocol, CallIsSound, AttemptsAreOvertaken, Reading
  <2>10. MissesAreCounted(c)'
    BY <1>0, <2>1, <2>2
       DEF VersionProtocol, CallIsSound, MissesAreCounted, Trying
  <2>11. CallIsSound(c)'
    BY <2>5, <2>6, <2>7, <2>8, <2>9, <2>10 DEF CallIsSound
  <2> QED
    BY <2>1, <2>2, <2>4, <2>11, StatementKeeps DEF Writing
<1> QED
  BY <1>1, <1>2 DEF Evaluate, EvaluateNow

(* Inserting the bid keeps the protocol: the unique index lets it through only
   when no other transaction has the request id. *)
LEMMA InsertKeeps ==
  ASSUME TypeOK, VersionProtocol, NEW c \in Calls, InsertBid(c), NoRetry
  PROVE  VersionProtocol'
<1>0. pc[c] = "insert" /\ Pending(c) /\ CallIsSound(c)
  BY DEF InsertBid, VersionProtocol, CallIsSound, IsPending
<1>1. CASE Rollback(c, "reacquire")
  <2>1. /\ UNCHANGED <<auctions, bids, clock, command, arrived, result,
                       attempt, misses>>
        /\ Goto(c, "reacquire") /\ EndTransaction(c)
    BY <1>1 DEF Rollback, serialVars, NoRetry
  <2>2. pc'[c] = "reacquire"
    BY <2>1, GotoFrame DEF TypeOK, Labels, Acquiring
  <2>3. AttemptsAreOvertaken(c)' /\ MissesAreCounted(c)'
    BY <1>0, <2>1, <2>2 DEF CallIsSound, AttemptsAreOvertaken,
                            MissesAreCounted, Reading, Trying, Writing
  <2> QED
    BY <1>0, <2>1, <2>3, LeaveKeeps DEF Pending
<1>2. CASE BidsOf(command[c].request_id) = {} /\ PutBid(c)
  <2> DEFINE bid == NewBid(c, command[c], seen[c].version + 1, clock)
  <2>1. UNCHANGED <<auctions, bids, clock, command, arrived, result,
                    seen, readTime, rowLock, updated, attempt, misses>>
    BY <1>2 DEF PutBid, Proceed, serialVars, NoRetry
  <2>2. /\ pc'[c] = "update"
        /\ \A d \in Calls \ {c} : pc'[d] = pc[d]
    BY <1>2, GotoFrame DEF PutBid, Proceed, TypeOK, Labels
  <2>3. /\ inserted'[c] = bid
        /\ \A d \in Calls \ {c} : inserted'[d] = inserted[d]
    BY <1>2 DEF PutBid, TypeOK, StoreTypeOK
  <2>4. OthersUnchanged(c)
    BY <2>1, <2>2, <2>3 DEF OthersUnchanged
  <2>5. /\ command[c] \in BidCommand /\ command[c].amount_cents \in Money
        /\ seen[c] \in AuctionSnapshot /\ seen[c].version + 1 \in Nat \ {0}
        /\ seen[c].starts_at \in Nat
    <3>1. seen[c] \in AuctionSnapshot
      BY <1>0, CallTypes DEF CallIsSound, SeesThePast, Reading
    <3> QED
      BY <1>0, <3>1, CallTypes DEF Pending, AuctionSnapshot
  <2>6. bid \in AcceptedBid /\ bid # NULL /\ bid.accepted_at = clock
    <3>1. bid \in AcceptedBid
      BY <2>5, NewBidType DEF TypeOK, StoreTypeOK, SerialTypeOK
    <3> QED
      BY <3>1, NullAssumption DEF NewBid
  <2>7. clock \in arrived[c]..clock /\ seen[c].starts_at <= clock
    <3>1. /\ readTime[c] \in arrived[c]..clock
          /\ evaluate_bid(seen[c], command[c].amount_cents, readTime[c])
               = "accepted"
      BY <1>0 DEF CallIsSound, IsJudged
    <3>2. derive_auction_state(seen[c], readTime[c]) = "open"
      BY <2>5, <3>1, CallTypes, AcceptedVerdict
    <3>3. seen[c].starts_at <= readTime[c]
      BY <2>5, <3>2, CallTypes DEF derive_auction_state
    <3> QED
      BY <2>5, <3>1, <3>3, CallTypes
  <2>8. ASSUME NEW d \in Calls \ {c}, pc[d] \in Writing
        PROVE  command[d].request_id # command[c].request_id
    <3>1. /\ inserted[d] # NULL
          /\ inserted[d].request_id = command[d].request_id
      <4>1. PICK at : inserted[d] =
              NewBid(d, command[d], seen[d].version + 1, at)
        BY <2>8 DEF VersionProtocol, CallIsSound, InsertIsSound
      <4> QED
        BY <2>8, <4>1 DEF VersionProtocol, CallIsSound, InsertIsSound, NewBid
    <3> QED
      BY <3>1 DEF InsertBid, RequestInFlight
  <2>9. IsPending(c)'
    BY <1>0, <2>1, <2>2 DEF CallIsSound, IsPending, Pending
  <2>10. SeesThePast(c)'
    BY <1>0, <2>1, <2>2 DEF CallIsSound, SeesThePast, Reading, Row
  <2>11. IsJudged(c)'
    BY <1>0, <2>1 DEF CallIsSound, IsJudged
  <2>12. InsertIsSound(c)'
    <3>1. BidsOf(command[c].request_id)' = {}
      BY <1>2, <2>1 DEF BidsOf
    <3> HIDE DEF bid
    <3>2. bid = NewBid(c, command[c], seen[c].version + 1, bid.accepted_at)
      BY <2>6 DEF bid
    <3> QED
      BY <2>1, <2>2, <2>3, <2>6, <2>7, <3>1, <3>2 DEF InsertIsSound, Writing
  <2>13. UpdateIsSound(c)'
    BY <2>2 DEF UpdateIsSound
  <2>14. AttemptsAreOvertaken(c)'
    BY <1>0, <2>1, <2>2 DEF CallIsSound, AttemptsAreOvertaken, Reading
  <2>15. MissesAreCounted(c)'
    BY <1>0, <2>1, <2>2 DEF CallIsSound, MissesAreCounted, Trying
  <2>16. CallIsSound(c)'
    BY <2>9, <2>10, <2>11, <2>12, <2>13, <2>14, <2>15 DEF CallIsSound
  <2> QED
    BY <2>1, <2>4, <2>8, <2>16, StatementKeeps
<1> QED
  BY <1>1, <1>2 DEF InsertBid

(***************************************************************************)
(* An UPDATE that finds no row keeps the protocol when the auction has     *)
(* moved on or closed.                                                     *)
(***************************************************************************)
LEMMA MissKeeps ==
  ASSUME TypeOK, VersionProtocol, NEW c \in Calls,
         pc[c] \in {"update", "updating"}, Miss(c),
         Row(c).version > seen[c].version \/ clock >= Row(c).ends_at
  PROVE  VersionProtocol'
<1>1. /\ CallIsSound(c) /\ Pending(c) /\ Row(c) # NULL /\ seen[c] # NULL
  BY DEF VersionProtocol, CallIsSound, IsPending, SeesThePast, Reading
<1>2. /\ UNCHANGED <<auctions, bids, clock, command, arrived, result, attempt>>
      /\ Goto(c, "missed") /\ EndTransaction(c)
  BY DEF Miss, Rollback, serialVars
<1>3. pc'[c] = "missed"
  BY <1>2, GotoFrame DEF TypeOK, Labels, Acquiring
<1>4. /\ misses'[c] = misses[c] + 1
      /\ \A d \in Calls \ {c} : misses'[d] = misses[d]
  BY DEF Miss, TypeOK
<1>5. AttemptsAreOvertaken(c)'
  <2>1. Row(c).version \in Nat /\ seen[c].version \in Nat /\ attempt[c] \in Nat
    BY <1>1, CallTypes DEF Pending, AuctionSnapshot
  <2>2. seen[c].version >= attempt[c] - 1
    BY <1>1 DEF CallIsSound, AttemptsAreOvertaken, Reading
  <2>3. Row(c).version >= attempt[c] \/ clock >= Row(c).ends_at
    BY <2>1, <2>2
  <2> QED
    BY <1>1, <1>2, <1>3, <2>3 DEF AttemptsAreOvertaken, Row, Reading
<1>6. MissesAreCounted(c)'
  <2>1. misses[c] < attempt[c] /\ misses[c] \in Nat /\ attempt[c] \in Nat
    BY <1>1, CallTypes DEF CallIsSound, MissesAreCounted, Trying, Writing
  <2> QED
    BY <1>2, <1>3, <1>4, <2>1 DEF MissesAreCounted, Trying, Writing
<1> QED
  BY <1>1, <1>2, <1>4, <1>5, <1>6, LeaveKeeps DEF Pending

(***************************************************************************)
(* What a call that is about to UPDATE knows of its auction: if the        *)
(* version is still the one it has read, only the end of the auction can   *)
(* stand in its way.                                                       *)
(***************************************************************************)
LEMMA BeforeUpdate ==
  ASSUME TypeOK, VersionProtocol, NEW c \in Calls,
         pc[c] \in {"update", "updating"}
  PROVE  /\ Pending(c) /\ CallIsSound(c)
         /\ Row(c) \in AuctionSnapshot /\ seen[c] \in AuctionSnapshot
         /\ command[c].amount_cents \in Money
         /\ command[c].auction_id \in Auctions
         /\ Row(c).version # seen[c].version => Row(c).version > seen[c].version
         /\ Row(c).version = seen[c].version =>
              /\ Row(c) = seen[c]
              /\ Row(c).starts_at <= readTime[c]
              /\ readTime[c] < Row(c).ends_at
              /\ command[c].amount_cents >= minimum_acceptable_bid(Row(c))
<1>1. /\ CallIsSound(c) /\ Pending(c) /\ Row(c) # NULL /\ seen[c] # NULL
      /\ Later(seen[c], Row(c))
  BY DEF VersionProtocol, CallIsSound, IsPending, SeesThePast, Reading
<1>2. /\ Row(c) \in AuctionSnapshot /\ seen[c] \in AuctionSnapshot
      /\ command[c].amount_cents \in Money
      /\ command[c].auction_id \in Auctions
      /\ readTime[c] \in Nat
  BY <1>1, CallTypes DEF Pending
<1>3. evaluate_bid(seen[c], command[c].amount_cents, readTime[c]) = "accepted"
  BY <1>1 DEF CallIsSound, IsJudged, Writing
<1>4. /\ derive_auction_state(seen[c], readTime[c]) = "open"
      /\ command[c].amount_cents >= minimum_acceptable_bid(seen[c])
  BY <1>2, <1>3, AcceptedVerdict
<1>5. seen[c].starts_at <= readTime[c] /\ readTime[c] < seen[c].ends_at
  BY <1>2, <1>4 DEF derive_auction_state, AuctionSnapshot
<1>6. Row(c).version \in Nat /\ seen[c].version \in Nat
  BY <1>2 DEF AuctionSnapshot
<1> QED
  BY <1>1, <1>2, <1>4, <1>5, <1>6 DEF Later

(* The first half of the UPDATE keeps the protocol: what it qualifies is the
   row the bid was judged on, at the validation clock. *)
LEMMA StartKeeps ==
  ASSUME TypeOK, VersionProtocol, NEW c \in Calls, StartUpdate(c)
  PROVE  VersionProtocol'
<1> DEFINE amount == command[c].amount_cents
<1>0. pc[c] = "update"
  BY DEF StartUpdate
<1>1. /\ Pending(c) /\ CallIsSound(c)
      /\ Row(c) \in AuctionSnapshot /\ seen[c] \in AuctionSnapshot
      /\ amount \in Money
      /\ Row(c).version # seen[c].version => Row(c).version > seen[c].version
      /\ Row(c).version = seen[c].version =>
           /\ Row(c) = seen[c]
           /\ Row(c).starts_at <= readTime[c]
           /\ amount >= minimum_acceptable_bid(Row(c))
  BY <1>0, BeforeUpdate
<1>2. /\ clock \in Nat /\ readTime[c] \in Nat /\ readTime[c] <= clock
      /\ arrived[c] \in Nat
      /\ Row(c).starts_at \in Nat /\ Row(c).ends_at \in Nat
  BY <1>0, <1>1, CallTypes
     DEF CallIsSound, IsJudged, Writing, AuctionSnapshot
<1>3. CASE ~ Qualifies(c, Row(c), clock) /\ Miss(c)
  <2>1. Row(c).version > seen[c].version \/ clock >= Row(c).ends_at
    BY <1>1, <1>2, <1>3 DEF Qualifies
  <2> QED
    BY <1>0, <1>3, <2>1, MissKeeps
<1>4. CASE /\ Qualifies(c, Row(c), clock)
           /\ readTime' = [readTime EXCEPT ![c] = clock]
           /\ Proceed(c, "updating")
           /\ UNCHANGED <<seen, rowLock, inserted, updated, attempt, misses>>
  <2>1. UNCHANGED <<auctions, bids, clock, command, arrived, result,
                    seen, rowLock, inserted, updated, attempt, misses>>
    BY <1>4 DEF Proceed, serialVars
  <2>2. /\ pc'[c] = "updating"
        /\ \A d \in Calls \ {c} : pc'[d] = pc[d]
    BY <1>4, GotoFrame DEF Proceed, TypeOK, Labels
  <2>3. /\ readTime'[c] = clock
        /\ \A d \in Calls \ {c} : readTime'[d] = readTime[d]
    BY <1>4 DEF TypeOK, StoreTypeOK
  <2>4. OthersUnchanged(c)
    BY <2>1, <2>2, <2>3 DEF OthersUnchanged
  <2>5. evaluate_bid(seen[c], amount, clock) = "accepted"
    BY <1>1, <1>2, <1>4, AdmittedBid DEF Qualifies
  <2>6. IsPending(c)'
    BY <1>0, <1>1, <2>1, <2>2 DEF CallIsSound, IsPending, Pending
  <2>7. SeesThePast(c)'
    BY <1>0, <1>1, <2>1, <2>2 DEF CallIsSound, SeesThePast, Reading, Row
  <2>8. IsJudged(c)'
    <3>1. clock \in arrived[c]..clock
      BY <1>1, <1>2 DEF CallIsSound, IsPending
    <3> QED
      BY <2>1, <2>3, <2>5, <3>1 DEF IsJudged
  <2>9. InsertIsSound(c)'
    <3> DEFINE at == inserted[c].accepted_at
    <3>1. at \in arrived[c]..clock
      BY <1>0, <1>1 DEF CallIsSound, InsertIsSound, Writing
    <3>2. at <= clock
      BY <1>2, <3>1
    <3>3. BidsOf(command[c].request_id)' = {}
      BY <1>0, <1>1, <2>1 DEF CallIsSound, InsertIsSound, BidsOf, Writing
    <3> QED
      BY <1>0, <1>1, <2>1, <2>2, <2>3, <3>2, <3>3
         DEF CallIsSound, InsertIsSound, Writing
  <2>10. UpdateIsSound(c)'
    BY <2>2 DEF UpdateIsSound
  <2>11. AttemptsAreOvertaken(c)'
    BY <1>0, <1>1, <2>1, <2>2 DEF CallIsSound, AttemptsAreOvertaken, Reading
  <2>12. MissesAreCounted(c)'
    BY <1>0, <1>1, <2>1, <2>2 DEF CallIsSound, MissesAreCounted, Trying, Writing
  <2>13. CallIsSound(c)'
    BY <2>6, <2>7, <2>8, <2>9, <2>10, <2>11, <2>12 DEF CallIsSound
  <2> QED
    BY <1>0, <2>1, <2>4, <2>13, StatementKeeps DEF Writing
<1> QED
  BY <1>3, <1>4 DEF StartUpdate, Row

(* The second half of the UPDATE keeps the protocol: after the wait for the
   row lock it writes on the row the bid was judged on, or not at all. *)
LEMMA FinishKeeps ==
  ASSUME TypeOK, VersionProtocol, NEW c \in Calls, FinishUpdate(c)
  PROVE  VersionProtocol'
<1> DEFINE a == command[c].auction_id
           amount == command[c].amount_cents
<1>0. pc[c] = "updating" /\ rowLock[a] = NULL
  BY DEF FinishUpdate
<1>1. /\ Pending(c) /\ CallIsSound(c)
      /\ Row(c) \in AuctionSnapshot /\ seen[c] \in AuctionSnapshot
      /\ a \in Auctions
      /\ Row(c).version # seen[c].version => Row(c).version > seen[c].version
      /\ Row(c).version = seen[c].version =>
           /\ Row(c) = seen[c]
           /\ Row(c).starts_at <= readTime[c]
           /\ readTime[c] < Row(c).ends_at
           /\ amount >= minimum_acceptable_bid(Row(c))
  BY <1>0, BeforeUpdate
<1>2. readTime[c] \in Nat /\ Row(c).starts_at \in Nat /\ Row(c).ends_at \in Nat
  BY <1>1, CallTypes DEF AuctionSnapshot
<1>3. CASE ~ Qualifies(c, Row(c), readTime[c]) /\ Miss(c)
  <2>1. Row(c).version > seen[c].version
    BY <1>1, <1>2, <1>3 DEF Qualifies
  <2> QED
    BY <1>0, <1>3, <2>1, MissKeeps
<1>4. CASE /\ Qualifies(c, Row(c), readTime[c])
           /\ WriteAuction(c, Row(c).version + 1)
           /\ UNCHANGED <<attempt, misses>>
  <2>1. UNCHANGED <<auctions, bids, clock, command, arrived, result,
                    seen, readTime, inserted, attempt, misses>>
    BY <1>4 DEF WriteAuction, Proceed, serialVars
  <2>2. /\ pc'[c] = "commit"
        /\ \A d \in Calls \ {c} : pc'[d] = pc[d]
    BY <1>4, GotoFrame DEF WriteAuction, Proceed, TypeOK, Labels
  <2>3. /\ rowLock'[a] = c
        /\ \A x \in Auctions : x # a => rowLock'[x] = rowLock[x]
        /\ updated'[c] = WithWinner(Row(c), c, amount, Row(c).version + 1)
        /\ \A d \in Calls \ {c} : updated'[d] = updated[d]
    BY <1>1, <1>4 DEF WriteAuction, TypeOK, StoreTypeOK, Row
  <2>4. OthersUnchanged(c)
    BY <2>1, <2>2, <2>3 DEF OthersUnchanged
  <2>5. \A x \in Auctions :
          rowLock[x] \notin {c, NULL} => rowLock'[x] = rowLock[x]
    BY <1>0, <2>3
  <2>6. IsPending(c)'
    BY <1>0, <1>1, <2>1, <2>2 DEF CallIsSound, IsPending, Pending
  <2>7. SeesThePast(c)'
    BY <1>0, <1>1, <2>1, <2>2 DEF CallIsSound, SeesThePast, Reading, Row
  <2>8. IsJudged(c)'
    BY <1>0, <1>1, <2>1, <2>2 DEF CallIsSound, IsJudged, Writing
  <2>9. InsertIsSound(c)'
    <3>1. BidsOf(command[c].request_id)' = {}
      BY <1>0, <1>1, <2>1 DEF CallIsSound, InsertIsSound, BidsOf, Writing
    <3> QED
      BY <1>0, <1>1, <2>1, <2>2, <3>1 DEF CallIsSound, InsertIsSound, Writing
  <2>10. UpdateIsSound(c)'
    BY <1>1, <1>4, <2>1, <2>3 DEF UpdateIsSound, Qualifies, Row
  <2>11. AttemptsAreOvertaken(c)'
    BY <1>0, <1>1, <2>1, <2>2 DEF CallIsSound, AttemptsAreOvertaken, Reading
  <2>12. MissesAreCounted(c)'
    BY <1>0, <1>1, <2>1, <2>2 DEF CallIsSound, MissesAreCounted, Trying, Writing
  <2>13. CallIsSound(c)'
    BY <2>6, <2>7, <2>8, <2>9, <2>10, <2>11, <2>12 DEF CallIsSound
  <2> QED
    BY <1>0, <2>1, <2>4, <2>5, <2>13, StatementKeeps DEF Writing
<1> QED
  BY <1>3, <1>4 DEF FinishUpdate, Row

(* Classifying a miss keeps the protocol: a call tries again only when another
   bid has been committed since its attempt began. *)
LEMMA ClassifyKeeps ==
  ASSUME TypeOK, VersionProtocol, NEW c \in Calls, ClassifyEvaluate(c)
  PROVE  VersionProtocol'
<1> DEFINE verdict == evaluate_bid(seen[c], command[c].amount_cents, clock)
<1>0. pc[c] = "classify_clock" /\ UNCHANGED misses
  BY DEF ClassifyEvaluate
<1>1. ASSUME NEW outcome, Return(c, outcome), UNCHANGED attempt
      PROVE  VersionProtocol'
  BY <1>0, <1>1, ReturnKeeps
<1>2. CASE /\ verdict = "accepted"
           /\ attempt' = [attempt EXCEPT ![c] = @ + 1]
           /\ Rollback(c, "connect")
  <2>1. /\ UNCHANGED <<auctions, bids, clock, command, arrived, result>>
        /\ Goto(c, "connect") /\ EndTransaction(c)
    BY <1>2 DEF Rollback, serialVars
  <2>2. pc'[c] = "connect"
    BY <2>1, GotoFrame DEF TypeOK, Labels, Acquiring
  <2>3. /\ attempt'[c] = attempt[c] + 1
        /\ \A d \in Calls \ {c} : attempt'[d] = attempt[d]
    BY <1>2 DEF TypeOK
  <2>4. /\ CallIsSound(c) /\ Pending(c) /\ Row(c) # NULL /\ seen[c] # NULL
        /\ Later(seen[c], Row(c))
    BY <1>0 DEF VersionProtocol, CallIsSound, IsPending, SeesThePast, Reading
  <2>5. /\ Row(c) \in AuctionSnapshot /\ seen[c] \in AuctionSnapshot
        /\ command[c].amount_cents \in Money
        /\ clock \in Nat /\ attempt[c] \in Nat /\ misses[c] \in Nat
    BY <2>4, CallTypes DEF Pending
  <2>6. clock < seen[c].ends_at
    <3>1. derive_auction_state(seen[c], clock) = "open"
      BY <1>2, <2>5, AcceptedVerdict
    <3> QED
      BY <2>5, <3>1 DEF derive_auction_state, AuctionSnapshot
  <2>7. Row(c).version >= attempt[c]
    <3>1. seen[c].version >= attempt[c]
      <4>1. seen[c].version >= attempt[c] \/ clock >= seen[c].ends_at
        BY <1>0, <2>4 DEF CallIsSound, AttemptsAreOvertaken
      <4>2. seen[c].ends_at \in Nat
        BY <2>5 DEF AuctionSnapshot
      <4> QED
        BY <2>5, <2>6, <4>1, <4>2
    <3>2. seen[c].version <= Row(c).version
          /\ seen[c].version \in Nat /\ Row(c).version \in Nat
      BY <2>4, <2>5 DEF Later, AuctionSnapshot
    <3> QED
      BY <2>5, <3>1, <3>2
  <2>8. AttemptsAreOvertaken(c)'
    <3>1. Row(c).version >= attempt'[c] - 1 /\ Row(c)' = Row(c)
      BY <2>1, <2>3, <2>5, <2>7 DEF Row
    <3> QED
      BY <2>2, <2>4, <3>1 DEF AttemptsAreOvertaken, Reading
  <2>9. MissesAreCounted(c)'
    <3>1. misses[c] <= attempt[c]
      BY <2>4 DEF CallIsSound, MissesAreCounted
    <3> QED
      BY <1>0, <2>3, <2>5, <3>1 DEF MissesAreCounted
  <2> QED
    BY <1>0, <2>1, <2>3, <2>4, <2>8, <2>9, LeaveKeeps DEF Pending
<1> QED
  BY <1>1, <1>2 DEF ClassifyEvaluate, RefuseBid

-----------------------------------------------------------------------------
(***************************************************************************)
(* The commit is the admission of the bid, at the instant of its INSERT.   *)
(***************************************************************************)
LEMMA CommitRefines ==
  ASSUME TypeOK, VersionProtocol, NEW c \in Calls,
         Commit(c, attempt[c], attempt[c] - 1)
  PROVE  /\ Accept(c)
         /\ derive_auction_state(Row(c), inserted[c].accepted_at) = "open"
<1> DEFINE cmd == command[c]
           row == auctions[cmd.auction_id]
           at == inserted[c].accepted_at
<1>1. pc[c] = "commit" /\ CallIsSound(c) /\ Pending(c)
  BY DEF Commit, VersionProtocol, CallIsSound, IsPending
<1>2. /\ row # NULL /\ seen[c] = row
      /\ updated[c] = WithWinner(row, c, cmd.amount_cents, row.version + 1)
  BY <1>1 DEF CallIsSound, SeesThePast, UpdateIsSound, Row, Reading
<1>3. /\ row \in AuctionSnapshot /\ cmd.amount_cents \in Money
      /\ clock \in Nat /\ arrived[c] \in Nat /\ readTime[c] \in Nat
  BY <1>1, <1>2, CallTypes DEF Pending, Row
<1>4. /\ inserted[c] = NewBid(c, cmd, row.version + 1, at)
      /\ BidsOf(cmd.request_id) = {}
      /\ at \in arrived[c]..clock
      /\ row.starts_at <= at /\ at <= readTime[c]
  BY <1>1, <1>2 DEF CallIsSound, InsertIsSound, Writing
<1>5. evaluate_bid(row, cmd.amount_cents, readTime[c]) = "accepted"
  BY <1>1, <1>2 DEF CallIsSound, IsJudged, Writing
<1>6. /\ cmd.amount_cents >= minimum_acceptable_bid(row)
      /\ readTime[c] < row.ends_at
  <2>1. /\ derive_auction_state(row, readTime[c]) = "open"
        /\ cmd.amount_cents >= minimum_acceptable_bid(row)
    BY <1>3, <1>5, AcceptedVerdict
  <2> QED
    BY <1>3, <2>1 DEF derive_auction_state, AuctionSnapshot
<1>7. at \in Nat /\ at < row.ends_at
  <2>1. at \in Nat
    BY <1>3, <1>4
  <2> QED
    BY <1>3, <1>4, <1>6, <2>1 DEF AuctionSnapshot
<1> HIDE DEF at
<1>8. evaluate_bid(row, cmd.amount_cents, at) = "accepted"
  BY <1>3, <1>4, <1>6, <1>7, AdmittedBid
<1>9. updated[c] = apply_accepted_bid(row, c, cmd.amount_cents, at)
  BY <1>2, <1>8 DEF apply_accepted_bid
<1> DEFINE bid == NewBid(c, cmd, row.version + 1, at)
<1>10. /\ bids' = bids \cup {bid}
       /\ auctions' = [auctions EXCEPT ![cmd.auction_id] =
            apply_accepted_bid(row, c, cmd.amount_cents, at)]
       /\ UNCHANGED <<clock, command, arrived>>
  BY <1>4, <1>9 DEF Commit
<1>11. \/ \E n \in 1..MaxAttempts, k \in 0..MaxAttempts :
            result' = [result EXCEPT ![c] = accepted(bid, n, k)]
       \/ result' = [result EXCEPT ![c] = raised("OperationalError")]
  <2>1. attempt[c] \in 1..MaxAttempts /\ attempt[c] - 1 \in 0..MaxAttempts
    BY CallTypes, BoundsAssumption
  <2>2. \/ result' = [result EXCEPT ![c] =
                        accepted(bid, attempt[c], attempt[c] - 1)]
        \/ result' = [result EXCEPT ![c] = raised("OperationalError")]
    BY <1>4 DEF Commit
  <2> QED
    BY <2>1, <2>2
<1>12. \E now, inserted_at \in arrived[c]..clock :
         LET b == NewBid(c, cmd, row.version + 1, inserted_at)
         IN  /\ now <= inserted_at
             /\ evaluate_bid(row, cmd.amount_cents, now) = "accepted"
             /\ bids' = bids \cup {b}
             /\ auctions' = [auctions EXCEPT ![cmd.auction_id] =
                  apply_accepted_bid(row, c, cmd.amount_cents, now)]
             /\ \/ \E n \in 1..MaxAttempts, k \in 0..MaxAttempts :
                     result' = [result EXCEPT ![c] = accepted(b, n, k)]
                \/ result' = [result EXCEPT ![c] = raised("OperationalError")]
  <2>1. at \in arrived[c]..clock /\ at <= at
    BY <1>4, <1>7
  <2> USE <2>1
  <2> WITNESS at \in arrived[c]..clock, at \in arrived[c]..clock
  <2> QED
    BY <1>8, <1>10, <1>11
<1>13. derive_auction_state(row, at) = "open"
  BY <1>3, <1>7, <1>8, AcceptedVerdict
<1> QED
  BY <1>1, <1>2, <1>4, <1>10, <1>12, <1>13 DEF Accept, Row, at

(* A verdict of the strategy on the row it has read is a refusal or a failure
   of the serial auction. *)
LEMMA VerdictStep ==
  ASSUME TypeOK, VersionProtocol, NEW c \in Calls,
         pc[c] \in {"clock", "classify_clock"}, NEW k \in 0..MaxAttempts,
         RefuseBid(c, evaluate_bid(seen[c], command[c].amount_cents, clock),
                   attempt[c], k)
  PROVE  SerialNext
<1>1. /\ CallIsSound(c) /\ Pending(c) /\ Row(c) # NULL /\ seen[c] # NULL
      /\ Later(seen[c], Row(c))
  BY DEF VersionProtocol, CallIsSound, IsPending, SeesThePast, Reading
<1>2. seen[c] \in AuctionSnapshot /\ attempt[c] \in 1..MaxAttempts
  BY <1>1, CallTypes
<1>3. clock \in arrived[c]..clock
  BY <1>1, CallTypes DEF CallIsSound, IsPending
<1>4. StoreTypeOK
  BY DEF TypeOK
<1>5. Refuse(c) \/ Fail(c)
  BY <1>1, <1>2, <1>3, <1>4, VerdictRefines DEF Row, Later
<1> QED
  BY <1>5 DEF SerialNext

(***************************************************************************)
(* Every step of the optimistic strategy is a step of the serial auction   *)
(* or leaves the committed rows and the answers alone.                     *)
(***************************************************************************)
LEMMA StepRefines ==
  TypeOK /\ VersionProtocol /\ ResolveFindsBid /\ [Next]_vars
    => [SerialNext]_serialVars
<1> SUFFICES ASSUME TypeOK, VersionProtocol, ResolveFindsBid, [Next]_vars
             PROVE  SerialNext \/ UNCHANGED serialVars
  OBVIOUS
<1>0. 1 \in 1..MaxAttempts /\ 0 \in 0..MaxAttempts
  BY BoundsAssumption
<1>1. CASE UNCHANGED vars
  BY <1>1 DEF vars, storeVars, serialVars
<1>2. CASE Tick
  BY <1>2 DEF Tick, SerialNext
<1>3. ASSUME NEW a \in Auctions, NEW l \in Listings, create(a, l)
      PROVE  SerialNext
  BY <1>3 DEF create, SerialNext
<1>4. ASSUME NEW c \in Calls, NEW cmd \in Commands, place_bid(c, cmd)
      PROVE  SerialNext
  BY <1>4 DEF place_bid, SerialNext
<1>5. ASSUME NEW c \in Calls,
             PoolTimeout(c) \/ LoseConnection(c) \/ WaitExpires(c)
      PROVE  SerialNext
  <2>1. Pending(c)
    BY <1>5 DEF PoolTimeout, LoseConnection, WaitExpires, StatementTimeout,
                LockTimeout, Connected, Acquiring, VersionProtocol,
                CallIsSound, IsPending
  <2>2. \E exception \in Exceptions :
          MayRaise(c, exception) /\ Return(c, raised(exception))
    BY <1>5 DEF PoolTimeout, LoseConnection, WaitExpires, StatementTimeout,
                LockTimeout, Exceptions, MayRaise
  <2> QED
    BY <2>1, <2>2, RaiseFails DEF SerialNext
<1>6. ASSUME NEW c \in Calls, CallStep(c)
      PROVE  SerialNext \/ UNCHANGED serialVars
  <2>0. /\ pc[c] \notin {"idle", "done"} => Pending(c)
        /\ attempt[c] \in 1..MaxAttempts
        /\ attempt[c] \in 0..MaxAttempts /\ attempt[c] - 1 \in 0..MaxAttempts
    BY CallTypes, BoundsAssumption DEF VersionProtocol, CallIsSound, IsPending
  <2>1. CASE Connect(c)
    BY <2>1 DEF Connect, Proceed
  <2>2. CASE Check(c)
    <3>1. CASE AnswerExisting(c, attempt[c], attempt[c] - 1)
      BY <2>0, <2>2, <3>1, AnswerRefines
         DEF Check, CheckExisting, AnswerExisting, SerialNext
    <3> QED
      BY <2>2, <3>1 DEF Check, CheckExisting, Proceed
  <2>3. CASE Read(c)
    <3>1. CASE auctions[command[c].auction_id] = NULL
      BY <1>0, <2>0, <2>3, <3>1, NotFoundRefines DEF Read, ReadAuction, SerialNext
    <3> QED
      BY <2>3, <3>1 DEF Read, ReadAuction, Proceed
  <2>4. CASE Evaluate(c)
    <3>1. CASE RefuseBid(c, evaluate_bid(seen[c], command[c].amount_cents,
                                         clock), attempt[c], 0)
      BY <1>0, <2>4, <3>1, VerdictStep DEF Evaluate, EvaluateNow
    <3> QED
      BY <2>4, <3>1 DEF Evaluate, EvaluateNow, Proceed
  <2>5. CASE InsertBid(c)
    BY <2>5 DEF InsertBid, PutBid, Rollback, Proceed
  <2>6. CASE StartUpdate(c) \/ FinishUpdate(c)
    BY <2>6 DEF StartUpdate, FinishUpdate, WriteAuction, Miss, Rollback, Proceed
  <2>7. CASE Commit(c, attempt[c], attempt[c] - 1)
    BY <2>7, CommitRefines DEF SerialNext
  <2>8. CASE ClassifyCheck(c)
    <3>1. CASE AnswerExisting(c, 1, 0)
      BY <1>0, <2>0, <2>8, <3>1, AnswerRefines
         DEF ClassifyCheck, CheckExisting, AnswerExisting, SerialNext
    <3> QED
      BY <2>8, <3>1 DEF ClassifyCheck, CheckExisting, Proceed
  <2>9. CASE ClassifyRead(c)
    <3>1. CASE auctions[command[c].auction_id] = NULL
      BY <2>0, <2>9, <3>1, NotFoundRefines
         DEF ClassifyRead, ReadAuction, SerialNext
    <3> QED
      BY <2>9, <3>1 DEF ClassifyRead, ReadAuction, Proceed
  <2>10. CASE ClassifyEvaluate(c)
    <3> DEFINE verdict == evaluate_bid(seen[c], command[c].amount_cents, clock)
    <3>1. CASE RefuseBid(c, verdict, attempt[c], attempt[c])
      BY <2>0, <2>10, <3>1, VerdictStep DEF ClassifyEvaluate
    <3>2. CASE /\ verdict = "accepted"
               /\ attempt[c] >= MaxAttempts
               /\ Return(c, rejected("conflict_retry_exhausted", NULL,
                                     attempt[c], attempt[c]))
      <4>1. /\ CallIsSound(c) /\ Pending(c) /\ Row(c) # NULL /\ seen[c] # NULL
            /\ Later(seen[c], Row(c))
        BY <2>10 DEF ClassifyEvaluate, VersionProtocol, CallIsSound, IsPending,
                     SeesThePast, Reading
      <4>2. /\ Row(c) \in AuctionSnapshot /\ seen[c] \in AuctionSnapshot
            /\ command[c].amount_cents \in Money
            /\ clock \in Nat /\ attempt[c] \in Nat
        BY <4>1, CallTypes DEF Pending
      <4>3. clock < seen[c].ends_at
        <5>1. derive_auction_state(seen[c], clock) = "open"
          BY <3>2, <4>2, AcceptedVerdict
        <5> QED
          BY <4>2, <5>1 DEF derive_auction_state, AuctionSnapshot
      <4>4. seen[c].version >= attempt[c] \/ clock >= seen[c].ends_at
        BY <2>10, <4>1 DEF ClassifyEvaluate, CallIsSound, AttemptsAreOvertaken
      <4>5. /\ seen[c].ends_at \in Nat /\ seen[c].version <= Row(c).version
            /\ seen[c].version \in Nat /\ Row(c).version \in Nat
        BY <4>1, <4>2 DEF AuctionSnapshot, Later
      <4>6. Row(c).version >= MaxAttempts
        BY <3>2, <4>2, <4>3, <4>4, <4>5, BoundsAssumption
      <4>7. Justified(c, "conflict_retry_exhausted", NULL)
        BY <4>1, <4>6 DEF Justified, Row
      <4> QED
        BY <2>0, <3>2, <4>1, <4>7
           DEF Return, Refuse, BidRejectionReason, SerialNext
    <3> QED
      BY <2>10, <3>1, <3>2 DEF ClassifyEvaluate, Rollback
  <2>11. CASE ResolveDuplicate(c)
    <3>1. BidsOf(command[c].request_id) # {}
      BY <2>11 DEF ResolveDuplicate, ResolveFindsBid
    <3> QED
      BY <1>0, <2>0, <2>11, <3>1, AnswerRefines DEF ResolveDuplicate, SerialNext
  <2> QED
    BY <1>6, <2>1, <2>2, <2>3, <2>4, <2>5, <2>6, <2>7, <2>8, <2>9, <2>10, <2>11
       DEF CallStep
<1>7. CASE Quiescent
  BY <1>7 DEF Quiescent, storeVars, serialVars
<1> QED
  BY <1>1, <1>2, <1>3, <1>4, <1>5, <1>6, <1>7 DEF Next

-----------------------------------------------------------------------------
(***************************************************************************)
(* The state of the transactions keeps its type.                           *)
(***************************************************************************)
LEMMA TypeStep ==
  TypeOK /\ VersionProtocol /\ ResolveFindsBid /\ [Next]_vars => TypeOK'
<1> SUFFICES ASSUME TypeOK, VersionProtocol, ResolveFindsBid, [Next]_vars
             PROVE  TypeOK'
  OBVIOUS
<1>0. SerialTypeOK' /\ StoreTypeOK
  BY StepRefines, SerialTypeStep DEF TypeOK, StoreTypeOK
<1>1. ASSUME NEW c \in Calls, NEW outcome, Return(c, outcome)
      PROVE  StoreTypeOK'
  BY <1>0, <1>1, EndFrame, GotoFrame DEF Return, Labels, StoreTypeOK
<1>2. ASSUME NEW c \in Calls, NEW label \in Labels, Rollback(c, label)
      PROVE  StoreTypeOK'
  BY <1>0, <1>2, EndFrame, GotoFrame DEF Rollback, StoreTypeOK
<1>3. ASSUME NoRetry, StoreTypeOK'
      PROVE  TypeOK'
  BY <1>3 DEF NoRetry, TypeOK
<1>4. ASSUME NoRetry, UNCHANGED <<pc, txnVars>>
      PROVE  TypeOK'
  BY <1>0, <1>3, <1>4 DEF StoreTypeOK, txnVars
<1>5. ASSUME NEW c \in Calls, NEW cmd \in Commands, place_bid(c, cmd), NoRetry
      PROVE  TypeOK'
  BY <1>0, <1>3, <1>5, GotoFrame
     DEF place_bid, StoreTypeOK, txnVars, Labels, Acquiring
<1>6. ASSUME NEW c \in Calls, NEW n, NEW k, NoRetry,
             \/ ReadAuction(c, "read", "clock", n, k)
             \/ ReadAuction(c, "classify_read", "classify_clock", n, k)
      PROVE  TypeOK'
  <2>1. CASE Row(c) = NULL
    BY <1>1, <1>3, <1>6, <2>1 DEF ReadAuction, Row
  <2>2. CASE Row(c) # NULL
    <3>1. Row(c) \in AuctionSnapshot
      BY <1>6, <2>2, CallTypes
         DEF ReadAuction, VersionProtocol, CallIsSound, IsPending, Pending
    <3>2. /\ seen' = [seen EXCEPT ![c] = Row(c)]
          /\ UNCHANGED <<readTime, rowLock, inserted, updated>>
          /\ \E label \in Labels : Goto(c, label)
      BY <1>6, <2>2 DEF ReadAuction, Row, Proceed, Labels
    <3>3. seen' \in [Calls -> AuctionSnapshot \cup {NULL}]
      BY <3>1, <3>2 DEF TypeOK, StoreTypeOK
    <3>4. pc' \in [Calls -> Labels]
      BY <1>0, <3>2, GotoFrame
    <3> QED
      BY <1>0, <1>3, <1>6, <3>2, <3>3, <3>4 DEF StoreTypeOK
  <2> QED
    BY <2>1, <2>2
<1>7. ASSUME NEW c \in Calls, Miss(c), pc[c] \in {"update", "updating"}
      PROVE  TypeOK'
  <2>1. StoreTypeOK'
    BY <1>2, <1>7 DEF Miss, Labels, Acquiring
  <2>2. misses[c] < attempt[c] /\ misses[c] \in Nat
        /\ attempt[c] \in 1..MaxAttempts
    BY <1>7, CallTypes DEF VersionProtocol, CallIsSound, MissesAreCounted,
                           Trying, Writing
  <2>3. misses[c] + 1 \in 0..MaxAttempts
    BY <2>2, BoundsAssumption
  <2> QED
    BY <1>7, <2>1, <2>3 DEF Miss, TypeOK
<1>8. ASSUME NEW c \in Calls, CallStep(c)
      PROVE  TypeOK'
  <2>1. CASE Connect(c) /\ NoRetry
    <3>1. AfterConnect[pc[c]] \in Labels
      BY <2>1 DEF Connect, AfterConnect, Acquiring, Labels
    <3> QED
      BY <1>0, <1>3, <2>1, <3>1, GotoFrame
         DEF Connect, Proceed, StoreTypeOK, txnVars
  <2>2. CASE (Check(c) \/ ClassifyCheck(c)) /\ NoRetry
    BY <1>0, <1>1, <1>3, <2>2, GotoFrame
       DEF Check, ClassifyCheck, CheckExisting, AnswerExisting, Proceed,
           StoreTypeOK, txnVars, Labels
  <2>3. CASE (Read(c) \/ ClassifyRead(c)) /\ NoRetry
    BY <1>6, <2>3 DEF Read, ClassifyRead
  <2>4. CASE Evaluate(c) /\ NoRetry
    BY <1>0, <1>1, <1>3, <2>4, GotoFrame
       DEF Evaluate, EvaluateNow, RefuseBid, Proceed, StoreTypeOK, SerialTypeOK,
           Labels
  <2>5. CASE InsertBid(c) /\ NoRetry
    <3>1. CASE Rollback(c, "reacquire")
      BY <1>2, <1>3, <2>5, <3>1 DEF Labels, Acquiring
    <3>2. CASE PutBid(c)
      <4>1. command[c] \in BidCommand /\ seen[c] \in AuctionSnapshot
        BY <2>5, CallTypes DEF InsertBid, VersionProtocol, CallIsSound,
                               IsPending, Pending, SeesThePast, Reading
      <4>2. seen[c].version + 1 \in Nat \ {0}
        BY <4>1 DEF AuctionSnapshot
      <4>3. NewBid(c, command[c], seen[c].version + 1, clock) \in AcceptedBid
        BY <1>0, <4>1, <4>2, NewBidType DEF StoreTypeOK, SerialTypeOK
      <4> QED
        BY <1>0, <1>3, <2>5, <3>2, <4>3, GotoFrame
           DEF PutBid, Proceed, StoreTypeOK, Labels
    <3> QED
      BY <2>5, <3>1, <3>2 DEF InsertBid
  <2>6. CASE StartUpdate(c)
    <3>1. CASE Miss(c)
      BY <1>7, <2>6, <3>1 DEF StartUpdate
    <3>2. CASE /\ readTime' = [readTime EXCEPT ![c] = clock]
               /\ Proceed(c, "updating")
               /\ UNCHANGED <<seen, rowLock, inserted, updated, attempt, misses>>
      BY <1>0, <1>3, <3>2, GotoFrame
         DEF Proceed, NoRetry, StoreTypeOK, SerialTypeOK, Labels
    <3> QED
      BY <2>6, <3>1, <3>2 DEF StartUpdate
  <2>7. CASE FinishUpdate(c)
    <3>1. CASE Miss(c)
      BY <1>7, <2>7, <3>1 DEF FinishUpdate
    <3>2. CASE /\ WriteAuction(c, Row(c).version + 1)
               /\ UNCHANGED <<attempt, misses>>
      <4> DEFINE a == command[c].auction_id
      <4>1. /\ a \in Auctions /\ Row(c) \in AuctionSnapshot
            /\ command[c].amount_cents \in Money
        BY <2>7, BeforeUpdate DEF FinishUpdate
      <4>2. Row(c).version + 1 \in Nat
        BY <4>1 DEF AuctionSnapshot
      <4>3. WithWinner(auctions[a], c, command[c].amount_cents,
                       Row(c).version + 1) \in AuctionSnapshot
        BY <4>1, <4>2, WrittenRow DEF Row
      <4> QED
        BY <1>0, <1>3, <3>2, <4>1, <4>3, GotoFrame
           DEF WriteAuction, Proceed, NoRetry, StoreTypeOK, Labels
    <3> QED
      BY <2>7, <3>1, <3>2 DEF FinishUpdate, Row
  <2>8. CASE Commit(c, attempt[c], attempt[c] - 1) /\ NoRetry
    BY <1>0, <1>3, <2>8, EndFrame, GotoFrame DEF Commit, StoreTypeOK, Labels
  <2>9. CASE ClassifyEvaluate(c)
    <3>1. CASE UNCHANGED attempt
      BY <1>1, <1>2, <1>3, <2>9, <3>1
         DEF ClassifyEvaluate, RefuseBid, NoRetry, Labels, Acquiring
    <3>2. CASE /\ attempt[c] < MaxAttempts
               /\ attempt' = [attempt EXCEPT ![c] = @ + 1]
               /\ Rollback(c, "connect")
      <4>1. attempt[c] + 1 \in 1..MaxAttempts
        BY <3>2, CallTypes, BoundsAssumption
      <4>2. StoreTypeOK'
        BY <1>2, <3>2 DEF Labels, Acquiring
      <4> QED
        BY <2>9, <3>2, <4>1, <4>2 DEF ClassifyEvaluate, TypeOK
    <3> QED
      BY <2>9, <3>1, <3>2 DEF ClassifyEvaluate
  <2>10. CASE ResolveDuplicate(c) /\ NoRetry
    BY <1>1, <1>3, <2>10 DEF ResolveDuplicate
  <2> QED
    BY <1>8, <2>1, <2>2, <2>3, <2>4, <2>5, <2>6, <2>7, <2>8, <2>9, <2>10
       DEF CallStep
<1>9. ASSUME NEW c \in Calls, NoRetry,
             PoolTimeout(c) \/ LoseConnection(c) \/ WaitExpires(c)
      PROVE  TypeOK'
  BY <1>1, <1>3, <1>9 DEF PoolTimeout, LoseConnection, WaitExpires,
                          StatementTimeout, LockTimeout
<1> QED
  BY <1>4, <1>5, <1>8, <1>9
     DEF Next, vars, storeVars, Tick, create, Quiescent, NoRetry

-----------------------------------------------------------------------------
(* The commit keeps the protocol: it moves its own auction forward, which no
   other call holds, and uses up a request id that no other call is using. *)
LEMMA CommitKeeps ==
  ASSUME TypeOK, VersionProtocol, NEW c \in Calls, NoRetry,
         Commit(c, attempt[c], attempt[c] - 1), SerialTypeOK'
  PROVE  VersionProtocol'
<1> DEFINE a == command[c].auction_id
<1>0. StoreTypeOK /\ SerialTypeOK
  BY DEF TypeOK, StoreTypeOK
<1>1. /\ pc[c] = "commit" /\ CallIsSound(c)
      /\ bids' = bids \cup {inserted[c]}
      /\ UNCHANGED <<clock, command, arrived, attempt, misses>>
      /\ EndTransaction(c)
  BY DEF Commit, NoRetry, VersionProtocol
<1>2. /\ pc'[c] = "done"
      /\ \A d \in Calls \ {c} : pc'[d] = pc[d]
  BY <1>0, GotoFrame DEF Commit, Labels
<1>3. /\ \A d \in Calls \ {c} : /\ inserted'[d] = inserted[d]
                                /\ updated'[d] = updated[d]
                                /\ seen'[d] = seen[d]
                                /\ readTime'[d] = readTime[d]
      /\ \A x \in Auctions : rowLock[x] # c => rowLock'[x] = rowLock[x]
      /\ inserted'[c] = NULL
  BY <1>0, <1>1, EndFrame
<1>4. \A d \in Calls \ {c} : result'[d] = result[d]
  BY <1>0 DEF Commit, SerialTypeOK
<1>5. OthersUnchanged(c)
  BY <1>1, <1>2, <1>3, <1>4 DEF OthersUnchanged
<1>6. RowsMoveForward
  BY <1>0, CommitRefines, AdvanceStep DEF SerialNext
<1>7. rowLock[a] = c
  BY <1>1 DEF CallIsSound, UpdateIsSound
<1>8. inserted[c].request_id = command[c].request_id
  <2>1. PICK at : inserted[c] = NewBid(c, command[c], seen[c].version + 1, at)
    BY <1>1 DEF CallIsSound, InsertIsSound, Writing
  <2> QED
    BY <2>1 DEF NewBid
<1>9. clock' \in Time /\ clock <= clock'
      /\ auctions' \in [Auctions -> AuctionSnapshot \cup {NULL}]
  BY <1>0, <1>1, BoundsAssumption DEF SerialTypeOK, Time
<1>10. ASSUME NEW d \in Calls \ {c}
       PROVE  CallIsSound(d)'
  <2>1. CallIsSound(d)
    BY DEF VersionProtocol
  <2>2. pc[d] \in Writing => BidsOf(command[d].request_id)' = {}
    <3> SUFFICES ASSUME pc[d] \in Writing
                 PROVE  BidsOf(command[d].request_id)' = {}
      OBVIOUS
    <3>1. command[d].request_id # command[c].request_id
      BY <1>1 DEF VersionProtocol, RequestsAreExclusive, Writing
    <3>2. BidsOf(command[d].request_id) = {}
      BY <2>1 DEF CallIsSound, InsertIsSound
    <3> QED
      BY <1>1, <1>8, <3>1, <3>2 DEF BidsOf
  <2>3. pc[d] = "commit" =>
          /\ rowLock'[command[d].auction_id] = rowLock[command[d].auction_id]
          /\ auctions'[command[d].auction_id] = auctions[command[d].auction_id]
    <3> SUFFICES ASSUME pc[d] = "commit"
                 PROVE  /\ rowLock'[command[d].auction_id]
                             = rowLock[command[d].auction_id]
                        /\ auctions'[command[d].auction_id]
                             = auctions[command[d].auction_id]
      OBVIOUS
    <3>1. /\ rowLock[command[d].auction_id] = d
          /\ command[d].auction_id \in Auctions
      BY <2>1, CallTypes DEF CallIsSound, UpdateIsSound, IsPending, Pending
    <3>2. command[d].auction_id # a
      BY <1>7, <3>1
    <3> QED
      BY <1>0, <1>3, <3>1, <3>2 DEF Commit, SerialTypeOK
  <2> QED
    BY <1>5, <1>6, <1>9, <2>1, <2>2, <2>3, OthersKeep DEF OthersUnchanged
<1>11. CallIsSound(c)'
  BY <1>1, <1>2, <1>3
     DEF CallIsSound, IsPending, Pending, SeesThePast, IsJudged, InsertIsSound,
         UpdateIsSound, AttemptsAreOvertaken, MissesAreCounted, Reading,
         Writing, Trying
<1>12. RequestsAreExclusive'
  BY <1>1, <1>2 DEF VersionProtocol, RequestsAreExclusive, Writing
<1> QED
  BY <1>10, <1>11, <1>12 DEF VersionProtocol

(***************************************************************************)
(* The environment keeps the protocol: time and new auctions only move     *)
(* things forward, and a new call has read and written nothing.            *)
(***************************************************************************)
LEMMA EnvironmentKeeps ==
  ASSUME TypeOK, VersionProtocol, NoRetry, SerialTypeOK',
         \/ Tick
         \/ \E a \in Auctions, l \in Listings : create(a, l)
         \/ \E c \in Calls, cmd \in Commands : place_bid(c, cmd)
  PROVE  VersionProtocol'
<1>0. SerialTypeOK
  BY DEF TypeOK, StoreTypeOK
<1>1. RowsMoveForward
  BY <1>0, AdvanceStep DEF SerialNext, Tick, create, place_bid
<1>2. /\ UNCHANGED <<attempt, misses, bids, result, seen, readTime, rowLock,
                     inserted, updated>>
      /\ clock \in Nat /\ clock <= clock' /\ clock' \in Time
      /\ auctions' \in [Auctions -> AuctionSnapshot \cup {NULL}]
  BY <1>0, BoundsAssumption
     DEF NoRetry, Tick, PassTime, create, List, place_bid, Call, txnVars,
         SerialTypeOK, Time
<1>3. ASSUME NEW d \in Calls,
             UNCHANGED <<pc[d], command[d], arrived[d]>>
      PROVE  CallIsSound(d)'
  <2>1. CallIsSound(d)
    BY DEF VersionProtocol
  <2>2. pc[d] \in Writing => BidsOf(command[d].request_id)' = {}
    BY <1>2, <1>3, <2>1 DEF CallIsSound, InsertIsSound, BidsOf
  <2>3. pc[d] = "commit" =>
          auctions'[command[d].auction_id] = auctions[command[d].auction_id]
    <3>1. pc[d] = "commit" => Row(d) # NULL /\ command[d].auction_id \in Auctions
      BY <2>1, CallTypes
         DEF CallIsSound, SeesThePast, Reading, IsPending, Pending
    <3> QED
      BY <1>0, <3>1 DEF Row, Tick, PassTime, create, List, place_bid, Call,
                        SerialTypeOK
  <2> QED
    BY <1>1, <1>2, <1>3, <2>1, <2>2, <2>3, OthersKeep
<1>4. CASE Tick \/ \E a \in Auctions, l \in Listings : create(a, l)
  <2>1. UNCHANGED <<pc, command, arrived>>
    BY <1>4 DEF Tick, PassTime, create, List
  <2> QED
    BY <1>3, <2>1 DEF VersionProtocol, RequestsAreExclusive
<1>5. ASSUME NEW c \in Calls, NEW cmd \in Commands, place_bid(c, cmd)
      PROVE  VersionProtocol'
  <2>1. /\ pc'[c] = "connect"
        /\ \A d \in Calls \ {c} : pc'[d] = pc[d]
    BY <1>5, GotoFrame DEF place_bid, TypeOK, Labels, Acquiring
  <2>2. /\ command[c] = NULL
        /\ command'[c] = cmd
        /\ arrived'[c] = clock
        /\ clock' = clock
        /\ \A d \in Calls \ {c} : /\ command'[d] = command[d]
                                  /\ arrived'[d] = arrived[d]
    BY <1>0, <1>5 DEF place_bid, Call, SerialTypeOK
  <2>3. cmd # NULL
    BY CommandsAssumption, NullAssumption
  <2>4. pc[c] = "idle" /\ CallIsSound(c)
    BY <2>2 DEF VersionProtocol, CallIsSound, IsPending
  <2>5. CallIsSound(c)'
    BY <1>2, <2>1, <2>2, <2>3, <2>4
       DEF CallIsSound, IsPending, Pending, SeesThePast, IsJudged,
           InsertIsSound, UpdateIsSound, AttemptsAreOvertaken,
           MissesAreCounted, Reading, Writing, Trying
  <2> QED
    BY <1>3, <2>1, <2>2, <2>5 DEF VersionProtocol, RequestsAreExclusive, Writing
<1> QED
  BY <1>4, <1>5

(* Every step of the specification keeps the protocol. *)
LEMMA ProtocolStep ==
  TypeOK /\ VersionProtocol /\ ResolveFindsBid /\ [Next]_vars => VersionProtocol'
<1> SUFFICES ASSUME TypeOK, VersionProtocol, ResolveFindsBid, [Next]_vars
             PROVE  VersionProtocol'
  OBVIOUS
<1>0. SerialTypeOK'
  BY TypeStep DEF TypeOK, StoreTypeOK
<1>1. CASE UNCHANGED vars
  BY <1>1 DEF vars, storeVars, txnVars, VersionProtocol, CallIsSound,
              IsPending, Pending, SeesThePast, IsJudged, InsertIsSound,
              UpdateIsSound, AttemptsAreOvertaken, MissesAreCounted,
              RequestsAreExclusive, Row, BidsOf
<1>2. CASE /\ NoRetry
           /\ \/ Tick
              \/ \E a \in Auctions, l \in Listings : create(a, l)
              \/ \E c \in Calls, cmd \in Commands : place_bid(c, cmd)
  BY <1>0, <1>2, EnvironmentKeeps
<1>3. ASSUME NEW c \in Calls, NoRetry,
             PoolTimeout(c) \/ LoseConnection(c) \/ WaitExpires(c)
      PROVE  VersionProtocol'
  <2>1. pc[c] # "idle" /\ \E outcome : Return(c, outcome)
    BY <1>3 DEF PoolTimeout, LoseConnection, WaitExpires, StatementTimeout,
                LockTimeout, Connected, Acquiring
  <2> QED
    BY <1>3, <2>1, ReturnKeeps DEF NoRetry
<1>4. ASSUME NEW c \in Calls, CallStep(c)
      PROVE  VersionProtocol'
  <2>1. CASE Connect(c) /\ NoRetry
    <3>1. \/ pc[c] = "connect" /\ AfterConnect[pc[c]] = "check"
          \/ pc[c] = "reacquire" /\ AfterConnect[pc[c]] = "resolve"
          \/ pc[c] = "missed" /\ AfterConnect[pc[c]] = "classify_check"
      BY <2>1 DEF Connect, AfterConnect, Acquiring
    <3> QED
      BY <2>1, <3>1, MoveKeeps DEF Connect
  <2>2. CASE Check(c) /\ NoRetry
    <3>1. CASE AnswerExisting(c, attempt[c], attempt[c] - 1)
      BY <2>2, <3>1, ReturnKeeps DEF Check, CheckExisting, AnswerExisting, NoRetry
    <3>2. CASE Proceed(c, "read") /\ UNCHANGED txnVars
      BY <2>2, <3>2, MoveKeeps DEF Check, CheckExisting
    <3> QED
      BY <2>2, <3>1, <3>2 DEF Check, CheckExisting
  <2>3. CASE ClassifyCheck(c) /\ NoRetry
    <3>1. CASE AnswerExisting(c, 1, 0)
      BY <2>3, <3>1, ReturnKeeps
         DEF ClassifyCheck, CheckExisting, AnswerExisting, NoRetry
    <3>2. CASE Proceed(c, "classify_read") /\ UNCHANGED txnVars
      BY <2>3, <3>2, MoveKeeps DEF ClassifyCheck, CheckExisting
    <3> QED
      BY <2>3, <3>1, <3>2 DEF ClassifyCheck, CheckExisting
  <2>4. CASE (Read(c) \/ ClassifyRead(c)) /\ NoRetry
    BY <2>4, ReadKeeps DEF Read, ClassifyRead
  <2>5. CASE ResolveDuplicate(c) /\ NoRetry
    BY <2>5, ReturnKeeps DEF ResolveDuplicate, NoRetry
  <2> QED
    BY <1>0, <1>4, <2>1, <2>2, <2>3, <2>4, <2>5, EvaluateKeeps, InsertKeeps,
       StartKeeps, FinishKeeps, ClassifyKeeps, CommitKeeps DEF CallStep
<1> QED
  BY <1>1, <1>2, <1>3, <1>4 DEF Next, Quiescent, vars, NoRetry

-----------------------------------------------------------------------------
(***************************************************************************)
(* Bids are never removed, and a call that was told of a UniqueViolation   *)
(* was told so while a bid with its request id was committed.              *)
(***************************************************************************)
LEMMA ResolveStep ==
  TypeOK /\ VersionProtocol /\ ResolveFindsBid /\ [Next]_vars
    => ResolveFindsBid'
<1> SUFFICES ASSUME TypeOK, VersionProtocol, ResolveFindsBid, [Next]_vars,
                    NEW c \in Calls, pc'[c] \in {"reacquire", "resolve"}
             PROVE  BidsOf(command[c].request_id)' # {}
  BY DEF ResolveFindsBid
<1> DEFINE Kept == /\ pc[c] \in {"reacquire", "resolve"}
                   /\ bids \subseteq bids'
                   /\ command'[c] = command[c]
<1>0. pc \in [Calls -> Labels]
  BY DEF TypeOK, StoreTypeOK
<1>1. Kept => BidsOf(command[c].request_id)' # {}
  BY DEF ResolveFindsBid, BidsOf
<1>2. CASE UNCHANGED storeVars
  BY <1>1, <1>2 DEF storeVars
<1>3. CASE Tick \/ \E a \in Auctions, l \in Listings : create(a, l)
  BY <1>1, <1>3 DEF Tick, PassTime, create, List
<1>4. ASSUME NEW d \in Calls, NEW cmd \in Commands, place_bid(d, cmd)
      PROVE  Kept
  <2>1. /\ pc'[d] = "connect"
        /\ \A x \in Calls \ {d} : pc'[x] = pc[x]
    BY <1>4, GotoFrame DEF place_bid, TypeOK, Labels, Acquiring
  <2> QED
    BY <1>4, <2>1 DEF place_bid, Call, TypeOK, StoreTypeOK, SerialTypeOK
<1>5. ASSUME NEW d \in Calls, NEW outcome, Return(d, outcome)
      PROVE  Kept
  BY <1>0, <1>5 DEF Return, Goto
<1>6. ASSUME NEW d \in Calls, NEW label \in Labels \ {"reacquire", "resolve"},
             Proceed(d, label) \/ Rollback(d, label)
      PROVE  Kept
  BY <1>0, <1>6 DEF Proceed, Rollback, Goto, serialVars
<1>7. ASSUME NEW d \in Calls, Connect(d)
      PROVE  Kept
  <2>1. /\ pc' = [pc EXCEPT ![d] = AfterConnect[pc[d]]]
        /\ pc[d] \in Acquiring
        /\ UNCHANGED <<bids, command>>
    BY <1>7 DEF Connect, Proceed, Goto, serialVars
  <2>2. pc[d] # "reacquire" => AfterConnect[pc[d]] # "resolve"
                               /\ AfterConnect[pc[d]] # "reacquire"
    BY <2>1 DEF AfterConnect, Acquiring
  <2> QED
    BY <1>0, <2>1, <2>2
<1>8. ASSUME NEW d \in Calls, InsertBid(d)
      PROVE  BidsOf(command[c].request_id)' # {}
  <2>1. CASE Rollback(d, "reacquire") /\ BidsOf(command[d].request_id) # {}
    <3>1. UNCHANGED <<bids, command>> /\ pc' = [pc EXCEPT ![d] = "reacquire"]
      BY <2>1 DEF Rollback, Goto, serialVars
    <3>2. CASE c = d
      BY <2>1, <3>1, <3>2 DEF BidsOf
    <3>3. CASE c # d
      BY <1>0, <1>1, <3>1, <3>3
    <3> QED
      BY <3>2, <3>3
  <2>2. CASE PutBid(d)
    BY <1>1, <1>6, <2>2 DEF PutBid, Labels
  <2> QED
    BY <1>8, <2>1, <2>2 DEF InsertBid
<1>9. ASSUME NEW d \in Calls, Commit(d, attempt[d], attempt[d] - 1)
      PROVE  Kept
  BY <1>0, <1>9 DEF Commit, Goto
<1>10. ASSUME NEW d \in Calls, Miss(d)
       PROVE  Kept
  BY <1>6, <1>10 DEF Miss, Labels, Acquiring
<1>11. ASSUME NEW d \in Calls, CallStep(d)
       PROVE  BidsOf(command[c].request_id)' # {}
  <2>1. CASE Check(d) \/ ClassifyCheck(d)
    BY <1>1, <1>5, <1>6, <2>1
       DEF Check, ClassifyCheck, CheckExisting, AnswerExisting, Labels
  <2>2. CASE Read(d) \/ ClassifyRead(d)
    BY <1>1, <1>5, <1>6, <2>2 DEF Read, ClassifyRead, ReadAuction, Labels
  <2>3. CASE Evaluate(d)
    BY <1>1, <1>5, <1>6, <2>3 DEF Evaluate, EvaluateNow, RefuseBid, Labels
  <2>4. CASE StartUpdate(d)
    BY <1>1, <1>6, <1>10, <2>4 DEF StartUpdate, Labels
  <2>5. CASE FinishUpdate(d)
    BY <1>1, <1>6, <1>10, <2>5 DEF FinishUpdate, WriteAuction, Labels
  <2>6. CASE ClassifyEvaluate(d)
    BY <1>1, <1>5, <1>6, <2>6
       DEF ClassifyEvaluate, RefuseBid, Labels, Acquiring
  <2>7. CASE ResolveDuplicate(d)
    BY <1>1, <1>5, <2>7 DEF ResolveDuplicate
  <2> QED
    BY <1>1, <1>7, <1>8, <1>9, <1>11, <2>1, <2>2, <2>3, <2>4, <2>5, <2>6, <2>7
       DEF CallStep
<1>12. ASSUME NEW d \in Calls,
              PoolTimeout(d) \/ LoseConnection(d) \/ WaitExpires(d)
       PROVE  Kept
  BY <1>5, <1>12 DEF PoolTimeout, LoseConnection, WaitExpires,
                     StatementTimeout, LockTimeout
<1> QED
  BY <1>1, <1>2, <1>3, <1>4, <1>11, <1>12 DEF Next, vars, Quiescent

-----------------------------------------------------------------------------
(* An empty database with no calls satisfies the inductive invariant. *)
LEMMA InitEstablishes == Init => TypeOK /\ VersionProtocol /\ ResolveFindsBid
<1>1. Init => TypeOK
  BY BoundsAssumption
     DEF Init, StoreInit, SerialInit, TypeOK, StoreTypeOK, SerialTypeOK, Time,
         Labels
<1>2. Init => VersionProtocol
  BY DEF Init, StoreInit, SerialInit, VersionProtocol, CallIsSound, IsPending,
         SeesThePast, IsJudged, InsertIsSound, UpdateIsSound,
         AttemptsAreOvertaken, MissesAreCounted, RequestsAreExclusive,
         Reading, Writing
<1>3. Init => ResolveFindsBid
  BY DEF Init, StoreInit, ResolveFindsBid
<1> QED
  BY <1>1, <1>2, <1>3

(***************************************************************************)
(* Tables, locks and the frames of all calls, their attempts and their     *)
(* misses included, always have their types.                               *)
(***************************************************************************)
THEOREM OptimisticTypeCorrect == Spec => []TypeOK
BY InitEstablishes, TypeStep, ProtocolStep, ResolveStep, PTL DEF Spec

(***************************************************************************)
(* A call always knows what it may conclude from its unlocked read.        *)
(***************************************************************************)
THEOREM OptimisticProtocol == Spec => []VersionProtocol
BY InitEstablishes, TypeStep, ProtocolStep, ResolveStep, PTL DEF Spec

(***************************************************************************)
(* A call that was told of a UniqueViolation finds the bid that caused it: *)
(* _resolve_duplicate_request never raises its RuntimeError.               *)
(***************************************************************************)
THEOREM OptimisticResolves == Spec => []ResolveFindsBid
BY InitEstablishes, TypeStep, ProtocolStep, ResolveStep, PTL DEF Spec

(***************************************************************************)
(* However many calls interleave, miss, retry, fail or repeat each other,  *)
(* the callers of the optimistic strategy see a serial auction.            *)
(***************************************************************************)
THEOREM OptimisticIsSerial == Spec => SerialSpec
<1>1. Init => SerialInit
  BY DEF Init, StoreInit
<1> QED
  BY <1>1, StepRefines, OptimisticTypeCorrect, OptimisticProtocol,
     OptimisticResolves, PTL DEF Spec, SerialSpec

(***************************************************************************)
(* The bids that the optimistic strategy commits form serial histories.    *)
(***************************************************************************)
THEOREM OptimisticHistory == Spec => []HistoryIsSerial
BY OptimisticIsSerial, SerialHistory, PTL

(***************************************************************************)
(* The optimistic strategy carries a request out at most once and tells    *)
(* every caller the truth about it.                                        *)
(***************************************************************************)
THEOREM OptimisticOutcomes == Spec => []OutcomesAgree
BY OptimisticIsSerial, SerialOutcomes, PTL

(***************************************************************************)
(* The checker's verdict on what the optimistic strategy has stored is     *)
(* right: a violation is reported if and only if there is one.             *)
(***************************************************************************)
THEOREM OptimisticChecker == Spec => []CheckerIsExact
BY OptimisticIsSerial, SerialChecker, PTL

(***************************************************************************)
(* The conditional UPDATE misses only when another bid, or the end of the  *)
(* auction, came first.                                                    *)
(***************************************************************************)
THEOREM OptimisticMisses == Spec => []MissMeansOvertaken
<1>1. VersionProtocol => MissMeansOvertaken
  BY DEF VersionProtocol, CallIsSound, AttemptsAreOvertaken,
         MissMeansOvertaken, Row
<1> QED
  BY <1>1, OptimisticProtocol, PTL

-----------------------------------------------------------------------------
(* No step moves a bid out of the window of its auction or commits one that
   lies outside. *)
LEMMA WindowStep ==
  TypeOK /\ VersionProtocol /\ ResolveFindsBid /\ HistoryIsSerial
  /\ AcceptedInsideWindow /\ [Next]_vars => AcceptedInsideWindow'
<1> SUFFICES ASSUME TypeOK, VersionProtocol, ResolveFindsBid, HistoryIsSerial,
                    AcceptedInsideWindow, [Next]_vars, NEW b \in bids'
             PROVE  derive_auction_state(auctions'[b.auction_id], b.accepted_at)
                      = "open"
  BY DEF AcceptedInsideWindow
<1>0. SerialTypeOK /\ [SerialNext]_serialVars
  BY StepRefines DEF TypeOK, StoreTypeOK
<1>1. RowsMoveForward
  BY <1>0, AdvanceStep
<1>2. CASE b \in bids
  <2>1. b.auction_id \in Auctions /\ auctions[b.auction_id] # NULL
    BY <1>0, <1>2 DEF SerialTypeOK, AcceptedBid, HistoryIsSerial,
                      BidsBelongToAuctions
  <2>2. Later(auctions[b.auction_id], auctions'[b.auction_id])
    BY <1>1, <2>1 DEF RowsMoveForward
  <2> QED
    BY <1>2, <2>2 DEF AcceptedInsideWindow, Later, derive_auction_state
<1>3. CASE b \notin bids
  <2>1. PICK c \in Calls : Commit(c, attempt[c], attempt[c] - 1)
    BY <1>3 DEF Next, vars, storeVars, serialVars, Tick, PassTime, create, List,
                place_bid, Call, Quiescent, PoolTimeout, LoseConnection,
                WaitExpires, StatementTimeout, LockTimeout, CallStep, Connect,
                Check, ClassifyCheck, CheckExisting, AnswerExisting, Read,
                ClassifyRead, ReadAuction, Evaluate, EvaluateNow, RefuseBid,
                InsertBid, PutBid, StartUpdate, FinishUpdate, WriteAuction,
                Miss, Rollback, ClassifyEvaluate, ResolveDuplicate, Return,
                Proceed
  <2>2. b = inserted[c]
    BY <1>3, <2>1 DEF Commit
  <2>3. CallIsSound(c) /\ pc[c] = "commit"
    BY <2>1 DEF Commit, VersionProtocol
  <2>4. PICK at : inserted[c] = NewBid(c, command[c], seen[c].version + 1, at)
    BY <2>3 DEF CallIsSound, InsertIsSound, Writing
  <2>5. b.auction_id = command[c].auction_id
    BY <2>2, <2>4 DEF NewBid
  <2>6. Row(c) # NULL /\ command[c].auction_id \in Auctions
    BY <2>3, CallTypes DEF CallIsSound, SeesThePast, Reading, IsPending, Pending
  <2>7. Later(Row(c), auctions'[command[c].auction_id])
    BY <1>1, <2>6 DEF RowsMoveForward, Row
  <2>8. derive_auction_state(Row(c), b.accepted_at) = "open"
    BY <2>1, <2>2, CommitRefines
  <2> QED
    BY <2>5, <2>7, <2>8 DEF Later, derive_auction_state
<1> QED
  BY <1>2, <1>3

(***************************************************************************)
(* Every bid that the optimistic strategy commits bears a time inside the  *)
(* window of its auction: the validation clock of the UPDATE comes after   *)
(* the INSERT and before the end.                                          *)
(***************************************************************************)
THEOREM OptimisticWindow == Spec => []AcceptedInsideWindow
<1>1. Init => AcceptedInsideWindow
  BY DEF Init, StoreInit, SerialInit, AcceptedInsideWindow
<1> QED
  BY <1>1, WindowStep, OptimisticTypeCorrect, OptimisticProtocol,
     OptimisticResolves, OptimisticHistory, PTL DEF Spec

-----------------------------------------------------------------------------
(* A call neither moves nor answers another. *)
LEMMA OthersStay ==
  ASSUME TypeOK, NEW c \in Calls, NEW d \in Calls \ {c},
         CallStep(d) \/ PoolTimeout(d) \/ LoseConnection(d) \/ WaitExpires(d)
  PROVE  pc'[c] = pc[c] /\ result'[c] = result[c]
<1> DEFINE Stays == pc'[c] = pc[c] /\ result'[c] = result[c]
<1>0. /\ pc \in [Calls -> Labels]
      /\ result \in [Calls -> BidOutcome \cup {NULL}]
  BY DEF TypeOK, StoreTypeOK, SerialTypeOK
<1>1. ASSUME NEW outcome, Return(d, outcome)
      PROVE  Stays
  BY <1>0, <1>1 DEF Return, Goto
<1>2. ASSUME NEW label, Proceed(d, label) \/ Rollback(d, label)
      PROVE  Stays
  BY <1>0, <1>2 DEF Proceed, Rollback, Goto, serialVars
<1>3. CASE Check(d) \/ ClassifyCheck(d) \/ Read(d) \/ ClassifyRead(d)
  BY <1>1, <1>2, <1>3 DEF Check, ClassifyCheck, CheckExisting, AnswerExisting,
                          Read, ClassifyRead, ReadAuction
<1>4. CASE Evaluate(d) \/ ClassifyEvaluate(d)
  BY <1>1, <1>2, <1>4 DEF Evaluate, EvaluateNow, ClassifyEvaluate, RefuseBid
<1>5. CASE Connect(d) \/ InsertBid(d) \/ StartUpdate(d) \/ FinishUpdate(d)
  BY <1>2, <1>5 DEF Connect, InsertBid, PutBid, StartUpdate, FinishUpdate, Miss,
                    WriteAuction
<1>6. CASE Commit(d, attempt[d], attempt[d] - 1)
  BY <1>0, <1>6 DEF Commit, Goto
<1>7. CASE \/ ResolveDuplicate(d) \/ PoolTimeout(d)
           \/ LoseConnection(d) \/ WaitExpires(d)
  BY <1>1, <1>7 DEF ResolveDuplicate, PoolTimeout, LoseConnection, WaitExpires,
                    StatementTimeout, LockTimeout
<1> QED
  BY <1>3, <1>4, <1>5, <1>6, <1>7 DEF CallStep

(* A call that repeats a committed request stays one, whatever it or the
   others do. *)
LEMMA RepeatStep ==
  ASSUME TypeOK, VersionProtocol, ResolveFindsBid, [Next]_vars,
         NEW c \in Calls, NEW cmd \in Commands, Repeats(c, cmd)
  PROVE  Repeats(c, cmd)'
<1>0. /\ StoreTypeOK /\ pc \in [Calls -> Labels]
      /\ command \in [Calls -> BidCommand \cup {NULL}]
      /\ cmd # NULL
  BY CommandsAssumption, NullAssumption DEF TypeOK, StoreTypeOK, SerialTypeOK
<1>1. AnswersStand
  BY StepRefines, FinalStep DEF TypeOK, StoreTypeOK
<1>2. BidsOf(cmd.request_id)' # {}
  BY <1>1 DEF AnswersStand, Repeats, BidsOf
<1>3. CASE command[c] # cmd /\ command'[c] # cmd
  BY <1>2, <1>3 DEF Repeats
<1>4. CASE command[c] # cmd /\ command'[c] = cmd
  <2>1. command[c] = NULL /\ pc[c] = "idle" /\ result[c] = NULL
    BY <1>1, <1>4 DEF AnswersStand, VersionProtocol, CallIsSound, IsPending
  <2>2. PICK d \in Calls, new \in Commands : place_bid(d, new)
    BY <1>4 DEF Next, vars, storeVars, serialVars, Tick, PassTime, create, List,
                Quiescent, PoolTimeout, LoseConnection, WaitExpires,
                StatementTimeout, LockTimeout, CallStep, Connect, Check,
                ClassifyCheck, CheckExisting, AnswerExisting, Read,
                ClassifyRead, ReadAuction, Evaluate, EvaluateNow, RefuseBid,
                InsertBid, PutBid, StartUpdate, FinishUpdate, WriteAuction,
                Miss, Rollback, ClassifyEvaluate, ResolveDuplicate, Return,
                Proceed, Commit
  <2>3. d = c /\ pc'[c] = "connect" /\ result'[c] = NULL
    BY <1>0, <1>4, <2>1, <2>2 DEF place_bid, Call, Goto
  <2> QED
    BY <1>2, <2>3 DEF Repeats, Spared, Ended
<1>5. CASE command[c] = cmd
  <2>1. command'[c] = cmd /\ pc[c] \in {"connect", "check", "done"}
    BY <1>0, <1>1, <1>5 DEF AnswersStand, Repeats
  <2>2. CASE pc'[c] = pc[c] /\ result'[c] = result[c]
    BY <1>0, <1>1, <1>5, <2>2, RepeatMoves
  <2>3. CASE Connect(c)
    <3>1. /\ pc[c] = "connect" /\ result' = result
          /\ pc' = [pc EXCEPT ![c] = AfterConnect[pc[c]]]
      BY <2>1, <2>3 DEF Connect, Proceed, Goto, Acquiring, serialVars
    <3>2. AfterConnect["connect"] = "check"
      BY DEF AfterConnect
    <3> QED
      BY <1>0, <1>1, <1>5, <3>1, <3>2, RepeatMoves
  <2>4. CASE Check(c)
    <3>1. AnswerExisting(c, attempt[c], attempt[c] - 1)
      BY <1>5, <2>4 DEF Check, CheckExisting, Repeats
    <3>2. PICK outcome \in Answers(c, attempt[c], attempt[c] - 1) :
            Return(c, outcome)
      BY <3>1 DEF AnswerExisting
    <3> QED
      BY <1>0, <1>1, <3>2, RepeatEnds
  <2>5. CASE PoolTimeout(c) \/ LoseConnection(c) \/ WaitExpires(c)
    <3>1. PICK e \in Exceptions : Return(c, raised(e))
      BY <2>5 DEF PoolTimeout, LoseConnection, WaitExpires, StatementTimeout,
                  LockTimeout, Exceptions
    <3> QED
      BY <1>0, <1>1, <3>1, RepeatEnds
  <2>6. ASSUME CallStep(c)
        PROVE  Connect(c) \/ Check(c)
    BY <2>1, <2>6 DEF CallStep, Read, ReadAuction, Evaluate, EvaluateNow,
                      InsertBid, StartUpdate, FinishUpdate, Commit,
                      ClassifyCheck, CheckExisting, ClassifyRead,
                      ClassifyEvaluate, ResolveDuplicate
  <2>7. ASSUME NEW d \in Calls, NEW new \in Commands, place_bid(d, new)
        PROVE  pc'[c] = pc[c] /\ result'[c] = result[c]
    BY <1>0, <1>5, <2>7 DEF place_bid, Call, Goto
  <2>8. CASE \E d \in Calls \ {c} : \/ CallStep(d) \/ PoolTimeout(d)
                                    \/ LoseConnection(d) \/ WaitExpires(d)
    BY <2>2, <2>8, OthersStay
  <2>9. CASE UNCHANGED <<pc, result>>
    BY <2>2, <2>9
  <2>10. \/ UNCHANGED <<pc, result>>
         \/ \E d \in Calls, new \in Commands : place_bid(d, new)
         \/ \E d \in Calls : \/ CallStep(d) \/ PoolTimeout(d)
                              \/ LoseConnection(d) \/ WaitExpires(d)
    BY DEF Next, vars, storeVars, serialVars, Tick, PassTime, create, List,
           Quiescent
  <2> QED
    BY <2>2, <2>3, <2>4, <2>5, <2>6, <2>7, <2>8, <2>9, <2>10
<1> QED
  BY <1>3, <1>4, <1>5

(***************************************************************************)
(* A client that repeats a request once its bid is committed gets the bid  *)
(* or an exception, never a refusal, however often the auction has been    *)
(* bid on and whether or not it has closed since.  Only copies that        *)
(* overlap can be turned away because their own twin has raised the price. *)
(***************************************************************************)
THEOREM OptimisticRetries == Spec => RetriesAreSpared
<1>1. ASSUME NEW c \in Calls, NEW cmd \in Commands
      PROVE  Spec => RetryIsSpared(c, cmd)
  <2> DEFINE Comes == command[c] = NULL /\ BidsOf(cmd.request_id) # {}
  <2>1. Comes => Repeats(c, cmd)
    BY CommandsAssumption, NullAssumption DEF Repeats
  <2>2. TypeOK /\ VersionProtocol /\ ResolveFindsBid /\ Repeats(c, cmd)
        /\ [Next]_vars => Repeats(c, cmd)'
    BY RepeatStep
  <2>3. Repeats(c, cmd) => (command[c] = cmd => Spared(c))
    BY DEF Repeats
  <2> QED
    BY <2>1, <2>2, <2>3, OptimisticTypeCorrect, OptimisticProtocol,
       OptimisticResolves, PTL DEF Spec, RetryIsSpared
<1> QED
  BY <1>1 DEF RetriesAreSpared

=============================================================================
