---------------------------- MODULE UnsafeProofs ----------------------------
(***************************************************************************)
(* What the baseline guarantees in spite of its lost updates, and that it  *)
(* guarantees everything as long as no two calls overlap.                  *)
(*                                                                         *)
(* A call overwrites rows that it has not read, so what it has seen says   *)
(* nothing of the price any more; the columns of the listing are all that  *)
(* the row it overwrites has in common with it.                            *)
(***************************************************************************)
EXTENDS UnsafeStrategy, BidStoreProofs

Row(c) == auctions[command[c].auction_id]

Writing == {"update", "commit"}

Judged == {"insert"} \cup Writing

Working == {"clock"} \cup Judged

(* The same listing, with whatever price, winner and version. *)
SameListing(row, new) ==
  /\ new.starting_price_cents = row.starting_price_cents
  /\ new.minimum_increment_cents = row.minimum_increment_cents
  /\ new.starts_at = row.starts_at
  /\ new.ends_at = row.ends_at

(* A call is pending from its first statement to its last. *)
IsPending(c) ==
  /\ pc[c] = "idle" <=> command[c] = NULL
  /\ pc[c] = "idle" => result[c] = NULL
  /\ pc[c] \notin {"idle", "done"} => Pending(c)
  /\ arrived[c] <= clock

(* What a call has read was a valid row of its auction. *)
SeesARow(c) ==
  pc[c] \in Working => /\ Row(c) # NULL
                       /\ seen[c] # NULL
                       /\ ValidSnapshot(seen[c])
                       /\ SameListing(seen[c], Row(c))

(* A bid about to be written was admitted on what its call has read. *)
IsJudged(c) ==
  pc[c] \in Judged =>
    /\ readTime[c] \in arrived[c]..clock
    /\ evaluate_bid(seen[c], command[c].amount_cents, readTime[c]) = "accepted"

(* An uncommitted bid is the next one of the row its call has read, and its
   request id is not taken. *)
InsertIsSound(c) ==
  /\ inserted[c] # NULL <=> pc[c] \in Writing
  /\ pc[c] \in Writing =>
       LET at == inserted[c].accepted_at
       IN  /\ inserted[c] = NewBid(c, command[c], seen[c].version + 1, at)
           /\ BidsOf(command[c].request_id) = {}
           /\ at \in readTime[c]..clock

(* The row about to be committed is what the bid makes of the row read. *)
UpdateIsSound(c) ==
  pc[c] = "commit" =>
    updated[c] = WithWinner(seen[c], c, command[c].amount_cents,
                            seen[c].version + 1)

(* A UniqueViolation was that of the request id. *)
FindsItsBid(c) ==
  pc[c] \in {"reacquire", "resolve"} => BidsOf(command[c].request_id) # {}

CallIsSound(c) ==
  /\ IsPending(c)
  /\ SeesARow(c)
  /\ IsJudged(c)
  /\ InsertIsSound(c)
  /\ UpdateIsSound(c)
  /\ FindsItsBid(c)

(* The unique index admits one uncommitted bid per request id. *)
RequestsAreExclusive ==
  \A c, d \in Calls : c # d /\ pc[c] \in Writing /\ pc[d] \in Writing =>
    command[c].request_id # command[d].request_id

(* As long as no two calls have overlapped, what a call has read is the row. *)
AloneIsCurrent ==
  ~ overlapped =>
    /\ \A c, d \in Calls : Connected(c) /\ Connected(d) => c = d
    /\ \A c \in Calls : pc[c] \in Working => seen[c] = Row(c)

UnsafeInv ==
  /\ StoreTypeOK
  /\ overlapped \in BOOLEAN
  /\ \A c \in Calls : CallIsSound(c)
  /\ RequestsAreExclusive
  /\ OwnersHaveEnded
  /\ OutcomesAgree
  /\ RowsDescribeABid
  /\ AloneIsCurrent

-----------------------------------------------------------------------------
(***************************************************************************)
(* The types that the facts about one call rest on.                        *)
(***************************************************************************)
LEMMA CallTypes ==
  ASSUME StoreTypeOK, NEW c \in Calls
  PROVE  /\ clock \in Nat /\ arrived[c] \in Nat /\ readTime[c] \in Nat
         /\ seen[c] # NULL => seen[c] \in AuctionSnapshot
         /\ command[c] # NULL => /\ command[c] \in BidCommand
                                 /\ command[c].auction_id \in Auctions
                                 /\ command[c].amount_cents \in Money
                                 /\ Row(c) # NULL => Row(c) \in AuctionSnapshot
<1>1. clock \in Nat /\ arrived[c] \in Nat /\ readTime[c] \in Nat
  BY BoundsAssumption DEF StoreTypeOK, SerialTypeOK, Time
<1>2. seen[c] # NULL => seen[c] \in AuctionSnapshot
  BY DEF StoreTypeOK
<1>3. command[c] # NULL => command[c] \in BidCommand
  BY DEF StoreTypeOK, SerialTypeOK
<1>4. command[c] # NULL => /\ command[c].auction_id \in Auctions
                           /\ command[c].amount_cents \in Money
  BY <1>3 DEF BidCommand
<1>5. command[c] # NULL /\ Row(c) # NULL => Row(c) \in AuctionSnapshot
  BY <1>4 DEF Row, StoreTypeOK, SerialTypeOK
<1> QED
  BY <1>1, <1>2, <1>3, <1>4, <1>5

(* No step unlists an auction or changes what its operator listed. *)
ListingsStay ==
  \A a \in Auctions : auctions[a] # NULL =>
    auctions'[a] # NULL /\ SameListing(auctions[a], auctions'[a])

(* The frame of a call that does not take the step. *)
FrameStays(d) ==
  UNCHANGED <<pc[d], seen[d], readTime[d], inserted[d], updated[d],
              command[d], arrived[d], result[d]>>

OthersStay(c) == \A d \in Calls \ {c} : FrameStays(d)

(* How the history variable follows a step. *)
Overlaps ==
  overlapped' = (overlapped \/ \E c, d \in Calls :
                                 c # d /\ Connected(c)' /\ Connected(d)')

(***************************************************************************)
(* What a step may do to a call that does not take it: time may pass, the  *)
(* row it has read may be overwritten, and bids may be added under other   *)
(* request ids.                                                            *)
(***************************************************************************)
LEMMA OthersKeep ==
  ASSUME StoreTypeOK, NEW d \in Calls, CallIsSound(d), FrameStays(d),
         ListingsStay, clock' \in Nat, clock <= clock', bids \subseteq bids',
         pc[d] \in Writing => BidsOf(command[d].request_id)' = {}
  PROVE  CallIsSound(d)'
<1> DEFINE a == command[d].auction_id
<1>1. clock \in Nat /\ arrived[d] \in Nat /\ readTime[d] \in Nat
  BY CallTypes
<1>2. pc[d] \notin {"idle", "done"} => Pending(d) /\ a \in Auctions
  BY CallTypes DEF CallIsSound, IsPending, Pending
<1>3. Row(d)' = auctions'[a]
  BY DEF Row, FrameStays
<1>4. IsPending(d)'
  BY <1>1 DEF CallIsSound, IsPending, Pending, FrameStays
<1>5. SeesARow(d)'
  <2> SUFFICES ASSUME pc[d] \in Working
               PROVE  /\ auctions'[a] # NULL
                      /\ seen[d] # NULL
                      /\ ValidSnapshot(seen[d])
                      /\ SameListing(seen[d], auctions'[a])
    BY <1>3 DEF SeesARow, FrameStays, ValidSnapshot, SameListing
  <2>1. /\ Row(d) # NULL /\ seen[d] # NULL /\ ValidSnapshot(seen[d])
        /\ SameListing(seen[d], Row(d))
    BY DEF CallIsSound, SeesARow
  <2>2. auctions'[a] # NULL /\ SameListing(Row(d), auctions'[a])
    BY <1>2, <2>1 DEF ListingsStay, Row, Working, Judged, Writing
  <2> QED
    BY <2>1, <2>2 DEF SameListing
<1>6. IsJudged(d)'
  BY <1>1 DEF CallIsSound, IsJudged, FrameStays
<1>7. InsertIsSound(d)'
  <2>1. pc[d] \in Writing => inserted[d].accepted_at \in Int
    BY <1>1 DEF CallIsSound, InsertIsSound
  <2>2. pc[d] \in Writing => inserted[d].accepted_at \in readTime[d]..clock'
    BY <1>1, <2>1 DEF CallIsSound, InsertIsSound
  <2> QED
    BY <2>2 DEF CallIsSound, InsertIsSound, FrameStays
<1>8. UpdateIsSound(d)'
  BY DEF CallIsSound, UpdateIsSound, FrameStays
<1>9. FindsItsBid(d)'
  BY DEF CallIsSound, FindsItsBid, FrameStays, BidsOf
<1> QED
  BY <1>4, <1>5, <1>6, <1>7, <1>8, <1>9 DEF CallIsSound

(***************************************************************************)
(* A call is alone as long as no two have overlapped.                      *)
(***************************************************************************)
LEMMA AloneStep ==
  ASSUME overlapped \in BOOLEAN, AloneIsCurrent, Overlaps, ~ overlapped'
  PROVE  /\ ~ overlapped
         /\ \A c, d \in Calls : Connected(c) /\ Connected(d) => c = d
         /\ \A c, d \in Calls : Connected(c)' /\ Connected(d)' => c = d
         /\ \A c \in Calls : pc[c] \in Working => seen[c] = Row(c)
BY DEF AloneIsCurrent, Overlaps

(***************************************************************************)
(* A statement that commits nothing keeps the invariant when it leaves its *)
(* own call sound.                                                         *)
(***************************************************************************)
LEMMA StatementKeeps ==
  ASSUME UnsafeInv, NEW c \in Calls, OthersStay(c), UNCHANGED serialVars,
         StoreTypeOK', Overlaps, CallIsSound(c)',
         pc'[c] \in Writing =>
           \/ pc[c] \in Writing
           \/ \A d \in Calls \ {c} : pc[d] \in Writing =>
                command[d].request_id # command[c].request_id,
         pc'[c] \in Working =>
           \/ seen'[c] = Row(c)
           \/ pc[c] \in Working /\ seen'[c] = seen[c]
  PROVE  UnsafeInv'
<1>0. StoreTypeOK /\ UNCHANGED <<auctions, bids, clock, command, arrived, result>>
  BY DEF UnsafeInv, serialVars
<1>1. ListingsStay
  BY <1>0 DEF ListingsStay, SameListing
<1>2. clock' \in Nat /\ clock <= clock' /\ bids \subseteq bids'
  BY <1>0, CallTypes
<1>3. ASSUME NEW d \in Calls \ {c}
      PROVE  CallIsSound(d)'
  <2>1. CallIsSound(d) /\ FrameStays(d)
    BY DEF UnsafeInv, OthersStay
  <2>2. pc[d] \in Writing => BidsOf(command[d].request_id)' = {}
    BY <1>0, <2>1 DEF CallIsSound, InsertIsSound, BidsOf
  <2> QED
    BY <1>0, <1>1, <1>2, <2>1, <2>2, OthersKeep
<1>4. RequestsAreExclusive'
  BY <1>0 DEF UnsafeInv, RequestsAreExclusive, OthersStay, FrameStays
<1>5. OwnersHaveEnded' /\ OutcomesAgree' /\ RowsDescribeABid'
  BY <1>0 DEF UnsafeInv, OwnersHaveEnded, OutcomesAgree, BidsOf,
              RowsDescribeABid
<1>6. AloneIsCurrent'
  <2> SUFFICES ASSUME ~ overlapped'
               PROVE  /\ \A x, y \in Calls : Connected(x)' /\ Connected(y)'
                                               => x = y
                      /\ \A x \in Calls : pc'[x] \in Working
                                            => seen'[x] = Row(x)'
    BY DEF AloneIsCurrent
  <2>1. /\ \A x, y \in Calls : Connected(x)' /\ Connected(y)' => x = y
        /\ \A x \in Calls : pc[x] \in Working => seen[x] = Row(x)
    BY AloneStep DEF UnsafeInv
  <2> QED
    BY <1>0, <2>1 DEF OthersStay, FrameStays, Row
<1>7. overlapped' \in BOOLEAN
  BY DEF Overlaps
<1> QED
  BY <1>3, <1>4, <1>5, <1>6, <1>7 DEF UnsafeInv

(***************************************************************************)
(* An answer that reports no bid but a stored one keeps the invariant.     *)
(***************************************************************************)
Honest(c, outcome) ==
  /\ outcome \in BidOutcome
  /\ \/ /\ outcome.status = "replayed"
        /\ outcome.bid \in BidsOf(command[c].request_id)
        /\ Matches(outcome.bid, command[c])
     \/ outcome.status \notin {"accepted", "replayed"}

LEMMA ReturnKeeps ==
  ASSUME UnsafeInv, NEW c \in Calls, NEW outcome, Honest(c, outcome),
         pc[c] \notin {"idle", "done"}, Return(c, outcome), Overlaps
  PROVE  UnsafeInv'
<1>0. /\ StoreTypeOK /\ SerialTypeOK /\ Pending(c) /\ CallIsSound(c)
      /\ UNCHANGED <<auctions, bids, clock, command, arrived>>
      /\ result' = [result EXCEPT ![c] = outcome]
  BY DEF UnsafeInv, StoreTypeOK, CallIsSound, IsPending, Return
<1>1. /\ pc' \in [Calls -> Labels] /\ pc'[c] = "done"
      /\ \A d \in Calls \ {c} : pc'[d] = pc[d]
  BY <1>0, GotoFrame DEF Return, Labels
<1>2. /\ \A d \in Calls \ {c} : /\ inserted'[d] = inserted[d]
                                /\ updated'[d] = updated[d]
                                /\ seen'[d] = seen[d]
                                /\ readTime'[d] = readTime[d]
      /\ inserted'[c] = NULL
      /\ seen' \in [Calls -> AuctionSnapshot \cup {NULL}]
      /\ readTime' \in [Calls -> Time]
      /\ rowLock' \in [Auctions -> Calls \cup {NULL}]
      /\ inserted' \in [Calls -> AcceptedBid \cup {NULL}]
      /\ updated' \in [Calls -> AuctionSnapshot \cup {NULL}]
  BY <1>0, EndFrame DEF Return
<1>3. StoreTypeOK'
  BY <1>0, <1>1, <1>2 DEF StoreTypeOK, SerialTypeOK, Honest
<1>4. OthersStay(c)
  BY <1>0, <1>1, <1>2 DEF OthersStay, FrameStays, SerialTypeOK
<1>5. ListingsStay /\ clock' \in Nat /\ clock <= clock' /\ bids \subseteq bids'
  BY <1>0, CallTypes DEF ListingsStay, SameListing
<1>6. CallIsSound(c)'
  BY <1>0, <1>1, <1>2
     DEF CallIsSound, IsPending, Pending, SeesARow, IsJudged, InsertIsSound,
         UpdateIsSound, FindsItsBid, Working, Judged, Writing
<1>7. ASSUME NEW d \in Calls \ {c}
      PROVE  CallIsSound(d)'
  <2>1. CallIsSound(d) /\ FrameStays(d)
    BY <1>4 DEF UnsafeInv, OthersStay
  <2>2. pc[d] \in Writing => BidsOf(command[d].request_id)' = {}
    BY <1>0, <2>1 DEF CallIsSound, InsertIsSound, BidsOf
  <2> QED
    BY <1>0, <1>5, <2>1, <2>2, OthersKeep
<1>8. RequestsAreExclusive'
  BY <1>0, <1>1 DEF UnsafeInv, RequestsAreExclusive, Writing
<1>9. OwnersHaveEnded' /\ OutcomesAgree'
  BY <1>0, AnswerAgrees DEF UnsafeInv, Honest
<1>10. RowsDescribeABid'
  BY <1>0 DEF UnsafeInv, RowsDescribeABid
<1>11. AloneIsCurrent'
  <2> SUFFICES ASSUME ~ overlapped'
               PROVE  /\ \A x, y \in Calls : Connected(x)' /\ Connected(y)'
                                               => x = y
                      /\ \A x \in Calls : pc'[x] \in Working
                                            => seen'[x] = Row(x)'
    BY DEF AloneIsCurrent
  <2>1. /\ \A x, y \in Calls : Connected(x)' /\ Connected(y)' => x = y
        /\ \A x \in Calls : pc[x] \in Working => seen[x] = Row(x)
    BY AloneStep DEF UnsafeInv
  <2>2. pc'[c] \notin Working
    BY <1>1 DEF Working, Judged, Writing
  <2> QED
    BY <1>0, <1>4, <2>1, <2>2 DEF OthersStay, FrameStays, Row
<1>12. overlapped' \in BOOLEAN
  BY DEF Overlaps
<1> QED
  BY <1>3, <1>6, <1>7, <1>8, <1>9, <1>10, <1>11, <1>12 DEF UnsafeInv

(* The answers that the statements give are honest. *)
LEMMA AnswersAreHonest ==
  ASSUME StoreTypeOK, NEW c \in Calls
  PROVE  /\ \A outcome \in Answers(c, 1, 0) : Honest(c, outcome)
         /\ \A exception \in Exceptions : Honest(c, raised(exception))
         /\ \A reason \in BidRejectionReason, minimum \in Money \cup {NULL} :
              Honest(c, rejected(reason, minimum, 1, 0))
<1>0. 1 \in 1..MaxAttempts /\ 0 \in 0..MaxAttempts
  BY BoundsAssumption
<1>1. ASSUME NEW exception \in Exceptions
      PROVE  Honest(c, raised(exception))
  <2>1. raised(exception) \in BidOutcome
    BY <1>0, OutcomeTypes
  <2> QED
    BY <2>1 DEF Honest, raised, Exceptions
<1>2. ASSUME NEW reason \in BidRejectionReason, NEW minimum \in Money \cup {NULL}
      PROVE  Honest(c, rejected(reason, minimum, 1, 0))
  <2>1. rejected(reason, minimum, 1, 0) \in BidOutcome
    BY <1>0, OutcomeTypes
  <2> QED
    BY <2>1 DEF Honest, rejected
<1>3. ASSUME NEW bid \in BidsOf(command[c].request_id)
      PROVE  Honest(c, replay_or_reject(bid, command[c], 1, 0))
  <2>1. CASE Matches(bid, command[c])
    <3>1. replayed(bid, 1, 0) \in BidOutcome
      BY <1>0, OutcomeTypes DEF BidsOf, StoreTypeOK, SerialTypeOK
    <3> QED
      BY <2>1, <3>1 DEF replay_or_reject, replayed, ReportBid, Honest
  <2>2. CASE ~ Matches(bid, command[c])
    BY <1>2, <2>2 DEF replay_or_reject, BidRejectionReason
  <2> QED
    BY <2>1, <2>2
<1> QED
  BY <1>1, <1>2, <1>3 DEF Answers

(* The statements before the read keep the invariant. *)
LEMMA MoveKeeps ==
  ASSUME UnsafeInv, NEW c \in Calls, NEW label,
         \/ label \in {"check", "read"} /\ pc[c] \in {"connect", "check"}
         \/ label = "resolve" /\ pc[c] = "reacquire"
         \/ label = "classify_check" /\ pc[c] = "missed",
         Proceed(c, label), UNCHANGED txnVars, Overlaps
  PROVE  UnsafeInv'
<1>0. StoreTypeOK /\ CallIsSound(c)
  BY DEF UnsafeInv
<1>1. /\ pc' \in [Calls -> Labels] /\ pc'[c] = label
      /\ \A d \in Calls \ {c} : pc'[d] = pc[d]
  BY <1>0, GotoFrame DEF Proceed, Labels
<1>2. /\ UNCHANGED serialVars
      /\ UNCHANGED <<auctions, bids, clock, command, arrived, result, seen,
                     readTime, rowLock, inserted, updated>>
  BY DEF Proceed, serialVars, txnVars
<1>3. StoreTypeOK'
  BY <1>0, <1>1, <1>2 DEF StoreTypeOK, SerialTypeOK
<1>4. OthersStay(c)
  BY <1>1, <1>2 DEF OthersStay, FrameStays
<1>5. CallIsSound(c)'
  BY <1>0, <1>1, <1>2
     DEF CallIsSound, IsPending, Pending, SeesARow, IsJudged, InsertIsSound,
         UpdateIsSound, FindsItsBid, BidsOf, Working, Judged, Writing
<1> QED
  BY <1>1, <1>2, <1>3, <1>4, <1>5, StatementKeeps DEF Working, Judged, Writing

(* Reading the auction without a lock keeps the invariant: the row is valid. *)
LEMMA ReadKeeps ==
  ASSUME UnsafeInv, NEW c \in Calls, Read(c), Overlaps
  PROVE  UnsafeInv'
<1>0. StoreTypeOK /\ CallIsSound(c) /\ pc[c] = "read" /\ Pending(c)
  BY DEF UnsafeInv, Read, ReadAuction, CallIsSound, IsPending
<1>1. CASE Row(c) = NULL
  BY <1>0, <1>1, ReturnKeeps, AnswersAreHonest
     DEF Read, ReadAuction, Row, BidRejectionReason
<1>2. CASE Row(c) # NULL
  <2>1. /\ seen' = [seen EXCEPT ![c] = Row(c)]
        /\ Proceed(c, "clock")
        /\ UNCHANGED <<auctions, bids, clock, command, arrived, result,
                       readTime, rowLock, inserted, updated>>
    BY <1>2 DEF Read, ReadAuction, Row, Proceed, serialVars
  <2>2. /\ pc' \in [Calls -> Labels] /\ pc'[c] = "clock"
        /\ \A d \in Calls \ {c} : pc'[d] = pc[d]
    BY <1>0, <2>1, GotoFrame DEF Proceed, Labels
  <2>3. /\ Row(c) \in AuctionSnapshot /\ command[c].auction_id \in Auctions
    BY <1>0, <1>2, CallTypes DEF Pending
  <2>4. /\ seen' \in [Calls -> AuctionSnapshot \cup {NULL}]
        /\ seen'[c] = Row(c) /\ Row(c)' = Row(c)
        /\ \A d \in Calls \ {c} : seen'[d] = seen[d]
    BY <1>0, <2>1, <2>3 DEF StoreTypeOK, Row
  <2>5. StoreTypeOK' /\ UNCHANGED serialVars
    BY <1>0, <2>1, <2>2, <2>4 DEF StoreTypeOK, SerialTypeOK, serialVars
  <2>6. OthersStay(c)
    BY <2>1, <2>2, <2>4 DEF OthersStay, FrameStays
  <2>7. ValidSnapshot(Row(c))
    BY <1>2, <2>3 DEF UnsafeInv, RowsDescribeABid, Row
  <2>8. SeesARow(c)'
    BY <1>2, <2>4, <2>7 DEF SeesARow, SameListing, ValidSnapshot
  <2>9. CallIsSound(c)'
    BY <1>0, <2>1, <2>2, <2>8
       DEF CallIsSound, IsPending, Pending, IsJudged, InsertIsSound,
           UpdateIsSound, FindsItsBid, Judged, Writing
  <2> QED
    BY <2>2, <2>4, <2>5, <2>6, <2>9, StatementKeeps DEF Writing
<1> QED
  BY <1>1, <1>2

(* What a call that has read a row knows of it. *)
LEMMA WorkingTypes ==
  ASSUME UnsafeInv, NEW c \in Calls, pc[c] \in Working
  PROVE  /\ StoreTypeOK /\ CallIsSound(c) /\ Pending(c)
         /\ Row(c) \in AuctionSnapshot /\ Row(c) # NULL
         /\ seen[c] \in AuctionSnapshot /\ seen[c] # NULL
         /\ ValidSnapshot(seen[c]) /\ SameListing(seen[c], Row(c))
         /\ seen[c].version + 1 \in Nat \ {0}
         /\ command[c] \in BidCommand
         /\ command[c].auction_id \in Auctions
         /\ command[c].amount_cents \in Money
         /\ clock \in Nat /\ arrived[c] \in Nat /\ readTime[c] \in Nat
<1>1. StoreTypeOK /\ CallIsSound(c)
  BY DEF UnsafeInv
<1>2. /\ Pending(c) /\ Row(c) # NULL /\ seen[c] # NULL
      /\ ValidSnapshot(seen[c]) /\ SameListing(seen[c], Row(c))
  BY <1>1 DEF CallIsSound, IsPending, SeesARow, Working, Judged, Writing
<1>3. seen[c] \in AuctionSnapshot
  BY <1>1, <1>2, CallTypes
<1>4. seen[c].version + 1 \in Nat \ {0}
  BY <1>3 DEF AuctionSnapshot
<1> QED
  BY <1>1, <1>2, <1>3, <1>4, CallTypes DEF Pending

(* Judging the bid on what was read keeps the invariant. *)
LEMMA EvaluateKeeps ==
  ASSUME UnsafeInv, NEW c \in Calls, Evaluate(c), Overlaps
  PROVE  UnsafeInv'
<1> DEFINE verdict == evaluate_bid(seen[c], command[c].amount_cents, clock)
<1>0. pc[c] = "clock" /\ pc[c] \in Working
  BY DEF Evaluate, EvaluateNow, Working
<1>1. /\ StoreTypeOK /\ CallIsSound(c) /\ Pending(c)
      /\ seen[c] \in AuctionSnapshot /\ command[c].amount_cents \in Money
      /\ clock \in Nat /\ arrived[c] \in Nat
  BY <1>0, WorkingTypes
<1>2. CASE RefuseBid(c, verdict, 1, 0)
  <2>1. /\ verdict \in {"accepted", "OverflowError", "auction_not_started",
                        "auction_closed", "bid_too_low"}
        /\ verdict # "OverflowError" => minimum_acceptable_bid(seen[c]) \in Money
    BY <1>1, Verdicts
  <2>2. \E outcome : Honest(c, outcome) /\ Return(c, outcome)
    <3> HIDE DEF verdict
    <3>1. CASE verdict = "OverflowError"
      BY <1>1, <1>2, <3>1, AnswersAreHonest DEF RefuseBid, Exceptions
    <3>2. CASE verdict # "OverflowError"
      <4>1. /\ verdict \in BidRejectionReason
            /\ Return(c, rejected(verdict, minimum_acceptable_bid(seen[c]), 1, 0))
        BY <1>2, <2>1, <3>2 DEF RefuseBid, BidRejectionReason
      <4> QED
        BY <1>1, <2>1, <3>2, <4>1, AnswersAreHonest
    <3> QED
      BY <3>1, <3>2
  <2> QED
    BY <1>0, <2>2, ReturnKeeps
<1>3. CASE /\ verdict = "accepted"
           /\ readTime' = [readTime EXCEPT ![c] = clock]
           /\ Proceed(c, "insert")
           /\ UNCHANGED <<seen, rowLock, inserted, updated>>
  <2>1. UNCHANGED <<auctions, bids, clock, command, arrived, result,
                    seen, rowLock, inserted, updated>>
    BY <1>3 DEF Proceed, serialVars
  <2>2. /\ pc' \in [Calls -> Labels] /\ pc'[c] = "insert"
        /\ \A d \in Calls \ {c} : pc'[d] = pc[d]
    BY <1>1, <1>3, GotoFrame DEF Proceed, Labels
  <2>3. /\ readTime' \in [Calls -> Time] /\ readTime'[c] = clock
        /\ \A d \in Calls \ {c} : readTime'[d] = readTime[d]
    BY <1>1, <1>3 DEF StoreTypeOK, SerialTypeOK
  <2>4. StoreTypeOK' /\ UNCHANGED serialVars
    BY <1>1, <2>1, <2>2, <2>3 DEF StoreTypeOK, SerialTypeOK, serialVars
  <2>5. OthersStay(c)
    BY <2>1, <2>2, <2>3 DEF OthersStay, FrameStays
  <2>6. IsPending(c)' /\ FindsItsBid(c)'
    BY <1>0, <1>1, <2>1, <2>2 DEF CallIsSound, IsPending, Pending, FindsItsBid
  <2>7. SeesARow(c)'
    <3>1. SeesARow(c) /\ Row(c)' = Row(c)
      BY <1>1, <2>1 DEF CallIsSound, Row
    <3> QED
      BY <1>0, <2>1, <3>1 DEF SeesARow, ValidSnapshot, SameListing
  <2>8. IsJudged(c)'
    <3>1. clock \in arrived[c]..clock
      BY <1>1 DEF CallIsSound, IsPending
    <3> QED
      BY <1>3, <2>1, <2>3, <3>1 DEF IsJudged
  <2>9. InsertIsSound(c)' /\ UpdateIsSound(c)'
    BY <1>0, <1>1, <2>1, <2>2
       DEF CallIsSound, InsertIsSound, UpdateIsSound, Writing
  <2>10. CallIsSound(c)'
    BY <2>6, <2>7, <2>8, <2>9 DEF CallIsSound
  <2> QED
    BY <1>0, <2>1, <2>2, <2>4, <2>5, <2>10, StatementKeeps DEF Writing
<1> QED
  BY <1>2, <1>3 DEF Evaluate, EvaluateNow

(* Inserting the bid keeps the invariant: the unique index lets it through
   only when no other transaction has the request id. *)
LEMMA InsertKeeps ==
  ASSUME UnsafeInv, NEW c \in Calls, InsertBid(c), Overlaps
  PROVE  UnsafeInv'
<1>0. pc[c] = "insert" /\ pc[c] \in Working
  BY DEF InsertBid, Working, Judged
<1>1. /\ StoreTypeOK /\ CallIsSound(c) /\ Pending(c)
      /\ seen[c] \in AuctionSnapshot /\ command[c] \in BidCommand
      /\ seen[c].version + 1 \in Nat \ {0}
      /\ clock \in Nat /\ readTime[c] \in Nat /\ arrived[c] \in Nat
  BY <1>0, WorkingTypes
<1>2. CASE BidsOf(command[c].request_id) # {} /\ Rollback(c, "reacquire")
  <2>1. /\ UNCHANGED serialVars
        /\ UNCHANGED <<auctions, bids, clock, command, arrived, result>>
    BY <1>2 DEF Rollback, serialVars
  <2>2. /\ pc' \in [Calls -> Labels] /\ pc'[c] = "reacquire"
        /\ \A d \in Calls \ {c} : pc'[d] = pc[d]
    BY <1>1, <1>2, GotoFrame DEF Rollback, Labels, Acquiring
  <2>3. /\ \A d \in Calls \ {c} : /\ inserted'[d] = inserted[d]
                                  /\ updated'[d] = updated[d]
                                  /\ seen'[d] = seen[d]
                                  /\ readTime'[d] = readTime[d]
        /\ inserted'[c] = NULL
        /\ seen' \in [Calls -> AuctionSnapshot \cup {NULL}]
        /\ readTime' \in [Calls -> Time]
        /\ rowLock' \in [Auctions -> Calls \cup {NULL}]
        /\ inserted' \in [Calls -> AcceptedBid \cup {NULL}]
        /\ updated' \in [Calls -> AuctionSnapshot \cup {NULL}]
    BY <1>1, <1>2, EndFrame DEF Rollback
  <2>4. StoreTypeOK'
    BY <1>1, <2>1, <2>2, <2>3 DEF StoreTypeOK, SerialTypeOK
  <2>5. OthersStay(c)
    BY <2>1, <2>2, <2>3 DEF OthersStay, FrameStays
  <2>6. CallIsSound(c)'
    BY <1>1, <1>2, <2>1, <2>2, <2>3
       DEF CallIsSound, IsPending, Pending, SeesARow, IsJudged, InsertIsSound,
           UpdateIsSound, FindsItsBid, BidsOf, Working, Judged, Writing
  <2> QED
    BY <2>1, <2>2, <2>4, <2>5, <2>6, StatementKeeps DEF Working, Judged, Writing
<1>3. CASE BidsOf(command[c].request_id) = {} /\ PutBid(c)
  <2> DEFINE bid == NewBid(c, command[c], seen[c].version + 1, clock)
  <2>1. UNCHANGED <<auctions, bids, clock, command, arrived, result,
                    seen, readTime, rowLock, updated>>
    BY <1>3 DEF PutBid, Proceed, serialVars
  <2>2. /\ pc' \in [Calls -> Labels] /\ pc'[c] = "update"
        /\ \A d \in Calls \ {c} : pc'[d] = pc[d]
    BY <1>1, <1>3, GotoFrame DEF PutBid, Proceed, Labels
  <2>3. bid \in AcceptedBid /\ bid # NULL /\ bid.accepted_at = clock
    <3>1. bid \in AcceptedBid
      BY <1>1, NewBidType DEF StoreTypeOK, SerialTypeOK
    <3> QED
      BY <3>1, NullAssumption DEF NewBid
  <2>4. /\ inserted' \in [Calls -> AcceptedBid \cup {NULL}]
        /\ inserted'[c] = bid
        /\ \A d \in Calls \ {c} : inserted'[d] = inserted[d]
    BY <1>1, <1>3, <2>3 DEF PutBid, StoreTypeOK
  <2>5. StoreTypeOK' /\ UNCHANGED serialVars
    BY <1>1, <2>1, <2>2, <2>4 DEF StoreTypeOK, SerialTypeOK, serialVars
  <2>6. OthersStay(c)
    BY <2>1, <2>2, <2>4 DEF OthersStay, FrameStays
  <2>7. ASSUME NEW d \in Calls \ {c}, pc[d] \in Writing
        PROVE  command[d].request_id # command[c].request_id
    <3>1. /\ inserted[d] # NULL
          /\ inserted[d].request_id = command[d].request_id
      <4>1. PICK at : inserted[d] =
              NewBid(d, command[d], seen[d].version + 1, at)
        BY <2>7 DEF UnsafeInv, CallIsSound, InsertIsSound
      <4> QED
        BY <2>7, <4>1 DEF UnsafeInv, CallIsSound, InsertIsSound, NewBid
    <3> QED
      BY <3>1 DEF InsertBid, RequestInFlight
  <2>8. IsPending(c)' /\ UpdateIsSound(c)' /\ FindsItsBid(c)'
    BY <1>0, <1>1, <2>1, <2>2
       DEF CallIsSound, IsPending, Pending, UpdateIsSound, FindsItsBid
  <2>9. SeesARow(c)'
    <3>1. SeesARow(c) /\ Row(c)' = Row(c)
      BY <1>1, <2>1 DEF CallIsSound, Row
    <3> QED
      BY <1>0, <2>1, <3>1 DEF SeesARow, ValidSnapshot, SameListing
  <2>10. IsJudged(c)' /\ clock \in readTime[c]..clock
    BY <1>0, <1>1, <2>1 DEF CallIsSound, IsJudged, Judged
  <2>11. InsertIsSound(c)'
    <3>1. BidsOf(command[c].request_id)' = {}
      BY <1>3, <2>1 DEF BidsOf
    <3> HIDE DEF bid
    <3>2. bid = NewBid(c, command[c], seen[c].version + 1, bid.accepted_at)
      BY <2>3 DEF bid
    <3> QED
      BY <2>1, <2>2, <2>3, <2>4, <2>10, <3>1, <3>2 DEF InsertIsSound, Writing
  <2>12. CallIsSound(c)'
    BY <2>8, <2>9, <2>10, <2>11 DEF CallIsSound
  <2> QED
    BY <1>0, <2>1, <2>5, <2>6, <2>7, <2>12, StatementKeeps
<1> QED
  BY <1>2, <1>3 DEF InsertBid

(***************************************************************************)
(* Overwriting a row whose listing is that of the row read writes what the *)
(* bid makes of the row read, whatever price and winner were there.        *)
(***************************************************************************)
LEMMA Overwrites ==
  ASSUME NEW row \in AuctionSnapshot, NEW other \in AuctionSnapshot,
         SameListing(row, other), NEW c \in Calls, NEW amount \in Money,
         NEW v \in Nat
  PROVE  WithWinner(other, c, amount, v) = WithWinner(row, c, amount, v)
<1>1. ASSUME NEW r \in AuctionSnapshot, NEW new, new = WithWinner(r, c, amount, v)
      PROVE  new = [starting_price_cents    |-> r.starting_price_cents,
                    minimum_increment_cents |-> r.minimum_increment_cents,
                    current_price_cents     |-> amount,
                    winning_bid_id          |-> c,
                    version                 |-> v,
                    starts_at               |-> r.starts_at,
                    ends_at                 |-> r.ends_at]
  BY <1>1 DEF AuctionSnapshot, WithWinner
<1> QED
  BY <1>1 DEF SameListing

(* The unconditional UPDATE keeps the invariant. *)
LEMMA UpdateKeeps ==
  ASSUME UnsafeInv, NEW c \in Calls, UpdateAuction(c), Overlaps
  PROVE  UnsafeInv'
<1> DEFINE new == WithWinner(seen[c], c, command[c].amount_cents,
                             seen[c].version + 1)
<1>0. pc[c] = "update" /\ pc[c] \in Working /\ pc[c] \in Writing
  BY DEF UpdateAuction, Working, Judged, Writing
<1>1. /\ StoreTypeOK /\ CallIsSound(c) /\ Pending(c)
      /\ seen[c] \in AuctionSnapshot /\ Row(c) \in AuctionSnapshot
      /\ SameListing(seen[c], Row(c)) /\ command[c].amount_cents \in Money
      /\ command[c].auction_id \in Auctions
      /\ seen[c].version + 1 \in Nat
  BY <1>0, WorkingTypes
<1>2. /\ WithWinner(Row(c), c, command[c].amount_cents, seen[c].version + 1)
           = new
      /\ new \in AuctionSnapshot
  BY <1>1, Overwrites, WrittenRow
<1> HIDE DEF new
<1>3. /\ rowLock' = [rowLock EXCEPT ![command[c].auction_id] = c]
      /\ updated' = [updated EXCEPT ![c] = new]
      /\ Proceed(c, "commit")
      /\ UNCHANGED <<auctions, bids, clock, command, arrived, result,
                     seen, readTime, inserted>>
  BY <1>2 DEF UpdateAuction, WriteAuction, Proceed, serialVars, Row
<1>4. /\ pc' \in [Calls -> Labels] /\ pc'[c] = "commit"
      /\ \A d \in Calls \ {c} : pc'[d] = pc[d]
  BY <1>1, <1>3, GotoFrame DEF Proceed, Labels
<1>5. /\ updated' \in [Calls -> AuctionSnapshot \cup {NULL}]
      /\ updated'[c] = new
      /\ \A d \in Calls \ {c} : updated'[d] = updated[d]
      /\ rowLock' \in [Auctions -> Calls \cup {NULL}]
  BY <1>1, <1>2, <1>3 DEF StoreTypeOK
<1>6. StoreTypeOK' /\ UNCHANGED serialVars
  BY <1>1, <1>3, <1>4, <1>5 DEF StoreTypeOK, SerialTypeOK, serialVars
<1>7. OthersStay(c)
  BY <1>3, <1>4, <1>5 DEF OthersStay, FrameStays
<1>8. IsPending(c)' /\ FindsItsBid(c)'
  BY <1>0, <1>1, <1>3, <1>4 DEF CallIsSound, IsPending, Pending, FindsItsBid
<1>9. SeesARow(c)'
  <2>1. SeesARow(c) /\ Row(c)' = Row(c)
    BY <1>1, <1>3 DEF CallIsSound, Row
  <2> QED
    BY <1>0, <1>3, <2>1 DEF SeesARow, ValidSnapshot, SameListing
<1>10. IsJudged(c)'
  BY <1>0, <1>1, <1>3 DEF CallIsSound, IsJudged, Judged
<1>11. InsertIsSound(c)'
  BY <1>0, <1>1, <1>3, <1>4 DEF CallIsSound, InsertIsSound, Writing, BidsOf
<1>12. UpdateIsSound(c)'
  BY <1>3, <1>5 DEF UpdateIsSound, new
<1>13. CallIsSound(c)'
  BY <1>8, <1>9, <1>10, <1>11, <1>12 DEF CallIsSound
<1> QED
  BY <1>0, <1>3, <1>6, <1>7, <1>13, StatementKeeps

-----------------------------------------------------------------------------
(***************************************************************************)
(* What a commit leaves behind: the first bid of its request, and a valid  *)
(* row of the same listing that this bid has won.                          *)
(***************************************************************************)
LEMMA CommitEffect ==
  ASSUME UnsafeInv, NEW c \in Calls, Commit(c, 1, 0)
  PROVE  LET a == command[c].auction_id
         IN  /\ BidsOf(command[c].request_id) = {}
             /\ inserted[c] \in AcceptedBid
             /\ inserted[c].id = c
             /\ inserted[c].request_id = command[c].request_id
             /\ inserted[c].auction_id = a
             /\ Matches(inserted[c], command[c])
             /\ updated[c] \in AuctionSnapshot /\ updated[c] # NULL
             /\ ValidSnapshot(updated[c])
             /\ SameListing(Row(c), updated[c])
             /\ updated[c].winning_bid_id = inserted[c].id
             /\ updated[c].current_price_cents = inserted[c].amount_cents
             /\ updated[c].version = inserted[c].auction_version
<1> DEFINE at == inserted[c].accepted_at
           amount == command[c].amount_cents
<1>0. pc[c] = "commit" /\ pc[c] \in Working /\ pc[c] \in Judged /\ pc[c] \in Writing
  BY DEF Commit, Working, Judged, Writing
<1>1. /\ StoreTypeOK /\ CallIsSound(c)
      /\ seen[c] \in AuctionSnapshot /\ ValidSnapshot(seen[c])
      /\ SameListing(seen[c], Row(c)) /\ amount \in Money
      /\ seen[c].version + 1 \in Nat \ {0}
      /\ command[c] \in BidCommand
      /\ readTime[c] \in Nat
  BY <1>0, WorkingTypes
<1>2. /\ inserted[c] # NULL
      /\ inserted[c] = NewBid(c, command[c], seen[c].version + 1, at)
      /\ BidsOf(command[c].request_id) = {}
      /\ updated[c] = WithWinner(seen[c], c, amount, seen[c].version + 1)
      /\ evaluate_bid(seen[c], amount, readTime[c]) = "accepted"
  BY <1>0, <1>1 DEF CallIsSound, InsertIsSound, UpdateIsSound, IsJudged
<1>3. inserted[c] \in AcceptedBid
  BY <1>1, <1>2 DEF StoreTypeOK
<1>4. /\ inserted[c].id = c
      /\ inserted[c].request_id = command[c].request_id
      /\ inserted[c].auction_id = command[c].auction_id
      /\ inserted[c].amount_cents = amount
      /\ inserted[c].auction_version = seen[c].version + 1
      /\ Matches(inserted[c], command[c])
  <2> HIDE DEF at
  <2> QED
    BY <1>2 DEF NewBid, Matches
<1>5. /\ updated[c] \in AuctionSnapshot
      /\ updated[c] # NULL
      /\ updated[c].current_price_cents = amount
      /\ updated[c].winning_bid_id = c
      /\ updated[c].version = seen[c].version + 1
      /\ updated[c].starting_price_cents = seen[c].starting_price_cents
      /\ updated[c].minimum_increment_cents = seen[c].minimum_increment_cents
      /\ updated[c].starts_at = seen[c].starts_at
      /\ updated[c].ends_at = seen[c].ends_at
  BY <1>1, <1>2, WrittenRow
<1>6. amount >= minimum_acceptable_bid(seen[c])
  BY <1>1, <1>2, AcceptedVerdict
<1>7. amount >= seen[c].starting_price_cents
  BY <1>1, <1>6, MoneyAssumption
     DEF minimum_acceptable_bid, ValidSnapshot, Money
<1>8. ValidSnapshot(updated[c])
  <2>1. c # NULL /\ amount # NULL
    BY <1>1, NullAssumption, MoneyAssumption DEF Money
  <2> QED
    BY <1>1, <1>5, <1>7, <2>1 DEF ValidSnapshot
<1> QED
  BY <1>1, <1>2, <1>3, <1>4, <1>5, <1>8 DEF SameListing

(* A commit keeps the invariant, whatever it overwrites. *)
LEMMA CommitKeeps ==
  ASSUME UnsafeInv, NEW c \in Calls, Commit(c, 1, 0), Overlaps
  PROVE  UnsafeInv'
<1> DEFINE a == command[c].auction_id
<1>0. pc[c] = "commit" /\ pc[c] \in Working /\ pc[c] \in Writing /\ Connected(c)
  BY DEF Commit, Working, Judged, Writing, Connected, Acquiring
<1>1. /\ StoreTypeOK /\ SerialTypeOK /\ CallIsSound(c) /\ Pending(c)
      /\ a \in Auctions /\ clock \in Nat
  BY <1>0, WorkingTypes DEF StoreTypeOK
<1>2. /\ BidsOf(command[c].request_id) = {}
      /\ inserted[c] \in AcceptedBid
      /\ inserted[c].id = c
      /\ inserted[c].request_id = command[c].request_id
      /\ inserted[c].auction_id = a
      /\ Matches(inserted[c], command[c])
      /\ updated[c] \in AuctionSnapshot /\ updated[c] # NULL
      /\ ValidSnapshot(updated[c])
      /\ SameListing(Row(c), updated[c])
      /\ updated[c].winning_bid_id = inserted[c].id
      /\ updated[c].current_price_cents = inserted[c].amount_cents
      /\ updated[c].version = inserted[c].auction_version
  BY CommitEffect
<1>3. /\ bids' = bids \cup {inserted[c]}
      /\ auctions' = [auctions EXCEPT ![a] = updated[c]]
      /\ UNCHANGED <<clock, command, arrived>>
  BY DEF Commit
<1>4. PICK outcome \in BidOutcome :
        /\ result' = [result EXCEPT ![c] = outcome]
        /\ \/ outcome.status = "accepted" /\ outcome.bid = inserted[c]
           \/ outcome.status = "OperationalError"
  <2>1. 1 \in 1..MaxAttempts /\ 0 \in 0..MaxAttempts
    BY BoundsAssumption
  <2>2. /\ accepted(inserted[c], 1, 0) \in BidOutcome
        /\ raised("OperationalError") \in BidOutcome
    BY <1>2, <2>1, OutcomeTypes DEF Exceptions
  <2> QED
    BY <2>2 DEF Commit, accepted, ReportBid, raised
<1>5. /\ pc' \in [Calls -> Labels] /\ pc'[c] = "done"
      /\ \A d \in Calls \ {c} : pc'[d] = pc[d]
  BY <1>1, GotoFrame DEF Commit, Labels
<1>6. /\ \A d \in Calls \ {c} : /\ inserted'[d] = inserted[d]
                                /\ updated'[d] = updated[d]
                                /\ seen'[d] = seen[d]
                                /\ readTime'[d] = readTime[d]
      /\ inserted'[c] = NULL
      /\ seen' \in [Calls -> AuctionSnapshot \cup {NULL}]
      /\ readTime' \in [Calls -> Time]
      /\ rowLock' \in [Auctions -> Calls \cup {NULL}]
      /\ inserted' \in [Calls -> AcceptedBid \cup {NULL}]
      /\ updated' \in [Calls -> AuctionSnapshot \cup {NULL}]
  BY <1>1, EndFrame DEF Commit
<1>7. /\ auctions'[a] = updated[c]
      /\ \A x \in Auctions \ {a} : auctions'[x] = auctions[x]
      /\ auctions' \in [Auctions -> AuctionSnapshot \cup {NULL}]
      /\ result' \in [Calls -> BidOutcome \cup {NULL}]
      /\ result'[c] = outcome
      /\ \A d \in Calls \ {c} : result'[d] = result[d]
  BY <1>1, <1>2, <1>3, <1>4 DEF SerialTypeOK
<1>8. StoreTypeOK'
  BY <1>1, <1>2, <1>3, <1>5, <1>6, <1>7 DEF StoreTypeOK, SerialTypeOK
<1>9. OthersStay(c)
  BY <1>3, <1>5, <1>6, <1>7 DEF OthersStay, FrameStays
<1>10. ListingsStay /\ clock' \in Nat /\ clock <= clock' /\ bids \subseteq bids'
  BY <1>1, <1>2, <1>3, <1>7 DEF ListingsStay, SameListing, Row
<1>11. CallIsSound(c)'
  <2>1. IsPending(c)'
    BY <1>1, <1>3, <1>5 DEF CallIsSound, IsPending, Pending
  <2> QED
    BY <1>5, <1>6, <2>1
       DEF CallIsSound, SeesARow, IsJudged, InsertIsSound, UpdateIsSound,
           FindsItsBid, Working, Judged, Writing
<1>12. ASSUME NEW d \in Calls \ {c}
       PROVE  CallIsSound(d)'
  <2>1. CallIsSound(d) /\ FrameStays(d)
    BY <1>9 DEF UnsafeInv, OthersStay
  <2>2. pc[d] \in Writing => BidsOf(command[d].request_id)' = {}
    <3> SUFFICES ASSUME pc[d] \in Writing
                 PROVE  BidsOf(command[d].request_id)' = {}
      OBVIOUS
    <3>1. /\ BidsOf(command[d].request_id) = {}
          /\ command[d].request_id # command[c].request_id
      BY <1>0, <2>1 DEF CallIsSound, InsertIsSound, UnsafeInv,
                        RequestsAreExclusive
    <3> QED
      BY <1>2, <1>3, <3>1 DEF BidsOf
  <2> QED
    BY <1>1, <1>10, <2>1, <2>2, OthersKeep
<1>13. RequestsAreExclusive'
  BY <1>3, <1>5 DEF UnsafeInv, RequestsAreExclusive, Writing
<1>14. OwnersHaveEnded' /\ OutcomesAgree'
  BY <1>1, <1>2, <1>3, <1>4, AdmissionAgrees DEF UnsafeInv
<1>15. RowsDescribeABid'
  <2> SUFFICES ASSUME NEW x \in Auctions, auctions'[x] # NULL
               PROVE  /\ ValidSnapshot(auctions'[x])
                      /\ auctions'[x].version > 0 =>
                           \E b \in bids' :
                             /\ b.auction_id = x
                             /\ b.id = auctions'[x].winning_bid_id
                             /\ b.amount_cents
                                  = auctions'[x].current_price_cents
                             /\ b.auction_version = auctions'[x].version
    BY DEF RowsDescribeABid, ValidSnapshot
  <2>1. CASE x = a
    BY <1>2, <1>3, <1>7, <2>1
  <2>2. CASE x # a
    BY <1>3, <1>7, <2>2 DEF UnsafeInv, RowsDescribeABid
  <2> QED
    BY <2>1, <2>2
<1>16. AloneIsCurrent'
  <2> SUFFICES ASSUME ~ overlapped'
               PROVE  /\ \A x, y \in Calls : Connected(x)' /\ Connected(y)'
                                               => x = y
                      /\ \A x \in Calls : pc'[x] \notin Working
    BY DEF AloneIsCurrent
  <2>1. /\ \A x, y \in Calls : Connected(x) /\ Connected(y) => x = y
        /\ \A x, y \in Calls : Connected(x)' /\ Connected(y)' => x = y
    BY AloneStep DEF UnsafeInv
  <2>2. ASSUME NEW x \in Calls, pc'[x] \in Working
        PROVE  FALSE
    <3>1. x # c
      BY <1>5, <2>2 DEF Working, Judged, Writing
    <3>2. Connected(x)
      BY <1>5, <2>2, <3>1 DEF Connected, Working, Judged, Writing, Acquiring
    <3> QED
      BY <1>0, <2>1, <3>1, <3>2
  <2> QED
    BY <2>1, <2>2
<1>17. overlapped' \in BOOLEAN
  BY DEF Overlaps
<1> QED
  BY <1>8, <1>11, <1>12, <1>13, <1>14, <1>15, <1>16, <1>17 DEF UnsafeInv

-----------------------------------------------------------------------------
(* A new auction is valid and nobody has bid on it. *)
LEMMA NewRow ==
  ASSUME NEW l \in Listings
  PROVE  /\ NewAuction(l) \in AuctionSnapshot /\ NewAuction(l) # NULL
         /\ ValidSnapshot(NewAuction(l)) /\ NewAuction(l).version = 0
<1>1. NewAuction(l) \in AuctionSnapshot
  BY ListingsAssumption DEF NewAuction, AuctionSnapshot, Listing
<1>2. ValidSnapshot(NewAuction(l)) /\ NewAuction(l).version = 0
  BY ListingsAssumption DEF NewAuction, ValidSnapshot, Listing
<1> QED
  BY <1>1, <1>2, NullAssumption

(* Time passing, a new auction and a new call keep the invariant. *)
LEMMA EnvironmentKeeps ==
  ASSUME UnsafeInv, Overlaps,
         \/ Tick
         \/ \E a \in Auctions, l \in Listings : create(a, l)
         \/ \E c \in Calls, cmd \in Commands : place_bid(c, cmd)
  PROVE  UnsafeInv'
<1>0. StoreTypeOK /\ SerialTypeOK
  BY DEF UnsafeInv, StoreTypeOK
<1>1. overlapped' \in BOOLEAN
  BY DEF Overlaps
<1>2. ASSUME AloneIsCurrent,
             \A c \in Calls : pc'[c] \in Working =>
               /\ pc[c] \in Working /\ seen'[c] = seen[c]
               /\ Row(c) # NULL => Row(c)' = Row(c)
      PROVE  AloneIsCurrent'
  <2> SUFFICES ASSUME ~ overlapped'
               PROVE  /\ \A x, y \in Calls : Connected(x)' /\ Connected(y)'
                                               => x = y
                      /\ \A x \in Calls : pc'[x] \in Working
                                            => seen'[x] = Row(x)'
    BY DEF AloneIsCurrent
  <2>1. /\ \A x, y \in Calls : Connected(x)' /\ Connected(y)' => x = y
        /\ \A x \in Calls : pc[x] \in Working => seen[x] = Row(x)
    BY AloneStep DEF UnsafeInv
  <2>2. \A x \in Calls : pc[x] \in Working => Row(x) # NULL
    BY DEF UnsafeInv, CallIsSound, SeesARow
  <2> QED
    BY <1>2, <2>1, <2>2
<1>3. CASE Tick \/ \E a \in Auctions, l \in Listings : create(a, l)
  <2>1. /\ UNCHANGED <<bids, command, arrived, result, pc, seen, readTime,
                       rowLock, inserted, updated>>
        /\ clock' \in Time /\ clock' \in Nat /\ clock <= clock'
    BY <1>0, <1>3, BoundsAssumption
       DEF Tick, PassTime, create, List, txnVars, SerialTypeOK, Time
  <2>2. /\ auctions' \in [Auctions -> AuctionSnapshot \cup {NULL}]
        /\ \A a \in Auctions : auctions[a] # NULL => auctions'[a] = auctions[a]
        /\ \A a \in Auctions : auctions'[a] # auctions[a] =>
             ValidSnapshot(auctions'[a]) /\ auctions'[a].version = 0
    BY <1>0, <1>3, NewRow DEF Tick, PassTime, create, List, SerialTypeOK
  <2>3. StoreTypeOK' /\ ListingsStay
    BY <1>0, <2>1, <2>2 DEF StoreTypeOK, SerialTypeOK, ListingsStay, SameListing
  <2>4. ASSUME NEW d \in Calls
        PROVE  CallIsSound(d)'
    <3>1. CallIsSound(d) /\ FrameStays(d)
      BY <2>1 DEF UnsafeInv, FrameStays
    <3>2. pc[d] \in Writing => BidsOf(command[d].request_id)' = {}
      BY <2>1, <3>1 DEF CallIsSound, InsertIsSound, BidsOf
    <3> QED
      BY <1>0, <2>1, <2>3, <3>1, <3>2, OthersKeep
  <2>5. RequestsAreExclusive' /\ OwnersHaveEnded' /\ OutcomesAgree'
    BY <2>1 DEF UnsafeInv, RequestsAreExclusive, OwnersHaveEnded,
                OutcomesAgree, BidsOf
  <2>6. RowsDescribeABid'
    <3> SUFFICES ASSUME NEW x \in Auctions, auctions'[x] # NULL
                 PROVE  /\ ValidSnapshot(auctions'[x])
                        /\ auctions'[x].version > 0 =>
                             \E b \in bids :
                               /\ b.auction_id = x
                               /\ b.id = auctions'[x].winning_bid_id
                               /\ b.amount_cents
                                    = auctions'[x].current_price_cents
                               /\ b.auction_version = auctions'[x].version
      BY <2>1 DEF RowsDescribeABid, ValidSnapshot
    <3>1. CASE auctions'[x] = auctions[x]
      BY <3>1 DEF UnsafeInv, RowsDescribeABid
    <3>2. CASE auctions'[x] # auctions[x]
      BY <2>2, <3>2
    <3> QED
      BY <3>1, <3>2
  <2>7. AloneIsCurrent'
    <3>1. ASSUME NEW d \in Calls, pc'[d] \in Working, Row(d) # NULL
          PROVE  Row(d)' = Row(d)
      <4>1. command[d].auction_id \in Auctions
        BY <1>0, <2>1, <3>1, CallTypes
           DEF UnsafeInv, CallIsSound, IsPending, Pending, Working, Judged,
               Writing
      <4> QED
        BY <2>1, <2>2, <3>1, <4>1 DEF Row
    <3> QED
      BY <1>2, <2>1, <3>1 DEF UnsafeInv
  <2> QED
    BY <1>1, <2>3, <2>4, <2>5, <2>6, <2>7 DEF UnsafeInv
<1>4. ASSUME NEW c \in Calls, NEW cmd \in Commands, place_bid(c, cmd)
      PROVE  UnsafeInv'
  <2>1. UNCHANGED <<auctions, bids, clock, result, seen, readTime, rowLock,
                    inserted, updated>>
    BY <1>4 DEF place_bid, Call, txnVars
  <2>2. /\ pc' \in [Calls -> Labels] /\ pc'[c] = "connect"
        /\ \A d \in Calls \ {c} : pc'[d] = pc[d]
    BY <1>0, <1>4, GotoFrame DEF place_bid, Labels, Acquiring
  <2>3. /\ cmd \in BidCommand /\ cmd # NULL
        /\ command[c] = NULL
        /\ command' \in [Calls -> BidCommand \cup {NULL}]
        /\ command'[c] = cmd
        /\ arrived' \in [Calls -> Time]
        /\ arrived'[c] = clock
        /\ \A d \in Calls \ {c} : /\ command'[d] = command[d]
                                  /\ arrived'[d] = arrived[d]
    BY <1>0, <1>4, CommandsAssumption, NullAssumption
       DEF place_bid, Call, SerialTypeOK
  <2>4. pc[c] = "idle" /\ CallIsSound(c) /\ result[c] = NULL
    BY <2>3 DEF UnsafeInv, CallIsSound, IsPending
  <2>5. StoreTypeOK'
    BY <1>0, <2>1, <2>2, <2>3 DEF StoreTypeOK, SerialTypeOK
  <2>6. ListingsStay /\ clock' \in Nat /\ clock <= clock' /\ bids \subseteq bids'
    BY <1>0, <2>1, CallTypes DEF ListingsStay, SameListing
  <2>7. CallIsSound(c)'
    <3>1. IsPending(c)'
      BY <2>1, <2>2, <2>3, <2>4, <2>6 DEF IsPending, Pending
    <3> QED
      BY <2>1, <2>2, <2>4, <3>1
         DEF CallIsSound, SeesARow, IsJudged, InsertIsSound, UpdateIsSound,
             FindsItsBid, Working, Judged, Writing
  <2>8. ASSUME NEW d \in Calls \ {c}
        PROVE  CallIsSound(d)'
    <3>1. CallIsSound(d) /\ FrameStays(d)
      BY <2>1, <2>2, <2>3 DEF UnsafeInv, FrameStays
    <3>2. pc[d] \in Writing => BidsOf(command[d].request_id)' = {}
      BY <2>1, <2>3, <3>1 DEF CallIsSound, InsertIsSound, BidsOf
    <3> QED
      BY <1>0, <2>6, <3>1, <3>2, OthersKeep
  <2>9. RequestsAreExclusive'
    BY <2>2, <2>3 DEF UnsafeInv, RequestsAreExclusive, Writing
  <2>10. OwnersHaveEnded' /\ OutcomesAgree'
    <3>1. [SerialNext]_serialVars
      BY <1>4 DEF place_bid, SerialNext
    <3> QED
      BY <1>0, <3>1, OutcomesStep DEF UnsafeInv
  <2>11. RowsDescribeABid'
    BY <2>1 DEF UnsafeInv, RowsDescribeABid
  <2>12. AloneIsCurrent'
    <3>1. ASSUME NEW d \in Calls, pc'[d] \in Working
          PROVE  /\ pc[d] \in Working /\ seen'[d] = seen[d]
                 /\ Row(d)' = Row(d)
      <4>1. d # c
        BY <2>2, <3>1 DEF Working, Judged, Writing
      <4> QED
        BY <2>1, <2>2, <2>3, <3>1, <4>1 DEF Row
    <3> QED
      BY <1>2, <3>1 DEF UnsafeInv
  <2> QED
    BY <1>1, <2>5, <2>7, <2>8, <2>9, <2>10, <2>11, <2>12 DEF UnsafeInv
<1> QED
  BY <1>3, <1>4

(* Every step of the specification keeps the invariant. *)
LEMMA InvStep == UnsafeInv /\ [Next]_vars => UnsafeInv'
<1> SUFFICES ASSUME UnsafeInv, [Next]_vars
             PROVE  UnsafeInv'
  OBVIOUS
<1>0. StoreTypeOK
  BY DEF UnsafeInv
<1>1. CASE UNCHANGED vars
  BY <1>1 DEF vars, storeVars, txnVars, UnsafeInv, StoreTypeOK, SerialTypeOK,
              CallIsSound, IsPending, Pending, SeesARow, IsJudged,
              InsertIsSound, UpdateIsSound, FindsItsBid, RequestsAreExclusive,
              OwnersHaveEnded, OutcomesAgree, RowsDescribeABid, AloneIsCurrent,
              Connected, Row, BidsOf
<1>2. CASE Quiescent /\ Overlaps
  <2>1. \A c \in Calls : ~ Connected(c) /\ pc[c] \notin Working
    BY <1>2 DEF Quiescent, Connected, Working, Judged, Writing
  <2>2. AloneIsCurrent' /\ overlapped' \in BOOLEAN
    BY <1>2, <2>1 DEF Quiescent, storeVars, AloneIsCurrent, Connected, Overlaps
  <2> QED
    BY <1>2, <2>2
       DEF Quiescent, storeVars, txnVars, UnsafeInv, StoreTypeOK, SerialTypeOK,
           CallIsSound, IsPending, Pending, SeesARow, IsJudged,
           InsertIsSound, UpdateIsSound, FindsItsBid, RequestsAreExclusive,
           OwnersHaveEnded, OutcomesAgree, RowsDescribeABid, Row, BidsOf
<1>3. ASSUME NEW c \in Calls, Overlaps,
             PoolTimeout(c) \/ LoseConnection(c) \/ WaitExpires(c)
      PROVE  UnsafeInv'
  <2>1. /\ pc[c] \notin {"idle", "done"}
        /\ \E exception \in Exceptions : Return(c, raised(exception))
    BY <1>3 DEF PoolTimeout, LoseConnection, WaitExpires, StatementTimeout,
                LockTimeout, Connected, Acquiring, Exceptions
  <2> QED
    BY <1>0, <1>3, <2>1, ReturnKeeps, AnswersAreHonest
<1>4. ASSUME NEW c \in Calls, Overlaps, CallStep(c)
      PROVE  UnsafeInv'
  <2>1. CASE Connect(c)
    <3>1. \/ pc[c] = "connect" /\ AfterConnect[pc[c]] = "check"
          \/ pc[c] = "reacquire" /\ AfterConnect[pc[c]] = "resolve"
          \/ pc[c] = "missed" /\ AfterConnect[pc[c]] = "classify_check"
      BY <2>1 DEF Connect, AfterConnect, Acquiring
    <3> QED
      BY <1>4, <2>1, <3>1, MoveKeeps DEF Connect
  <2>2. CASE Check(c)
    <3>1. CASE AnswerExisting(c, 1, 0)
      BY <1>0, <1>4, <2>2, <3>1, ReturnKeeps, AnswersAreHonest
         DEF Check, CheckExisting, AnswerExisting
    <3>2. CASE Proceed(c, "read") /\ UNCHANGED txnVars
      BY <1>4, <2>2, <3>2, MoveKeeps DEF Check, CheckExisting
    <3> QED
      BY <2>2, <3>1, <3>2 DEF Check, CheckExisting
  <2>3. CASE ResolveDuplicate(c)
    <3>1. PICK outcome : Honest(c, outcome) /\ Return(c, outcome)
      BY <1>0, <2>3, AnswersAreHonest DEF ResolveDuplicate, Exceptions
    <3> QED
      BY <1>4, <2>3, <3>1, ReturnKeeps DEF ResolveDuplicate
  <2> QED
    BY <1>4, <2>1, <2>2, <2>3, ReadKeeps, EvaluateKeeps, InsertKeeps,
       UpdateKeeps, CommitKeeps DEF CallStep
<1> QED
  BY <1>1, <1>2, <1>3, <1>4, EnvironmentKeeps DEF Next, Overlaps

(* An empty database with no calls satisfies the invariant. *)
LEMMA InvInit == Init => UnsafeInv
<1> SUFFICES ASSUME Init
             PROVE  UnsafeInv
  OBVIOUS
<1>1. StoreTypeOK
  BY BoundsAssumption
     DEF Init, StoreInit, SerialInit, StoreTypeOK, SerialTypeOK, Time, Labels
<1>1a. overlapped \in BOOLEAN
  BY DEF Init
<1>2. ASSUME NEW c \in Calls
      PROVE  pc[c] = "idle" /\ CallIsSound(c) /\ ~ Connected(c)
  BY DEF Init, StoreInit, SerialInit, CallIsSound, IsPending, SeesARow,
         IsJudged, InsertIsSound, UpdateIsSound, FindsItsBid, Connected,
         Working, Judged, Writing
<1>3. RequestsAreExclusive /\ AloneIsCurrent
  BY <1>2 DEF RequestsAreExclusive, AloneIsCurrent, Working, Judged, Writing
<1>4. OwnersHaveEnded /\ OutcomesAgree /\ RowsDescribeABid
  BY DEF Init, StoreInit, SerialInit, OwnersHaveEnded, OutcomesAgree,
         RowsDescribeABid
<1> QED
  BY <1>1, <1>1a, <1>2, <1>3, <1>4 DEF UnsafeInv

(***************************************************************************)
(* The baseline's invariant: what a call has read is a valid row of its    *)
(* listing, a request id has one bid, and every row is that of some bid.   *)
(***************************************************************************)
THEOREM UnsafeInvariant == Spec => []UnsafeInv
BY InvInit, InvStep, PTL DEF Spec

(***************************************************************************)
(* Tables, locks and the frames of all calls always have their types.      *)
(***************************************************************************)
THEOREM UnsafeTypeCorrect == Spec => []StoreTypeOK
<1>1. UnsafeInv => StoreTypeOK
  BY DEF UnsafeInv
<1> QED
  BY <1>1, UnsafeInvariant, PTL

(***************************************************************************)
(* Lost updates never corrupt a row: it satisfies the CHECK constraints    *)
(* and carries the price, winner and version of one stored bid.            *)
(***************************************************************************)
THEOREM UnsafeRows == Spec => []RowsDescribeABid
<1>1. UnsafeInv => RowsDescribeABid
  BY DEF UnsafeInv
<1> QED
  BY <1>1, UnsafeInvariant, PTL

(***************************************************************************)
(* Idempotency does not depend on the locking: even the baseline carries a *)
(* request out at most once and tells every caller the truth about it.     *)
(***************************************************************************)
THEOREM UnsafeOutcomes == Spec => []OutcomesAgree
<1>1. UnsafeInv => OutcomesAgree
  BY DEF UnsafeInv
<1> QED
  BY <1>1, UnsafeInvariant, PTL

(***************************************************************************)
(* A call that was told of a UniqueViolation finds the bid that caused it. *)
(***************************************************************************)
THEOREM UnsafeResolves == Spec => []ResolveFindsBid
<1>1. UnsafeInv => ResolveFindsBid
  BY DEF UnsafeInv, CallIsSound, FindsItsBid, ResolveFindsBid
<1> QED
  BY <1>1, UnsafeInvariant, PTL

-----------------------------------------------------------------------------
(* Lost updates leave a ledger that the checker can read. *)
LEMMA LedgerStays == UnsafeInv /\ LedgerIsSound /\ [Next]_vars => LedgerIsSound'
<1> SUFFICES ASSUME UnsafeInv, LedgerIsSound, [Next]_vars
             PROVE  LedgerIsSound'
  OBVIOUS
<1>1. \A b \in bids : /\ b.auction_id \in Auctions
                      /\ auctions[b.auction_id] # NULL
  BY DEF UnsafeInv, StoreTypeOK, SerialTypeOK, AcceptedBid, LedgerIsSound,
         BidsAreListed
<1>2. CASE UNCHANGED <<auctions, bids>>
  BY <1>2 DEF LedgerIsSound, IdsAreUnique, BidsAreListed
<1>3. ASSUME NEW a \in Auctions, NEW l \in Listings, create(a, l)
      PROVE  LedgerIsSound'
  <2>1. bids' = bids /\ auctions' = [auctions EXCEPT ![a] = NewAuction(l)]
    BY <1>3 DEF create, List
  <2>2. \A b \in bids : auctions'[b.auction_id] # NULL
    BY <1>1, <2>1, NewRow DEF UnsafeInv, StoreTypeOK, SerialTypeOK
  <2> QED
    BY <2>1, <2>2 DEF LedgerIsSound, IdsAreUnique, BidsAreListed
<1>4. ASSUME NEW c \in Calls, Commit(c, 1, 0)
      PROVE  LedgerIsSound'
  <2>1. pc[c] = "commit" /\ bids' = bids \cup {inserted[c]}
    BY <1>4 DEF Commit
  <2>2. Pending(c)
    BY <2>1 DEF UnsafeInv, CallIsSound, IsPending
  <2>3. \A b \in bids : b.id # c
    BY <2>2 DEF UnsafeInv, OwnersHaveEnded, Pending
  <2>4. inserted[c].id = c
    BY <1>4, CommitEffect
  <2>5. \A b \in bids' : auctions'[b.auction_id] # NULL
    <3>1. updated[c] # NULL /\ inserted[c].auction_id = command[c].auction_id
      BY <1>4, CommitEffect
    <3>2. command[c].auction_id \in Auctions
      BY <2>1, WorkingTypes DEF Working, Judged, Writing
    <3> QED
      BY <1>1, <1>4, <2>1, <3>1, <3>2 DEF Commit, UnsafeInv, StoreTypeOK, SerialTypeOK
  <2> QED
    BY <2>1, <2>3, <2>4, <2>5, LedgerGrows
<1>5. ASSUME NEW c \in Calls,
             CallStep(c) \/ PoolTimeout(c) \/ LoseConnection(c) \/ WaitExpires(c)
      PROVE  UNCHANGED <<auctions, bids>> \/ Commit(c, 1, 0)
  <2>1. CASE \E outcome : Return(c, outcome)
    BY <2>1 DEF Return
  <2>2. CASE \E label : Proceed(c, label) \/ Rollback(c, label)
    BY <2>2 DEF Proceed, Rollback, serialVars
  <2>3. CASE PoolTimeout(c) \/ LoseConnection(c) \/ WaitExpires(c)
    BY <2>1, <2>3
       DEF PoolTimeout, LoseConnection, WaitExpires, StatementTimeout,
           LockTimeout
  <2>4. CASE Connect(c) \/ Check(c) \/ ResolveDuplicate(c)
    BY <2>1, <2>2, <2>4
       DEF Connect, Check, CheckExisting, AnswerExisting, ResolveDuplicate
  <2>5. CASE Read(c) \/ Evaluate(c)
    BY <2>1, <2>2, <2>5 DEF Read, ReadAuction, Evaluate, EvaluateNow, RefuseBid
  <2>6. CASE InsertBid(c) \/ UpdateAuction(c)
    BY <2>2, <2>6 DEF InsertBid, PutBid, UpdateAuction, WriteAuction
  <2> QED
    BY <1>5, <2>3, <2>4, <2>5, <2>6 DEF CallStep
<1>6. CASE UNCHANGED vars \/ Tick \/ Quiescent
           \/ \E c \in Calls, cmd \in Commands : place_bid(c, cmd)
  BY <1>2, <1>6 DEF vars, storeVars, serialVars, Tick, PassTime, Quiescent,
                    place_bid, Call
<1> QED
  BY <1>2, <1>3, <1>4, <1>5, <1>6 DEF Next

(***************************************************************************)
(* However the unsafe baseline has mangled the history of an auction, the  *)
(* benchmark's verdict on it is right: check_auction_invariants reports a  *)
(* violation if and only if there is one.                                  *)
(***************************************************************************)
THEOREM UnsafeChecker == Spec => []CheckerIsExact
<1>1. Init => LedgerIsSound
  BY LedgerStarts DEF Init, StoreInit
<1>2. UnsafeInv /\ LedgerIsSound => CheckerIsExact
  BY CheckerExact DEF UnsafeInv, StoreTypeOK
<1> QED
  BY <1>1, <1>2, LedgerStays, UnsafeInvariant, PTL DEF Spec

-----------------------------------------------------------------------------
(***************************************************************************)
(* The commit of a call that has read the current row is the admission of  *)
(* its bid, judged at the instant it was evaluated.                        *)
(***************************************************************************)
LEMMA CommitRefines ==
  ASSUME UnsafeInv, NEW c \in Calls, Commit(c, 1, 0), seen[c] = Row(c)
  PROVE  Accept(c)
<1> DEFINE cmd == command[c]
           row == auctions[cmd.auction_id]
           now == readTime[c]
           at == inserted[c].accepted_at
<1>0. /\ pc[c] \in Working /\ pc[c] \in Judged /\ pc[c] \in Writing
      /\ pc[c] = "commit"
  BY DEF Commit, Working, Judged, Writing
<1>1. /\ CallIsSound(c) /\ Pending(c) /\ row \in AuctionSnapshot /\ row # NULL
      /\ seen[c] = row /\ clock \in Nat /\ arrived[c] \in Nat /\ now \in Nat
  BY <1>0, WorkingTypes DEF Row
<1>2. /\ inserted[c] = NewBid(c, cmd, row.version + 1, at)
      /\ BidsOf(cmd.request_id) = {}
      /\ at \in now..clock
      /\ now \in arrived[c]..clock
      /\ evaluate_bid(row, cmd.amount_cents, now) = "accepted"
      /\ updated[c] = WithWinner(row, c, cmd.amount_cents, row.version + 1)
  BY <1>0, <1>1 DEF CallIsSound, IsJudged, InsertIsSound, UpdateIsSound
<1> HIDE DEF at
<1>3. at \in arrived[c]..clock /\ now <= at
  BY <1>1, <1>2
<1> DEFINE bid == NewBid(c, cmd, row.version + 1, at)
<1>4. /\ bids' = bids \cup {bid}
      /\ auctions' = [auctions EXCEPT ![cmd.auction_id] =
           apply_accepted_bid(row, c, cmd.amount_cents, now)]
      /\ UNCHANGED <<clock, command, arrived>>
  BY <1>2 DEF Commit, apply_accepted_bid
<1>5. \/ \E n \in 1..MaxAttempts, k \in 0..MaxAttempts :
           result' = [result EXCEPT ![c] = accepted(bid, n, k)]
      \/ result' = [result EXCEPT ![c] = raised("OperationalError")]
  <2>1. 1 \in 1..MaxAttempts /\ 0 \in 0..MaxAttempts
    BY BoundsAssumption
  <2>2. \/ result' = [result EXCEPT ![c] = accepted(bid, 1, 0)]
        \/ result' = [result EXCEPT ![c] = raised("OperationalError")]
    BY <1>2 DEF Commit
  <2> QED
    BY <2>1, <2>2
<1> HIDE DEF now
<1>6. \E t, inserted_at \in arrived[c]..clock :
        LET b == NewBid(c, cmd, row.version + 1, inserted_at)
        IN  /\ t <= inserted_at
            /\ evaluate_bid(row, cmd.amount_cents, t) = "accepted"
            /\ bids' = bids \cup {b}
            /\ auctions' = [auctions EXCEPT ![cmd.auction_id] =
                 apply_accepted_bid(row, c, cmd.amount_cents, t)]
            /\ \/ \E n \in 1..MaxAttempts, k \in 0..MaxAttempts :
                    result' = [result EXCEPT ![c] = accepted(b, n, k)]
               \/ result' = [result EXCEPT ![c] = raised("OperationalError")]
  <2> USE <1>2, <1>3
  <2> WITNESS now \in arrived[c]..clock, at \in arrived[c]..clock
  <2> QED
    BY <1>4, <1>5
<1> QED
  BY <1>1, <1>2, <1>4, <1>6 DEF Accept

(* A verdict on the current row is a refusal or a failure of the serial
   auction. *)
LEMMA VerdictStep ==
  ASSUME UnsafeInv, NEW c \in Calls, pc[c] = "clock", seen[c] = Row(c),
         RefuseBid(c, evaluate_bid(seen[c], command[c].amount_cents, clock),
                   1, 0)
  PROVE  SerialNext
<1>1. /\ StoreTypeOK /\ CallIsSound(c) /\ Pending(c) /\ Row(c) # NULL
      /\ seen[c] \in AuctionSnapshot
      /\ clock \in Nat /\ arrived[c] \in Nat
  BY WorkingTypes DEF Working
<1>2. clock \in arrived[c]..clock
  BY <1>1 DEF CallIsSound, IsPending
<1>3. minimum_acceptable_bid(seen[c]) <= minimum_acceptable_bid(Row(c))
  BY <1>1, MoneyAssumption DEF minimum_acceptable_bid, AuctionSnapshot, Money
<1>4. 1 \in 1..MaxAttempts /\ 0 \in 0..MaxAttempts
  BY BoundsAssumption
<1>5. Refuse(c) \/ Fail(c)
  BY <1>1, <1>2, <1>3, <1>4, VerdictRefines DEF Row
<1> QED
  BY <1>5 DEF SerialNext

(* Every step after which no two calls have overlapped is a serial step. *)
LEMMA StepRefines ==
  UnsafeInv /\ Next /\ ~ overlapped' => SerialNext
<1> SUFFICES ASSUME UnsafeInv, Next, ~ overlapped'
             PROVE  SerialNext
  OBVIOUS
<1>0. 1 \in 1..MaxAttempts /\ 0 \in 0..MaxAttempts
  BY BoundsAssumption
<1>1. \A c \in Calls : pc[c] \in Working => seen[c] = Row(c)
  BY AloneStep DEF UnsafeInv, Next, Overlaps
<1>2. CASE Tick \/ Quiescent
  BY <1>2 DEF Tick, Quiescent, storeVars, SerialNext, Invisible, serialVars
<1>3. ASSUME NEW a \in Auctions, NEW l \in Listings, create(a, l)
      PROVE  SerialNext
  BY <1>3 DEF create, SerialNext
<1>4. ASSUME NEW c \in Calls, NEW cmd \in Commands, place_bid(c, cmd)
      PROVE  SerialNext
  BY <1>4 DEF place_bid, SerialNext
<1>5. ASSUME NEW c \in Calls,
             PoolTimeout(c) \/ LoseConnection(c) \/ WaitExpires(c)
      PROVE  SerialNext
  <2>1. Pending(c)
    BY <1>5 DEF PoolTimeout, LoseConnection, WaitExpires, StatementTimeout,
                LockTimeout, Connected, Acquiring, UnsafeInv, CallIsSound,
                IsPending
  <2>2. \E exception \in Exceptions :
          MayRaise(c, exception) /\ Return(c, raised(exception))
    BY <1>5 DEF PoolTimeout, LoseConnection, WaitExpires, StatementTimeout,
                LockTimeout, Exceptions, MayRaise
  <2> QED
    BY <2>1, <2>2, RaiseFails DEF SerialNext
<1>6. ASSUME NEW c \in Calls, CallStep(c)
      PROVE  SerialNext
  <2>0. /\ pc[c] \notin {"idle", "done"} => Pending(c)
        /\ UNCHANGED serialVars => SerialNext
    BY DEF UnsafeInv, CallIsSound, IsPending, SerialNext, Invisible
  <2>1. CASE Connect(c)
    BY <2>0, <2>1 DEF Connect, Proceed
  <2>2. CASE Check(c)
    <3>1. CASE AnswerExisting(c, 1, 0)
      BY <1>0, <2>0, <2>2, <3>1, AnswerRefines
         DEF Check, CheckExisting, AnswerExisting, SerialNext
    <3> QED
      BY <2>0, <2>2, <3>1 DEF Check, CheckExisting, Proceed
  <2>3. CASE Read(c)
    <3>1. CASE auctions[command[c].auction_id] = NULL
      BY <1>0, <2>0, <2>3, <3>1, NotFoundRefines DEF Read, ReadAuction, SerialNext
    <3> QED
      BY <2>0, <2>3, <3>1 DEF Read, ReadAuction, Proceed
  <2>4. CASE Evaluate(c)
    <3>1. CASE RefuseBid(c, evaluate_bid(seen[c], command[c].amount_cents,
                                         clock), 1, 0)
      BY <1>1, <2>4, <3>1, VerdictStep DEF Evaluate, EvaluateNow, Working
    <3> QED
      BY <2>0, <2>4, <3>1 DEF Evaluate, EvaluateNow, Proceed
  <2>5. CASE InsertBid(c) \/ UpdateAuction(c)
    BY <2>0, <2>5 DEF InsertBid, PutBid, Rollback, Proceed, UpdateAuction,
                      WriteAuction
  <2>6. CASE Commit(c, 1, 0)
    <3>1. seen[c] = Row(c)
      BY <1>1, <2>6 DEF Commit, Working, Judged, Writing
    <3> QED
      BY <2>6, <3>1, CommitRefines DEF SerialNext
  <2>7. CASE ResolveDuplicate(c)
    <3>1. BidsOf(command[c].request_id) # {}
      BY <2>7 DEF ResolveDuplicate, UnsafeInv, CallIsSound, FindsItsBid
    <3> QED
      BY <1>0, <2>0, <2>7, <3>1, AnswerRefines DEF ResolveDuplicate, SerialNext
  <2> QED
    BY <1>6, <2>1, <2>2, <2>3, <2>4, <2>5, <2>6, <2>7 DEF CallStep
<1> QED
  BY <1>2, <1>3, <1>4, <1>5, <1>6 DEF Next

(***************************************************************************)
(* The baseline's faults are those of concurrency alone: as long as no two *)
(* calls are connected at once, it takes only steps that the serial        *)
(* auction allows.                                                         *)
(***************************************************************************)
THEOREM UnsafeSequential == Spec => SequentialIsSerial
<1>1. Init => SerialInit
  BY DEF Init, StoreInit
<1>2. UnsafeInv /\ [Next]_vars => [~ overlapped' => SerialNext]_vars
  BY StepRefines
<1> QED
  BY <1>1, <1>2, UnsafeInvariant, PTL DEF Spec, SequentialIsSerial

=============================================================================
