------------------------ MODULE SerialAuctionProofs -------------------------
(***************************************************************************)
(* What holds of every behaviour of SerialAuction, for any number of       *)
(* calls, auctions, bids and instants.                                     *)
(***************************************************************************)
EXTENDS SerialAuction, TLAPS

(***************************************************************************)
(* What evaluate_bid asks of a bid it accepts: the auction is open and the *)
(* amount reaches the minimum.                                             *)
(***************************************************************************)
LEMMA AcceptedVerdict ==
  ASSUME NEW row \in AuctionSnapshot, NEW amount \in Money, NEW now \in Nat,
         evaluate_bid(row, amount, now) = "accepted"
  PROVE  /\ derive_auction_state(row, now) = "open"
         /\ amount >= minimum_acceptable_bid(row)
         /\ ~ minimum_overflows(row)
<1>1. derive_auction_state(row, now) \in {"scheduled", "open", "closed"}
  BY DEF derive_auction_state
<1>2. minimum_acceptable_bid(row) \in Int
  BY MoneyAssumption, NullAssumption
     DEF minimum_acceptable_bid, AuctionSnapshot, Money
<1>3. amount \in Int
  BY MoneyAssumption DEF Money
<1> QED
  BY <1>1, <1>2, <1>3 DEF evaluate_bid

(***************************************************************************)
(* And conversely: nothing else is asked of a bid.                         *)
(***************************************************************************)
LEMMA AdmittedBid ==
  ASSUME NEW row \in AuctionSnapshot, NEW amount \in Money, NEW now \in Nat,
         row.starts_at <= now, now < row.ends_at,
         amount >= minimum_acceptable_bid(row)
  PROVE  evaluate_bid(row, amount, now) = "accepted"
<1>1. minimum_acceptable_bid(row) \in Int /\ amount \in Int
  BY MoneyAssumption DEF minimum_acceptable_bid, AuctionSnapshot, Money
<1>2. ~ minimum_overflows(row)
  BY <1>1, MoneyAssumption DEF minimum_overflows, Money
<1>3. derive_auction_state(row, now) = "open"
  BY DEF derive_auction_state, AuctionSnapshot
<1> QED
  BY <1>1, <1>2, <1>3 DEF evaluate_bid

(***************************************************************************)
(* The row an UPDATE of an auction writes: a new price, winner and         *)
(* version, and everything else as it was.                                 *)
(***************************************************************************)
LEMMA WrittenRow ==
  ASSUME NEW row \in AuctionSnapshot, NEW amount \in Money,
         NEW c \in Calls, NEW v \in Nat, NEW new,
         new = WithWinner(row, c, amount, v)
  PROVE  /\ new \in AuctionSnapshot
         /\ new # NULL
         /\ new.current_price_cents = amount
         /\ new.winning_bid_id = c
         /\ new.version = v
         /\ new.starting_price_cents = row.starting_price_cents
         /\ new.minimum_increment_cents = row.minimum_increment_cents
         /\ new.starts_at = row.starts_at
         /\ new.ends_at = row.ends_at
<1>1. new = [starting_price_cents    |-> row.starting_price_cents,
             minimum_increment_cents |-> row.minimum_increment_cents,
             current_price_cents     |-> amount,
             winning_bid_id          |-> c,
             version                 |-> v,
             starts_at               |-> row.starts_at,
             ends_at                 |-> row.ends_at]
  BY DEF AuctionSnapshot, WithWinner
<1>2. new \in AuctionSnapshot
  BY <1>1 DEF AuctionSnapshot
<1>3. new # NULL
  BY <1>2, NullAssumption
<1> QED
  BY <1>1, <1>2, <1>3

(***************************************************************************)
(* apply_accepted_bid changes the price, the winner and the version of an  *)
(* auction and nothing else.                                               *)
(***************************************************************************)
LEMMA AppliedRow ==
  ASSUME NEW row \in AuctionSnapshot, NEW amount \in Money, NEW now \in Nat,
         NEW c \in Calls, evaluate_bid(row, amount, now) = "accepted",
         NEW new, new = apply_accepted_bid(row, c, amount, now)
  PROVE  /\ new \in AuctionSnapshot
         /\ new # NULL
         /\ new.current_price_cents = amount
         /\ new.winning_bid_id = c
         /\ new.version = row.version + 1
         /\ new.starting_price_cents = row.starting_price_cents
         /\ new.minimum_increment_cents = row.minimum_increment_cents
<1>1. row.version + 1 \in Nat
  BY DEF AuctionSnapshot
<1>2. new = WithWinner(row, c, amount, row.version + 1)
  BY DEF apply_accepted_bid
<1> QED
  BY <1>1, <1>2, WrittenRow

(***************************************************************************)
(* A bid that a call inserts is a row of the table bids.                   *)
(***************************************************************************)
LEMMA NewBidType ==
  ASSUME NEW c \in Calls, NEW cmd \in BidCommand, NEW v \in Nat \ {0},
         NEW now \in Time
  PROVE  NewBid(c, cmd, v, now) \in AcceptedBid
BY StripAssumption DEF NewBid, AcceptedBid, BidCommand

(***************************************************************************)
(* Every way in which a call can end is a BidOutcome.                      *)
(***************************************************************************)
LEMMA OutcomeTypes ==
  ASSUME NEW n \in 1..MaxAttempts, NEW k \in 0..MaxAttempts
  PROVE  /\ \A bid \in AcceptedBid : /\ accepted(bid, n, k) \in BidOutcome
                                     /\ replayed(bid, n, k) \in BidOutcome
         /\ \A reason \in BidRejectionReason, m \in Money \cup {NULL} :
              rejected(reason, m, n, k) \in BidOutcome
         /\ \A exception \in Exceptions : raised(exception) \in BidOutcome
BY BoundsAssumption
   DEF accepted, replayed, ReportBid, rejected, raised, BidOutcome

-----------------------------------------------------------------------------
(***************************************************************************)
(* The tables, the clock and the outcomes keep their types.                *)
(***************************************************************************)
LEMMA SerialTypeStep == SerialTypeOK /\ [SerialNext]_serialVars => SerialTypeOK'
<1> SUFFICES ASSUME SerialTypeOK, [SerialNext]_serialVars
             PROVE  SerialTypeOK'
  OBVIOUS
<1> USE BoundsAssumption
<1>1. CASE UNCHANGED serialVars
  BY <1>1 DEF SerialTypeOK, serialVars
<1>2. CASE PassTime
  BY <1>2 DEF PassTime, SerialTypeOK, Time
<1>3. ASSUME NEW a \in Auctions, NEW l \in Listings, List(a, l)
      PROVE  SerialTypeOK'
  <2>1. NewAuction(l) \in AuctionSnapshot
    BY ListingsAssumption DEF NewAuction, AuctionSnapshot, Listing
  <2> QED
    BY <1>3, <2>1 DEF List, SerialTypeOK
<1>4. ASSUME NEW c \in Calls, NEW cmd \in Commands, Call(c, cmd)
      PROVE  SerialTypeOK'
  BY <1>4, CommandsAssumption DEF Call, SerialTypeOK
<1>5. ASSUME NEW c \in Calls, Accept(c)
      PROVE  SerialTypeOK'
  <2> DEFINE cmd == command[c]
             row == auctions[cmd.auction_id]
  <2>1. /\ cmd \in BidCommand
        /\ row \in AuctionSnapshot
    BY <1>5 DEF Accept, Pending, SerialTypeOK, BidCommand
  <2>2. PICK now \in arrived[c]..clock, at \in arrived[c]..clock :
          LET bid == NewBid(c, cmd, row.version + 1, at)
          IN  /\ evaluate_bid(row, cmd.amount_cents, now) = "accepted"
              /\ bids' = bids \cup {bid}
              /\ auctions' = [auctions EXCEPT ![cmd.auction_id] =
                   apply_accepted_bid(row, c, cmd.amount_cents, now)]
              /\ \/ \E n \in 1..MaxAttempts, k \in 0..MaxAttempts :
                      result' = [result EXCEPT ![c] = accepted(bid, n, k)]
                 \/ result' = [result EXCEPT ![c] = raised("OperationalError")]
    BY <1>5 DEF Accept
  <2>3. now \in Nat /\ at \in Time
    BY DEF SerialTypeOK, Time
  <2>4. NewBid(c, cmd, row.version + 1, at) \in AcceptedBid
    <3>1. row.version + 1 \in Nat \ {0}
      BY <2>1 DEF AuctionSnapshot
    <3> QED
      BY <2>1, <2>3, <3>1, NewBidType
  <2>5. apply_accepted_bid(row, c, cmd.amount_cents, now) \in AuctionSnapshot
    <3>1. cmd.amount_cents \in Money
      BY <2>1 DEF BidCommand
    <3> QED
      BY <2>1, <2>2, <2>3, <3>1, AppliedRow
  <2>6. result' \in [Calls -> BidOutcome \cup {NULL}]
    BY <2>2, <2>4, OutcomeTypes DEF SerialTypeOK, Exceptions
  <2> QED
    BY <1>5, <2>2, <2>4, <2>5, <2>6 DEF Accept, SerialTypeOK
<1>6. ASSUME NEW c \in Calls, Replay(c)
      PROVE  SerialTypeOK'
  BY <1>6, OutcomeTypes DEF Replay, BidsOf, SerialTypeOK
<1>7. ASSUME NEW c \in Calls, Refuse(c)
      PROVE  SerialTypeOK'
  BY <1>7, OutcomeTypes DEF Refuse, SerialTypeOK
<1>8. ASSUME NEW c \in Calls, Fail(c)
      PROVE  SerialTypeOK'
  <2>1. 1 \in 1..MaxAttempts /\ 0 \in 0..MaxAttempts
    OBVIOUS
  <2> QED
    BY <1>8, <2>1, OutcomeTypes DEF Fail, SerialTypeOK
<1> QED
  BY <1>1, <1>2, <1>3, <1>4, <1>5, <1>6, <1>7, <1>8 DEF SerialNext, Invisible

(* The abstract auction is type correct. *)
THEOREM SerialTypeCorrect == SerialSpec => []SerialTypeOK
<1>1. SerialInit => SerialTypeOK
  BY BoundsAssumption DEF SerialInit, SerialTypeOK, Time
<1> QED
  BY <1>1, SerialTypeStep, PTL DEF SerialSpec

-----------------------------------------------------------------------------
(***************************************************************************)
(* What a call that is admitted leaves behind: one bid, one new row, and   *)
(* one outcome.                                                            *)
(***************************************************************************)
LEMMA AcceptEffect ==
  ASSUME SerialTypeOK, NEW c \in Calls, Accept(c)
  PROVE  \E bid \in AcceptedBid, new \in AuctionSnapshot, out \in BidOutcome :
           LET cmd == command[c]
               row == auctions[cmd.auction_id]
           IN  /\ cmd \in BidCommand
               /\ row \in AuctionSnapshot
               /\ bids' = bids \cup {bid}
               /\ bid.id = c
               /\ bid.request_id = cmd.request_id
               /\ bid.auction_id = cmd.auction_id
               /\ bid.amount_cents = cmd.amount_cents
               /\ bid.auction_version = row.version + 1
               /\ Matches(bid, cmd)
               /\ auctions' = [auctions EXCEPT ![cmd.auction_id] = new]
               /\ new.current_price_cents = cmd.amount_cents
               /\ new.winning_bid_id = c
               /\ new.version = row.version + 1
               /\ new.starting_price_cents = row.starting_price_cents
               /\ new.minimum_increment_cents = row.minimum_increment_cents
               /\ cmd.amount_cents >= minimum_acceptable_bid(row)
               /\ result' = [result EXCEPT ![c] = out]
               /\ \/ out.status = "accepted" /\ out.bid = bid
                  \/ out.status = "OperationalError"
<1> DEFINE cmd == command[c]
           row == auctions[cmd.auction_id]
<1>1. /\ cmd \in BidCommand
      /\ row \in AuctionSnapshot
  BY DEF Accept, Pending, SerialTypeOK, BidCommand
<1>2. cmd.amount_cents \in Money /\ row.version + 1 \in Nat \ {0}
  BY <1>1 DEF BidCommand, AuctionSnapshot
<1>3. PICK now \in arrived[c]..clock, at \in arrived[c]..clock :
        LET bid == NewBid(c, cmd, row.version + 1, at)
        IN  /\ evaluate_bid(row, cmd.amount_cents, now) = "accepted"
            /\ bids' = bids \cup {bid}
            /\ auctions' = [auctions EXCEPT ![cmd.auction_id] =
                 apply_accepted_bid(row, c, cmd.amount_cents, now)]
            /\ \/ \E n \in 1..MaxAttempts, k \in 0..MaxAttempts :
                    result' = [result EXCEPT ![c] = accepted(bid, n, k)]
               \/ result' = [result EXCEPT ![c] = raised("OperationalError")]
  BY DEF Accept
<1>4. now \in Nat /\ at \in Time
  BY BoundsAssumption DEF SerialTypeOK, Time
<1> DEFINE bid == NewBid(c, cmd, row.version + 1, at)
           new == apply_accepted_bid(row, c, cmd.amount_cents, now)
<1>5. /\ bid \in AcceptedBid
      /\ bid.id = c
      /\ bid.request_id = cmd.request_id
      /\ bid.auction_id = cmd.auction_id
      /\ bid.amount_cents = cmd.amount_cents
      /\ bid.auction_version = row.version + 1
      /\ Matches(bid, cmd)
  <2>1. bid \in AcceptedBid
    BY <1>1, <1>2, <1>4, NewBidType
  <2> QED
    BY <2>1 DEF NewBid, Matches
<1>6. /\ new \in AuctionSnapshot
      /\ new.current_price_cents = cmd.amount_cents
      /\ new.winning_bid_id = c
      /\ new.version = row.version + 1
      /\ new.starting_price_cents = row.starting_price_cents
      /\ new.minimum_increment_cents = row.minimum_increment_cents
  BY <1>1, <1>2, <1>3, <1>4, AppliedRow
<1>7. cmd.amount_cents >= minimum_acceptable_bid(row)
  BY <1>1, <1>2, <1>3, <1>4, AcceptedVerdict
<1>8. PICK out \in BidOutcome :
        /\ result' = [result EXCEPT ![c] = out]
        /\ \/ out.status = "accepted" /\ out.bid = bid
           \/ out.status = "OperationalError"
  <2>1. CASE \E n \in 1..MaxAttempts, k \in 0..MaxAttempts :
               result' = [result EXCEPT ![c] = accepted(bid, n, k)]
    <3>1. PICK n \in 1..MaxAttempts, k \in 0..MaxAttempts :
            result' = [result EXCEPT ![c] = accepted(bid, n, k)]
      BY <2>1
    <3>2. accepted(bid, n, k) \in BidOutcome
      BY <1>5, OutcomeTypes
    <3>3. accepted(bid, n, k).status = "accepted" /\ accepted(bid, n, k).bid = bid
      BY DEF accepted, ReportBid
    <3> QED
      BY <3>1, <3>2, <3>3
  <2>2. CASE result' = [result EXCEPT ![c] = raised("OperationalError")]
    <3>1. 1 \in 1..MaxAttempts /\ 0 \in 0..MaxAttempts
      BY BoundsAssumption
    <3>2. raised("OperationalError") \in BidOutcome
      BY <3>1, OutcomeTypes DEF Exceptions
    <3>3. raised("OperationalError").status = "OperationalError"
      BY DEF raised
    <3> QED
      BY <2>2, <3>2, <3>3
  <2> QED
    BY <1>3, <2>1, <2>2
<1> HIDE DEF bid, new
<1>9. /\ bids' = bids \cup {bid}
      /\ auctions' = [auctions EXCEPT ![cmd.auction_id] = new]
  BY <1>3 DEF bid, new
<1> QED
  BY <1>1, <1>5, <1>6, <1>7, <1>8, <1>9

(***************************************************************************)
(* No step spoils the history of an auction.                               *)
(***************************************************************************)
LEMMA HistoryStep ==
  SerialTypeOK /\ HistoryIsSerial /\ [SerialNext]_serialVars => HistoryIsSerial'
<1> SUFFICES ASSUME SerialTypeOK, HistoryIsSerial, [SerialNext]_serialVars
             PROVE  HistoryIsSerial'
  OBVIOUS
<1> USE DEF HistoryIsSerial
<1>1. CASE UNCHANGED <<auctions, bids>>
  BY <1>1 DEF VersionsAreContiguous, VersionsAreUnique,
              BidsBelongToAuctions, BidsRaisePrice, WinnerIsLatest
<1>2. ASSUME NEW a \in Auctions, NEW l \in Listings, List(a, l)
      PROVE  HistoryIsSerial'
  <2> DEFINE new == NewAuction(l)
  <2>1. /\ auctions' = [auctions EXCEPT ![a] = new]
        /\ bids' = bids
        /\ auctions[a] = NULL
    BY <1>2 DEF List
  <2>2. \A b \in bids : b.auction_id # a /\ b.auction_id \in Auctions
    BY <2>1 DEF BidsBelongToAuctions, SerialTypeOK, AcceptedBid
  <2>3. /\ new.version = 0
        /\ new.current_price_cents = NULL
        /\ new.winning_bid_id = NULL
    BY DEF NewAuction
  <2>4. \A b \in bids : auctions'[b.auction_id] = auctions[b.auction_id]
    BY <2>1, <2>2 DEF SerialTypeOK
  <2>5. \A x \in Auctions : x # a => auctions'[x] = auctions[x]
    BY <2>1 DEF SerialTypeOK
  <2>6. auctions'[a] = new
    BY <2>1 DEF SerialTypeOK
  <2> HIDE DEF new
  <2>7. VersionsAreContiguous'
    BY <2>1, <2>3, <2>5, <2>6 DEF VersionsAreContiguous
  <2>8. VersionsAreUnique'
    BY <2>1 DEF VersionsAreUnique
  <2>9. BidsBelongToAuctions'
    BY <2>1, <2>4 DEF BidsBelongToAuctions
  <2>10. BidsRaisePrice'
    BY <2>1, <2>4 DEF BidsRaisePrice
  <2>11. WinnerIsLatest'
    BY <2>1, <2>2, <2>3, <2>5, <2>6 DEF WinnerIsLatest
  <2> QED
    BY <2>7, <2>8, <2>9, <2>10, <2>11
<1>3. ASSUME NEW c \in Calls, Accept(c)
      PROVE  HistoryIsSerial'
  <2> DEFINE cmd == command[c]
             a == cmd.auction_id
             row == auctions[a]
  <2>1. PICK bid \in AcceptedBid, new \in AuctionSnapshot :
          /\ cmd \in BidCommand
          /\ row \in AuctionSnapshot
          /\ bids' = bids \cup {bid}
          /\ bid.auction_id = a
          /\ bid.id = c
          /\ bid.amount_cents = cmd.amount_cents
          /\ bid.auction_version = row.version + 1
          /\ auctions' = [auctions EXCEPT ![a] = new]
          /\ new.current_price_cents = cmd.amount_cents
          /\ new.winning_bid_id = c
          /\ new.version = row.version + 1
          /\ new.starting_price_cents = row.starting_price_cents
          /\ new.minimum_increment_cents = row.minimum_increment_cents
          /\ cmd.amount_cents >= minimum_acceptable_bid(row)
    BY <1>3, AcceptEffect
  <2>2. /\ a \in Auctions
        /\ row # NULL
        /\ new # NULL
        /\ row.version \in Nat
    BY <2>1, NullAssumption DEF BidCommand, AuctionSnapshot
  <2>3. /\ auctions'[a] = new
        /\ \A x \in Auctions : x # a => auctions'[x] = auctions[x]
    BY <2>1, <2>2 DEF SerialTypeOK
  <2>4. \A b \in bids : /\ b \in AcceptedBid
                        /\ b.auction_id \in Auctions
                        /\ b.auction_version \in Nat \ {0}
                        /\ b.amount_cents \in Int
    BY MoneyAssumption DEF SerialTypeOK, AcceptedBid, Money
  <2>5. \A b \in bids : b.auction_id = a => b.auction_version <= row.version
    BY DEF BidsBelongToAuctions
  <2>6. row.version > 0 =>
          \E b \in bids : b.auction_id = a /\ b.auction_version = row.version
    BY <2>2 DEF VersionsAreContiguous
  <2>7. cmd.amount_cents >= row.starting_price_cents \/ row.version # 0
    BY <2>1, <2>2 DEF WinnerIsLatest, minimum_acceptable_bid
  <2>8. \A b \in bids : b.auction_id = a /\ b.auction_version = row.version =>
          cmd.amount_cents >= b.amount_cents + row.minimum_increment_cents
    <3> SUFFICES ASSUME NEW b \in bids, b.auction_id = a,
                        b.auction_version = row.version
                 PROVE  cmd.amount_cents >=
                          b.amount_cents + row.minimum_increment_cents
      OBVIOUS
    <3>1. row.current_price_cents = b.amount_cents
      BY <2>2 DEF WinnerIsLatest
    <3>2. row.current_price_cents # NULL
      BY <2>4, <3>1, MoneyAssumption, NullAssumption
         DEF AcceptedBid, Money, SerialTypeOK
    <3> QED
      BY <2>1, <3>1, <3>2 DEF minimum_acceptable_bid
  <2> HIDE DEF cmd, a, row
  <2>9. VersionsAreContiguous'
    <3> SUFFICES ASSUME NEW x \in Auctions, auctions'[x] # NULL,
                        NEW v \in 1..auctions'[x].version
                 PROVE  \E b \in bids' : b.auction_id = x
                                        /\ b.auction_version = v
      BY DEF VersionsAreContiguous
    <3>1. CASE x = a /\ v = row.version + 1
      BY <2>1, <3>1
    <3>2. CASE x = a /\ v # row.version + 1
      <4>1. v \in 1..row.version
        BY <2>1, <2>2, <2>3, <3>2
      <4> QED
        BY <2>1, <2>2, <3>2, <4>1 DEF VersionsAreContiguous, row
    <3>3. CASE x # a
      BY <2>1, <2>3, <3>3 DEF VersionsAreContiguous
    <3> QED
      BY <3>1, <3>2, <3>3
  <2>10. VersionsAreUnique'
    <3> SUFFICES ASSUME NEW b \in bids', NEW d \in bids',
                        b.auction_id = d.auction_id,
                        b.auction_version = d.auction_version
                 PROVE  b = d
      BY DEF VersionsAreUnique
    <3>1. \A e \in bids : e.auction_id = a => e.auction_version # row.version + 1
      BY <2>2, <2>4, <2>5
    <3> QED
      BY <2>1, <3>1 DEF VersionsAreUnique
  <2>11. BidsBelongToAuctions'
    <3> SUFFICES ASSUME NEW b \in bids'
                 PROVE  /\ auctions'[b.auction_id] # NULL
                        /\ b.auction_version <= auctions'[b.auction_id].version
      BY DEF BidsBelongToAuctions
    <3>1. CASE b.auction_id # a
      BY <2>1, <2>3, <2>4, <3>1 DEF BidsBelongToAuctions
    <3>2. CASE b.auction_id = a
      <4>1. b.auction_version <= row.version + 1
        BY <2>1, <2>2, <2>4, <2>5
           , <3>2
      <4> QED
        BY <2>1, <2>2, <2>3, <3>2, <4>1
    <3> QED
      BY <3>1, <3>2
  <2>12. BidsRaisePrice'
    <3>1. ASSUME NEW b \in bids'
          PROVE  /\ auctions'[b.auction_id].starting_price_cents =
                      auctions[b.auction_id].starting_price_cents
                 /\ auctions'[b.auction_id].minimum_increment_cents =
                      auctions[b.auction_id].minimum_increment_cents
      BY <2>1, <2>3, <2>4 DEF row
    <3>2. ASSUME NEW b \in bids', b.auction_version = 1
          PROVE  b.amount_cents >= auctions'[b.auction_id].starting_price_cents
      <4>1. CASE b \in bids
        BY <3>1, <3>2, <4>1 DEF BidsRaisePrice
      <4>2. CASE b = bid
        BY <2>1, <2>2, <2>7, <3>1, <3>2, <4>2 DEF row
      <4> QED
        BY <2>1, <4>1, <4>2
    <3>3. ASSUME NEW b \in bids', NEW d \in bids',
                 d.auction_id = b.auction_id,
                 d.auction_version = b.auction_version + 1
          PROVE  d.amount_cents >= b.amount_cents
                   + auctions'[b.auction_id].minimum_increment_cents
      <4>1. CASE b \in bids /\ d \in bids
        BY <3>1, <3>3, <4>1 DEF BidsRaisePrice
      <4>2. CASE b \in bids /\ d = bid
        <5>1. b.auction_id = a /\ b.auction_version = row.version
          BY <2>1, <2>2, <2>4, <3>3, <4>2
        <5> QED
          BY <2>1, <2>8, <3>1, <4>2, <5>1 DEF row
      <4>3. CASE b = bid
        BY <2>1, <2>2, <2>4, <2>5, <3>3, <4>3
      <4> QED
        BY <2>1, <4>1, <4>2, <4>3
    <3> QED
      BY <3>2, <3>3 DEF BidsRaisePrice
  <2>13. WinnerIsLatest'
    <3> SUFFICES ASSUME NEW x \in Auctions, auctions'[x] # NULL
                 PROVE  /\ auctions'[x].version = 0 =>
                             /\ auctions'[x].current_price_cents = NULL
                             /\ auctions'[x].winning_bid_id = NULL
                        /\ \A b \in bids' :
                             b.auction_id = x
                             /\ b.auction_version = auctions'[x].version
                               => /\ auctions'[x].current_price_cents
                                       = b.amount_cents
                                  /\ auctions'[x].winning_bid_id = b.id
      BY DEF WinnerIsLatest
    <3>1. CASE x # a
      BY <2>1, <2>3, <3>1 DEF WinnerIsLatest
    <3>2. CASE x = a
      <4>1. \A b \in bids : b.auction_id = a =>
              b.auction_version # row.version + 1
        BY <2>2, <2>4, <2>5
      <4> QED
        BY <2>1, <2>2, <2>3, <3>2, <4>1
    <3> QED
      BY <3>1, <3>2
  <2> QED
    BY <2>9, <2>10, <2>11, <2>12, <2>13
<1> QED
  BY <1>1, <1>2, <1>3
     DEF SerialNext, serialVars, Invisible, PassTime, Call, Replay, Refuse, Fail

(***************************************************************************)
(* The bids of every auction always form a serial history of it, whatever  *)
(* the number of calls and of versions.                                    *)
(***************************************************************************)
THEOREM SerialHistory == SerialSpec => []HistoryIsSerial
<1>1. SerialInit => HistoryIsSerial
  BY DEF SerialInit, HistoryIsSerial, VersionsAreContiguous,
         VersionsAreUnique, BidsBelongToAuctions, BidsRaisePrice,
         WinnerIsLatest
<1> QED
  BY <1>1, HistoryStep, SerialTypeCorrect, PTL DEF SerialSpec

-----------------------------------------------------------------------------
(***************************************************************************)
(* A call that is not admitted leaves the tables alone; when it reports a  *)
(* bid, it is one that was there and that it asked for.                    *)
(***************************************************************************)
LEMMA AnswerEffect ==
  ASSUME SerialTypeOK, NEW c \in Calls, Replay(c) \/ Refuse(c) \/ Fail(c)
  PROVE  /\ Pending(c)
         /\ UNCHANGED <<auctions, bids, clock, command, arrived>>
         /\ \E out \in BidOutcome :
              /\ result' = [result EXCEPT ![c] = out]
              /\ \/ /\ out.status = "replayed"
                    /\ out.bid \in BidsOf(command[c].request_id)
                    /\ Matches(out.bid, command[c])
                 \/ out.status \notin {"accepted", "replayed"}
<1> DEFINE Allowed(out) ==
             /\ out \in BidOutcome
             /\ \/ /\ out.status = "replayed"
                   /\ out.bid \in BidsOf(command[c].request_id)
                   /\ Matches(out.bid, command[c])
                \/ out.status \notin {"accepted", "replayed"}
<1>1. Pending(c) /\ UNCHANGED <<auctions, bids, clock, command, arrived>>
  BY DEF Replay, Refuse, Fail
<1>2. \E out : Allowed(out) /\ result' = [result EXCEPT ![c] = out]
  <2>1. CASE Replay(c)
    <3>1. PICK bid \in BidsOf(command[c].request_id),
               n \in 1..MaxAttempts, k \in 0..MaxAttempts :
            /\ Matches(bid, command[c])
            /\ result' = [result EXCEPT ![c] = replayed(bid, n, k)]
      BY <2>1 DEF Replay
    <3>2. replayed(bid, n, k) \in BidOutcome
      BY <3>1, OutcomeTypes DEF BidsOf, SerialTypeOK
    <3>3. Allowed(replayed(bid, n, k))
      BY <3>1, <3>2 DEF replayed, ReportBid
    <3> QED
      BY <3>1, <3>3
  <2>2. CASE Refuse(c)
    <3>1. PICK reason \in BidRejectionReason, m \in Money \cup {NULL},
               n \in 1..MaxAttempts, k \in 0..MaxAttempts :
            result' = [result EXCEPT ![c] = rejected(reason, m, n, k)]
      BY <2>2 DEF Refuse
    <3>2. rejected(reason, m, n, k) \in BidOutcome
      BY <3>1, OutcomeTypes
    <3>3. Allowed(rejected(reason, m, n, k))
      BY <3>2 DEF rejected
    <3> QED
      BY <3>1, <3>3
  <2>3. CASE Fail(c)
    <3>1. PICK exception \in Exceptions :
            result' = [result EXCEPT ![c] = raised(exception)]
      BY <2>3 DEF Fail
    <3>2. raised(exception) \in BidOutcome
      <4>1. 1 \in 1..MaxAttempts /\ 0 \in 0..MaxAttempts
        BY BoundsAssumption
      <4> QED
        BY <4>1, OutcomeTypes
    <3>3. Allowed(raised(exception))
      BY <3>2 DEF raised, Exceptions
    <3> QED
      BY <3>1, <3>3
  <2> QED
    BY <2>1, <2>2, <2>3
<1> QED
  BY <1>1, <1>2

(***************************************************************************)
(* Why OutcomesAgree is inductive: only calls that have been made end, and *)
(* only calls that have ended own a bid.                                   *)
(***************************************************************************)
OwnersHaveEnded ==
  /\ \A c \in Calls : result[c] # NULL => command[c] # NULL
  /\ \A b \in bids : result[b.id] # NULL

(***************************************************************************)
(* A call that stores no bid agrees with the stored ones when all it may   *)
(* report is a bid that is stored and that it asked for.                   *)
(***************************************************************************)
LEMMA AnswerAgrees ==
  ASSUME SerialTypeOK, OwnersHaveEnded, OutcomesAgree,
         NEW c \in Calls, Pending(c), UNCHANGED <<bids, command>>,
         NEW out \in BidOutcome, result' = [result EXCEPT ![c] = out],
         \/ /\ out.status = "replayed"
            /\ out.bid \in BidsOf(command[c].request_id)
            /\ Matches(out.bid, command[c])
         \/ out.status \notin {"accepted", "replayed"}
  PROVE  OwnersHaveEnded' /\ OutcomesAgree'
<1>0. \A b \in bids : b.id \in Calls
  BY DEF SerialTypeOK, AcceptedBid
<1>1. /\ command[c] # NULL /\ out # NULL
      /\ \A b \in bids : b.id # c
  BY NullAssumption DEF Pending, OwnersHaveEnded
<1>2. OwnersHaveEnded'
  BY <1>0, <1>1 DEF OwnersHaveEnded, SerialTypeOK
<1>3. ASSUME NEW x \in Calls, result'[x] # NULL
      PROVE  /\ result'[x].status \in {"accepted", "replayed"} =>
                  /\ result'[x].bid \in bids
                  /\ result'[x].bid.request_id = command[x].request_id
                  /\ Matches(result'[x].bid, command[x])
                  /\ result'[x].status = "accepted" <=> result'[x].bid.id = x
             /\ result'[x].status \notin {"accepted", "OperationalError"} =>
                  \A b \in bids : b.id # x
  <2>1. CASE x = c
    <3>1. result'[x] = out
      BY <2>1 DEF SerialTypeOK
    <3> QED
      BY <1>1, <2>1, <3>1 DEF BidsOf
  <2>2. CASE x # c
    <3>1. result'[x] = result[x]
      BY <2>2 DEF SerialTypeOK
    <3> QED
      BY <1>3, <3>1 DEF OutcomesAgree, BidsOf
  <2> QED
    BY <2>1, <2>2
<1> QED
  BY <1>2, <1>3 DEF OutcomesAgree, BidsOf, Matches

(***************************************************************************)
(* A call that stores the first bid of its request agrees with the stored  *)
(* ones when it reports that bid, or a lost connection.                    *)
(***************************************************************************)
LEMMA AdmissionAgrees ==
  ASSUME SerialTypeOK, OwnersHaveEnded, OutcomesAgree,
         NEW c \in Calls, Pending(c), command' = command,
         BidsOf(command[c].request_id) = {},
         NEW bid \in AcceptedBid, bids' = bids \cup {bid}, bid.id = c,
         bid.request_id = command[c].request_id, Matches(bid, command[c]),
         NEW out \in BidOutcome, result' = [result EXCEPT ![c] = out],
         \/ out.status = "accepted" /\ out.bid = bid
         \/ out.status = "OperationalError"
  PROVE  OwnersHaveEnded' /\ OutcomesAgree'
<1>0. \A b \in bids : b.id \in Calls /\ b \in AcceptedBid
  BY DEF SerialTypeOK, AcceptedBid
<1>1. /\ command[c] # NULL /\ out # NULL
      /\ \A b \in bids : b.request_id # command[c].request_id
  BY NullAssumption DEF Pending, BidsOf
<1>2. OwnersHaveEnded'
  BY <1>0, <1>1 DEF OwnersHaveEnded, SerialTypeOK
<1>3. \A b, d \in bids' : b.request_id = d.request_id => b = d
  BY <1>1 DEF OutcomesAgree
<1>4. ASSUME NEW x \in Calls, result'[x] # NULL
      PROVE  /\ result'[x].status \in {"accepted", "replayed"} =>
                  /\ result'[x].bid \in bids'
                  /\ result'[x].bid.request_id = command[x].request_id
                  /\ Matches(result'[x].bid, command[x])
                  /\ result'[x].status = "accepted" <=> result'[x].bid.id = x
             /\ result'[x].status \notin {"accepted", "OperationalError"} =>
                  \A b \in bids' : b.id # x
  <2>1. CASE x = c
    BY <2>1 DEF SerialTypeOK
  <2>2. CASE x # c
    <3>1. result'[x] = result[x]
      BY <2>2 DEF SerialTypeOK
    <3> QED
      BY <1>4, <2>2, <3>1 DEF OutcomesAgree, BidsOf
  <2> QED
    BY <2>1, <2>2
<1> QED
  BY <1>2, <1>3, <1>4 DEF OutcomesAgree, BidsOf, Matches

(* One serial step keeps the answers in agreement with the stored bids. *)
LEMMA OutcomesStep ==
  SerialTypeOK /\ OwnersHaveEnded /\ OutcomesAgree /\ [SerialNext]_serialVars
    => OwnersHaveEnded' /\ OutcomesAgree'
<1> SUFFICES ASSUME SerialTypeOK, OwnersHaveEnded, OutcomesAgree,
                    [SerialNext]_serialVars
             PROVE  OwnersHaveEnded' /\ OutcomesAgree'
  OBVIOUS
<1>1. CASE UNCHANGED <<bids, command, result>>
  BY <1>1 DEF OwnersHaveEnded, OutcomesAgree, BidsOf
<1>2. ASSUME NEW c \in Calls, NEW cmd \in Commands, Call(c, cmd)
      PROVE  OwnersHaveEnded' /\ OutcomesAgree'
  <2>1. /\ bids' = bids /\ result' = result
        /\ result[c] = NULL
        /\ command'[c] = cmd /\ cmd # NULL
        /\ \A x \in Calls : x # c => command'[x] = command[x]
    BY <1>2, CommandsAssumption, NullAssumption
       DEF Call, OwnersHaveEnded, SerialTypeOK
  <2> QED
    BY <2>1 DEF OwnersHaveEnded, OutcomesAgree, BidsOf
<1>3. ASSUME NEW c \in Calls, Accept(c)
      PROVE  OwnersHaveEnded' /\ OutcomesAgree'
  <2>1. PICK bid \in AcceptedBid, out \in BidOutcome :
          /\ bids' = bids \cup {bid}
          /\ bid.id = c
          /\ bid.request_id = command[c].request_id
          /\ Matches(bid, command[c])
          /\ result' = [result EXCEPT ![c] = out]
          /\ \/ out.status = "accepted" /\ out.bid = bid
             \/ out.status = "OperationalError"
    BY <1>3, AcceptEffect
  <2> QED
    BY <1>3, <2>1, AdmissionAgrees DEF Accept
<1>4. ASSUME NEW c \in Calls, Replay(c) \/ Refuse(c) \/ Fail(c)
      PROVE  OwnersHaveEnded' /\ OutcomesAgree'
  BY <1>4, AnswerEffect, AnswerAgrees
<1> QED
  BY <1>1, <1>2, <1>3, <1>4
     DEF SerialNext, serialVars, Invisible, PassTime, List

(***************************************************************************)
(* A request is carried out at most once and its callers are told the      *)
(* truth about it, whatever the number of repetitions.                     *)
(***************************************************************************)
THEOREM SerialOutcomes == SerialSpec => []OutcomesAgree
<1>1. SerialInit => OutcomesAgree /\ OwnersHaveEnded
  BY DEF SerialInit, OutcomesAgree, OwnersHaveEnded
<1> QED
  BY <1>1, OutcomesStep, SerialTypeCorrect, PTL DEF SerialSpec

-----------------------------------------------------------------------------
(***************************************************************************)
(* The same auction, at the same time or after some more bids.             *)
(***************************************************************************)
Later(row, new) ==
  /\ new.starting_price_cents = row.starting_price_cents
  /\ new.minimum_increment_cents = row.minimum_increment_cents
  /\ new.starts_at = row.starts_at
  /\ new.ends_at = row.ends_at
  /\ row.version <= new.version
  /\ minimum_acceptable_bid(row) <= minimum_acceptable_bid(new)
  /\ row.version = new.version => row = new

(***************************************************************************)
(* Later is a partial order on the rows of a table.                        *)
(***************************************************************************)
LEMMA LaterReflexive ==
  ASSUME NEW row \in AuctionSnapshot
  PROVE  Later(row, row)
<1>1. row.version \in Nat /\ minimum_acceptable_bid(row) \in Int
  BY MoneyAssumption DEF AuctionSnapshot, minimum_acceptable_bid, Money
<1> QED
  BY <1>1 DEF Later

(* Later is transitive. *)
LEMMA LaterTransitive ==
  ASSUME NEW row \in AuctionSnapshot, NEW mid \in AuctionSnapshot,
         NEW new \in AuctionSnapshot, Later(row, mid), Later(mid, new)
  PROVE  Later(row, new)
<1>1. /\ row.version \in Nat /\ minimum_acceptable_bid(row) \in Int
      /\ mid.version \in Nat /\ minimum_acceptable_bid(mid) \in Int
      /\ new.version \in Nat /\ minimum_acceptable_bid(new) \in Int
  BY MoneyAssumption DEF AuctionSnapshot, minimum_acceptable_bid, Money
<1> QED
  BY <1>1 DEF Later

(***************************************************************************)
(* The row that a bid leaves is later than the row it was admitted on.     *)
(***************************************************************************)
LEMMA WrittenRowIsLater ==
  ASSUME NEW row \in AuctionSnapshot, NEW amount \in Money, NEW c \in Calls,
         amount >= minimum_acceptable_bid(row)
  PROVE  Later(row, WithWinner(row, c, amount, row.version + 1))
<1> DEFINE new == WithWinner(row, c, amount, row.version + 1)
<1>1. row.version \in Nat /\ row.version + 1 \in Nat
  BY DEF AuctionSnapshot
<1>2. /\ new.current_price_cents = amount
      /\ new.version = row.version + 1
      /\ new.starting_price_cents = row.starting_price_cents
      /\ new.minimum_increment_cents = row.minimum_increment_cents
      /\ new.starts_at = row.starts_at
      /\ new.ends_at = row.ends_at
  BY <1>1, WrittenRow
<1>3. amount # NULL /\ amount \in Nat
  BY NullAssumption, MoneyAssumption DEF Money
<1>4. minimum_acceptable_bid(new) = amount + row.minimum_increment_cents
  BY <1>2, <1>3 DEF minimum_acceptable_bid
<1>5. row.minimum_increment_cents \in Nat
  BY MoneyAssumption DEF AuctionSnapshot, Money
<1>6. minimum_acceptable_bid(row) \in Int
  BY MoneyAssumption DEF AuctionSnapshot, minimum_acceptable_bid, Money
<1>7. minimum_acceptable_bid(row) <= minimum_acceptable_bid(new)
  BY <1>3, <1>4, <1>5, <1>6
<1> HIDE DEF new
<1>8. Later(row, new)
  BY <1>1, <1>2, <1>7 DEF Later
<1> QED
  BY <1>8 DEF new

(***************************************************************************)
(* An auction never goes back: no step removes it, changes its terms or    *)
(* its window, lowers its version or the amount it asks for, or alters it  *)
(* in any way without a new version.                                       *)
(***************************************************************************)
RowsMoveForward ==
  \A a \in Auctions : auctions[a] # NULL =>
    auctions'[a] # NULL /\ Later(auctions[a], auctions'[a])

RowsOnlyAdvance == [][RowsMoveForward]_serialVars

(* Every step of the serial auction moves its rows forward. *)
LEMMA AdvanceStep ==
  SerialTypeOK /\ [SerialNext]_serialVars => RowsMoveForward
<1> SUFFICES ASSUME SerialTypeOK, [SerialNext]_serialVars,
                    NEW a \in Auctions, auctions[a] # NULL
             PROVE  auctions'[a] # NULL /\ Later(auctions[a], auctions'[a])
  BY DEF RowsMoveForward
<1>0. auctions[a] \in AuctionSnapshot
  BY DEF SerialTypeOK
<1>1. CASE auctions'[a] = auctions[a]
  BY <1>0, <1>1, LaterReflexive
<1>2. ASSUME NEW x \in Auctions, NEW l \in Listings, List(x, l)
      PROVE  auctions'[a] = auctions[a]
  BY <1>2 DEF List, SerialTypeOK
<1>3. ASSUME NEW c \in Calls, Accept(c), command[c].auction_id = a
      PROVE  auctions'[a] # NULL /\ Later(auctions[a], auctions'[a])
  <2> DEFINE cmd == command[c]
             row == auctions[a]
  <2>1. cmd.amount_cents \in Money
    BY <1>3 DEF Accept, Pending, SerialTypeOK, BidCommand
  <2>2. PICK now \in arrived[c]..clock :
          /\ evaluate_bid(row, cmd.amount_cents, now) = "accepted"
          /\ auctions' = [auctions EXCEPT ![a] =
               apply_accepted_bid(row, c, cmd.amount_cents, now)]
    BY <1>3 DEF Accept
  <2>3. now \in Nat
    BY BoundsAssumption DEF SerialTypeOK, Time
  <2>4. auctions'[a] = WithWinner(row, c, cmd.amount_cents, row.version + 1)
    BY <2>2 DEF apply_accepted_bid, SerialTypeOK
  <2>5. cmd.amount_cents >= minimum_acceptable_bid(row)
    BY <1>0, <2>1, <2>2, <2>3, AcceptedVerdict
  <2>6. row.version + 1 \in Nat
    BY <1>0 DEF AuctionSnapshot
  <2>7. auctions'[a] # NULL
    BY <1>0, <2>1, <2>4, <2>6, WrittenRow
  <2> QED
    BY <1>0, <2>1, <2>4, <2>5, <2>7, WrittenRowIsLater
<1>4. ASSUME NEW c \in Calls, Accept(c), command[c].auction_id # a
      PROVE  auctions'[a] = auctions[a]
  BY <1>4 DEF Accept, SerialTypeOK
<1>5. CASE UNCHANGED auctions
  BY <1>1, <1>5
<1> QED
  BY <1>1, <1>2, <1>3, <1>4, <1>5
     DEF SerialNext, serialVars, Invisible, PassTime, Call, Fail, Replay,
         Refuse

(***************************************************************************)
(* The serial auction, and so every strategy that implements it, only      *)
(* moves its auctions forward.                                             *)
(***************************************************************************)
THEOREM SerialAdvance == SerialSpec => RowsOnlyAdvance
BY AdvanceStep, SerialTypeCorrect, PTL DEF SerialSpec, RowsOnlyAdvance

-----------------------------------------------------------------------------
(***************************************************************************)
(* What has been said stands: no step takes a stored bid back, or changes  *)
(* the command of a call or the answer that it has had.                    *)
(***************************************************************************)
AnswersStand ==
  /\ bids \subseteq bids'
  /\ \A c \in Calls : /\ command[c] # NULL => command'[c] = command[c]
                      /\ result[c] # NULL => result'[c] = result[c]

AnswersAreFinal == [][AnswersStand]_serialVars

(* Every step of the serial auction lets the answers stand. *)
LEMMA FinalStep == SerialTypeOK /\ [SerialNext]_serialVars => AnswersStand
<1> SUFFICES ASSUME SerialTypeOK, [SerialNext]_serialVars
             PROVE  AnswersStand
  OBVIOUS
<1>1. CASE UNCHANGED <<bids, command, result>>
  BY <1>1 DEF AnswersStand
<1>2. ASSUME NEW c \in Calls, NEW cmd \in Commands, Call(c, cmd)
      PROVE  AnswersStand
  BY <1>2 DEF Call, AnswersStand, SerialTypeOK
<1>3. ASSUME NEW c \in Calls, Accept(c)
      PROVE  AnswersStand
  <2>1. PICK bid \in AcceptedBid, out \in BidOutcome :
          bids' = bids \cup {bid} /\ result' = [result EXCEPT ![c] = out]
    BY <1>3, AcceptEffect
  <2>2. command' = command /\ result[c] = NULL
    BY <1>3 DEF Accept, Pending
  <2> QED
    BY <2>1, <2>2 DEF AnswersStand, SerialTypeOK
<1>4. ASSUME NEW c \in Calls, Replay(c) \/ Refuse(c) \/ Fail(c)
      PROVE  AnswersStand
  <2>1. PICK out \in BidOutcome : result' = [result EXCEPT ![c] = out]
    BY <1>4, AnswerEffect
  <2>2. bids' = bids /\ command' = command /\ result[c] = NULL
    BY <1>4, AnswerEffect DEF Pending
  <2> QED
    BY <2>1, <2>2 DEF AnswersStand, SerialTypeOK
<1> QED
  BY <1>1, <1>2, <1>3, <1>4
     DEF SerialNext, serialVars, Invisible, PassTime, List

(***************************************************************************)
(* A bid that was stored stays, and a call is answered once, whatever      *)
(* other calls do later.                                                   *)
(***************************************************************************)
THEOREM SerialFinal == SerialSpec => AnswersAreFinal
BY FinalStep, SerialTypeCorrect, PTL DEF SerialSpec, AnswersAreFinal

(***************************************************************************)
(* A minimum that a refusal has quoted is never more than what the next    *)
(* bid must reach, however late it is read.                                *)
(***************************************************************************)
QuoteIsLow(c) ==
  LET row == auctions[command[c].auction_id]
  IN  /\ row # NULL
      /\ result[c].minimum_acceptable_cents \in Money
      /\ result[c].minimum_acceptable_cents <= minimum_acceptable_bid(row)

QuotesAreLow ==
  \A c \in Calls :
    result[c] # NULL /\ result[c].minimum_acceptable_cents # NULL
      => QuoteIsLow(c)

(* The answer that a step gives quotes a low minimum, or none. *)
LEMMA NewQuote ==
  ASSUME SerialTypeOK, NEW c \in Calls,
         Accept(c) \/ Replay(c) \/ Refuse(c) \/ Fail(c),
         result'[c].minimum_acceptable_cents # NULL
  PROVE  auctions' = auctions /\ command' = command /\ QuoteIsLow(c)'
<1>1. CASE Accept(c)
  <2>1. PICK out : /\ out.minimum_acceptable_cents = NULL
                   /\ result' = [result EXCEPT ![c] = out]
    BY <1>1 DEF Accept, accepted, ReportBid, raised
  <2> QED
    BY <2>1 DEF SerialTypeOK
<1>2. CASE Replay(c) \/ Fail(c)
  <2>1. PICK out : /\ out.minimum_acceptable_cents = NULL
                   /\ result' = [result EXCEPT ![c] = out]
    BY <1>2 DEF Replay, Fail, replayed, ReportBid, raised
  <2> QED
    BY <2>1 DEF SerialTypeOK
<1>3. CASE Refuse(c)
  <2>1. PICK reason \in BidRejectionReason, minimum \in Money \cup {NULL},
             n \in 1..MaxAttempts, k \in 0..MaxAttempts :
          /\ Justified(c, reason, minimum)
          /\ result' = [result EXCEPT ![c] = rejected(reason, minimum, n, k)]
    BY <1>3 DEF Refuse
  <2>2. result'[c].minimum_acceptable_cents = minimum
    BY <2>1 DEF rejected, SerialTypeOK
  <2>3. auctions' = auctions /\ command' = command
    BY <1>3 DEF Refuse
  <2> QED
    BY <2>1, <2>2, <2>3 DEF Justified, QuoteIsLow
<1> QED
  BY <1>1, <1>2, <1>3

(* One serial step keeps the quotes low. *)
LEMMA QuotesStep ==
  SerialTypeOK /\ OwnersHaveEnded /\ QuotesAreLow /\ [SerialNext]_serialVars
    => QuotesAreLow'
<1> SUFFICES ASSUME SerialTypeOK, OwnersHaveEnded, QuotesAreLow,
                    [SerialNext]_serialVars, NEW c \in Calls,
                    result'[c] # NULL,
                    result'[c].minimum_acceptable_cents # NULL
             PROVE  QuoteIsLow(c)'
  BY DEF QuotesAreLow
<1>1. CASE result[c] # NULL
  <2>1. QuoteIsLow(c) /\ command[c] \in BidCommand
        /\ result'[c] = result[c] /\ command'[c] = command[c]
    BY <1>1, FinalStep DEF AnswersStand, OwnersHaveEnded, SerialTypeOK,
                           QuotesAreLow
  <2> DEFINE a == command[c].auction_id
  <2>2. a \in Auctions
    BY <2>1 DEF BidCommand
  <2>3. auctions'[a] # NULL /\ Later(auctions[a], auctions'[a])
    BY <2>1, <2>2, AdvanceStep DEF RowsMoveForward, QuoteIsLow
  <2>4. auctions[a] \in AuctionSnapshot /\ auctions'[a] \in AuctionSnapshot
    BY <2>1, <2>2, <2>3, SerialTypeStep DEF SerialTypeOK, QuoteIsLow
  <2>5. /\ minimum_acceptable_bid(auctions[a]) \in Int
        /\ minimum_acceptable_bid(auctions'[a]) \in Int
        /\ result[c].minimum_acceptable_cents \in Int
    BY <2>1, <2>4, MoneyAssumption
       DEF AuctionSnapshot, minimum_acceptable_bid, Money, QuoteIsLow
  <2>6. result[c].minimum_acceptable_cents
          <= minimum_acceptable_bid(auctions'[a])
    BY <2>1, <2>3, <2>5 DEF QuoteIsLow, Later
  <2> QED
    BY <2>1, <2>3, <2>6 DEF QuoteIsLow
<1>2. CASE result[c] = NULL
  <2>1. \/ result'[c] = result[c]
        \/ Accept(c) \/ Replay(c) \/ Refuse(c) \/ Fail(c)
    <3>1. ASSUME NEW d \in Calls, d # c, Accept(d)
          PROVE  result'[c] = result[c]
      <4>1. PICK out : result' = [result EXCEPT ![d] = out]
        BY <3>1 DEF Accept
      <4> QED
        BY <3>1, <4>1 DEF SerialTypeOK
    <3>2. ASSUME NEW d \in Calls, d # c, Replay(d) \/ Refuse(d) \/ Fail(d)
          PROVE  result'[c] = result[c]
      <4>1. PICK out : result' = [result EXCEPT ![d] = out]
        BY <3>2, AnswerEffect
      <4> QED
        BY <3>2, <4>1 DEF SerialTypeOK
    <3> QED
      BY <3>1, <3>2
         DEF SerialNext, serialVars, Invisible, PassTime, List, Call
  <2> QED
    BY <1>2, <2>1, NewQuote
<1> QED
  BY <1>1, <1>2

(***************************************************************************)
(* The client of a rejected bid is never asked for too much.               *)
(***************************************************************************)
THEOREM SerialQuotes == SerialSpec => []QuotesAreLow
<1>1. SerialInit => QuotesAreLow /\ OwnersHaveEnded /\ OutcomesAgree
  BY DEF SerialInit, QuotesAreLow, OwnersHaveEnded, OutcomesAgree
<1> QED
  BY <1>1, QuotesStep, OutcomesStep, SerialTypeCorrect, PTL DEF SerialSpec

=============================================================================
