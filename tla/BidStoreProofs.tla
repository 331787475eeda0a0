--------------------------- MODULE BidStoreProofs ---------------------------
(***************************************************************************)
(* How the statements that the strategies share implement SerialAuction,   *)
(* and that check_auction_invariants judges what they have stored exactly. *)
(***************************************************************************)
EXTENDS InvariantChecker, SerialAuctionProofs, FiniteSetTheorems,
        SequenceTheorems, WellFoundedInduction

(***************************************************************************)
(* evaluate_bid, read backwards from its verdict.                          *)
(***************************************************************************)
LEMMA Verdicts ==
  ASSUME NEW row \in AuctionSnapshot, NEW amount \in Money, NEW now \in Nat,
         NEW verdict, verdict = evaluate_bid(row, amount, now)
  PROVE  /\ verdict \in {"accepted", "OverflowError", "auction_not_started",
                         "auction_closed", "bid_too_low"}
         /\ verdict # "OverflowError" => minimum_acceptable_bid(row) \in Money
         /\ verdict = "auction_not_started" => now < row.starts_at
         /\ verdict = "auction_closed" => now >= row.ends_at
         /\ verdict = "bid_too_low" => amount < minimum_acceptable_bid(row)
<1>1. /\ row.starts_at \in Nat /\ row.ends_at \in Nat
      /\ row.starting_price_cents \in Money
      /\ row.minimum_increment_cents \in Money
      /\ row.current_price_cents # NULL => row.current_price_cents \in Money
  BY DEF AuctionSnapshot
<1>2. derive_auction_state(row, now) = "scheduled" => now < row.starts_at
  BY <1>1 DEF derive_auction_state
<1>3. derive_auction_state(row, now) = "closed" => now >= row.ends_at
  BY <1>1 DEF derive_auction_state
<1>4. verdict # "OverflowError" => minimum_acceptable_bid(row) \in Money
  BY <1>1, MoneyAssumption
     DEF evaluate_bid, minimum_overflows, minimum_acceptable_bid, Money
<1> QED
  BY <1>2, <1>3, <1>4 DEF evaluate_bid

(***************************************************************************)
(* An exception is a failure of the call, as its caller sees it.           *)
(***************************************************************************)
LEMMA RaiseFails ==
  ASSUME NEW c \in Calls, Pending(c), NEW exception \in Exceptions,
         MayRaise(c, exception), Return(c, raised(exception))
  PROVE  Fail(c)
BY DEF Return, Fail

(***************************************************************************)
(* The answer to a request that has been carried out is a replay, or a     *)
(* refusal because the request id was reused.                              *)
(***************************************************************************)
LEMMA AnswerRefines ==
  ASSUME NEW c \in Calls, Pending(c), NEW n \in 1..MaxAttempts,
         NEW k \in 0..MaxAttempts, NEW outcome \in Answers(c, n, k),
         Return(c, outcome)
  PROVE  Replay(c) \/ Refuse(c)
<1>1. PICK bid \in BidsOf(command[c].request_id) :
        outcome = replay_or_reject(bid, command[c], n, k)
  BY DEF Answers
<1>2. /\ result' = [result EXCEPT ![c] = outcome]
      /\ UNCHANGED <<auctions, bids, clock, command, arrived>>
  BY DEF Return
<1>3. CASE Matches(bid, command[c])
  <2>1. outcome = replayed(bid, n, k)
    BY <1>1, <1>3 DEF replay_or_reject
  <2> QED
    BY <1>2, <1>3, <2>1 DEF Replay
<1>4. CASE ~ Matches(bid, command[c])
  <2>1. outcome = rejected("request_id_reused", NULL, n, k)
    BY <1>1, <1>4 DEF replay_or_reject
  <2>2. Justified(c, "request_id_reused", NULL)
    BY <1>1, <1>4 DEF Justified
  <2> QED
    BY <1>2, <2>1, <2>2 DEF Refuse, BidRejectionReason
<1> QED
  BY <1>3, <1>4

(***************************************************************************)
(* A refusal for want of an auction is justified when there is none.       *)
(***************************************************************************)
LEMMA NotFoundRefines ==
  ASSUME NEW c \in Calls, Pending(c), NEW n \in 1..MaxAttempts,
         NEW k \in 0..MaxAttempts, auctions[command[c].auction_id] = NULL,
         Return(c, rejected("auction_not_found", NULL, n, k))
  PROVE  Refuse(c)
<1>1. Justified(c, "auction_not_found", NULL)
  BY DEF Justified
<1> QED
  BY <1>1 DEF Return, Refuse, BidRejectionReason

(***************************************************************************)
(* A verdict against a bid is justified when the row it was reached on is  *)
(* the committed one or an older state of it, and the instant it was       *)
(* reached at is one of the call.                                          *)
(***************************************************************************)
LEMMA VerdictRefines ==
  ASSUME NEW c \in Calls, Pending(c), NEW n \in 1..MaxAttempts,
         NEW k \in 0..MaxAttempts, StoreTypeOK,
         NEW now \in arrived[c]..clock,
         NEW row, row = auctions[command[c].auction_id], row # NULL,
         seen[c] \in AuctionSnapshot,
         seen[c].starts_at = row.starts_at,
         seen[c].ends_at = row.ends_at,
         minimum_acceptable_bid(seen[c]) <= minimum_acceptable_bid(row),
         NEW verdict,
         verdict = evaluate_bid(seen[c], command[c].amount_cents, now),
         RefuseBid(c, verdict, n, k)
  PROVE  Refuse(c) \/ Fail(c)
<1>1. command[c].amount_cents \in Money /\ now \in Nat
      /\ arrived[c] \in Nat /\ clock \in Nat
  BY BoundsAssumption
     DEF Pending, StoreTypeOK, SerialTypeOK, BidCommand, Time
<1>1a. row.starts_at \in Nat /\ row.ends_at \in Nat
  BY DEF AuctionSnapshot
<1> DEFINE minimum == minimum_acceptable_bid(seen[c])
<1>2. /\ verdict \in {"accepted", "OverflowError", "auction_not_started",
                      "auction_closed", "bid_too_low"}
      /\ verdict # "OverflowError" => minimum \in Money
      /\ verdict = "auction_not_started" => now < seen[c].starts_at
      /\ verdict = "auction_closed" => now >= seen[c].ends_at
      /\ verdict = "bid_too_low" => command[c].amount_cents < minimum
  BY <1>1, Verdicts
<1>3. CASE verdict = "OverflowError"
  <2>1. minimum_overflows(seen[c])
    BY <1>3 DEF evaluate_bid
  <2>2. row \in AuctionSnapshot
    BY DEF Pending, StoreTypeOK, SerialTypeOK, BidCommand
  <2>3. minimum_overflows(row)
    BY <2>1, <2>2, MoneyAssumption
       DEF minimum_overflows, minimum_acceptable_bid, AuctionSnapshot, Money
  <2>4. MayRaise(c, "OverflowError")
    BY <2>3 DEF MayRaise
  <2> QED
    BY <1>3, <2>4, RaiseFails DEF RefuseBid, Exceptions
<1>4. CASE verdict # "OverflowError"
  <2>1. /\ verdict \in BidRejectionReason
        /\ Return(c, rejected(verdict, minimum, n, k))
    BY <1>2, <1>4 DEF RefuseBid, BidRejectionReason
  <2>2. CASE verdict = "auction_not_started"
    <3>1. arrived[c] < row.starts_at
      BY <1>1, <1>1a, <1>2, <2>2
    <3>2. Justified(c, verdict, minimum)
      BY <1>2, <1>4, <2>2, <3>1 DEF Justified
    <3> QED
      BY <1>2, <1>4, <2>1, <3>2 DEF Refuse, Return
  <2>3. CASE verdict = "auction_closed"
    <3>1. clock >= row.ends_at
      BY <1>1, <1>1a, <1>2, <2>3
    <3>2. Justified(c, verdict, minimum)
      BY <1>2, <1>4, <2>3, <3>1 DEF Justified
    <3> QED
      BY <1>2, <1>4, <2>1, <3>2 DEF Refuse, Return
  <2>4. CASE verdict = "bid_too_low"
    <3>1. Justified(c, verdict, minimum)
      BY <1>2, <1>4, <2>4 DEF Justified
    <3> QED
      BY <1>2, <1>4, <2>1, <3>1 DEF Refuse, Return
  <2> QED
    BY <1>2, <1>4, <2>2, <2>3, <2>4 DEF RefuseBid
<1> QED
  BY <1>3, <1>4

-----------------------------------------------------------------------------
(***************************************************************************)
(* The end of a transaction touches no other transaction.                  *)
(***************************************************************************)
LEMMA EndFrame ==
  ASSUME StoreTypeOK, NEW c \in Calls, EndTransaction(c)
  PROVE  /\ \A d \in Calls \ {c} : /\ inserted'[d] = inserted[d]
                                   /\ updated'[d] = updated[d]
                                   /\ seen'[d] = seen[d]
                                   /\ readTime'[d] = readTime[d]
         /\ \A a \in Auctions : rowLock[a] # c => rowLock'[a] = rowLock[a]
         /\ inserted'[c] = NULL
         /\ seen' \in [Calls -> AuctionSnapshot \cup {NULL}]
         /\ readTime' \in [Calls -> Time]
         /\ rowLock' \in [Auctions -> Calls \cup {NULL}]
         /\ inserted' \in [Calls -> AcceptedBid \cup {NULL}]
         /\ updated' \in [Calls -> AuctionSnapshot \cup {NULL}]
BY BoundsAssumption DEF EndTransaction, StoreTypeOK, Time

(***************************************************************************)
(* A statement moves its own call and no other.                            *)
(***************************************************************************)
LEMMA GotoFrame ==
  ASSUME StoreTypeOK, NEW c \in Calls, NEW label \in Labels, Goto(c, label)
  PROVE  /\ pc' \in [Calls -> Labels]
         /\ pc'[c] = label
         /\ \A d \in Calls \ {c} : pc'[d] = pc[d]
BY DEF Goto, StoreTypeOK


-----------------------------------------------------------------------------
(***************************************************************************)
(* A non-empty set of numbers has a least one.                             *)
(***************************************************************************)
LEMMA LeastNumber ==
  ASSUME NEW T \in SUBSET Nat, T # {}
  PROVE  \E k \in T : \A m \in T : k <= m
<1>1. PICK k \in T : \A m \in T : ~ (<<m, k>> \in OpToRel(<, Nat))
  BY NatLessThanWellFounded, WFMin, Zenon
<1>2. \A m \in T : <<m, k>> \in Nat \X Nat
  BY <1>1
<1>3. ASSUME NEW m \in T, m < k
      PROVE  FALSE
  <2>1. <<m, k>>[1] < <<m, k>>[2]
    BY <1>3
  <2>2. <<m, k>> \in OpToRel(<, Nat)
    BY <1>2, <2>1, Zenon DEF OpToRel
  <2> QED
    BY <1>1, <2>2, Zenon
<1> QED
  BY <1>3

(***************************************************************************)
(* The numbers 1..n can be arranged in any strict total order of them: the *)
(* place of a number is given by how many others come before it.           *)
(***************************************************************************)
Preceding(n, R, i) == {j \in 1..n : <<j, i>> \in R}

IsStrictOrder(n, R) ==
  /\ \A i \in 1..n : <<i, i>> \notin R
  /\ \A i, j \in 1..n : i # j => <<i, j>> \in R \/ <<j, i>> \in R
  /\ \A i, j, k \in 1..n : <<i, j>> \in R /\ <<j, k>> \in R => <<i, k>> \in R

LEMMA Ranking ==
  ASSUME NEW n \in Nat, NEW R, IsStrictOrder(n, R)
  PROVE  LET rank == [i \in 1..n |-> Cardinality(Preceding(n, R, i)) + 1]
         IN  /\ rank \in Bijection(1..n, 1..n)
             /\ \A i, j \in 1..n : rank[i] < rank[j] <=> <<i, j>> \in R
<1> DEFINE rank == [i \in 1..n |-> Cardinality(Preceding(n, R, i)) + 1]
<1>1. IsFiniteSet(1..n) /\ Cardinality(1..n) = n
  BY FS_Interval
<1>2. ASSUME NEW i \in 1..n
      PROVE  /\ IsFiniteSet(Preceding(n, R, i))
             /\ Cardinality(Preceding(n, R, i)) \in Nat
             /\ Cardinality(Preceding(n, R, i)) < n
  <2>1. Preceding(n, R, i) \in SUBSET (1..n) /\ Preceding(n, R, i) # 1..n
    BY DEF Preceding, IsStrictOrder
  <2>2. /\ IsFiniteSet(Preceding(n, R, i))
        /\ Cardinality(Preceding(n, R, i)) <= n
        /\ Cardinality(Preceding(n, R, i)) # n
    BY <1>1, <2>1, FS_Subset
  <2>3. Cardinality(Preceding(n, R, i)) \in Nat
    BY <2>2, FS_CardinalityType
  <2> QED
    BY <2>2, <2>3
<1>3. \A i \in 1..n : rank[i] = Cardinality(Preceding(n, R, i)) + 1
  OBVIOUS
<1>4. rank \in [1..n -> 1..n]
  BY <1>2
<1> HIDE DEF rank
<1>5. ASSUME NEW i \in 1..n, NEW j \in 1..n, <<i, j>> \in R
      PROVE  rank[i] < rank[j]
  <2>1. /\ Preceding(n, R, i) \in SUBSET Preceding(n, R, j)
        /\ i \in Preceding(n, R, j) /\ i \notin Preceding(n, R, i)
    BY <1>5 DEF Preceding, IsStrictOrder
  <2>2. /\ Cardinality(Preceding(n, R, i)) <= Cardinality(Preceding(n, R, j))
        /\ Cardinality(Preceding(n, R, i)) # Cardinality(Preceding(n, R, j))
    BY <1>2, <2>1, FS_Subset
  <2> QED
    BY <1>2, <1>3, <2>2
<1>6. ASSUME NEW i \in 1..n, NEW j \in 1..n
      PROVE  /\ rank[i] = rank[j] => i = j
             /\ rank[i] < rank[j] <=> <<i, j>> \in R
  <2>1. rank[i] \in Int /\ rank[j] \in Int
    BY <1>4
  <2>2. i = j \/ <<i, j>> \in R \/ <<j, i>> \in R
    BY DEF IsStrictOrder
  <2>3. i = j => <<i, j>> \notin R
    BY DEF IsStrictOrder
  <2>4. /\ <<i, j>> \in R => rank[i] < rank[j]
        /\ <<j, i>> \in R => rank[j] < rank[i]
    BY <1>5
  <2> QED
    BY <2>1, <2>2, <2>3, <2>4
<1>7. rank \in Injection(1..n, 1..n)
  BY <1>4, <1>6 DEF Injection, IsInjective
<1>8. rank \in Surjection(1..n, 1..n)
  BY <1>1, <1>7, FS_Injection
<1> QED
  BY <1>6, <1>7, <1>8 DEF Bijection, rank

(* So they can be put in a row by it. *)
LEMMA Arrangement ==
  ASSUME NEW n \in Nat, NEW R, IsStrictOrder(n, R)
  PROVE  \E order \in [1..n -> 1..n] :
           /\ \A i, j \in 1..n : i # j => order[i] # order[j]
           /\ \A i, j \in 1..n : i < j => <<order[i], order[j]>> \in R
<1> DEFINE rank == [i \in 1..n |-> Cardinality(Preceding(n, R, i)) + 1]
           order == [k \in 1..n |-> CHOOSE i \in 1..n : rank[i] = k]
<1>1. /\ rank \in Bijection(1..n, 1..n)
      /\ \A i, j \in 1..n : rank[i] < rank[j] <=> <<i, j>> \in R
  BY Ranking
<1> HIDE DEF rank
<1>2. \A k \in 1..n : \E i \in 1..n : rank[i] = k
  BY <1>1 DEF Bijection, Surjection
<1>3. \A k \in 1..n : order[k] \in 1..n /\ rank[order[k]] = k
  BY <1>2
<1>4. order \in [1..n -> 1..n]
  BY <1>3
<1> HIDE DEF order
<1>5. \A i, j \in 1..n : i # j => order[i] # order[j]
  BY <1>3
<1>6. \A i, j \in 1..n : i < j => <<order[i], order[j]>> \in R
  BY <1>1, <1>3
<1> QED
  BY <1>4, <1>5, <1>6

-----------------------------------------------------------------------------
(***************************************************************************)
(* What the tables enforce by themselves, in a serial history or not: a    *)
(* call makes one bid at most, a bid is one on an auction that is listed,  *)
(* and there are finitely many.                                            *)
(***************************************************************************)
IdsAreUnique == \A b, d \in bids : b.id = d.id => b = d

BidsAreListed == \A b \in bids : auctions[b.auction_id] # NULL

LedgerIsSound == IdsAreUnique /\ BidsAreListed /\ IsFiniteSet(bids)

(* A step that adds one bid, by a call that had none, keeps it so. *)
LEMMA LedgerGrows ==
  ASSUME LedgerIsSound, NEW bid, bids' = bids \cup {bid},
         \A b \in bids : b.id # bid.id,
         \A b \in bids' : auctions'[b.auction_id] # NULL
  PROVE  LedgerIsSound'
<1>1. IdsAreUnique'
  BY DEF LedgerIsSound, IdsAreUnique
<1>2. IsFiniteSet(bids)'
  BY FS_AddElement DEF LedgerIsSound
<1> QED
  BY <1>1, <1>2 DEF LedgerIsSound, BidsAreListed

(* A serial step adds at most one bid, by a new call, and unlists nothing. *)
LEMMA LedgerStep ==
  SerialTypeOK /\ OwnersHaveEnded /\ LedgerIsSound /\ [SerialNext]_serialVars
    => LedgerIsSound'
<1> SUFFICES ASSUME SerialTypeOK, OwnersHaveEnded, LedgerIsSound,
                    [SerialNext]_serialVars
             PROVE  LedgerIsSound'
  OBVIOUS
<1>1. \A b \in bids : /\ b.auction_id \in Auctions
                      /\ auctions[b.auction_id] # NULL
  BY DEF SerialTypeOK, AcceptedBid, LedgerIsSound, BidsAreListed
<1>2. \A b \in bids : auctions'[b.auction_id] # NULL
  BY <1>1, AdvanceStep DEF RowsMoveForward
<1>3. CASE bids' = bids
  BY <1>2, <1>3 DEF LedgerIsSound, IdsAreUnique, BidsAreListed
<1>4. ASSUME NEW c \in Calls, Accept(c)
      PROVE  LedgerIsSound'
  <2>1. PICK bid \in AcceptedBid, new \in AuctionSnapshot :
          /\ command[c] \in BidCommand
          /\ bids' = bids \cup {bid}
          /\ bid.id = c
          /\ bid.auction_id = command[c].auction_id
          /\ auctions' = [auctions EXCEPT ![command[c].auction_id] = new]
    BY <1>4, AcceptEffect
  <2>2. \A b \in bids : b.id # c
    BY <1>4 DEF Accept, Pending, OwnersHaveEnded
  <2>3. auctions'[bid.auction_id] # NULL
    BY <2>1, NullAssumption DEF SerialTypeOK, BidCommand
  <2> QED
    BY <1>2, <2>1, <2>2, <2>3, LedgerGrows
<1> QED
  BY <1>3, <1>4
     DEF SerialNext, serialVars, Invisible, PassTime, List, Call, Fail, Replay,
         Refuse

(***************************************************************************)
(* In a serial history the later of two bids is the higher one.  Each      *)
(* raises the one before it; the version of a first bid that is not higher *)
(* than all before it leads to one that is smaller.                        *)
(***************************************************************************)
LEMMA PricesRise ==
  ASSUME SerialTypeOK, HistoryIsSerial, NEW b \in bids, NEW d \in bids,
         b.auction_id = d.auction_id, b.auction_version < d.auction_version
  PROVE  b.amount_cents < d.amount_cents
<1> DEFINE a == b.auction_id
           Rises(x, y) == x.amount_cents < y.amount_cents
           Wrong(v) == \E x \in bids : /\ x.auction_id = a
                                       /\ x.auction_version = v
                                       /\ b.auction_version < v
                                       /\ ~ Rises(b, x)
           Bad == {v \in Nat : Wrong(v)}
<1>1. \A x \in bids : /\ x \in AcceptedBid
                      /\ x.auction_version \in Nat /\ x.auction_version > 0
                      /\ x.amount_cents \in Int
  BY MoneyAssumption DEF SerialTypeOK, AcceptedBid, Money
<1>2. /\ a \in Auctions /\ auctions[a] # NULL /\ auctions[a] \in AuctionSnapshot
      /\ auctions[a].version \in Nat
      /\ auctions[a].minimum_increment_cents \in Nat
      /\ auctions[a].minimum_increment_cents > 0
  <2>1. a \in Auctions /\ auctions[a] # NULL
    BY <1>1 DEF AcceptedBid, HistoryIsSerial, BidsBelongToAuctions
  <2>2. auctions[a] \in AuctionSnapshot
    BY <2>1 DEF SerialTypeOK
  <2> QED
    BY <2>1, <2>2, MoneyAssumption DEF AuctionSnapshot, Money
<1>3. ASSUME NEW v \in Nat, Wrong(v)
      PROVE  \E w \in Nat : Wrong(w) /\ w < v
  <2>1. PICK x \in bids : /\ x.auction_id = a
                          /\ x.auction_version = v
                          /\ b.auction_version < v
                          /\ ~ Rises(b, x)
    BY <1>3
  <2>2. v - 1 \in 1..auctions[a].version
    <3>1. v <= auctions[a].version
      BY <2>1 DEF HistoryIsSerial, BidsBelongToAuctions
    <3> QED
      BY <1>1, <1>2, <2>1, <3>1
  <2>3. PICK y \in bids : y.auction_id = a /\ y.auction_version = v - 1
    BY <1>2, <2>2 DEF HistoryIsSerial, VersionsAreContiguous
  <2>4. x.amount_cents >= y.amount_cents + auctions[a].minimum_increment_cents
    <3>1. x.auction_version = y.auction_version + 1
      BY <2>1, <2>3
    <3> QED
      BY <2>1, <2>3, <3>1 DEF HistoryIsSerial, BidsRaisePrice
  <2>5. Rises(y, x)
    BY <1>1, <1>2, <2>4
  <2>6. ~ Rises(b, y) /\ y # b
    BY <1>1, <2>1, <2>5
  <2>7. b.auction_version < v - 1
    <3>1. b.auction_version # v - 1
      BY <2>3, <2>6 DEF HistoryIsSerial, VersionsAreUnique
    <3> QED
      BY <1>1, <2>1, <3>1
  <2>8. Wrong(v - 1)
    BY <2>3, <2>6, <2>7
  <2> QED
    BY <2>2, <2>8
<1>4. Bad = {}
  <2> SUFFICES ASSUME Bad # {} PROVE FALSE
    OBVIOUS
  <2>1. PICK k \in Bad : \A m \in Bad : k <= m
    BY LeastNumber
  <2>2. PICK w \in Nat : Wrong(w) /\ w < k
    BY <1>3, <2>1
  <2> QED
    BY <2>1, <2>2
<1> QED
  BY <1>1, <1>4

-----------------------------------------------------------------------------
(***************************************************************************)
(* What list_bids returns: the bids of the auction, each of them once, in  *)
(* an order of their versions.                                             *)
(***************************************************************************)
BidsOn(a) == {b \in bids : b.auction_id = a}

LEMMA ListedBids ==
  ASSUME NEW a, NEW rows \in list_bids(a), IsFiniteSet(bids)
  PROVE  /\ rows \in Seq(BidsOn(a))
         /\ Len(rows) \in Nat
         /\ Len(rows) = Cardinality(BidsOn(a))
         /\ \A i \in 1..Len(rows) : rows[i] \in BidsOn(a)
         /\ \A b \in BidsOn(a) : \E i \in 1..Len(rows) : rows[i] = b
         /\ \A i, j \in 1..Len(rows) :
              i < j => rows[i] # rows[j] /\ InOrder(rows[i], rows[j])
<1> DEFINE S == BidsOn(a)
           n == Cardinality(S)
<1>1. IsFiniteSet(S) /\ n \in Nat
  <2>1. S \in SUBSET bids
    BY DEF BidsOn
  <2>2. IsFiniteSet(S)
    BY <2>1, FS_Subset
  <2> QED
    BY <2>2, FS_CardinalityType
<1>2. /\ rows \in [1..n -> S]
      /\ \A i, j \in 1..n : i # j => rows[i] # rows[j]
      /\ \A i \in 1..Len(rows), j \in 1..Len(rows) :
           i < j => InOrder(rows[i], rows[j])
  BY DEF list_bids, SetToSeqs, BidsOn
<1> HIDE DEF S, n
<1>3. rows \in Seq(S)
  BY <1>1, <1>2, SeqDef
<1>4. Len(rows) = n
  BY <1>1, <1>2, <1>3, LenProperties
<1>5. rows \in Injection(1..n, S)
  BY <1>2 DEF Injection, IsInjective
<1>6. Cardinality(1..n) = n
  BY <1>1, FS_Interval
<1>7. rows \in Surjection(1..n, S)
  <2>1. Cardinality(1..n) = Cardinality(S)
    BY <1>6 DEF n
  <2> QED
    BY <1>1, <1>5, <2>1, FS_Injection
<1>8. \A b \in S : \E i \in 1..n : rows[i] = b
  BY <1>7 DEF Surjection
<1> QED
  BY <1>1, <1>2, <1>3, <1>4, <1>8 DEF S, n

(***************************************************************************)
(* The i-th bid that is listed of a serial history has version i: as many  *)
(* versions lie below that of a bid as there are bids listed before it.    *)
(***************************************************************************)
LEMMA ListedInOrder ==
  ASSUME SerialTypeOK, HistoryIsSerial, IsFiniteSet(bids),
         NEW a \in Auctions, auctions[a] # NULL, NEW rows \in list_bids(a)
  PROVE  /\ Len(rows) = auctions[a].version
         /\ \A i \in 1..Len(rows) : rows[i].auction_version = i
<1> DEFINE S == BidsOn(a)
           v == auctions[a].version
           n == Len(rows)
<1>1. /\ n \in Nat /\ n = Cardinality(S)
      /\ \A i \in 1..n : rows[i] \in S
      /\ \A b \in S : \E i \in 1..n : rows[i] = b
      /\ \A i, j \in 1..n : i < j => rows[i] # rows[j]
                                     /\ InOrder(rows[i], rows[j])
  BY ListedBids
<1>2. v \in Nat
  BY DEF SerialTypeOK, AuctionSnapshot
<1>3. /\ \A b \in S : b.auction_version \in 1..v
      /\ \A b, d \in S : b.auction_version = d.auction_version => b = d
      /\ \A k \in 1..v : \E b \in S : b.auction_version = k
  BY <1>2 DEF HistoryIsSerial, VersionsAreContiguous, VersionsAreUnique,
              BidsBelongToAuctions, BidsOn, SerialTypeOK, AcceptedBid
<1> HIDE DEF S, v, n
<1> DEFINE at == [i \in 1..n |-> rows[i].auction_version]
<1>4. \A i \in 1..n : at[i] = rows[i].auction_version /\ at[i] \in 1..v
  BY <1>1, <1>3
<1>5. \A i, j \in 1..n : i < j => at[i] < at[j]
  <2> SUFFICES ASSUME NEW i \in 1..n, NEW j \in 1..n, i < j
               PROVE  at[i] < at[j]
    OBVIOUS
  <2>1. /\ rows[i] # rows[j] /\ InOrder(rows[i], rows[j])
        /\ rows[i] \in S /\ rows[j] \in S
    BY <1>1
  <2>2. at[i] # at[j]
    BY <1>3, <1>4, <2>1
  <2>3. at[i] < at[j] \/ at[i] = at[j]
    BY <1>4, <2>1 DEF InOrder
  <2> QED
    BY <2>2, <2>3
<1>6. \A k \in 1..v : \E i \in 1..n : at[i] = k
  BY <1>1, <1>3, <1>4
<1> HIDE DEF at
<1>7. ASSUME NEW i \in 1..n + 1, NEW k \in 1..v + 1,
             \A j \in 1..n : j < i <=> at[j] < k
      PROVE  i = k
  <2> DEFINE below == [j \in 1..(i - 1) |-> at[j]]
  <2>1. below \in [1..(i - 1) -> 1..(k - 1)]
    BY <1>1, <1>2, <1>4, <1>7
  <2>2. below \in Injection(1..(i - 1), 1..(k - 1))
    <3>1. \A j, m \in 1..(i - 1) : at[j] = at[m] => j = m
      <4> SUFFICES ASSUME NEW j \in 1..(i - 1), NEW m \in 1..(i - 1),
                          at[j] = at[m], j # m
                   PROVE  FALSE
        OBVIOUS
      <4>1. j \in 1..n /\ m \in 1..n /\ (j < m \/ m < j)
        BY <1>1
      <4> QED
        BY <1>1, <1>2, <1>4, <1>5, <4>1
    <3> QED
      BY <2>1, <3>1 DEF Injection, IsInjective
  <2>3. below \in Surjection(1..(i - 1), 1..(k - 1))
    <3>1. ASSUME NEW x \in 1..(k - 1)
          PROVE  \E j \in 1..(i - 1) : below[j] = x
      <4>1. PICK j \in 1..n : at[j] = x
        BY <1>2, <1>6
      <4>2. j \in 1..(i - 1)
        BY <1>1, <1>2, <1>7, <4>1
      <4> QED
        BY <4>1, <4>2
    <3> QED
      BY <2>1, <3>1 DEF Surjection
  <2>4. ExistsBijection(1..(i - 1), 1..(k - 1))
    BY <2>2, <2>3 DEF ExistsBijection, Bijection
  <2>5. /\ IsFiniteSet(1..(i - 1))
        /\ Cardinality(1..(i - 1)) = i - 1
        /\ Cardinality(1..(k - 1)) = k - 1
    <3>1. /\ i - 1 \in Int /\ k - 1 \in Int /\ 1 \in Int
          /\ 1 > i - 1 => i - 1 = 0
          /\ 1 > k - 1 => k - 1 = 0
          /\ i - 1 - 1 + 1 = i - 1 /\ k - 1 - 1 + 1 = k - 1
      BY <1>1, <1>2
    <3>2. /\ IsFiniteSet(1..(i - 1))
          /\ Cardinality(1..(i - 1))
               = IF 1 > i - 1 THEN 0 ELSE i - 1 - 1 + 1
      BY <3>1, FS_Interval
    <3>3. Cardinality(1..(k - 1)) = IF 1 > k - 1 THEN 0 ELSE k - 1 - 1 + 1
      BY <3>1, FS_Interval
    <3> QED
      BY <3>1, <3>2, <3>3
  <2>6. Cardinality(1..(k - 1)) = Cardinality(1..(i - 1))
    BY <2>4, <2>5, FS_Bijection
  <2> QED
    BY <1>1, <1>2, <2>5, <2>6
<1>8. n = v
  <2>1. \A j \in 1..n : j < n + 1 <=> at[j] < v + 1
    BY <1>1, <1>2, <1>4
  <2>2. n + 1 \in 1..n + 1 /\ v + 1 \in 1..v + 1
    BY <1>1, <1>2
  <2>3. n + 1 = v + 1
    BY <1>7, <2>1, <2>2
  <2> QED
    BY <1>1, <1>2, <2>3
<1>9. \A i \in 1..n : at[i] = i
  <2> SUFFICES ASSUME NEW i \in 1..n
               PROVE  at[i] = i
    OBVIOUS
  <2>1. ASSUME NEW j \in 1..n
        PROVE  j < i <=> at[j] < at[i]
    <3>1. j < i \/ j = i \/ i < j
      BY <1>1
    <3>2. at[i] \in Int /\ at[j] \in Int
      BY <1>4
    <3> QED
      BY <1>1, <1>5, <3>1, <3>2
  <2> QED
    BY <1>1, <1>2, <1>4, <1>7, <2>1
<1> QED
  BY <1>4, <1>8, <1>9 DEF n, v

-----------------------------------------------------------------------------
(***************************************************************************)
(* A row of the auction as it is or once was, with the bid that made it.   *)
(***************************************************************************)
PastRow(a, row) ==
  /\ auctions[a] # NULL
  /\ row \in AuctionSnapshot
  /\ Later(row, auctions[a])
  /\ row.version = 0 => row.winning_bid_id = NULL
  /\ row.version # 0 => \E b \in BidsOn(a) :
       /\ b.auction_version = row.version
       /\ b.id = row.winning_bid_id
       /\ b.amount_cents = row.current_price_cents

(* The committed row of an auction is one of them. *)
LEMMA PresentRow ==
  ASSUME SerialTypeOK, HistoryIsSerial, NEW a \in Auctions, auctions[a] # NULL
  PROVE  PastRow(a, auctions[a])
<1>1. auctions[a] \in AuctionSnapshot /\ auctions[a].version \in Nat
  BY DEF SerialTypeOK, AuctionSnapshot
<1>2. Later(auctions[a], auctions[a])
  BY <1>1, LaterReflexive
<1>3. ASSUME auctions[a].version # 0
      PROVE  \E b \in BidsOn(a) : /\ b.auction_version = auctions[a].version
                                  /\ b.id = auctions[a].winning_bid_id
                                  /\ b.amount_cents
                                       = auctions[a].current_price_cents
  <2>1. PICK b \in bids : b.auction_id = a
                          /\ b.auction_version = auctions[a].version
    BY <1>1, <1>3 DEF HistoryIsSerial, VersionsAreContiguous
  <2> QED
    BY <2>1 DEF HistoryIsSerial, WinnerIsLatest, BidsOn
<1> QED
  BY <1>1, <1>2, <1>3 DEF PastRow, HistoryIsSerial, WinnerIsLatest

(* A row stays one that the auction once had. *)
LEMMA PastRowStays ==
  ASSUME SerialTypeOK, [SerialNext]_serialVars, NEW a \in Auctions,
         NEW row, PastRow(a, row)
  PROVE  PastRow(a, row)'
<1>1. /\ auctions'[a] # NULL /\ Later(auctions[a], auctions'[a])
      /\ bids \subseteq bids' /\ SerialTypeOK'
  BY AdvanceStep, FinalStep, SerialTypeStep
     DEF RowsMoveForward, AnswersStand, PastRow
<1>2. auctions[a] \in AuctionSnapshot /\ auctions'[a] \in AuctionSnapshot
  BY <1>1 DEF SerialTypeOK, PastRow
<1>3. Later(row, auctions'[a])
  BY <1>1, <1>2, LaterTransitive DEF PastRow
<1> QED
  BY <1>1, <1>3 DEF PastRow, BidsOn

(***************************************************************************)
(* What check_auction_invariants finds when it reads a past row of a       *)
(* serial auction and its present bids: at most what the row cannot know,  *)
(* and nothing when it is the present row.                                 *)
(***************************************************************************)
LEMMA CheckerOnThePast ==
  ASSUME SerialTypeOK, HistoryIsSerial, LedgerIsSound, AcceptedInsideWindow,
         NEW a \in Auctions, NEW row, PastRow(a, row), NEW rows \in list_bids(a)
  PROVE  /\ check_auction_invariants(row, rows) \subseteq
              {"auction_version", "winner_missing", "winner_not_highest"}
         /\ row.version = auctions[a].version =>
              check_auction_invariants(row, rows) = {}
<1> DEFINE now == auctions[a]
           n == Len(rows)
<1>1. /\ now # NULL /\ now \in AuctionSnapshot /\ row \in AuctionSnapshot
      /\ row # NULL /\ Later(row, now)
  BY NullAssumption DEF PastRow, SerialTypeOK
<1>2. IsFiniteSet(bids)
  BY DEF LedgerIsSound
<1>3. /\ n \in Nat /\ rows \in Seq(BidsOn(a))
      /\ \A i \in 1..n : rows[i] \in BidsOn(a)
      /\ \A b \in BidsOn(a) : \E i \in 1..n : rows[i] = b
  BY <1>2, ListedBids
<1>4. n = now.version /\ \A i \in 1..n : rows[i].auction_version = i
  BY <1>1, <1>2, ListedInOrder
<1>5. \A i \in 1..n : /\ rows[i] \in bids /\ rows[i].auction_id = a
                      /\ rows[i] \in AcceptedBid
                      /\ rows[i].amount_cents \in Money
                      /\ rows[i].id \in Calls
                      /\ rows[i].accepted_at \in Nat
  <2>1. \A b \in BidsOn(a) : /\ b \in bids /\ b.auction_id = a
                             /\ b \in AcceptedBid
    BY DEF BidsOn, SerialTypeOK
  <2>2. \A b \in AcceptedBid : /\ b.amount_cents \in Money /\ b.id \in Calls
                               /\ b.accepted_at \in Nat
    BY BoundsAssumption DEF AcceptedBid, Time
  <2> QED
    BY <1>3, <2>1, <2>2
<1>6. \A i \in 1..n : InWindow(row, rows[i])
  <2> SUFFICES ASSUME NEW i \in 1..n
               PROVE  InWindow(row, rows[i])
    OBVIOUS
  <2>1. derive_auction_state(now, rows[i].accepted_at) = "open"
    BY <1>5 DEF AcceptedInsideWindow
  <2>2. /\ row.starts_at = now.starts_at /\ row.ends_at = now.ends_at
        /\ now.starts_at \in Nat /\ now.ends_at \in Nat
    BY <1>1 DEF Later, AuctionSnapshot
  <2> QED
    BY <1>5, <2>1, <2>2 DEF derive_auction_state, InWindow
<1>7. \A i \in 1..n : ~ (rows[i].amount_cents < Required(row, rows, i))
  <2> SUFFICES ASSUME NEW i \in 1..n
               PROVE  ~ (rows[i].amount_cents < Required(row, rows, i))
    OBVIOUS
  <2>1. /\ row.starting_price_cents = now.starting_price_cents
        /\ row.minimum_increment_cents = now.minimum_increment_cents
        /\ now.starting_price_cents \in Int /\ now.minimum_increment_cents \in Int
        /\ rows[i].amount_cents \in Int
    BY <1>1, <1>5, MoneyAssumption DEF Later, AuctionSnapshot, Money
  <2>2. CASE i = 1
    <3>1. rows[i].amount_cents >= now.starting_price_cents
      BY <1>4, <1>5, <2>2 DEF HistoryIsSerial, BidsRaisePrice
    <3> QED
      BY <2>1, <2>2, <3>1 DEF Required
  <2>3. CASE i # 1
    <3>1. i - 1 \in 1..n /\ i = (i - 1) + 1
      BY <1>3, <2>3
    <3>2. rows[i].auction_version = rows[i - 1].auction_version + 1
      BY <1>4, <3>1
    <3>3. rows[i].amount_cents
            >= rows[i - 1].amount_cents + now.minimum_increment_cents
      BY <1>5, <3>1, <3>2 DEF HistoryIsSerial, BidsRaisePrice
    <3>4. rows[i - 1].amount_cents \in Int
      BY <1>5, <3>1, MoneyAssumption DEF Money
    <3> QED
      BY <2>1, <2>3, <3>3, <3>4 DEF Required
  <2> QED
    BY <2>2, <2>3
<1>8. ASSUME NEW i \in 1..n, rows[i].id = row.winning_bid_id
      PROVE  /\ row.version = i
             /\ row.current_price_cents = rows[i].amount_cents
  <2>1. row.version # 0
    BY <1>5, <1>8, NullAssumption DEF PastRow
  <2>2. PICK b \in BidsOn(a) : /\ b.auction_version = row.version
                               /\ b.id = row.winning_bid_id
                               /\ b.amount_cents = row.current_price_cents
    BY <2>1 DEF PastRow
  <2>3. b = rows[i]
    BY <1>5, <1>8, <2>2 DEF LedgerIsSound, IdsAreUnique, BidsOn
  <2> QED
    BY <1>4, <2>2, <2>3
<1>9. HistoryCodes(row, rows) \subseteq {"auction_version"}
      /\ (row.version = n => HistoryCodes(row, rows) = {})
  BY <1>4, <1>6, <1>7 DEF HistoryCodes
<1>10. WinnerCodes(row, rows) \subseteq {"winner_missing", "winner_not_highest"}
  BY <1>8 DEF WinnerCodes
<1>11. ASSUME row.version = n, n # 0
       PROVE  WinnerCodes(row, rows) = {}
  <2>1. row.version # 0
    BY <1>11
  <2>2. PICK b \in BidsOn(a) : b.id = row.winning_bid_id
    BY <2>1 DEF PastRow
  <2>3. PICK w \in 1..n : rows[w] = b
    BY <1>3, <2>2
  <2>4. ASSUME NEW i \in 1..n, rows[i].id = row.winning_bid_id
        PROVE  IsHighest(rows, i)
    <3>1. i = n
      BY <1>8, <1>11, <2>4
    <3>2. ASSUME NEW j \in 1..n, j < n
          PROVE  rows[j].amount_cents < rows[n].amount_cents
      <4>1. n \in 1..n
        BY <1>3, <3>2
      <4>2. rows[j].auction_version < rows[n].auction_version
        BY <1>4, <3>2, <4>1
      <4> QED
        BY <1>5, <4>1, <4>2, PricesRise
    <3>3. \A j \in 1..n : rows[j].amount_cents \in Int
      BY <1>5, MoneyAssumption DEF Money
    <3>4. \A j \in 1..n : rows[j].amount_cents <= rows[n].amount_cents
      <4> SUFFICES ASSUME NEW j \in 1..n
                   PROVE  rows[j].amount_cents <= rows[n].amount_cents
        OBVIOUS
      <4>1. j = n \/ j < n
        BY <1>3
      <4> QED
        BY <3>1, <3>2, <3>3, <4>1
    <3>5. \A j \in 1..n - 1 : rows[j].amount_cents < rows[n].amount_cents
      <4> SUFFICES ASSUME NEW j \in 1..n - 1
                   PROVE  rows[j].amount_cents < rows[n].amount_cents
        OBVIOUS
      <4>1. n \in Nat
        BY <1>3
      <4>2. j \in 1..n /\ j < n
        BY <4>1
      <4> QED
        BY <3>2, <4>2
    <3> QED
      BY <3>1, <3>4, <3>5 DEF IsHighest
  <2> QED
    BY <1>8, <2>2, <2>3, <2>4 DEF WinnerCodes
<1>12. CASE rows # <<>>
  <2>1. n # 0
    BY <1>3, <1>12, EmptySeq
  <2> QED
    BY <1>1, <1>4, <1>9, <1>10, <1>11, <1>12, <2>1 DEF check_auction_invariants
<1>13. CASE rows = <<>>
  <2>1. n = 0 /\ now.version = 0
    BY <1>4, <1>13
  <2>2. row.version = now.version /\ row = now
    BY <1>1, <2>1 DEF Later, AuctionSnapshot
  <2>3. /\ row.current_price_cents = NULL /\ row.winning_bid_id = NULL
        /\ row.version = 0
    BY <1>1, <2>1, <2>2 DEF HistoryIsSerial, WinnerIsLatest
  <2> QED
    BY <1>1, <1>13, <2>3 DEF check_auction_invariants
<1> QED
  BY <1>12, <1>13

-----------------------------------------------------------------------------
(***************************************************************************)
(* The bids of an auction can be listed in the order of list_bids, since   *)
(* any numbering of them breaks the ties.                                  *)
(***************************************************************************)
LEMMA ListingExists ==
  ASSUME SerialTypeOK, IsFiniteSet(bids), NEW a
  PROVE  \E rows : rows \in list_bids(a)
<1> DEFINE S == BidsOn(a)
           n == Cardinality(S)
<1>1. S \in SUBSET bids
  BY DEF BidsOn
<1>2. IsFiniteSet(S)
  BY <1>1, FS_Subset
<1>3. n \in Nat /\ ExistsBijection(1..n, S)
  BY <1>2, FS_CardinalityType
<1>4. PICK f : f \in Bijection(1..n, S)
  BY <1>3 DEF ExistsBijection
<1>5. /\ f \in [1..n -> S]
      /\ \A i, j \in 1..n : f[i] = f[j] => i = j
  BY <1>4 DEF Bijection, Injection, IsInjective
<1>6. \A b \in S : b.auction_version \in Nat /\ b.accepted_at \in Nat
  BY <1>1, BoundsAssumption DEF SerialTypeOK, AcceptedBid, Time
<1> HIDE DEF S, n
<1> DEFINE v(i) == f[i].auction_version
           t(i) == f[i].accepted_at
           Before(i, j) == \/ v(i) < v(j)
                           \/ v(i) = v(j) /\ t(i) < t(j)
                           \/ v(i) = v(j) /\ t(i) = t(j) /\ i < j
           R == {p \in (1..n) \X (1..n) : Before(p[1], p[2])}
<1>7. \A i \in 1..n : v(i) \in Nat /\ t(i) \in Nat /\ i \in Nat
  BY <1>3, <1>5, <1>6
<1>8. \A i, j \in 1..n : <<i, j>> \in R <=> Before(i, j)
  OBVIOUS
<1> HIDE DEF R
<1>9. IsStrictOrder(n, R)
  <2>1. \A i \in 1..n : ~ Before(i, i)
    BY <1>7
  <2>2. \A i, j \in 1..n : i # j => Before(i, j) \/ Before(j, i)
    BY <1>7
  <2>3. \A i, j, k \in 1..n : Before(i, j) /\ Before(j, k) => Before(i, k)
    BY <1>7
  <2> HIDE DEF Before
  <2> QED
    BY <1>8, <2>1, <2>2, <2>3 DEF IsStrictOrder
<1>10. PICK order \in [1..n -> 1..n] :
         /\ \A i, j \in 1..n : i # j => order[i] # order[j]
         /\ \A i, j \in 1..n : i < j => <<order[i], order[j]>> \in R
  BY <1>3, <1>9, Arrangement
<1> DEFINE rows == [i \in 1..n |-> f[order[i]]]
<1>11. rows \in [1..n -> S] /\ \A i, j \in 1..n : i # j => rows[i] # rows[j]
  BY <1>5, <1>10
<1>12. \A i, j \in 1..n : i < j => InOrder(rows[i], rows[j])
  <2> SUFFICES ASSUME NEW i \in 1..n, NEW j \in 1..n, i < j
               PROVE  InOrder(rows[i], rows[j])
    OBVIOUS
  <2>1. /\ order[i] \in 1..n /\ order[j] \in 1..n
        /\ rows[i] = f[order[i]] /\ rows[j] = f[order[j]]
    BY <1>10
  <2>2. Before(order[i], order[j])
    <3>1. <<order[i], order[j]>> \in R
      BY <1>10
    <3> HIDE DEF Before
    <3> QED
      BY <1>8, <2>1, <3>1
  <2> QED
    BY <1>7, <2>1, <2>2 DEF InOrder
<1> HIDE DEF rows
<1>13. Len(rows) = n
  <2>1. rows \in Seq(S)
    BY <1>3, <1>11, SeqDef
  <2> QED
    BY <1>3, <1>11, <2>1, LenProperties
<1>14. rows \in SetToSeqs(S)
  BY <1>11 DEF SetToSeqs, n
<1> QED
  BY <1>12, <1>13, <1>14 DEF list_bids, S, BidsOn

(***************************************************************************)
(* A history that passes: its i-th bid has version i, each bid raises the  *)
(* one before it, so only the last can be the highest, and the row names   *)
(* that one.                                                               *)
(***************************************************************************)
LEMMA ValidIsSerial ==
  ASSUME SerialTypeOK, LedgerIsSound, NEW a \in Auctions, auctions[a] # NULL,
         NEW rows \in list_bids(a),
         check_auction_invariants(auctions[a], rows) = {}
  PROVE  LET now == auctions[a]
             n == Len(rows)
         IN  /\ n = now.version
             /\ \A i \in 1..n : /\ rows[i].auction_version = i
                                /\ ~ (rows[i].amount_cents < Required(now, rows, i))
                                /\ InWindow(now, rows[i])
             /\ n = 0 => /\ now.current_price_cents = NULL
                         /\ now.winning_bid_id = NULL
             /\ n # 0 => /\ now.current_price_cents = rows[n].amount_cents
                         /\ now.winning_bid_id = rows[n].id
<1> DEFINE now == auctions[a]
           n == Len(rows)
<1>1. now \in AuctionSnapshot /\ now # NULL
  BY DEF SerialTypeOK
<1>2. /\ n \in Nat /\ rows \in Seq(BidsOn(a))
      /\ \A i \in 1..n : rows[i] \in BidsOn(a)
  BY ListedBids DEF LedgerIsSound
<1>3. CASE rows = <<>>
  <2>1. n = 0
    BY <1>3
  <2>2. /\ now.current_price_cents = NULL /\ now.winning_bid_id = NULL
        /\ now.version = 0
    BY <1>1, <1>3 DEF check_auction_invariants
  <2> QED
    BY <2>1, <2>2
<1>4. CASE rows # <<>>
  <2>1. n # 0
    BY <1>2, <1>4, EmptySeq
  <2>2. HistoryCodes(now, rows) = {} /\ WinnerCodes(now, rows) = {}
    BY <1>1, <1>4 DEF check_auction_invariants
  <2>3. /\ ~ \E i \in 1..n : rows[i].auction_version # i
        /\ ~ (now.version # n)
        /\ ~ \E i \in 1..n : rows[i].amount_cents < Required(now, rows, i)
        /\ ~ \E i \in 1..n : ~ InWindow(now, rows[i])
    <3>1. /\ "version_sequence" \notin HistoryCodes(now, rows)
          /\ "auction_version" \notin HistoryCodes(now, rows)
          /\ "non_monotonic_bid" \notin HistoryCodes(now, rows)
          /\ "accepted_outside_window" \notin HistoryCodes(now, rows)
      BY <2>2
    <3> QED
      BY <3>1, Zenon DEF HistoryCodes
  <2>4. PICK w \in 1..n : rows[w].id = now.winning_bid_id
    BY <2>2 DEF WinnerCodes
  <2>5. now.current_price_cents = rows[w].amount_cents /\ IsHighest(rows, w)
    <3>1. /\ "winner_price_mismatch" \notin WinnerCodes(now, rows)
          /\ "winner_not_highest" \notin WinnerCodes(now, rows)
      BY <2>2
    <3> QED
      BY <2>4, <3>1 DEF WinnerCodes
  <2>6. w = n
    <3> SUFFICES ASSUME w # n
                 PROVE  FALSE
      OBVIOUS
    <3>1. w + 1 \in 1..n /\ w + 1 # 1 /\ (w + 1) - 1 = w
      BY <1>2
    <3>2. ~ (rows[w + 1].amount_cents < Required(now, rows, w + 1))
      BY <2>3, <3>1
    <3>3. Required(now, rows, w + 1)
            = rows[w].amount_cents + now.minimum_increment_cents
      BY <3>1 DEF Required
    <3>4. rows[w + 1].amount_cents <= rows[w].amount_cents
      BY <2>5, <3>1 DEF IsHighest
    <3>5. rows[w] \in AcceptedBid /\ rows[w + 1] \in AcceptedBid
      BY <1>2, <3>1 DEF BidsOn, SerialTypeOK
    <3>6. rows[w].amount_cents \in Int /\ rows[w + 1].amount_cents \in Int
      BY <3>5, MoneyAssumption DEF AcceptedBid, Money
    <3>7. now.minimum_increment_cents \in Int /\ now.minimum_increment_cents > 0
      BY <1>1, MoneyAssumption DEF AuctionSnapshot, Money
    <3> QED
      BY <3>2, <3>3, <3>4, <3>6, <3>7
  <2> QED
    BY <2>1, <2>3, <2>4, <2>5, <2>6
<1> QED
  BY <1>3, <1>4

(***************************************************************************)
(* check_auction_invariants is exact on all tables with a sound ledger,    *)
(* whatever strategy has filled them and however wrong they are.           *)
(***************************************************************************)
LEMMA CheckerExact ==
  ASSUME SerialTypeOK, LedgerIsSound
  PROVE  CheckerIsExact
<1> DEFINE Valid == \A a \in Auctions : auctions[a] # NULL =>
                      \A rows \in list_bids(a) :
                        check_auction_invariants(auctions[a], rows) = {}
<1>1. ASSUME HistoryIsSerial, AcceptedInsideWindow
      PROVE  Valid
  <2> SUFFICES ASSUME NEW a \in Auctions, auctions[a] # NULL,
                      NEW rows \in list_bids(a)
               PROVE  check_auction_invariants(auctions[a], rows) = {}
    OBVIOUS
  <2>1. PastRow(a, auctions[a])
    BY <1>1, PresentRow
  <2> QED
    BY <1>1, <2>1, CheckerOnThePast
<1>2. ASSUME Valid
      PROVE  HistoryIsSerial /\ AcceptedInsideWindow
  <2> DEFINE listed(a) == CHOOSE rows : rows \in list_bids(a)
             now(a) == auctions[a]
             n(a) == Len(listed(a))
  <2>1. \A b \in bids : /\ b.auction_id \in Auctions
                        /\ now(b.auction_id) # NULL
                        /\ b.auction_version \in Nat /\ b.auction_version > 0
                        /\ b.amount_cents \in Int /\ b.accepted_at \in Nat
    BY BoundsAssumption, MoneyAssumption
       DEF SerialTypeOK, AcceptedBid, LedgerIsSound, BidsAreListed, Time, Money
  <2>2. ASSUME NEW a \in Auctions, now(a) # NULL
        PROVE  /\ now(a) \in AuctionSnapshot
               /\ now(a).version \in Nat /\ n(a) = now(a).version
               /\ \A i \in 1..n(a) :
                    /\ listed(a)[i] \in BidsOn(a)
                    /\ listed(a)[i].auction_version = i
                    /\ ~ (listed(a)[i].amount_cents
                             < Required(now(a), listed(a), i))
                    /\ InWindow(now(a), listed(a)[i])
               /\ n(a) = 0 => /\ now(a).current_price_cents = NULL
                              /\ now(a).winning_bid_id = NULL
               /\ n(a) # 0 =>
                    /\ now(a).current_price_cents = listed(a)[n(a)].amount_cents
                    /\ now(a).winning_bid_id = listed(a)[n(a)].id
               /\ \A b \in BidsOn(a) : /\ b.auction_version \in 1..n(a)
                                       /\ b = listed(a)[b.auction_version]
    <3>1. listed(a) \in list_bids(a)
      BY ListingExists DEF LedgerIsSound
    <3>2. check_auction_invariants(now(a), listed(a)) = {}
      BY <1>2, <2>2, <3>1
    <3>3. now(a) \in AuctionSnapshot /\ now(a).version \in Nat
      BY <2>2 DEF SerialTypeOK, AuctionSnapshot
    <3> HIDE DEF listed
    <3>4. /\ \A i \in 1..n(a) : listed(a)[i] \in BidsOn(a)
          /\ \A b \in BidsOn(a) : \E i \in 1..n(a) : listed(a)[i] = b
      BY <3>1, ListedBids DEF LedgerIsSound
    <3>5. /\ n(a) = now(a).version
          /\ \A i \in 1..n(a) :
               /\ listed(a)[i].auction_version = i
               /\ ~ (listed(a)[i].amount_cents
                        < Required(now(a), listed(a), i))
               /\ InWindow(now(a), listed(a)[i])
          /\ n(a) = 0 => /\ now(a).current_price_cents = NULL
                         /\ now(a).winning_bid_id = NULL
          /\ n(a) # 0 =>
               /\ now(a).current_price_cents = listed(a)[n(a)].amount_cents
               /\ now(a).winning_bid_id = listed(a)[n(a)].id
      BY <2>2, <3>1, <3>2, ValidIsSerial
    <3>6. \A b \in BidsOn(a) : /\ b.auction_version \in 1..n(a)
                               /\ b = listed(a)[b.auction_version]
      BY <3>4, <3>5
    <3> QED
      BY <3>3, <3>4, <3>5, <3>6
  <2> HIDE DEF listed
  <2>3. ASSUME NEW b \in bids
        PROVE  LET a == b.auction_id
               IN  /\ a \in Auctions /\ now(a) # NULL /\ b \in BidsOn(a)
                   /\ b.auction_version \in 1..n(a)
                   /\ b = listed(a)[b.auction_version]
    BY <2>1, <2>2 DEF BidsOn
  <2>4. VersionsAreContiguous
    BY <2>2 DEF VersionsAreContiguous, BidsOn
  <2>5. VersionsAreUnique
    BY <2>3 DEF VersionsAreUnique
  <2>6. BidsBelongToAuctions
    BY <2>2, <2>3 DEF BidsBelongToAuctions
  <2>7. BidsRaisePrice
    <3> SUFFICES ASSUME NEW b \in bids
                 PROVE  LET a == b.auction_id
                        IN  /\ b.auction_version = 1 =>
                                 b.amount_cents >= now(a).starting_price_cents
                            /\ \A d \in bids :
                                 d.auction_id = a
                                 /\ d.auction_version = b.auction_version + 1
                                   => d.amount_cents >= b.amount_cents
                                        + now(a).minimum_increment_cents
      BY DEF BidsRaisePrice
    <3> DEFINE a == b.auction_id
    <3>1. /\ now(a).starting_price_cents \in Int
          /\ now(a).minimum_increment_cents \in Int
      BY <2>2, <2>3, MoneyAssumption DEF AuctionSnapshot, Money
    <3>2. ASSUME NEW d \in bids, d.auction_id = a
          PROVE  ~ (d.amount_cents
                      < Required(now(a), listed(a), d.auction_version))
      BY <2>2, <2>3, <3>2
    <3>3. b.auction_version = 1 => b.amount_cents >= now(a).starting_price_cents
      BY <2>1, <3>1, <3>2 DEF Required
    <3>4. ASSUME NEW d \in bids, d.auction_id = a,
                 d.auction_version = b.auction_version + 1
          PROVE  d.amount_cents >= b.amount_cents
                   + now(a).minimum_increment_cents
      <4>1. /\ d.auction_version # 1
            /\ d.auction_version - 1 = b.auction_version
        BY <2>1, <3>4
      <4>2. Required(now(a), listed(a), d.auction_version)
              = b.amount_cents + now(a).minimum_increment_cents
        BY <2>3, <4>1 DEF Required
      <4> QED
        BY <2>1, <3>1, <3>2, <3>4, <4>2
    <3> QED
      BY <3>3, <3>4
  <2>8. WinnerIsLatest
    <3> SUFFICES ASSUME NEW a \in Auctions, now(a) # NULL
                 PROVE  /\ now(a).version = 0 =>
                             /\ now(a).current_price_cents = NULL
                             /\ now(a).winning_bid_id = NULL
                        /\ \A b \in bids : b.auction_id = a
                             /\ b.auction_version = now(a).version
                               => /\ now(a).current_price_cents = b.amount_cents
                                  /\ now(a).winning_bid_id = b.id
      BY DEF WinnerIsLatest
    <3> QED
      BY <2>1, <2>2, <2>3
  <2>9. AcceptedInsideWindow
    <3> SUFFICES ASSUME NEW b \in bids
                 PROVE  derive_auction_state(now(b.auction_id), b.accepted_at)
                          = "open"
      BY DEF AcceptedInsideWindow
    <3>1. InWindow(now(b.auction_id), b)
      BY <2>2, <2>3
    <3>2. /\ now(b.auction_id).starts_at \in Nat
          /\ now(b.auction_id).ends_at \in Nat
      BY <2>2, <2>3 DEF AuctionSnapshot
    <3> QED
      BY <2>1, <3>1, <3>2 DEF InWindow, derive_auction_state
  <2> QED
    BY <2>4, <2>5, <2>6, <2>7, <2>8, <2>9 DEF HistoryIsSerial
<1> QED
  BY <1>1, <1>2 DEF CheckerIsExact

(* Tables without bids have a sound ledger. *)
LEMMA LedgerStarts == SerialInit => LedgerIsSound
BY FS_EmptySet DEF SerialInit, LedgerIsSound, IdsAreUnique, BidsAreListed

(***************************************************************************)
(* check_auction_invariants judges every state of the serial specification *)
(* exactly, for any number of auctions and bids: since the histories are   *)
(* serial, all it can find is a bid outside its window.                    *)
(***************************************************************************)
THEOREM SerialChecker == SerialSpec => []CheckerIsExact
<1>1. SerialInit => OutcomesAgree /\ OwnersHaveEnded
  BY DEF SerialInit, OutcomesAgree, OwnersHaveEnded
<1>2. SerialTypeOK /\ LedgerIsSound => CheckerIsExact
  BY CheckerExact
<1> QED
  BY <1>1, <1>2, LedgerStarts, LedgerStep, OutcomesStep, SerialTypeCorrect, PTL
     DEF SerialSpec

-----------------------------------------------------------------------------
(***************************************************************************)
(* A request that is repeated once its bid is committed is answered by the *)
(* first lookup of place_bid, whatever has become of the auction since: it *)
(* is not carried out again, and it is turned away only when the request   *)
(* id was used for something else.                                         *)
(***************************************************************************)
Spared(c) ==
  /\ ~ Ended(c, "accepted")
  /\ Ended(c, "rejected") => result[c].rejection_reason = "request_id_reused"

RetryIsSpared(c, cmd) ==
  [](command[c] = NULL /\ BidsOf(cmd.request_id) # {}
       => [](command[c] = cmd => Spared(c)))

RetriesAreSpared ==
  \A c \in Calls, cmd \in Commands : RetryIsSpared(c, cmd)

(* Such a call never gets past the first lookup. *)
Repeats(c, cmd) ==
  /\ BidsOf(cmd.request_id) # {}
  /\ command[c] = cmd => /\ pc[c] \in {"connect", "check", "done"}
                         /\ Spared(c)

(* A step that leaves the call where it is, or moves it only to the lookup. *)
LEMMA RepeatMoves ==
  ASSUME StoreTypeOK, NEW c \in Calls, NEW cmd, Repeats(c, cmd),
         AnswersStand, command'[c] = cmd => command[c] = cmd,
         \/ pc'[c] = pc[c]
         \/ pc'[c] = "check",
         result'[c] = result[c]
  PROVE  Repeats(c, cmd)'
<1>1. BidsOf(cmd.request_id)' # {}
  BY DEF AnswersStand, Repeats, BidsOf
<1> QED
  BY <1>1 DEF Repeats, Spared, Ended

(* A step that ends it by the lookup, or by an exception. *)
LEMMA RepeatEnds ==
  ASSUME StoreTypeOK, NEW c \in Calls, NEW cmd, Repeats(c, cmd),
         AnswersStand, NEW outcome, Return(c, outcome),
         \/ outcome \in {raised(e) : e \in Exceptions}
         \/ \E n, k : outcome \in Answers(c, n, k)
  PROVE  Repeats(c, cmd)'
<1>1. BidsOf(cmd.request_id)' # {}
  BY DEF AnswersStand, Repeats, BidsOf
<1>2. pc'[c] = "done" /\ result'[c] = outcome
  BY DEF Return, Goto, StoreTypeOK, SerialTypeOK
<1>3. /\ outcome.status # "accepted"
      /\ outcome.status = "rejected" =>
           outcome.rejection_reason = "request_id_reused"
  <2>1. CASE outcome \in {raised(e) : e \in Exceptions}
    BY <2>1 DEF raised, Exceptions
  <2>2. ASSUME NEW n, NEW k, outcome \in Answers(c, n, k)
        PROVE  <1>3!1 /\ <1>3!2
    BY <2>2 DEF Answers, replay_or_reject, replayed, rejected, ReportBid
  <2> QED
    BY <2>1, <2>2
<1> QED
  BY <1>1, <1>2, <1>3 DEF Repeats, Spared, Ended

=============================================================================
