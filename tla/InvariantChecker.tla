-------------------------- MODULE InvariantChecker --------------------------
(***************************************************************************)
(* check_auction_invariants of bidding.verification: an independent judge  *)
(* of the committed rows of an auction, used by the tests and after every  *)
(* benchmark trial.  Its two reads, AuctionRepository.get and list_bids,   *)
(* are taken here in one state: it is called when all bidders are done.    *)
(***************************************************************************)
EXTENDS BidStore, SequencesExt

(***************************************************************************)
(* ORDER BY auction_version, accepted_at, id.  The id is a random UUID, so *)
(* rows that agree on the first two columns come in any order.             *)
(***************************************************************************)
InOrder(b, d) ==
  \/ b.auction_version < d.auction_version
  \/ /\ b.auction_version = d.auction_version
     /\ b.accepted_at <= d.accepted_at

list_bids(a) ==
  {rows \in SetToSeqs({b \in bids : b.auction_id = a}) :
     \A i \in 1..Len(rows), j \in 1..Len(rows) :
       i < j => InOrder(rows[i], rows[j])}

(***************************************************************************)
(* The amount the i-th listed bid had to reach.                            *)
(***************************************************************************)
Required(auction, rows, i) ==
  IF i = 1 THEN auction.starting_price_cents
  ELSE rows[i - 1].amount_cents + auction.minimum_increment_cents

(***************************************************************************)
(* Python's max returns the first of several greatest elements.            *)
(***************************************************************************)
IsHighest(rows, i) ==
  /\ \A j \in 1..Len(rows) : rows[j].amount_cents <= rows[i].amount_cents
  /\ \A j \in 1..i - 1 : rows[j].amount_cents < rows[i].amount_cents

WinnerCodes(auction, rows) ==
  LET winners == {i \in 1..Len(rows) : rows[i].id = auction.winning_bid_id}
  IN  IF winners = {} THEN {"winner_missing"}
      ELSE {code \in {"winner_price_mismatch", "winner_not_highest"} :
              \E i \in winners :
                \/ /\ code = "winner_price_mismatch"
                   /\ auction.current_price_cents # rows[i].amount_cents
                \/ code = "winner_not_highest" /\ ~ IsHighest(rows, i)}

EndIsInside(auction, bid) ==   \* mutated form: the window is closed
  /\ auction.starts_at <= bid.accepted_at
  /\ bid.accepted_at <= auction.ends_at

InWindow(auction, bid) ==
  /\ auction.starts_at <= bid.accepted_at
  /\ bid.accepted_at < auction.ends_at

HistoryCodes(auction, rows) ==
  {code \in {"version_sequence", "auction_version", "non_monotonic_bid",
             "accepted_outside_window"} :
     \/ /\ code = "version_sequence"
        /\ \E i \in 1..Len(rows) : rows[i].auction_version # i
     \/ code = "auction_version" /\ auction.version # Len(rows)
     \/ /\ code = "non_monotonic_bid"
        /\ \E i \in 1..Len(rows) :
             rows[i].amount_cents < Required(auction, rows, i)
     \/ /\ code = "accepted_outside_window"
        /\ \E i \in 1..Len(rows) : ~ InWindow(auction, rows[i])}

(***************************************************************************)
(* The codes of the violations in the report.                              *)
(***************************************************************************)
check_auction_invariants(auction, rows) ==
  IF auction = NULL THEN {"auction_missing"}
  ELSE IF rows # <<>>
  THEN HistoryCodes(auction, rows) \cup WinnerCodes(auction, rows)
  ELSE IF \/ auction.current_price_cents # NULL
          \/ auction.winning_bid_id # NULL
          \/ auction.version # 0
  THEN {"empty_state_mismatch"}
  ELSE {}

-----------------------------------------------------------------------------
(***************************************************************************)
(* check_auction_invariants misses no anomaly and reports none that is not *)
(* there: it finds every auction valid exactly when the bids of all        *)
(* auctions are serial histories inside their windows.                     *)
(***************************************************************************)
CheckerIsExact ==
  (\A a \in Auctions : auctions[a] # NULL =>
     \A rows \in list_bids(a) :
       check_auction_invariants(auctions[a], rows) = {})
  <=> (HistoryIsSerial /\ AcceptedInsideWindow)

=============================================================================
