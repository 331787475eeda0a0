---------------------------- MODULE AuctionRules ----------------------------
(***************************************************************************)
(* The pure domain rules of bidding.domain: what state an auction is in at *)
(* an instant, which amount the next bid needs, whether a bid is admitted, *)
(* and what an admitted bid does to the auction.  Money is an integer      *)
(* number of cents and time is an instant of the database clock.           *)
(*                                                                         *)
(* Python's None and SQL's NULL are the value NULL.                        *)
(***************************************************************************)
EXTENDS Integers

CONSTANTS MaxMoney,   \* MAX_MONEY_CENTS
          NULL

ASSUME MoneyAssumption == MaxMoney \in Nat \ {0}

Money == 1..MaxMoney

(***************************************************************************)
(* The half-open window [starts_at, ends_at).                              *)
(***************************************************************************)
derive_auction_state(auction, now) ==
  IF now < auction.starts_at THEN "scheduled"
  ELSE IF now >= auction.ends_at THEN "closed"
  ELSE "open"

NoIncrement(auction) ==   \* mutated form: the bid need only match the price
  IF auction.current_price_cents = NULL
  THEN auction.starting_price_cents
  ELSE auction.current_price_cents

minimum_acceptable_bid(auction) ==
  IF auction.current_price_cents = NULL
  THEN auction.starting_price_cents
  ELSE auction.current_price_cents + auction.minimum_increment_cents

NeverOverflows(auction) == FALSE   \* mutated form: the bound is not checked

(***************************************************************************)
(* minimum_acceptable_bid raises OverflowError on these auctions.          *)
(***************************************************************************)
minimum_overflows(auction) ==
  /\ auction.current_price_cents # NULL
  /\ minimum_acceptable_bid(auction) > MaxMoney

(***************************************************************************)
(* The verdict is "accepted", the reason of a rejection, or                *)
(* "OverflowError": the minimum is computed before the state is looked at, *)
(* so the exception wins over "auction_closed" and "auction_not_started".  *)
(***************************************************************************)
evaluate_bid(auction, amount_cents, now) ==
  LET state == derive_auction_state(auction, now)
  IN  IF minimum_overflows(auction) THEN "OverflowError"
      ELSE IF state = "scheduled" THEN "auction_not_started"
      ELSE IF state = "closed" THEN "auction_closed"
      ELSE IF amount_cents < minimum_acceptable_bid(auction) THEN "bid_too_low"
      ELSE "accepted"

(***************************************************************************)
(* The auction with a new winner; the columns that every write of it sets. *)
(***************************************************************************)
WithWinner(auction, bid_id, amount_cents, version) ==
  [auction EXCEPT !.current_price_cents = amount_cents,
                  !.winning_bid_id      = bid_id,
                  !.version             = version]

(***************************************************************************)
(* The transition of an admitted bid; NULL stands for the ValueError that  *)
(* is raised when the bid is not admitted.                                 *)
(***************************************************************************)
apply_accepted_bid(auction, bid_id, amount_cents, now) ==
  IF evaluate_bid(auction, amount_cents, now) = "accepted"
  THEN WithWinner(auction, bid_id, amount_cents, auction.version + 1)
  ELSE NULL

(***************************************************************************)
(* The checks AuctionSnapshot makes when it is built from a row.  The      *)
(* CHECK constraints of the auctions table ask for the same.               *)
(***************************************************************************)
ValidSnapshot(auction) ==
  /\ auction.starting_price_cents \in Money
  /\ auction.minimum_increment_cents \in Money
  /\ auction.ends_at > auction.starts_at
  /\ auction.version >= 0
  /\ (auction.current_price_cents = NULL) <=> (auction.winning_bid_id = NULL)
  /\ auction.current_price_cents = NULL => auction.version = 0
  /\ auction.current_price_cents # NULL =>
       /\ auction.current_price_cents \in Money
       /\ auction.current_price_cents >= auction.starting_price_cents
       /\ auction.version # 0

=============================================================================
