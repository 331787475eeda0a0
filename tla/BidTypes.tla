------------------------------ MODULE BidTypes ------------------------------
(***************************************************************************)
(* The values that bidding.domain.models and the two tables define, and    *)
(* the parameters of the system.                                           *)
(*                                                                         *)
(* A call is one invocation of BidStrategy.place_bid.  A client that       *)
(* repeats a request is another call with the same command, so Calls       *)
(* covers every pattern of concurrency and retry.  The uuid4 of the bid a  *)
(* call inserts is fresh, and no call leaves more than one bid behind, so  *)
(* the call itself serves as the id of its bid.                            *)
(***************************************************************************)
EXTENDS AuctionRules, FiniteSets

CONSTANTS Calls,        \* invocations of place_bid
          Auctions,     \* auction ids
          Requests,     \* client request ids
          Bidders,      \* bidder ids as clients send them
          strip,        \* str.strip, as a function on Bidders
          Commands,     \* the commands clients may send
          Listings,     \* the auctions operators may create
          MaxAttempts,  \* OPTIMISTIC_MAX_ATTEMPTS
          PoolSize,     \* DB_POOL_MAX_SIZE
          MaxTime       \* bound: the last instant of the database clock

Time == 0..MaxTime

(***************************************************************************)
(* One row of auctions; its id is its index.                               *)
(***************************************************************************)
AuctionSnapshot ==
  [starting_price_cents : Money, minimum_increment_cents : Money,
   current_price_cents : Money \cup {NULL},
   winning_bid_id : Calls \cup {NULL}, version : Nat,
   starts_at : Nat, ends_at : Nat]

BidCommand ==
  [request_id : Requests, auction_id : Auctions, bidder_id : Bidders,
   amount_cents : Money]

(***************************************************************************)
(* One row of bids.                                                        *)
(***************************************************************************)
AcceptedBid ==
  [id : Calls, request_id : Requests, auction_id : Auctions,
   bidder_id : Bidders, amount_cents : Money, auction_version : Nat \ {0},
   accepted_at : Time]

BidRejectionReason ==
  {"auction_not_found", "auction_not_started", "auction_closed",
   "bid_too_low", "request_id_reused", "conflict_retry_exhausted"}

(***************************************************************************)
(* The exceptions that can leave place_bid: its own, those of psycopg that *)
(* no handler names, and those of the Python it runs.                      *)
(***************************************************************************)
Exceptions ==
  {"StrategyBusyError", "LockNotAvailable", "QueryCanceled",
   "OperationalError", "PoolTimeout", "OverflowError", "RuntimeError"}

(***************************************************************************)
(* How a call ends: with a BidOutcome or with an exception.                *)
(***************************************************************************)
BidOutcome ==
  [status : {"accepted", "replayed", "rejected"} \cup Exceptions,
   bid : AcceptedBid \cup {NULL},
   rejection_reason : BidRejectionReason \cup {NULL},
   minimum_acceptable_cents : Money \cup {NULL},
   attempts : 1..MaxAttempts, conflicts : 0..MaxAttempts]

ReportBid(status, bid, attempts, conflicts) ==
  [status |-> status, bid |-> bid, rejection_reason |-> NULL,
   minimum_acceptable_cents |-> NULL,
   attempts |-> attempts, conflicts |-> conflicts]

accepted(bid, attempts, conflicts) ==
  ReportBid("accepted", bid, attempts, conflicts)

replayed(bid, attempts, conflicts) ==
  ReportBid("replayed", bid, attempts, conflicts)

rejected(reason, minimum, attempts, conflicts) ==
  [status |-> "rejected", bid |-> NULL, rejection_reason |-> reason,
   minimum_acceptable_cents |-> minimum,
   attempts |-> attempts, conflicts |-> conflicts]

raised(exception) ==
  [status |-> exception, bid |-> NULL, rejection_reason |-> NULL,
   minimum_acceptable_cents |-> NULL, attempts |-> 1, conflicts |-> 0]

NoVersionDefault(listing) ==   \* mutated form: version has no DEFAULT 0
  [starting_price_cents    |-> listing.starting_price_cents,
   minimum_increment_cents |-> listing.minimum_increment_cents,
   current_price_cents     |-> NULL,
   winning_bid_id          |-> NULL,
   version                 |-> NULL,
   starts_at               |-> listing.starts_at,
   ends_at                 |-> listing.ends_at]

(***************************************************************************)
(* The row AuctionRepository.create inserts for a listing.                 *)
(***************************************************************************)
NewAuction(listing) ==
  [starting_price_cents    |-> listing.starting_price_cents,
   minimum_increment_cents |-> listing.minimum_increment_cents,
   current_price_cents     |-> NULL,
   winning_bid_id          |-> NULL,
   version                 |-> 0,
   starts_at               |-> listing.starts_at,
   ends_at                 |-> listing.ends_at]

(***************************************************************************)
(* The row _insert_bid writes; accepted_at is the column's default,        *)
(* clock_timestamp() when the row is inserted.                             *)
(***************************************************************************)
NewBid(c, cmd, auction_version, now) ==
  [id |-> c, request_id |-> cmd.request_id, auction_id |-> cmd.auction_id,
   bidder_id |-> strip[cmd.bidder_id], amount_cents |-> cmd.amount_cents,
   auction_version |-> auction_version, accepted_at |-> now]

(***************************************************************************)
(* Is a stored bid what this command asked for?                            *)
(***************************************************************************)
Matches(bid, cmd) ==
  /\ bid.auction_id = cmd.auction_id
  /\ bid.bidder_id = strip[cmd.bidder_id]
  /\ bid.amount_cents = cmd.amount_cents

AlwaysReplays(existing, cmd, attempts, conflicts) ==   \* mutated form
  replayed(existing, attempts, conflicts)

replay_or_reject(existing, cmd, attempts, conflicts) ==
  IF Matches(existing, cmd)
  THEN replayed(existing, attempts, conflicts)
  ELSE rejected("request_id_reused", NULL, attempts, conflicts)

-----------------------------------------------------------------------------
Listing ==
  [starting_price_cents : Money, minimum_increment_cents : Money,
   starts_at : Nat, ends_at : Nat]

ASSUME CommandsAssumption == Commands \subseteq BidCommand

(***************************************************************************)
(* CreateAuctionRequest and AuctionSnapshot both refuse an empty window.   *)
(***************************************************************************)
ASSUME ListingsAssumption ==
  /\ Listings \subseteq Listing
  /\ \A l \in Listings : l.ends_at > l.starts_at

ASSUME StripAssumption ==
  /\ strip \in [Bidders -> Bidders]
  /\ \A b \in Bidders : strip[strip[b]] = strip[b]

ASSUME BoundsAssumption ==
  /\ MaxAttempts \in Nat \ {0}
  /\ PoolSize \in Nat \ {0}
  /\ MaxTime \in Nat

ASSUME NullAssumption ==
  /\ NULL \notin Nat
  /\ NULL \notin Calls
  /\ NULL \notin AuctionSnapshot
  /\ NULL \notin BidCommand
  /\ NULL \notin AcceptedBid
  /\ NULL \notin BidOutcome
  /\ NULL \notin BidRejectionReason

=============================================================================
