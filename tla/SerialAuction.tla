--------------------------- MODULE SerialAuction ----------------------------
(***************************************************************************)
(* What BidStrategy.place_bid promises its callers, with no transactions   *)
(* in sight: a bid is one atomic step that takes the auction from one      *)
(* version to the next by the domain rules, at some instant between the    *)
(* arrival of the call and its end; a repeated request changes nothing     *)
(* and is answered with the bid it made the first time; and a refusal has  *)
(* a reason that the committed data bear out.                              *)
(*                                                                         *)
(* The strategy modules extend this one with the state of the              *)
(* transactions, and are shown to implement SerialSpec.                    *)
(***************************************************************************)
EXTENDS BidTypes

VARIABLES auctions,  \* committed rows of the table auctions
          bids,      \* committed rows of the table bids
          clock,     \* clock_timestamp()
          command,   \* the command a call was made with
          arrived,   \* the instant a call was made
          result     \* how a call ended

serialVars == <<auctions, bids, clock, command, arrived, result>>

(* The type invariant of the abstract auction: its rows, bids and answers keep
   their domains. *)
SerialTypeOK ==
  /\ auctions \in [Auctions -> AuctionSnapshot \cup {NULL}]
  /\ bids \subseteq AcceptedBid
  /\ clock \in Time
  /\ command \in [Calls -> BidCommand \cup {NULL}]
  /\ arrived \in [Calls -> Time]
  /\ result \in [Calls -> BidOutcome \cup {NULL}]

SerialInit ==
  /\ auctions = [a \in Auctions |-> NULL]
  /\ bids = {}
  /\ clock = 0
  /\ command = [c \in Calls |-> NULL]
  /\ arrived = [c \in Calls |-> 0]
  /\ result = [c \in Calls |-> NULL]

Pending(c) == command[c] # NULL /\ result[c] = NULL

(***************************************************************************)
(* _existing_bid: the bids made under a request id (never more than one).  *)
(***************************************************************************)
BidsOf(request_id) == {b \in bids : b.request_id = request_id}

-----------------------------------------------------------------------------
(***************************************************************************)
(* Time passes.                                                            *)
(***************************************************************************)
PassTime ==
  /\ clock < MaxTime
  /\ clock' = clock + 1
  /\ UNCHANGED <<auctions, bids, command, arrived, result>>

(***************************************************************************)
(* An operator creates an auction under a fresh id.                        *)
(***************************************************************************)
List(a, listing) ==
  /\ auctions[a] = NULL
  /\ auctions' = [auctions EXCEPT ![a] = NewAuction(listing)]
  /\ UNCHANGED <<bids, clock, command, arrived, result>>

(***************************************************************************)
(* A client calls place_bid.                                               *)
(***************************************************************************)
Call(c, cmd) ==
  /\ command[c] = NULL
  /\ command' = [command EXCEPT ![c] = cmd]
  /\ arrived' = [arrived EXCEPT ![c] = clock]
  /\ UNCHANGED <<auctions, bids, clock, result>>

(***************************************************************************)
(* The bid is admitted.  The caller learns of it, unless the connection is *)
(* lost before the answer arrives.                                         *)
(***************************************************************************)
Accept(c) ==
  LET cmd == command[c]
      row == auctions[cmd.auction_id]
  IN  /\ Pending(c)
      /\ row # NULL
      /\ BidsOf(cmd.request_id) = {}
      /\ \E now, inserted_at \in arrived[c]..clock :
           LET bid == NewBid(c, cmd, row.version + 1, inserted_at)
           IN  /\ now <= inserted_at
               /\ evaluate_bid(row, cmd.amount_cents, now) = "accepted"
               /\ bids' = bids \cup {bid}
               /\ auctions' = [auctions EXCEPT ![cmd.auction_id] =
                    apply_accepted_bid(row, c, cmd.amount_cents, now)]
               /\ \/ \E n \in 1..MaxAttempts, k \in 0..MaxAttempts :
                       result' = [result EXCEPT ![c] = accepted(bid, n, k)]
                  \/ result' = [result EXCEPT ![c] = raised("OperationalError")]
      /\ UNCHANGED <<clock, command, arrived>>

(***************************************************************************)
(* The request was carried out before; the call returns the original bid.  *)
(***************************************************************************)
Replay(c) ==
  /\ Pending(c)
  /\ \E bid \in BidsOf(command[c].request_id),
        n \in 1..MaxAttempts, k \in 0..MaxAttempts :
       /\ Matches(bid, command[c])
       /\ result' = [result EXCEPT ![c] = replayed(bid, n, k)]
  /\ UNCHANGED <<auctions, bids, clock, command, arrived>>

(***************************************************************************)
(* The grounds on which a call may be refused, each of them a fact about   *)
(* committed data or about an instant while the call was pending.  The     *)
(* minimum that comes with a verdict on the bid may be out of date, but    *)
(* then it is too small.                                                   *)
(***************************************************************************)
Justified(c, reason, minimum) ==
  LET cmd == command[c]
      row == auctions[cmd.auction_id]
  IN  \/ reason = "auction_not_found" /\ minimum = NULL /\ row = NULL
      \/ /\ reason = "request_id_reused"
         /\ minimum = NULL
         /\ \E bid \in BidsOf(cmd.request_id) : ~ Matches(bid, cmd)
      \/ /\ reason = "conflict_retry_exhausted"
         /\ minimum = NULL
         /\ row # NULL
         /\ row.version >= MaxAttempts
      \/ /\ row # NULL
         /\ minimum \in Money
         /\ minimum <= minimum_acceptable_bid(row)
         /\ \/ reason = "auction_not_started" /\ arrived[c] < row.starts_at
            \/ reason = "auction_closed" /\ clock >= row.ends_at
            \/ reason = "bid_too_low" /\ cmd.amount_cents < minimum

Refuse(c) ==
  /\ Pending(c)
  /\ \E reason \in BidRejectionReason, minimum \in Money \cup {NULL} :
       /\ Justified(c, reason, minimum)
       /\ \E n \in 1..MaxAttempts, k \in 0..MaxAttempts :
            result' = [result EXCEPT ![c] = rejected(reason, minimum, n, k)]
  /\ UNCHANGED <<auctions, bids, clock, command, arrived>>

(***************************************************************************)
(* The call ends in an exception and has changed nothing.  It may be told  *)
(* of an overflow only when the auction admits no further bid, whatever    *)
(* its amount, and never of a request id that was taken and then was not.  *)
(***************************************************************************)
MayRaise(c, exception) ==
  LET row == auctions[command[c].auction_id]
  IN  /\ exception # "RuntimeError"
      /\ exception = "OverflowError" => row # NULL /\ minimum_overflows(row)

Fail(c) ==
  /\ Pending(c)
  /\ \E exception \in Exceptions :
       /\ MayRaise(c, exception)
       /\ result' = [result EXCEPT ![c] = raised(exception)]
  /\ UNCHANGED <<auctions, bids, clock, command, arrived>>

(***************************************************************************)
(* Nothing that a caller can see.                                          *)
(***************************************************************************)
Invisible == UNCHANGED serialVars

SerialNext ==
  \/ Invisible
  \/ PassTime
  \/ \E a \in Auctions, l \in Listings : List(a, l)
  \/ \E c \in Calls, cmd \in Commands : Call(c, cmd)
  \/ \E c \in Calls : Fail(c)
  \/ \E c \in Calls : Accept(c) \/ Replay(c) \/ Refuse(c)

SerialSpec == SerialInit /\ [][SerialNext]_serialVars

-----------------------------------------------------------------------------
(***************************************************************************)
(* The bids of an auction are a serial history of it: their versions are   *)
(* 1, 2, ..., version with none missing and none repeated, the first       *)
(* covers the starting price, each next one raises the one before by the   *)
(* increment, and the auction's price and winner are those of the last.    *)
(***************************************************************************)
VersionsAreContiguous ==
  \A a \in Auctions : auctions[a] # NULL =>
    \A v \in 1..auctions[a].version :
      \E b \in bids : b.auction_id = a /\ b.auction_version = v

VersionsAreUnique ==
  \A b, d \in bids :
    b.auction_id = d.auction_id /\ b.auction_version = d.auction_version
      => b = d

BidsBelongToAuctions ==
  \A b \in bids : /\ auctions[b.auction_id] # NULL
                  /\ b.auction_version <= auctions[b.auction_id].version

BidsRaisePrice ==
  \A b \in bids :
    /\ b.auction_version = 1 =>
         b.amount_cents >= auctions[b.auction_id].starting_price_cents
    /\ \A d \in bids :
         d.auction_id = b.auction_id
         /\ d.auction_version = b.auction_version + 1
           => d.amount_cents >= b.amount_cents
                + auctions[b.auction_id].minimum_increment_cents

WinnerIsLatest ==
  \A a \in Auctions : auctions[a] # NULL =>
    /\ auctions[a].version = 0 => /\ auctions[a].current_price_cents = NULL
                                  /\ auctions[a].winning_bid_id = NULL
    /\ \A b \in bids :
         b.auction_id = a /\ b.auction_version = auctions[a].version
           => /\ auctions[a].current_price_cents = b.amount_cents
              /\ auctions[a].winning_bid_id = b.id

HistoryIsSerial ==
  /\ VersionsAreContiguous
  /\ VersionsAreUnique
  /\ BidsBelongToAuctions
  /\ BidsRaisePrice
  /\ WinnerIsLatest

(***************************************************************************)
(* A request is carried out at most once, a call that reports a bid        *)
(* reports one that is committed and is what its command asked for, and a  *)
(* call that ends in any other way left no bid behind, unless it lost its  *)
(* connection.                                                             *)
(***************************************************************************)
OutcomesAgree ==
  /\ \A b, d \in bids : b.request_id = d.request_id => b = d
  /\ \A c \in Calls : result[c] # NULL =>
       /\ result[c].status \in {"accepted", "replayed"} =>
            /\ result[c].bid \in BidsOf(command[c].request_id)
            /\ Matches(result[c].bid, command[c])
            /\ result[c].status = "accepted" <=> result[c].bid.id = c
       /\ result[c].status \notin {"accepted", "OperationalError"} =>
            \A b \in bids : b.id # c

=============================================================================
