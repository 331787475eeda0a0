----------------------------- MODULE Scenarios ------------------------------
(***************************************************************************)
(* The clients and auctions of the instances that TLC checks.              *)
(***************************************************************************)
EXTENDS Integers, TLC

CONSTANTS c1, c2, c3, a1, a2, r1, r2, r3, s1

ThreeCalls == {c1, c2, c3}

TwoCalls == {c1, c2}

CallSymmetry == Permutations(ThreeCalls)

RawBidders == {"alice", " alice", "bob", " ", ""}

StripBidder ==
  [b \in RawBidders |-> IF b = " alice" THEN "alice" ELSE
                        IF b = " " THEN "" ELSE b]

(***************************************************************************)
(* An auction that is scheduled, then open, then closed, and one that is   *)
(* open from the start.                                                    *)
(***************************************************************************)
ScheduledListing ==
  {[starting_price_cents |-> 1, minimum_increment_cents |-> 2,
    starts_at |-> 1, ends_at |-> 2]}

OpenListing ==
  {[starting_price_cents |-> 1, minimum_increment_cents |-> 2,
    starts_at |-> 0, ends_at |-> 1]}

Bid(request, auction, bidder, amount) ==
  [request_id |-> request, auction_id |-> auction, bidder_id |-> bidder,
   amount_cents |-> amount]

(***************************************************************************)
(* Opening, Raise and Top can all be accepted, one after the other; Rival  *)
(* is too low after Opening, and Tie is as high.  With MaxMoney = 5 the    *)
(* minimum overflows once Top is accepted.  Duplicate is Opening typed     *)
(* with a stray blank, and Reuse is its request id with another auction.   *)
(***************************************************************************)
Opening   == Bid(r1, a1, "alice", 1)
Duplicate == Bid(r1, a1, " alice", 1)
Reuse     == Bid(r1, a2, "alice", 1)
Rival     == Bid(r2, a1, "bob", 2)
Tie       == Bid(r2, a1, "bob", 1)
Raise     == Bid(r2, a1, "bob", 3)
Top       == Bid(r3, a1, "alice", 5)

DuplicateCommands == {Opening, Duplicate, Rival, Top}

TiedCommands == {Opening, Duplicate, Tie, Top}

ContendedCommands == {Opening, Raise, Top}

ReuseCommands == {Opening, Reuse}

FeedCommands == {Opening, Raise}

(***************************************************************************)
(* Bodies that PlaceBidRequest refuses, with the ones it lets through.     *)
(***************************************************************************)
FeedBodies ==
  FeedCommands \cup {Bid(r1, a1, " ", 1), Bid(r1, a1, "", 1),
                    Bid(r2, a1, "bob", 0), Bid(r2, a1, "bob", 9)}

=============================================================================
