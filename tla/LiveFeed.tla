------------------------------ MODULE LiveFeed ------------------------------
(***************************************************************************)
(* The HTTP route that places a bid and the WebSocket feed of an auction,  *)
(* on top of what a bid strategy promises (SerialAuction).                 *)
(*                                                                         *)
(* place_bid runs the strategy in a worker thread, so its transaction and  *)
(* the event loop are independent: a ServiceStep is a step of the worker   *)
(* threads and the database, the other actions are steps of the event loop *)
(* from one suspension to the next.  The lock of AuctionConnectionManager  *)
(* is never held across a suspension, so it never makes anyone wait and is *)
(* left out.                                                               *)
(***************************************************************************)
EXTENDS SerialAuction, Sequences

CONSTANTS Sockets,    \* WebSocket connections; a client reconnects on a new one
          Bodies      \* what clients post to /auctions/{auction_id}/bids

VARIABLES handler,      \* where the route of a call is
          http,         \* the response a call was answered with
          targets,      \* the sockets a broadcast has not finished sending to
          failed,       \* the sockets a broadcast could not send to, also
                        \* kept, as a history, when it is over
          stage,        \* where auction_websocket of a socket is
          topic,        \* the auction a socket asks for
          snapshot,     \* the auction a socket has read
          connections,  \* AuctionConnectionManager._connections
          inbox,        \* the messages that have reached a client
          told          \* history: the sockets a call was broadcast to

feedVars == <<handler, http, targets, failed, stage, topic, snapshot,
              connections, inbox, told>>

vars == <<serialVars, feedVars>>

Response ==
  [status_code : {200, 404, 409, 422, 500, 503}, bid : AcceptedBid \cup {NULL},
   reason : BidRejectionReason \cup {"database_busy", NULL},
   minimum_acceptable_cents : Money \cup {NULL}]

Message ==
  [type : {"auction.snapshot", "auction.bid_accepted"},
   version : Nat, bid : Calls \cup {NULL}]

(* The type invariant of the API process: requests, sockets, and the frames
   sent and queued keep their domains. *)
FeedTypeOK ==
  /\ SerialTypeOK
  /\ handler \in [Calls -> {"new", "placing", "sending", "done"}]
  /\ http \in [Calls -> Response \cup {NULL}]
  /\ targets \in [Calls -> SUBSET Sockets]
  /\ failed \in [Calls -> SUBSET Sockets]
  /\ stage \in [Sockets -> {"new", "reading", "accepting", "lost", "open",
                            "gone", "closed"}]
  /\ topic \in [Sockets -> Auctions \cup {NULL}]
  /\ snapshot \in [Sockets -> AuctionSnapshot \cup {NULL}]
  /\ connections \in [Auctions -> SUBSET Sockets]
  /\ inbox \in [Sockets -> Seq(Message)]
  /\ told \in [Calls -> SUBSET Sockets]

Init ==
  /\ SerialInit
  /\ handler = [c \in Calls |-> "new"]
  /\ http = [c \in Calls |-> NULL]
  /\ targets = [c \in Calls |-> {}]
  /\ failed = [c \in Calls |-> {}]
  /\ stage = [s \in Sockets |-> "new"]
  /\ topic = [s \in Sockets |-> NULL]
  /\ snapshot = [s \in Sockets |-> NULL]
  /\ connections = [a \in Auctions |-> {}]
  /\ inbox = [s \in Sockets |-> <<>>]
  /\ told = [c \in Calls |-> {}]

-----------------------------------------------------------------------------
(***************************************************************************)
(* The route create_auction; what CreateAuctionRequest lets through is     *)
(* Listings.                                                               *)
(***************************************************************************)
create_auction(a, body) ==
  List(a, body) /\ UNCHANGED feedVars

(***************************************************************************)
(* The route place_bid.  A body that PlaceBidRequest refuses is answered   *)
(* at once; the bidder of any other loses its stray blanks.                *)
(***************************************************************************)
PlaceBidRequest(body) ==
  strip[body.bidder_id] # "" /\ body.amount_cents \in Money

(***************************************************************************)
(* Commands are what is left of the bodies that pass.                      *)
(***************************************************************************)
ASSUME BodiesAssumption ==
  \A body \in Bodies : PlaceBidRequest(body) =>
    [body EXCEPT !.bidder_id = strip[@]] \in Commands

Refusal(status_code, reason, minimum) ==
  [status_code |-> status_code, bid |-> NULL, reason |-> reason,
   minimum_acceptable_cents |-> minimum]

Post(c, body) ==
  /\ handler[c] = "new"
  /\ \/ /\ PlaceBidRequest(body)
        /\ Call(c, [body EXCEPT !.bidder_id = strip[@]])
        /\ handler' = [handler EXCEPT ![c] = "placing"]
        /\ UNCHANGED http
     \/ /\ ~ PlaceBidRequest(body)
        /\ http' = [http EXCEPT ![c] = Refusal(422, NULL, NULL)]
        /\ handler' = [handler EXCEPT ![c] = "done"]
        /\ UNCHANGED serialVars
  /\ UNCHANGED <<targets, failed, stage, topic, snapshot, connections, inbox,
                 told>>

rejection_status(reason) ==
  CASE reason = "auction_not_found" -> 404
    [] reason = "conflict_retry_exhausted" -> 503
    [] OTHER -> 409

BidPlacementResponse(outcome) ==
  [status_code |-> 200, bid |-> outcome.bid, reason |-> NULL,
   minimum_acceptable_cents |-> NULL]

LostIsBusy(outcome) ==   \* mutated form: every database error is "busy"
  CASE outcome.status \in {"accepted", "replayed"} ->
         BidPlacementResponse(outcome)
    [] outcome.status = "rejected" ->
         Refusal(rejection_status(outcome.rejection_reason),
                 outcome.rejection_reason, outcome.minimum_acceptable_cents)
    [] OTHER -> Refusal(503, "database_busy", NULL)

(***************************************************************************)
(* Only StrategyBusyError is handled; any other exception is a 500.        *)
(***************************************************************************)
ResponseTo(outcome) ==
  CASE outcome.status \in {"accepted", "replayed"} ->
         BidPlacementResponse(outcome)
    [] outcome.status = "rejected" ->
         Refusal(rejection_status(outcome.rejection_reason),
                 outcome.rejection_reason, outcome.minimum_acceptable_cents)
    [] outcome.status = "StrategyBusyError" ->
         Refusal(503, "database_busy", NULL)
    [] OTHER -> Refusal(500, NULL, NULL)

CurrentVersion(c) ==   \* mutated form: the auction's version, not the bid's
  [type |-> "auction.bid_accepted", bid |-> result[c].bid.id,
   version |-> auctions[command[c].auction_id].version]

Event(c) == [type |-> "auction.bid_accepted", bid |-> result[c].bid.id,
             version |-> result[c].bid.auction_version]

AnnounceReplays(c) ==   \* mutated form: a replay is broadcast again
  IF result[c].status \in {"accepted", "replayed"}
  THEN connections[command[c].auction_id] ELSE {}

(***************************************************************************)
(* Whom the route tells of an outcome: an accepted bid is broadcast to the *)
(* sockets that are registered when the event loop gets to it.             *)
(***************************************************************************)
Audience(c) ==
  IF result[c].status = "accepted"
  THEN connections[command[c].auction_id] ELSE {}

Answer(c) ==
  /\ http' = [http EXCEPT ![c] = ResponseTo(result[c])]
  /\ handler' = [handler EXCEPT ![c] = "done"]

Resume(c) ==
  /\ handler[c] = "placing"
  /\ result[c] # NULL
  /\ \/ /\ Audience(c) = {}
        /\ Answer(c)
        /\ UNCHANGED <<targets, told>>
     \/ /\ Audience(c) # {}
        /\ targets' = [targets EXCEPT ![c] = Audience(c)]
        /\ told' = [told EXCEPT ![c] = Audience(c)]
        /\ handler' = [handler EXCEPT ![c] = "sending"]
        /\ UNCHANGED http
  /\ UNCHANGED <<serialVars, failed, stage, topic, snapshot, connections,
                 inbox>>

Deliver(s, message) == inbox' = [inbox EXCEPT ![s] = Append(@, message)]

NoSendTimeout(c, s) ==   \* mutated form: the send waits for the client
  /\ s \in targets[c]
  /\ stage[s] = "open"
  /\ Deliver(s, Event(c))
  /\ targets' = [targets EXCEPT ![c] = @ \ {s}]
  /\ UNCHANGED <<serialVars, handler, http, failed, stage, topic, snapshot,
                 connections, told>>

(***************************************************************************)
(* One send of a broadcast: it succeeds, it raises, or it times out after  *)
(* the message was written.                                                *)
(***************************************************************************)
Send(c, s) ==
  /\ s \in targets[c]
  /\ targets' = [targets EXCEPT ![c] = @ \ {s}]
  /\ \/ stage[s] = "open" /\ Deliver(s, Event(c))
     \/ UNCHANGED inbox
  /\ \/ inbox' # inbox /\ UNCHANGED failed
     \/ failed' = [failed EXCEPT ![c] = @ \cup {s}]
  /\ UNCHANGED <<serialVars, handler, http, stage, topic, snapshot,
                 connections, told>>

DropsTheAudience(c) ==   \* mutated form: all it told are removed
  /\ handler[c] = "sending"
  /\ targets[c] = {}
  /\ connections' = [connections EXCEPT ![command[c].auction_id] = @ \ told[c]]
  /\ Answer(c)
  /\ UNCHANGED <<serialVars, targets, failed, stage, topic, snapshot, inbox,
                 told>>

FinishBroadcast(c) ==
  /\ handler[c] = "sending"
  /\ targets[c] = {}
  /\ connections' = [connections EXCEPT ![command[c].auction_id] =
                       @ \ failed[c]]
  /\ Answer(c)
  /\ UNCHANGED <<serialVars, targets, failed, stage, topic, snapshot, inbox,
                 told>>

-----------------------------------------------------------------------------
(***************************************************************************)
(* The route auction_websocket.                                            *)
(***************************************************************************)
Subscribe(s, a) ==
  /\ stage[s] = "new"
  /\ stage' = [stage EXCEPT ![s] = "reading"]
  /\ topic' = [topic EXCEPT ![s] = a]
  /\ UNCHANGED <<serialVars, handler, http, targets, failed, snapshot,
                 connections, inbox, told>>

(***************************************************************************)
(* get_auction finds the auction, finds none, or raises; without it the    *)
(* socket is closed.                                                       *)
(***************************************************************************)
ReadSnapshot(s) ==
  /\ stage[s] = "reading"
  /\ \/ /\ auctions[topic[s]] # NULL
        /\ snapshot' = [snapshot EXCEPT ![s] = auctions[topic[s]]]
        /\ stage' = [stage EXCEPT ![s] = "accepting"]
     \/ /\ stage' = [stage EXCEPT ![s] = "closed"]
        /\ UNCHANGED snapshot
  /\ UNCHANGED <<serialVars, handler, http, targets, failed, topic,
                 connections, inbox, told>>

AuctionResponse(auction) ==
  [type |-> "auction.snapshot", bid |-> auction.winning_bid_id,
   version |-> auction.version]

Register(s) ==
  connections' = [connections EXCEPT ![topic[s]] = @ \cup {s}]

RegisterFirst(s) ==   \* mutated form: registered before accept() succeeds
  /\ Register(s)
  /\ \/ /\ stage[s] = "accepting"
        /\ stage' = [stage EXCEPT ![s] = "open"]
        /\ Deliver(s, AuctionResponse(snapshot[s]))
     \/ /\ stage[s] = "lost"
        /\ stage' = [stage EXCEPT ![s] = "closed"]
        /\ UNCHANGED inbox
  /\ UNCHANGED <<serialVars, handler, http, targets, failed, topic, snapshot,
                 told>>

(***************************************************************************)
(* accept(), registration and the start of the snapshot's send: the event  *)
(* loop does nothing else between the last two.  When the client has left, *)
(* accept() raises, or the send does once the socket is registered.        *)
(***************************************************************************)
Connect(s) ==
  /\ \/ /\ stage[s] = "accepting"
        /\ Register(s)
        /\ stage' = [stage EXCEPT ![s] = "open"]
        /\ Deliver(s, AuctionResponse(snapshot[s]))
     \/ /\ stage[s] = "lost"
        /\ UNCHANGED inbox
        /\ \/ /\ stage' = [stage EXCEPT ![s] = "closed"]
              /\ UNCHANGED connections
           \/ /\ stage' = [stage EXCEPT ![s] = "gone"]
              /\ Register(s)
  /\ UNCHANGED <<serialVars, handler, http, targets, failed, topic, snapshot,
                 told>>

(***************************************************************************)
(* The client goes away, which its route notices only later.               *)
(***************************************************************************)
Leave(s) ==
  /\ \/ /\ stage[s] = "accepting"
        /\ stage' = [stage EXCEPT ![s] = "lost"]
     \/ /\ stage[s] = "open"
        /\ stage' = [stage EXCEPT ![s] = "gone"]
  /\ UNCHANGED <<serialVars, handler, http, targets, failed, topic, snapshot,
                 connections, inbox, told>>

(***************************************************************************)
(* WebSocketDisconnect ends the receive loop; the finally clause removes   *)
(* the socket.                                                             *)
(***************************************************************************)
Disconnect(s) ==
  /\ stage[s] = "gone"
  /\ stage' = [stage EXCEPT ![s] = "closed"]
  /\ connections' = [connections EXCEPT ![topic[s]] = @ \ {s}]
  /\ UNCHANGED <<serialVars, handler, http, targets, failed, topic, snapshot,
                 inbox, told>>

(***************************************************************************)
(* The process stops and is started again: requests in progress are never  *)
(* answered, all sockets close, and the table of connections is new.  A    *)
(* transaction in progress commits or not, which ServiceStep decides.      *)
(***************************************************************************)
Restart ==
  /\ \/ \E s \in Sockets : stage[s] \notin {"new", "closed"}
     \/ \E c \in Calls : handler[c] \in {"placing", "sending"}
  /\ handler' = [c \in Calls |-> IF command[c] = NULL THEN handler[c]
                                 ELSE "done"]
  /\ stage' = [s \in Sockets |-> IF stage[s] = "new" THEN "new" ELSE "closed"]
  /\ connections' = [a \in Auctions |-> {}]
  /\ targets' = [c \in Calls |-> {}]
  /\ UNCHANGED <<serialVars, http, failed, topic, snapshot, inbox, told>>

RouteStep(c) ==
  Resume(c) \/ FinishBroadcast(c) \/ \E s \in Sockets : Send(c, s)

SocketStep(s) == ReadSnapshot(s) \/ Connect(s) \/ Disconnect(s)

(***************************************************************************)
(* What the worker threads and the database do on their own.               *)
(***************************************************************************)
ServiceStep ==
  /\ \/ PassTime
     \/ \E c \in Calls : Accept(c) \/ Replay(c) \/ Refuse(c) \/ Fail(c)
  /\ UNCHANGED feedVars

Next ==
  \/ ServiceStep
  \/ \E a \in Auctions, body \in Listings : create_auction(a, body)
  \/ \E c \in Calls, body \in Bodies : Post(c, body)
  \/ \E c \in Calls : RouteStep(c)
  \/ \E s \in Sockets, a \in Auctions : Subscribe(s, a)
  \/ \E s \in Sockets : SocketStep(s) \/ Leave(s)
  \/ Restart

Spec == Init /\ [][Next]_vars

(***************************************************************************)
(* The event loop runs what is ready, and wait_for bounds every send.      *)
(***************************************************************************)
FairSpec ==
  /\ Spec
  /\ \A c \in Calls : WF_vars(RouteStep(c))
  /\ \A s \in Sockets : WF_vars(SocketStep(s))

-----------------------------------------------------------------------------
(***************************************************************************)
(* No rejected or rolled-back bid creates an event: every event tells of a *)
(* stored bid of the auction the client asked for, with its version.       *)
(***************************************************************************)
NoPhantomEvents ==
  \A s \in Sockets : \A i \in 1..Len(inbox[s]) :
    inbox[s][i].type = "auction.bid_accepted" =>
      \E b \in bids : /\ b.id = inbox[s][i].bid
                      /\ b.auction_version = inbox[s][i].version
                      /\ b.auction_id = topic[s]

(***************************************************************************)
(* A client hears of a bid at most once, however often its request is      *)
(* repeated.                                                               *)
(***************************************************************************)
EventsAreUnique ==
  \A s \in Sockets : \A i, j \in 1..Len(inbox[s]) :
    inbox[s][i].type = "auction.bid_accepted" /\ inbox[s][i] = inbox[s][j]
      => i = j

(***************************************************************************)
(* The table of connections holds no socket whose route has ended, so it   *)
(* does not grow with clients that have left.                              *)
(***************************************************************************)
NoLeakedSockets ==
  \A s \in Sockets : stage[s] = "closed" =>
    \A a \in Auctions : s \notin connections[a]

(***************************************************************************)
(* An HTTP answer tells the truth, also when it is read late: the bid of a *)
(* 200 is stored and is what this request asked for, 404, 409, 422 and 503 *)
(* mean that this request has stored none, and a quoted minimum is never   *)
(* more than what a next bid must reach.                                   *)
(***************************************************************************)
AnswersAreTrue ==
  \A c \in Calls : http[c] # NULL =>
    /\ http[c].status_code = 200 => http[c].bid \in bids
                                    /\ Matches(http[c].bid, command[c])
    /\ http[c].status_code \in {404, 409, 422, 503} => \A b \in bids : b.id # c
    /\ http[c].minimum_acceptable_cents # NULL =>
         http[c].minimum_acceptable_cents
           <= minimum_acceptable_bid(auctions[command[c].auction_id])

(* Has the client behind a socket received the event of a call? *)
Heard(s, c) == \E i \in 1..Len(inbox[s]) : inbox[s][i] = Event(c)

(***************************************************************************)
(* A subscriber that stays is not forgotten without cause: it is in the    *)
(* table unless a broadcast that is over failed to send to it, and it has  *)
(* had the event of every broadcast it was part of, or that one failed.    *)
(***************************************************************************)
SubscribersAreServed ==
  \A s \in Sockets : stage[s] = "open" =>
    /\ s \in connections[topic[s]] <=>
         ~ \E c \in Calls : handler[c] = "done" /\ s \in failed[c]
    /\ \A c \in Calls : handler[c] = "done" /\ s \in told[c] =>
         Heard(s, c) \/ s \in failed[c]

(***************************************************************************)
(* A slow or dead subscriber never keeps a bidder from its answer.         *)
(***************************************************************************)
BiddersAreAnswered ==
  \A c \in Calls : result[c] # NULL ~> handler[c] = "done"

(***************************************************************************)
(* Clients receive a current snapshot on connection: of a bid whose route  *)
(* has broadcast it and answered, a client that stays and is registered    *)
(* knows from its snapshot or from an event.                               *)
(***************************************************************************)
SnapshotIsCurrent ==
  \A s \in Sockets, c \in Calls :
    /\ stage[s] = "open" /\ s \in connections[topic[s]]
    /\ http[c] # NULL /\ http[c].status_code = 200
    /\ result[c].status = "accepted" /\ command[c].auction_id = topic[s]
    => result[c].bid.auction_version <= snapshot[s].version \/ Heard(s, c)

=============================================================================
