--------------------------- MODULE LiveFeedProofs ---------------------------
(***************************************************************************)
(* What the route that places bids and the WebSocket feed promise, for any *)
(* number of calls, sockets, auctions and restarts, on top of any strategy *)
(* that implements SerialAuction.                                          *)
(***************************************************************************)
EXTENDS LiveFeed, SerialAuctionProofs

(* Where a route is determines what it has said: it broadcasts accepted bids
   only, and its answer, once given, is the response to its outcome, or 422
   if the service was never called. *)
RouteIsSound(c) ==
  /\ handler[c] = "new" => command[c] = NULL
  /\ handler[c] \notin {"sending", "done"} => told[c] = {}
  /\ handler[c] = "sending" => told[c] # {}
  /\ handler[c] # "sending" => targets[c] = {}
  /\ targets[c] \subseteq told[c] /\ failed[c] \subseteq told[c]
  /\ told[c] # {} => result[c] # NULL /\ result[c].status = "accepted"
  /\ http[c] # NULL =>
       /\ handler[c] = "done"
       /\ \/ command[c] = NULL /\ http[c] = Refusal(422, NULL, NULL)
          \/ result[c] # NULL /\ http[c] = ResponseTo(result[c])

Early == {"new", "reading", "accepting", "lost"}

(* A socket is registered for its own auction and while its route runs, and is
   told of bids on that auction only. *)
SocketIsSound(s) ==
  /\ stage[s] # "new" => topic[s] \in Auctions
  /\ stage[s] = "accepting" => snapshot[s] # NULL
  /\ stage[s] \in Early => inbox[s] = <<>> /\ \A c \in Calls : s \notin told[c]
  /\ \A a \in Auctions :
       s \in connections[a] => topic[s] = a /\ stage[s] \in {"open", "gone"}
  /\ \A c \in Calls : s \in told[c] => topic[s] = command[c].auction_id

(* Every event comes from a broadcast that is over for this socket. *)
EventsAreTold(s) ==
  \A i \in 1..Len(inbox[s]) : inbox[s][i].type = "auction.bid_accepted" =>
    \E c \in Calls :
      s \in told[c] /\ s \notin targets[c] /\ inbox[s][i] = Event(c)

(* A broadcast in progress has reached whom it has not failed to reach. *)
SendsAreHeard(s) ==
  \A c \in Calls : handler[c] = "sending" /\ s \in told[c] =>
    s \in targets[c] \/ s \in failed[c] \/ Heard(s, c)

NoRepeats(s) ==
  \A i, j \in 1..Len(inbox[s]) :
    inbox[s][i].type = "auction.bid_accepted" /\ inbox[s][i] = inbox[s][j]
      => i = j

IsServed(s) ==
  stage[s] = "open" =>
    /\ s \in connections[topic[s]] <=>
         ~ \E c \in Calls : handler[c] = "done" /\ s \in failed[c]
    /\ \A c \in Calls : handler[c] = "done" /\ s \in told[c] =>
         Heard(s, c) \/ s \in failed[c]

ServiceInv == SerialTypeOK /\ OwnersHaveEnded /\ OutcomesAgree /\ QuotesAreLow

SubscriberInv(s) ==
  /\ SocketIsSound(s)
  /\ EventsAreTold(s)
  /\ SendsAreHeard(s)
  /\ NoRepeats(s)
  /\ IsServed(s)

FeedInv ==
  /\ FeedTypeOK
  /\ ServiceInv
  /\ \A c \in Calls : RouteIsSound(c)
  /\ \A s \in Sockets : SubscriberInv(s)

-----------------------------------------------------------------------------
(***************************************************************************)
(* The route and the feed on top of the service.                           *)
(***************************************************************************)

(* Every step of the API process is a step of the serial auction, or none. *)
LEMMA FeedIsSerialStep == [Next]_vars => [SerialNext]_serialVars
  <1> SUFFICES ASSUME [Next]_vars PROVE [SerialNext]_serialVars
    OBVIOUS
  <1>1. CASE ServiceStep
    BY <1>1 DEF ServiceStep, SerialNext
  <1>2. CASE \E a \in Auctions, body \in Listings : create_auction(a, body)
    BY <1>2 DEF create_auction, SerialNext
  <1>3. ASSUME NEW c \in Calls, NEW body \in Bodies, Post(c, body)
        PROVE  [SerialNext]_serialVars
    <2>1. CASE UNCHANGED serialVars
      BY <2>1
    <2>2. CASE /\ PlaceBidRequest(body)
               /\ Call(c, [body EXCEPT !.bidder_id = strip[@]])
      <3>1. [body EXCEPT !.bidder_id = strip[@]] \in Commands
        BY <2>2, BodiesAssumption
      <3>2. QED
        BY <2>2, <3>1 DEF SerialNext
    <2>3. QED
      BY <1>3, <2>1, <2>2 DEF Post
  <1>4. CASE \E c \in Calls : RouteStep(c)
    BY <1>4 DEF RouteStep, Resume, FinishBroadcast, Send
  <1>5. CASE \E s \in Sockets, a \in Auctions : Subscribe(s, a)
    BY <1>5 DEF Subscribe
  <1>6. CASE \E s \in Sockets : SocketStep(s) \/ Leave(s)
    BY <1>6 DEF SocketStep, ReadSnapshot, Connect, Disconnect, Leave
  <1>7. CASE Restart
    BY <1>7 DEF Restart
  <1>8. CASE UNCHANGED vars
    BY <1>8 DEF vars
  <1>9. QED
    BY <1>1, <1>2, <1>3, <1>4, <1>5, <1>6, <1>7, <1>8 DEF Next

(* So whatever its sockets do, and restarts or not, the process uses the
   service as SerialAuction allows, and its theorems apply. *)
LEMMA FeedIsSerial == Spec => SerialSpec
  <1>1. Init => SerialInit
    BY DEF Init
  <1>2. QED
    BY <1>1, FeedIsSerialStep, PTL DEF Spec, SerialSpec

(* What the service guarantees from one step to the next. *)
LEMMA ServiceInvStep ==
  ASSUME ServiceInv, [Next]_vars
  PROVE  ServiceInv' /\ AnswersStand
  <1>1. [SerialNext]_serialVars
    BY FeedIsSerialStep
  <1>2. QED
    BY <1>1, SerialTypeStep, OutcomesStep, QuotesStep, FinalStep
       DEF ServiceInv

(* The event of an accepted bid: it names a stored bid of the auction that the
   call was about. *)
LEMMA AcceptedEvent ==
  ASSUME ServiceInv, NEW c \in Calls,
         result[c] # NULL, result[c].status = "accepted"
  PROVE  /\ command[c] \in BidCommand /\ command[c].auction_id \in Auctions
         /\ result[c].bid \in bids /\ result[c].bid \in AcceptedBid
         /\ result[c].bid.auction_id = command[c].auction_id
         /\ Event(c) \in Message
         /\ Event(c).type = "auction.bid_accepted"
         /\ Event(c).bid = c
         /\ Event(c).version = result[c].bid.auction_version
  <1>1. command[c] \in BidCommand /\ command[c].auction_id \in Auctions
    BY DEF ServiceInv, OwnersHaveEnded, SerialTypeOK, BidCommand
  <1>2. /\ result[c].bid \in bids /\ result[c].bid.id = c
        /\ result[c].bid.auction_id = command[c].auction_id
    BY DEF ServiceInv, OutcomesAgree, BidsOf, Matches
  <1>3. result[c].bid \in AcceptedBid
    BY <1>2 DEF ServiceInv, SerialTypeOK
  <1>4. Event(c) \in Message
    BY <1>2, <1>3 DEF Event, Message, AcceptedBid
  <1>5. QED
    BY <1>1, <1>2, <1>3, <1>4 DEF Event

(* A call that has been broadcast keeps its command, its outcome and its
   event. *)
LEMMA EventStands ==
  ASSUME ServiceInv, AnswersStand, NEW c \in Calls, RouteIsSound(c),
         told[c] # {}
  PROVE  /\ Event(c)' = Event(c)
         /\ result[c] # NULL /\ result[c].status = "accepted"
         /\ result'[c] = result[c] /\ command'[c] = command[c]
  <1>1. result[c] # NULL /\ result[c].status = "accepted"
    BY DEF RouteIsSound
  <1>2. result'[c] = result[c] /\ command'[c] = command[c]
    BY <1>1 DEF AnswersStand, ServiceInv, OwnersHaveEnded
  <1>3. QED
    BY <1>1, <1>2 DEF Event

(* A route that a step leaves alone stays sound. *)
LEMMA RouteFrame ==
  ASSUME NEW c \in Calls, RouteIsSound(c), AnswersStand,
         command'[c] = command[c], handler'[c] = handler[c],
         http'[c] = http[c], targets'[c] = targets[c],
         failed'[c] = failed[c], told'[c] = told[c]
  PROVE  RouteIsSound(c)'
  <1>1. result[c] # NULL => result'[c] = result[c]
    BY DEF AnswersStand
  <1>2. result[c] # NULL => ResponseTo(result'[c]) = ResponseTo(result[c])
    BY <1>1
  <1>3. QED
    BY <1>1, <1>2 DEF RouteIsSound

(* A socket that a step leaves alone stays sound: the step may do anything to
   broadcasts that the socket is not part of. *)
LEMMA SubscriberFrame ==
  ASSUME ServiceInv, AnswersStand, \A c \in Calls : RouteIsSound(c),
         NEW s \in Sockets, SubscriberInv(s),
         stage'[s] = stage[s], topic'[s] = topic[s],
         snapshot'[s] = snapshot[s], inbox'[s] = inbox[s],
         \A a \in Auctions : s \in connections'[a] <=> s \in connections[a],
         \A c \in Calls : s \in told'[c] <=> s \in told[c],
         \A c \in Calls : s \in told[c] =>
           /\ handler'[c] = handler[c]
           /\ s \in targets'[c] <=> s \in targets[c],
         \A c \in Calls : s \in failed'[c] <=> s \in failed[c]
  PROVE  SubscriberInv(s)'
  <1>1. \A c \in Calls : s \in told[c] =>
          Event(c)' = Event(c) /\ command'[c] = command[c]
    BY EventStands
  <1>2. SocketIsSound(s)'
    BY <1>1 DEF SubscriberInv, SocketIsSound
  <1>3. EventsAreTold(s)'
    BY <1>1 DEF SubscriberInv, EventsAreTold
  <1>4. \A c \in Calls : s \in told[c] => (Heard(s, c)' <=> Heard(s, c))
    BY <1>1 DEF Heard
  <1>5. SendsAreHeard(s)'
    BY <1>4 DEF SubscriberInv, SendsAreHeard
  <1>6. NoRepeats(s)'
    BY DEF SubscriberInv, NoRepeats
  <1>7. IsServed(s)'
    <2>1. stage[s] = "open" => topic[s] \in Auctions
      BY DEF SubscriberInv, SocketIsSound
    <2>2. \A c \in Calls : s \in failed[c] => s \in told[c]
      BY DEF RouteIsSound
    <2>3. QED
      BY <1>4, <2>1, <2>2 DEF SubscriberInv, IsServed
  <1>8. QED
    BY <1>2, <1>3, <1>5, <1>6, <1>7 DEF SubscriberInv

(* Initially no call is made and no socket is open. *)
LEMMA FeedInitially == Init => FeedInv
  <1> SUFFICES ASSUME Init PROVE FeedInv
    OBVIOUS
  <1>1. ServiceInv
    BY BoundsAssumption
       DEF Init, SerialInit, ServiceInv, SerialTypeOK, OwnersHaveEnded,
           OutcomesAgree, QuotesAreLow, Time
  <1>2. FeedTypeOK
    <2>1. <<>> \in Seq(Message)
      OBVIOUS
    <2>2. QED
      BY <1>1, <2>1 DEF Init, FeedTypeOK, ServiceInv
  <1>3. \A c \in Calls : RouteIsSound(c)
    BY DEF Init, SerialInit, RouteIsSound
  <1>4. ASSUME NEW s \in Sockets PROVE SubscriberInv(s)
    <2>1. /\ stage[s] = "new" /\ inbox[s] = <<>>
          /\ \A a \in Auctions : s \notin connections[a]
          /\ \A c \in Calls : s \notin told[c]
      BY DEF Init
    <2>2. QED
      BY <2>1 DEF SubscriberInv, SocketIsSound, EventsAreTold, SendsAreHeard,
                  NoRepeats, IsServed
  <1>5. QED
    BY <1>1, <1>2, <1>3, <1>4 DEF FeedInv

-----------------------------------------------------------------------------
(***************************************************************************)
(* Every action preserves the invariant.                                   *)
(***************************************************************************)

(* The service answers or an auction is created: the event loop has not
   moved. *)
LEMMA QuietStep ==
  ASSUME FeedInv, ServiceInv', AnswersStand, UNCHANGED feedVars,
         command' = command
  PROVE  FeedInv'
  <1>1. UNCHANGED <<handler, http, targets, failed, stage, topic, snapshot,
                    connections, inbox, told>>
    BY DEF feedVars
  <1>2. FeedTypeOK'
    BY <1>1 DEF FeedInv, FeedTypeOK, ServiceInv
  <1>3. \A c \in Calls : RouteIsSound(c)'
    BY <1>1, RouteFrame DEF FeedInv
  <1>4. \A s \in Sockets : SubscriberInv(s)'
    BY <1>1, SubscriberFrame DEF FeedInv
  <1>5. QED
    BY <1>2, <1>3, <1>4 DEF FeedInv

(* A route that has not broadcast moves on: no socket notices. *)
LEMMA SilentRouteStep ==
  ASSUME FeedInv, ServiceInv', AnswersStand, NEW c \in Calls, told[c] = {},
         UNCHANGED <<targets, failed, stage, topic, snapshot, connections,
                     inbox, told>>,
         handler' \in [Calls -> {"new", "placing", "sending", "done"}],
         http' \in [Calls -> Response \cup {NULL}],
         \A d \in Calls \ {c} : /\ handler'[d] = handler[d]
                                /\ http'[d] = http[d]
                                /\ command'[d] = command[d],
         RouteIsSound(c)'
  PROVE  FeedInv'
  <1>1. FeedTypeOK'
    BY DEF FeedInv, FeedTypeOK, ServiceInv
  <1>2. \A d \in Calls : RouteIsSound(d)'
    BY RouteFrame DEF FeedInv
  <1>3. ASSUME NEW s \in Sockets PROVE SubscriberInv(s)'
    <2>1. \A d \in Calls : s \in told[d] => handler'[d] = handler[d]
      OBVIOUS
    <2>2. QED
      BY <2>1, SubscriberFrame DEF FeedInv
  <1>4. QED
    BY <1>1, <1>2, <1>3 DEF FeedInv

(* A bid is posted: the service is called, or the body is refused. *)
LEMMA PostStep ==
  ASSUME FeedInv, ServiceInv', AnswersStand, NEW c \in Calls, NEW body,
         Post(c, body)
  PROVE  FeedInv'
  <1>1. /\ RouteIsSound(c) /\ command[c] = NULL /\ told[c] = {}
        /\ targets[c] = {} /\ failed[c] = {} /\ http[c] = NULL
        /\ result[c] = NULL
    BY DEF FeedInv, Post, RouteIsSound, ServiceInv, OwnersHaveEnded
  <1>2. UNCHANGED <<targets, failed, stage, topic, snapshot, connections,
                    inbox, told>>
    BY DEF Post
  <1>3. CASE /\ Call(c, [body EXCEPT !.bidder_id = strip[@]])
             /\ handler' = [handler EXCEPT ![c] = "placing"]
             /\ UNCHANGED http
    <2>1. /\ handler'[c] = "placing"
          /\ \A d \in Calls \ {c} : /\ handler'[d] = handler[d]
                                    /\ command'[d] = command[d]
          /\ handler' \in [Calls -> {"new", "placing", "sending", "done"}]
      BY <1>3 DEF FeedInv, FeedTypeOK, SerialTypeOK, Call
    <2>2. RouteIsSound(c)'
      BY <1>1, <1>2, <1>3, <2>1 DEF RouteIsSound
    <2>3. http' \in [Calls -> Response \cup {NULL}]
      BY <1>3 DEF FeedInv, FeedTypeOK
    <2>4. QED
      BY <1>1, <1>2, <1>3, <2>1, <2>2, <2>3, SilentRouteStep
  <1>4. CASE /\ http' = [http EXCEPT ![c] = Refusal(422, NULL, NULL)]
             /\ handler' = [handler EXCEPT ![c] = "done"]
             /\ UNCHANGED serialVars
    <2>1. Refusal(422, NULL, NULL) \in Response
      BY DEF Refusal, Response
    <2>2. /\ handler'[c] = "done" /\ http'[c] = Refusal(422, NULL, NULL)
          /\ \A d \in Calls \ {c} : /\ handler'[d] = handler[d]
                                    /\ http'[d] = http[d]
          /\ handler' \in [Calls -> {"new", "placing", "sending", "done"}]
          /\ http' \in [Calls -> Response \cup {NULL}]
          /\ command' = command
      BY <1>4, <2>1 DEF FeedInv, FeedTypeOK, serialVars
    <2>3. RouteIsSound(c)'
      BY <1>1, <1>2, <2>2 DEF RouteIsSound, Refusal
    <2>4. QED
      BY <1>1, <1>2, <2>2, <2>3, SilentRouteStep
  <1>5. QED
    BY <1>3, <1>4 DEF Post

(* The response to an outcome is an HTTP response. *)
LEMMA ResponseType ==
  ASSUME NEW outcome \in BidOutcome
  PROVE  ResponseTo(outcome) \in Response
BY DEF BidOutcome, ResponseTo, BidPlacementResponse, Refusal, Response,
       rejection_status, Exceptions

(* The service has answered: the route broadcasts the bid, or answers. *)
LEMMA ResumeStep ==
  ASSUME FeedInv, ServiceInv', AnswersStand, NEW c \in Calls, Resume(c)
  PROVE  FeedInv'
  <1>1. /\ RouteIsSound(c) /\ told[c] = {} /\ targets[c] = {}
        /\ failed[c] = {} /\ http[c] = NULL /\ handler[c] = "placing"
        /\ result[c] # NULL /\ result[c] \in BidOutcome
    BY DEF FeedInv, Resume, RouteIsSound, FeedTypeOK, SerialTypeOK
  <1>2. UNCHANGED <<failed, stage, topic, snapshot, connections, inbox,
                    auctions, bids, clock, command, arrived, result>>
    BY DEF Resume, serialVars
  <1>3. CASE Answer(c) /\ UNCHANGED <<targets, told>>
    <2>1. ResponseTo(result[c]) \in Response
      BY <1>1, ResponseType
    <2>2. /\ handler'[c] = "done" /\ http'[c] = ResponseTo(result[c])
          /\ \A d \in Calls \ {c} : /\ handler'[d] = handler[d]
                                    /\ http'[d] = http[d]
          /\ handler' \in [Calls -> {"new", "placing", "sending", "done"}]
          /\ http' \in [Calls -> Response \cup {NULL}]
      BY <1>3, <2>1 DEF FeedInv, FeedTypeOK, Answer
    <2>3. RouteIsSound(c)'
      <3>1. ResponseTo(result'[c]) = ResponseTo(result[c])
        BY <1>2
      <3>2. QED
        BY <1>1, <1>2, <1>3, <2>2, <3>1 DEF RouteIsSound
    <2>4. QED
      BY <1>1, <1>2, <1>3, <2>2, <2>3, SilentRouteStep
  <1>4. CASE /\ Audience(c) # {}
             /\ targets' = [targets EXCEPT ![c] = Audience(c)]
             /\ told' = [told EXCEPT ![c] = Audience(c)]
             /\ handler' = [handler EXCEPT ![c] = "sending"]
             /\ UNCHANGED http
    <2>1. result[c].status = "accepted"
      BY <1>4 DEF Audience
    <2> DEFINE a == command[c].auction_id
    <2>2. a \in Auctions
      BY <1>1, <2>1, AcceptedEvent DEF FeedInv
    <2>3. Audience(c) = connections[a] /\ Audience(c) \in SUBSET Sockets
      BY <2>1, <2>2 DEF Audience, FeedInv, FeedTypeOK
    <2>4. /\ handler'[c] = "sending" /\ told'[c] = connections[a]
          /\ targets'[c] = connections[a] /\ http'[c] = http[c]
          /\ \A d \in Calls \ {c} : /\ handler'[d] = handler[d]
                                    /\ told'[d] = told[d]
                                    /\ targets'[d] = targets[d]
      BY <1>4, <2>3 DEF FeedInv, FeedTypeOK
    <2>5. FeedTypeOK'
      BY <1>2, <1>4, <2>3 DEF FeedInv, FeedTypeOK, ServiceInv
    <2>6. ASSUME NEW d \in Calls PROVE RouteIsSound(d)'
      <3>1. CASE d = c
        BY <1>1, <1>2, <1>4, <2>1, <2>3, <2>4, <3>1 DEF RouteIsSound
      <3>2. CASE d # c
        BY <1>2, <1>4, <2>4, <3>2, RouteFrame DEF FeedInv
      <3>3. QED
        BY <3>1, <3>2
    <2>7. ASSUME NEW s \in Sockets, s \notin connections[a]
          PROVE  SubscriberInv(s)'
      <3>1. \A d \in Calls : s \in told'[d] <=> s \in told[d]
        BY <1>1, <2>4, <2>7
      <3>2. \A d \in Calls : s \in told[d] =>
              handler'[d] = handler[d] /\ targets'[d] = targets[d]
        BY <1>1, <2>4
      <3>3. QED
        BY <1>2, <3>1, <3>2, SubscriberFrame DEF FeedInv
    <2>8. ASSUME NEW s \in connections[a]
          PROVE  SubscriberInv(s)'
      <3>1. s \in Sockets /\ SubscriberInv(s)
        BY <2>2 DEF FeedInv, FeedTypeOK
      <3>2. topic[s] = a /\ stage[s] \in {"open", "gone"}
        BY <2>2, <3>1 DEF SubscriberInv, SocketIsSound
      <3>3. \A d \in Calls : Event(d)' = Event(d)
        BY <1>2 DEF Event
      <3>4. SocketIsSound(s)'
        BY <1>2, <2>4, <3>1, <3>2 DEF SubscriberInv, SocketIsSound, Early
      <3>5. EventsAreTold(s)'
        BY <1>1, <1>2, <2>4, <3>1, <3>3 DEF SubscriberInv, EventsAreTold
      <3>6. \A d \in Calls : Heard(s, d)' <=> Heard(s, d)
        BY <1>2, <3>3 DEF Heard
      <3>7. SendsAreHeard(s)'
        BY <1>2, <2>4, <3>1, <3>6 DEF SubscriberInv, SendsAreHeard
      <3>8. NoRepeats(s)'
        BY <1>2, <3>1 DEF SubscriberInv, NoRepeats
      <3>9. IsServed(s)'
        BY <1>1, <1>2, <2>4, <3>1, <3>6 DEF SubscriberInv, IsServed
      <3>10. QED
        BY <3>4, <3>5, <3>7, <3>8, <3>9 DEF SubscriberInv
    <2>9. QED
      BY <2>5, <2>6, <2>7, <2>8 DEF FeedInv
  <1>5. QED
    BY <1>3, <1>4 DEF Resume

(* One send: the socket has not heard of this bid before. *)
LEMMA SendStep ==
  ASSUME FeedInv, ServiceInv', AnswersStand, NEW c \in Calls,
         NEW s \in Sockets, Send(c, s)
  PROVE  FeedInv'
  <1>1. /\ RouteIsSound(c) /\ s \in targets[c] /\ s \in told[c]
        /\ handler[c] = "sending" /\ result[c] # NULL
        /\ result[c].status = "accepted" /\ SubscriberInv(s)
    BY DEF FeedInv, Send, RouteIsSound
  <1>2. UNCHANGED <<handler, http, stage, topic, snapshot, connections, told,
                    auctions, bids, clock, command, arrived, result>>
    BY DEF Send, serialVars
  <1>3. Event(c) \in Message /\ Event(c).bid = c
    BY <1>1, AcceptedEvent DEF FeedInv
  <1>4. /\ targets' = [targets EXCEPT ![c] = @ \ {s}]
        /\ targets'[c] = targets[c] \ {s}
        /\ \A d \in Calls \ {c} : targets'[d] = targets[d]
    BY DEF Send, FeedInv, FeedTypeOK
  <1>5. /\ failed' \in [Calls -> SUBSET Sockets]
        /\ failed[c] \subseteq failed'[c] /\ failed'[c] \subseteq failed[c] \cup {s}
        /\ \A d \in Calls \ {c} : failed'[d] = failed[d]
    BY DEF Send, FeedInv, FeedTypeOK
  <1>6. \A d \in Calls : handler[d] = "done" => failed'[d] = failed[d]
    BY <1>1, <1>5
  <1>7. \/ inbox' = [inbox EXCEPT ![s] = Append(@, Event(c))]
        \/ inbox' = inbox /\ s \in failed'[c]
    BY DEF Send, Deliver, FeedInv, FeedTypeOK
  <1>8. inbox[s] \in Seq(Message) /\ Append(inbox[s], Event(c)) \in Seq(Message)
    BY <1>3 DEF FeedInv, FeedTypeOK
  <1>9. FeedTypeOK'
    <2>1. targets' \in [Calls -> SUBSET Sockets]
      BY <1>4 DEF FeedInv, FeedTypeOK
    <2>2. inbox' \in [Sockets -> Seq(Message)]
      BY <1>7, <1>8 DEF FeedInv, FeedTypeOK
    <2>3. QED
      BY <1>2, <1>5, <2>1, <2>2 DEF FeedInv, FeedTypeOK, ServiceInv
  <1>10. ASSUME NEW d \in Calls PROVE RouteIsSound(d)'
    <2>1. CASE d = c
      <3>1. ResponseTo(result'[c]) = ResponseTo(result[c])
        BY <1>2
      <3>2. QED
        BY <1>1, <1>2, <1>4, <1>5, <2>1, <3>1 DEF RouteIsSound
    <2>2. CASE d # c
      BY <1>2, <1>4, <1>5, <2>2, RouteFrame DEF FeedInv
    <2>3. QED
      BY <2>1, <2>2
  <1>11. ASSUME NEW q \in Sockets, q # s PROVE SubscriberInv(q)'
    <2>1. inbox'[q] = inbox[q]
      BY <1>7, <1>11 DEF FeedInv, FeedTypeOK
    <2>2. \A d \in Calls : /\ q \in targets'[d] <=> q \in targets[d]
                           /\ q \in failed'[d] <=> q \in failed[d]
      BY <1>4, <1>5, <1>11
    <2>3. QED
      BY <1>2, <2>1, <2>2, SubscriberFrame DEF FeedInv
  <1>12. SubscriberInv(s)'
    <2>1. \A d \in Calls : Event(d)' = Event(d)
      BY <1>2 DEF Event
    <2>2. CASE inbox' = inbox /\ s \in failed'[c]
      <3>1. \A d \in Calls : Heard(s, d)' <=> Heard(s, d)
        BY <2>1, <2>2 DEF Heard
      <3>2. SocketIsSound(s)' /\ NoRepeats(s)'
        BY <1>1, <1>2, <2>2 DEF SubscriberInv, SocketIsSound, NoRepeats
      <3>3. EventsAreTold(s)'
        BY <1>1, <1>2, <1>4, <2>1, <2>2 DEF SubscriberInv, EventsAreTold
      <3>4. SendsAreHeard(s)'
        BY <1>1, <1>2, <1>4, <1>5, <2>2, <3>1 DEF SubscriberInv, SendsAreHeard
      <3>5. IsServed(s)'
        BY <1>1, <1>2, <1>6, <3>1 DEF SubscriberInv, IsServed
      <3>6. QED
        BY <3>2, <3>3, <3>4, <3>5 DEF SubscriberInv
    <2>3. CASE inbox' = [inbox EXCEPT ![s] = Append(@, Event(c))]
      <3> DEFINE n == Len(inbox[s])
      <3>1. /\ n \in Nat /\ Len(inbox'[s]) = n + 1
            /\ inbox'[s][n + 1] = Event(c)
            /\ \A i \in 1..n : inbox'[s][i] = inbox[s][i]
            /\ \A i \in 1..(n + 1) : i \in 1..n \/ i = n + 1
        BY <1>8, <2>3 DEF FeedInv, FeedTypeOK
      <3>2. \A d \in Calls : Heard(s, d) => Heard(s, d)'
        BY <2>1, <3>1 DEF Heard
      <3>3. Heard(s, c)'
        BY <2>1, <3>1 DEF Heard
      <3>4. SocketIsSound(s)'
        <4>1. stage[s] \notin Early
          BY <1>1 DEF SubscriberInv, SocketIsSound
        <4>2. QED
          BY <1>1, <1>2, <4>1 DEF SubscriberInv, SocketIsSound
      <3>5. EventsAreTold(s)'
        <4>1. ASSUME NEW i \in 1..(n + 1),
                     inbox'[s][i].type = "auction.bid_accepted"
              PROVE  \E d \in Calls : /\ s \in told[d] /\ s \notin targets'[d]
                                      /\ inbox'[s][i] = Event(d)
          <5>1. CASE i = n + 1
            BY <1>1, <1>4, <3>1, <5>1
          <5>2. CASE i \in 1..n
            <6>1. PICK d \in Calls : /\ s \in told[d] /\ s \notin targets[d]
                                     /\ inbox[s][i] = Event(d)
              BY <1>1, <3>1, <4>1, <5>2 DEF SubscriberInv, EventsAreTold
            <6>2. QED
              BY <1>4, <3>1, <5>2, <6>1
          <5>3. QED
            BY <3>1, <5>1, <5>2
        <4>2. QED
          BY <1>2, <2>1, <3>1, <4>1 DEF EventsAreTold
      <3>6. SendsAreHeard(s)'
        BY <1>1, <1>2, <1>4, <1>5, <3>2, <3>3 DEF SubscriberInv, SendsAreHeard
      <3>7. \A i \in 1..n : inbox[s][i] # Event(c)
        <4> SUFFICES ASSUME NEW i \in 1..n, inbox[s][i] = Event(c)
                     PROVE  FALSE
          OBVIOUS
        <4>1. inbox[s][i].type = "auction.bid_accepted"
          BY DEF Event
        <4>2. PICK d \in Calls : /\ s \in told[d] /\ s \notin targets[d]
                                 /\ inbox[s][i] = Event(d)
          BY <1>1, <4>1 DEF SubscriberInv, EventsAreTold
        <4>3. Event(d).bid = d
          BY <4>2, AcceptedEvent DEF FeedInv, RouteIsSound
        <4>4. QED
          BY <1>1, <1>3, <4>2, <4>3
      <3>8. NoRepeats(s)'
        <4> SUFFICES ASSUME NEW i \in 1..(n + 1), NEW j \in 1..(n + 1),
                            inbox'[s][i].type = "auction.bid_accepted",
                            inbox'[s][i] = inbox'[s][j]
                     PROVE  i = j
          BY <3>1 DEF NoRepeats
        <4>1. \A k, l \in 1..n :
                inbox[s][k].type = "auction.bid_accepted"
                /\ inbox[s][k] = inbox[s][l] => k = l
          BY <1>1 DEF SubscriberInv, NoRepeats
        <4>2. CASE i \in 1..n /\ j \in 1..n
          BY <3>1, <4>1, <4>2
        <4>3. CASE i = n + 1 \/ j = n + 1
          BY <3>1, <3>7, <4>3
        <4>4. QED
          BY <3>1, <4>2, <4>3
      <3>9. IsServed(s)'
        BY <1>1, <1>2, <1>6, <3>2 DEF SubscriberInv, IsServed
      <3>10. QED
        BY <3>4, <3>5, <3>6, <3>8, <3>9 DEF SubscriberInv
    <2>4. QED
      BY <1>7, <2>2, <2>3
  <1>13. QED
    BY <1>9, <1>10, <1>11, <1>12 DEF FeedInv

(* The end of a broadcast: whom it could not reach it forgets. *)
LEMMA FinishStep ==
  ASSUME FeedInv, ServiceInv', AnswersStand, NEW c \in Calls,
         FinishBroadcast(c)
  PROVE  FeedInv'
  <1> DEFINE a == command[c].auction_id
  <1>1. /\ RouteIsSound(c) /\ handler[c] = "sending" /\ targets[c] = {}
        /\ result[c] # NULL /\ result[c] \in BidOutcome
        /\ result[c].status = "accepted" /\ http[c] = NULL
    BY DEF FeedInv, FinishBroadcast, RouteIsSound, FeedTypeOK, SerialTypeOK
  <1>2. UNCHANGED <<targets, stage, topic, snapshot, inbox, told, auctions,
                    bids, clock, command, arrived, result>>
    BY DEF FinishBroadcast, serialVars
  <1>3. a \in Auctions /\ ResponseTo(result[c]) \in Response
    BY <1>1, AcceptedEvent, ResponseType DEF FeedInv
  <1>4. /\ connections'[a] = connections[a] \ failed[c]
        /\ \A b \in Auctions \ {a} : connections'[b] = connections[b]
        /\ failed' = failed /\ handler'[c] = "done"
        /\ http'[c] = ResponseTo(result[c])
        /\ \A d \in Calls \ {c} : /\ handler'[d] = handler[d]
                                  /\ http'[d] = http[d]
    BY <1>3 DEF FinishBroadcast, Answer, FeedInv, FeedTypeOK
  <1>5. FeedTypeOK'
    BY <1>2, <1>3 DEF FinishBroadcast, Answer, FeedInv, FeedTypeOK, ServiceInv
  <1>6. ASSUME NEW d \in Calls PROVE RouteIsSound(d)'
    <2>1. CASE d = c
      <3>1. ResponseTo(result'[c]) = ResponseTo(result[c])
        BY <1>2
      <3>2. QED
        BY <1>1, <1>2, <1>4, <2>1, <3>1 DEF RouteIsSound
    <2>2. CASE d # c
      BY <1>2, <1>4, <2>2, RouteFrame DEF FeedInv
    <2>3. QED
      BY <2>1, <2>2
  <1>7. ASSUME NEW s \in Sockets, s \notin told[c] PROVE SubscriberInv(s)'
    <2>1. \A b \in Auctions : s \in connections'[b] <=> s \in connections[b]
      BY <1>1, <1>3, <1>4, <1>7 DEF RouteIsSound
    <2>2. QED
      BY <1>2, <1>4, <1>7, <2>1, SubscriberFrame DEF FeedInv
  <1>8. ASSUME NEW s \in Sockets, s \in told[c] PROVE SubscriberInv(s)'
    <2>1. SubscriberInv(s) /\ topic[s] = a
      BY <1>8 DEF FeedInv, SubscriberInv, SocketIsSound
    <2>2. \A d \in Calls : Event(d)' = Event(d)
      BY <1>2 DEF Event
    <2>3. \A d \in Calls : Heard(s, d)' <=> Heard(s, d)
      BY <1>2, <2>2 DEF Heard
    <2>4. \A b \in Auctions : s \in connections'[b] => s \in connections[b]
      BY <1>3, <1>4
    <2>5. SocketIsSound(s)' /\ NoRepeats(s)'
      BY <1>2, <2>1, <2>4 DEF SubscriberInv, SocketIsSound, NoRepeats
    <2>6. EventsAreTold(s)'
      BY <1>2, <2>1, <2>2 DEF SubscriberInv, EventsAreTold
    <2>7. SendsAreHeard(s)'
      BY <1>2, <1>4, <2>1, <2>3 DEF SubscriberInv, SendsAreHeard
    <2>8. s \notin failed[c] => Heard(s, c)
      BY <1>1, <1>8, <2>1 DEF SubscriberInv, SendsAreHeard
    <2>9. IsServed(s)'
      BY <1>2, <1>4, <1>8, <2>1, <2>3, <2>8 DEF SubscriberInv, IsServed
    <2>10. QED
      BY <2>5, <2>6, <2>7, <2>9 DEF SubscriberInv
  <1>9. QED
    BY <1>5, <1>6, <1>7, <1>8 DEF FeedInv

(* A step of the route of one socket: the others, and the routes of calls, do
   not notice. *)
LEMMA SocketRouteStep ==
  ASSUME FeedInv, ServiceInv', AnswersStand, NEW s \in Sockets,
         UNCHANGED <<serialVars, handler, http, targets, failed, told>>,
         FeedTypeOK',
         \A q \in Sockets \ {s} :
           /\ stage'[q] = stage[q] /\ topic'[q] = topic[q]
           /\ snapshot'[q] = snapshot[q] /\ inbox'[q] = inbox[q]
           /\ \A a \in Auctions : q \in connections'[a] <=> q \in connections[a],
         SubscriberInv(s)'
  PROVE  FeedInv'
  <1>1. \A c \in Calls : RouteIsSound(c)'
    BY RouteFrame DEF FeedInv, serialVars
  <1>2. ASSUME NEW q \in Sockets, q # s PROVE SubscriberInv(q)'
    BY <1>2, SubscriberFrame DEF FeedInv
  <1>3. QED
    BY <1>1, <1>2 DEF FeedInv

(* A client asks for an auction. *)
LEMMA SubscribeStep ==
  ASSUME FeedInv, ServiceInv', AnswersStand, NEW s \in Sockets,
         NEW a \in Auctions, Subscribe(s, a)
  PROVE  FeedInv'
  <1>1. UNCHANGED <<serialVars, handler, http, targets, failed, snapshot,
                    connections, inbox, told>>
    BY DEF Subscribe
  <1>2. /\ stage[s] = "new" /\ SocketIsSound(s)
        /\ inbox[s] = <<>> /\ \A c \in Calls : s \notin told[c]
        /\ \A b \in Auctions : s \notin connections[b]
    BY DEF Subscribe, FeedInv, SubscriberInv, SocketIsSound, Early
  <1>3. stage'[s] = "reading" /\ topic'[s] = a
    BY DEF Subscribe, FeedInv, FeedTypeOK
  <1>4. \A q \in Sockets \ {s} : stage'[q] = stage[q] /\ topic'[q] = topic[q]
    BY DEF Subscribe, FeedInv, FeedTypeOK
  <1>5. FeedTypeOK'
    BY <1>1 DEF Subscribe, FeedInv, FeedTypeOK, ServiceInv
  <1>6. SubscriberInv(s)'
    <2>1. SocketIsSound(s)'
      BY <1>1, <1>2, <1>3 DEF SocketIsSound, Early
    <2>2. QED
      BY <1>1, <1>2, <1>3, <2>1
         DEF SubscriberInv, EventsAreTold, SendsAreHeard, NoRepeats, IsServed
  <1>7. QED
    BY <1>1, <1>4, <1>5, <1>6, SocketRouteStep

(* Its route reads the auction. *)
LEMMA ReadSnapshotStep ==
  ASSUME FeedInv, ServiceInv', AnswersStand, NEW s \in Sockets,
         ReadSnapshot(s)
  PROVE  FeedInv'
  <1>1. UNCHANGED <<serialVars, handler, http, targets, failed, topic,
                    connections, inbox, told>>
    BY DEF ReadSnapshot
  <1>2. /\ stage[s] = "reading" /\ SocketIsSound(s) /\ topic[s] \in Auctions
        /\ inbox[s] = <<>> /\ \A c \in Calls : s \notin told[c]
        /\ \A b \in Auctions : s \notin connections[b]
    BY DEF ReadSnapshot, FeedInv, SubscriberInv, SocketIsSound, Early
  <1>3. auctions[topic[s]] \in AuctionSnapshot \cup {NULL}
    BY <1>2 DEF FeedInv, FeedTypeOK, SerialTypeOK
  <1>4. /\ stage'[s] \in {"closed", "accepting"}
        /\ stage'[s] = "accepting" => snapshot'[s] # NULL
    BY DEF ReadSnapshot, FeedInv, FeedTypeOK
  <1>5. \A q \in Sockets \ {s} :
          stage'[q] = stage[q] /\ snapshot'[q] = snapshot[q]
    BY DEF ReadSnapshot, FeedInv, FeedTypeOK
  <1>6. FeedTypeOK'
    BY <1>1, <1>3 DEF ReadSnapshot, FeedInv, FeedTypeOK, ServiceInv
  <1>7. SubscriberInv(s)'
    <2>1. SocketIsSound(s)'
      BY <1>1, <1>2, <1>4 DEF SocketIsSound, Early
    <2>2. QED
      BY <1>1, <1>2, <1>4, <2>1
         DEF SubscriberInv, EventsAreTold, SendsAreHeard, NoRepeats, IsServed
  <1>8. QED
    BY <1>1, <1>5, <1>6, <1>7, SocketRouteStep

(* accept(), registration and snapshot, or a client that has left. *)
LEMMA ConnectStep ==
  ASSUME FeedInv, ServiceInv', AnswersStand, NEW s \in Sockets, Connect(s)
  PROVE  FeedInv'
  <1>1. UNCHANGED <<serialVars, handler, http, targets, failed, topic,
                    snapshot, told>>
    BY DEF Connect
  <1>2. /\ stage[s] \in {"accepting", "lost"} /\ SocketIsSound(s)
        /\ topic[s] \in Auctions /\ inbox[s] = <<>>
        /\ \A c \in Calls : s \notin told[c]
        /\ \A b \in Auctions : s \notin connections[b]
    BY DEF Connect, FeedInv, SubscriberInv, SocketIsSound, Early
  <1> DEFINE frame == AuctionResponse(snapshot[s])
  <1>3. stage[s] = "accepting" =>
          frame \in Message /\ frame.type = "auction.snapshot"
    <2>1. stage[s] = "accepting" => snapshot[s] \in AuctionSnapshot
      BY <1>2 DEF FeedInv, FeedTypeOK, SocketIsSound
    <2>2. QED
      BY <2>1 DEF AuctionResponse, Message, AuctionSnapshot
  <1>4. connections' = connections \/ Register(s)
    BY DEF Connect
  <1>5. /\ connections' \in [Auctions -> SUBSET Sockets]
        /\ \A a \in Auctions : /\ connections'[a] \subseteq connections[a] \cup {s}
                               /\ connections[a] \subseteq connections'[a]
                               /\ s \in connections'[a] => a = topic[s]
    <2>1. CASE connections' = connections
      BY <1>2, <2>1 DEF FeedInv, FeedTypeOK
    <2>2. CASE Register(s)
      <3>1. connections' \in [Auctions -> SUBSET Sockets]
        BY <2>2 DEF Register, FeedInv, FeedTypeOK
      <3>2. \A a \in Auctions : connections'[a] =
              IF a = topic[s] THEN connections[a] \cup {s} ELSE connections[a]
        BY <2>2 DEF Register, FeedInv, FeedTypeOK
      <3>3. QED
        BY <1>2, <3>1, <3>2
    <2>3. QED
      BY <1>4, <2>1, <2>2
  <1>6. /\ stage' \in [Sockets -> {"new", "reading", "accepting", "lost",
                                   "open", "gone", "closed"}]
        /\ stage'[s] \in {"open", "gone", "closed"}
        /\ stage'[s] = "open" <=> stage[s] = "accepting"
        /\ stage'[s] # "closed" => Register(s)
        /\ stage'[s] = "closed" => connections' = connections
        /\ \A q \in Sockets \ {s} : stage'[q] = stage[q]
    <2>0. stage \in [Sockets -> {"new", "reading", "accepting", "lost", "open",
                                 "gone", "closed"}]
      BY DEF FeedInv, FeedTypeOK
    <2>1. CASE stage[s] = "accepting"
      BY <2>0, <2>1 DEF Connect
    <2>2. CASE stage[s] = "lost"
      BY <2>0, <2>2 DEF Connect
    <2>3. QED
      BY <2>1, <2>2 DEF Connect
  <1>7. /\ inbox' \in [Sockets -> Seq(Message)]
        /\ \A q \in Sockets \ {s} : inbox'[q] = inbox[q]
        /\ Len(inbox'[s]) <= 1
        /\ \A i \in 1..Len(inbox'[s]) : inbox'[s][i].type = "auction.snapshot"
    <2>1. CASE inbox' = inbox
      BY <1>2, <2>1 DEF FeedInv, FeedTypeOK
    <2>2. CASE stage[s] = "accepting" /\ Deliver(s, frame)
      <3>1. Append(inbox[s], frame) = <<frame>> /\ <<frame>> \in Seq(Message)
        BY <1>2, <1>3, <2>2
      <3>2. inbox' = [inbox EXCEPT ![s] = <<frame>>]
        BY <2>2, <3>1 DEF Deliver
      <3>3. inbox'[s] = <<frame>>
        BY <3>2 DEF FeedInv, FeedTypeOK
      <3>4. QED
        BY <1>3, <2>2, <3>1, <3>2, <3>3 DEF FeedInv, FeedTypeOK
    <2>3. QED
      BY <2>1, <2>2 DEF Connect
  <1>8. FeedTypeOK'
    BY <1>1, <1>5, <1>6, <1>7 DEF FeedInv, FeedTypeOK, ServiceInv
  <1>9. SubscriberInv(s)'
    <2>1. SocketIsSound(s)'
      <3>1. \A a \in Auctions : s \in connections'[a] =>
              a = topic[s] /\ stage'[s] \in {"open", "gone"}
        BY <1>2, <1>5, <1>6
      <3>2. QED
        BY <1>1, <1>2, <1>6, <3>1 DEF SocketIsSound, Early
    <2>2. EventsAreTold(s)' /\ NoRepeats(s)'
      BY <1>7 DEF EventsAreTold, NoRepeats
    <2>3. SendsAreHeard(s)'
      BY <1>1, <1>2 DEF SendsAreHeard
    <2>4. stage'[s] = "open" => s \in connections'[topic[s]]
      BY <1>2, <1>6 DEF Register, FeedInv, FeedTypeOK
    <2>5. \A c \in Calls : s \notin failed[c]
      BY <1>2 DEF FeedInv, RouteIsSound
    <2>6. IsServed(s)'
      BY <1>1, <1>2, <2>4, <2>5 DEF IsServed
    <2>7. QED
      BY <2>1, <2>2, <2>3, <2>6 DEF SubscriberInv
  <1>10. \A q \in Sockets \ {s} : \A a \in Auctions :
           q \in connections'[a] <=> q \in connections[a]
    BY <1>5
  <1>11. QED
    BY <1>1, <1>6, <1>7, <1>8, <1>9, <1>10, SocketRouteStep

(* The client goes away. *)
LEMMA LeaveStep ==
  ASSUME FeedInv, ServiceInv', AnswersStand, NEW s \in Sockets, Leave(s)
  PROVE  FeedInv'
  <1>1. UNCHANGED <<serialVars, handler, http, targets, failed, topic,
                    snapshot, connections, inbox, told>>
    BY DEF Leave
  <1>2. \/ stage[s] = "accepting" /\ stage'[s] = "lost"
        \/ stage[s] = "open" /\ stage'[s] = "gone"
    BY DEF Leave, FeedInv, FeedTypeOK
  <1>3. \A q \in Sockets \ {s} : stage'[q] = stage[q]
    BY DEF Leave, FeedInv, FeedTypeOK
  <1>4. FeedTypeOK'
    <2>1. stage' \in [Sockets -> {"new", "reading", "accepting", "lost", "open",
                                  "gone", "closed"}]
      BY DEF Leave, FeedInv, FeedTypeOK
    <2>2. QED
      BY <1>1, <2>1 DEF FeedInv, FeedTypeOK, ServiceInv
  <1>5. SubscriberInv(s)'
    <2>1. SubscriberInv(s)
      BY DEF FeedInv
    <2>2. \A c \in Calls : Event(c)' = Event(c) /\ (Heard(s, c)' <=> Heard(s, c))
      BY <1>1 DEF Event, Heard, serialVars
    <2>3. SocketIsSound(s)' /\ NoRepeats(s)'
      BY <1>1, <1>2, <2>1
         DEF SubscriberInv, SocketIsSound, NoRepeats, Early, serialVars
    <2>4. EventsAreTold(s)' /\ SendsAreHeard(s)'
      BY <1>1, <2>1, <2>2 DEF SubscriberInv, EventsAreTold, SendsAreHeard
    <2>5. IsServed(s)'
      BY <1>2 DEF IsServed
    <2>6. QED
      BY <2>3, <2>4, <2>5 DEF SubscriberInv
  <1>6. QED
    BY <1>1, <1>3, <1>4, <1>5, SocketRouteStep

(* Its route notices, and takes the socket out of the table. *)
LEMMA DisconnectStep ==
  ASSUME FeedInv, ServiceInv', AnswersStand, NEW s \in Sockets, Disconnect(s)
  PROVE  FeedInv'
  <1>1. UNCHANGED <<serialVars, handler, http, targets, failed, topic,
                    snapshot, inbox, told>>
    BY DEF Disconnect
  <1>2. stage[s] = "gone" /\ stage'[s] = "closed"
    BY DEF Disconnect, FeedInv, FeedTypeOK
  <1>3. \A q \in Sockets \ {s} : stage'[q] = stage[q]
    BY DEF Disconnect, FeedInv, FeedTypeOK
  <1>4. FeedTypeOK'
    BY <1>1 DEF Disconnect, FeedInv, FeedTypeOK, ServiceInv
  <1>5. SubscriberInv(s)
    BY DEF FeedInv
  <1>6. \A a \in Auctions : connections'[a] =
          IF a = topic[s] THEN connections[a] \ {s} ELSE connections[a]
    BY DEF Disconnect, FeedInv, FeedTypeOK
  <1>7. \A a \in Auctions : s \notin connections'[a]
    BY <1>5, <1>6 DEF SubscriberInv, SocketIsSound
  <1>8. SubscriberInv(s)'
    <2>1. \A c \in Calls : Event(c)' = Event(c) /\ (Heard(s, c)' <=> Heard(s, c))
      BY <1>1 DEF Event, Heard, serialVars
    <2>2. SocketIsSound(s)' /\ NoRepeats(s)'
      BY <1>1, <1>2, <1>5, <1>7
         DEF SubscriberInv, SocketIsSound, NoRepeats, Early, serialVars
    <2>3. EventsAreTold(s)' /\ SendsAreHeard(s)'
      BY <1>1, <1>5, <2>1 DEF SubscriberInv, EventsAreTold, SendsAreHeard
    <2>4. IsServed(s)'
      BY <1>2 DEF IsServed
    <2>5. QED
      BY <2>2, <2>3, <2>4 DEF SubscriberInv
  <1>9. \A q \in Sockets \ {s} : \A a \in Auctions :
          q \in connections'[a] <=> q \in connections[a]
    BY <1>6
  <1>10. QED
    BY <1>1, <1>3, <1>4, <1>8, <1>9, SocketRouteStep

(* The process is started again: no route runs, no socket is open. *)
LEMMA RestartStep ==
  ASSUME FeedInv, ServiceInv', AnswersStand, Restart
  PROVE  FeedInv'
  <1>1. UNCHANGED <<http, topic, snapshot, inbox, told, auctions, bids, clock,
                    command, arrived, result>>
    BY DEF Restart, serialVars
  <1>2. \A c \in Calls : /\ targets'[c] = {} /\ failed'[c] = failed[c]
                         /\ handler'[c] = IF command[c] = NULL THEN handler[c]
                                          ELSE "done"
    BY DEF Restart
  <1>3. \A s \in Sockets :
          stage'[s] = IF stage[s] = "new" THEN "new" ELSE "closed"
    BY DEF Restart
  <1>4. \A a \in Auctions : connections'[a] = {}
    BY DEF Restart
  <1>5. FeedTypeOK'
    <2>1. handler' \in [Calls -> {"new", "placing", "sending", "done"}]
      BY DEF Restart, FeedInv, FeedTypeOK
    <2>2. stage' \in [Sockets -> {"new", "reading", "accepting", "lost",
                                  "open", "gone", "closed"}]
      BY DEF Restart
    <2>3. /\ connections' \in [Auctions -> SUBSET Sockets]
          /\ targets' \in [Calls -> SUBSET Sockets]
          /\ failed' \in [Calls -> SUBSET Sockets]
      BY DEF Restart, FeedInv, FeedTypeOK
    <2>4. QED
      BY <1>1, <2>1, <2>2, <2>3 DEF FeedInv, FeedTypeOK, ServiceInv
  <1>6. ASSUME NEW c \in Calls PROVE handler'[c] # "sending"
    <2>1. RouteIsSound(c)
      BY DEF FeedInv
    <2>2. handler[c] = "sending" => command[c] # NULL
      BY <2>1 DEF RouteIsSound, FeedInv, ServiceInv, OwnersHaveEnded
    <2>3. QED
      BY <1>2, <2>2
  <1>7. ASSUME NEW c \in Calls PROVE RouteIsSound(c)'
    <2>1. RouteIsSound(c)
      BY DEF FeedInv
    <2>2. ResponseTo(result'[c]) = ResponseTo(result[c])
      BY <1>1
    <2>3. QED
      BY <1>1, <1>2, <1>6, <2>1, <2>2 DEF RouteIsSound
  <1>8. ASSUME NEW s \in Sockets PROVE SubscriberInv(s)'
    <2>1. SubscriberInv(s)
      BY DEF FeedInv
    <2>2. \A c \in Calls : Event(c)' = Event(c)
      BY <1>1 DEF Event
    <2>3. SocketIsSound(s)' /\ NoRepeats(s)'
      BY <1>1, <1>3, <1>4, <2>1
         DEF SubscriberInv, SocketIsSound, NoRepeats, Early
    <2>4. EventsAreTold(s)'
      BY <1>1, <1>2, <2>1, <2>2 DEF SubscriberInv, EventsAreTold
    <2>5. SendsAreHeard(s)'
      BY <1>6 DEF SendsAreHeard
    <2>6. IsServed(s)'
      BY <1>3 DEF IsServed
    <2>7. QED
      BY <2>3, <2>4, <2>5, <2>6 DEF SubscriberInv
  <1>9. QED
    BY <1>5, <1>7, <1>8 DEF FeedInv

(* Every step of the API process. *)
LEMMA FeedNext ==
  ASSUME FeedInv, [Next]_vars
  PROVE  FeedInv'
  <1>1. ServiceInv' /\ AnswersStand
    BY ServiceInvStep DEF FeedInv
  <1>2. CASE ServiceStep
    <2>1. command' = command /\ UNCHANGED feedVars
      BY <1>2 DEF ServiceStep, PassTime, Accept, Replay, Refuse, Fail
    <2>2. QED
      BY <1>1, <2>1, QuietStep
  <1>3. CASE \E a \in Auctions, body \in Listings : create_auction(a, body)
    <2>1. command' = command /\ UNCHANGED feedVars
      BY <1>3 DEF create_auction, List
    <2>2. QED
      BY <1>1, <2>1, QuietStep
  <1>4. CASE \E c \in Calls, body \in Bodies : Post(c, body)
    BY <1>1, <1>4, PostStep
  <1>5. CASE \E c \in Calls : RouteStep(c)
    BY <1>1, <1>5, ResumeStep, FinishStep, SendStep DEF RouteStep
  <1>6. CASE \E s \in Sockets, a \in Auctions : Subscribe(s, a)
    BY <1>1, <1>6, SubscribeStep
  <1>7. CASE \E s \in Sockets : SocketStep(s) \/ Leave(s)
    BY <1>1, <1>7, ReadSnapshotStep, ConnectStep, DisconnectStep, LeaveStep
       DEF SocketStep
  <1>8. CASE Restart
    BY <1>1, <1>8, RestartStep
  <1>9. CASE UNCHANGED vars
    BY <1>1, <1>9, QuietStep DEF vars, serialVars
  <1>10. QED
    BY <1>2, <1>3, <1>4, <1>5, <1>6, <1>7, <1>8, <1>9 DEF Next

-----------------------------------------------------------------------------
(***************************************************************************)
(* The invariant above holds in every state, whatever clients and restarts *)
(* do to the API process.                                                  *)
(***************************************************************************)
THEOREM FeedInvariant == Spec => []FeedInv
  <1>1. Init => FeedInv
    BY FeedInitially
  <1>2. FeedInv /\ [Next]_vars => FeedInv'
    BY FeedNext
  <1>3. QED
    BY <1>1, <1>2, PTL DEF Spec

(***************************************************************************)
(* The type invariant of the routes, the table of connections and the      *)
(* messages.                                                               *)
(***************************************************************************)
THEOREM FeedTypeCorrect == Spec => []FeedTypeOK
  <1>1. FeedInv => FeedTypeOK
    BY DEF FeedInv
  <1>2. QED
    BY <1>1, FeedInvariant, PTL

(***************************************************************************)
(* broadcast tells of stored bids only, and only those who asked for their *)
(* auction.                                                                *)
(***************************************************************************)
THEOREM FeedEventsAreReal == Spec => []NoPhantomEvents
  <1>1. FeedInv => NoPhantomEvents
    <2> SUFFICES ASSUME FeedInv, NEW s \in Sockets,
                        NEW i \in 1..Len(inbox[s]),
                        inbox[s][i].type = "auction.bid_accepted"
                 PROVE  \E b \in bids :
                          /\ b.id = inbox[s][i].bid
                          /\ b.auction_version = inbox[s][i].version
                          /\ b.auction_id = topic[s]
      BY DEF NoPhantomEvents
    <2>1. PICK c \in Calls : s \in told[c] /\ inbox[s][i] = Event(c)
      BY DEF FeedInv, SubscriberInv, EventsAreTold
    <2>2. result[c] # NULL /\ result[c].status = "accepted"
      BY <2>1 DEF FeedInv, RouteIsSound
    <2>3. topic[s] = command[c].auction_id
      BY <2>1 DEF FeedInv, SubscriberInv, SocketIsSound
    <2>4. /\ result[c].bid \in bids
          /\ result[c].bid.auction_id = command[c].auction_id
      BY <2>2, AcceptedEvent DEF FeedInv
    <2>5. QED
      BY <2>1, <2>3, <2>4 DEF Event
  <1>2. QED
    BY <1>1, FeedInvariant, PTL

(***************************************************************************)
(* No client hears of a bid twice, however often the bidder repeats the    *)
(* request and however slow the sends are.                                 *)
(***************************************************************************)
THEOREM FeedEventsAreUnique == Spec => []EventsAreUnique
  <1>1. FeedInv => EventsAreUnique
    BY DEF FeedInv, SubscriberInv, NoRepeats, EventsAreUnique
  <1>2. QED
    BY <1>1, FeedInvariant, PTL

(***************************************************************************)
(* AuctionConnectionManager keeps no socket whose route has ended.         *)
(***************************************************************************)
THEOREM FeedDoesNotLeak == Spec => []NoLeakedSockets
  <1>1. FeedInv => NoLeakedSockets
    BY DEF FeedInv, SubscriberInv, SocketIsSound, NoLeakedSockets
  <1>2. QED
    BY <1>1, FeedInvariant, PTL

(***************************************************************************)
(* What the route place_bid answers is true when it is read, however late. *)
(***************************************************************************)
THEOREM FeedAnswersAreTrue == Spec => []AnswersAreTrue
  <1>1. FeedInv => AnswersAreTrue
    <2> SUFFICES ASSUME FeedInv, NEW c \in Calls, http[c] # NULL
                 PROVE
          /\ http[c].status_code = 200 => http[c].bid \in bids
                                          /\ Matches(http[c].bid, command[c])
          /\ http[c].status_code \in {404, 409, 422, 503} =>
               \A b \in bids : b.id # c
          /\ http[c].minimum_acceptable_cents # NULL =>
               http[c].minimum_acceptable_cents
                 <= minimum_acceptable_bid(auctions[command[c].auction_id])
      BY DEF AnswersAreTrue
    <2>1. \/ command[c] = NULL /\ http[c] = Refusal(422, NULL, NULL)
          \/ result[c] # NULL /\ http[c] = ResponseTo(result[c])
      BY DEF FeedInv, RouteIsSound
    <2>2. CASE command[c] = NULL /\ http[c] = Refusal(422, NULL, NULL)
      <3>1. \A b \in bids : b.id # c
        BY <2>2 DEF FeedInv, ServiceInv, OwnersHaveEnded
      <3>2. QED
        BY <2>2, <3>1 DEF Refusal
    <2>3. CASE result[c] # NULL /\ http[c] = ResponseTo(result[c])
      <3> DEFINE outcome == result[c]
      <3>1. CASE outcome.status \in {"accepted", "replayed"}
        <4>1. http[c] = BidPlacementResponse(outcome)
          BY <2>3, <3>1 DEF ResponseTo
        <4>2. outcome.bid \in bids /\ Matches(outcome.bid, command[c])
          BY <2>3, <3>1 DEF FeedInv, ServiceInv, OutcomesAgree, BidsOf
        <4>3. QED
          BY <4>1, <4>2 DEF BidPlacementResponse
      <3>2. CASE outcome.status = "rejected"
        <4>1. http[c] = Refusal(rejection_status(outcome.rejection_reason),
                                outcome.rejection_reason,
                                outcome.minimum_acceptable_cents)
          BY <2>3, <3>2 DEF ResponseTo
        <4>2. http[c].status_code # 200
          BY <4>1 DEF Refusal, rejection_status
        <4>3. \A b \in bids : b.id # c
          BY <2>3, <3>2 DEF FeedInv, ServiceInv, OutcomesAgree
        <4>4. outcome.minimum_acceptable_cents # NULL =>
                outcome.minimum_acceptable_cents
                  <= minimum_acceptable_bid(auctions[command[c].auction_id])
          BY <2>3 DEF FeedInv, ServiceInv, QuotesAreLow, QuoteIsLow
        <4>5. QED
          BY <4>1, <4>2, <4>3, <4>4 DEF Refusal
      <3>3. CASE outcome.status = "StrategyBusyError"
        <4>1. http[c] = Refusal(503, "database_busy", NULL)
          BY <2>3, <3>3 DEF ResponseTo
        <4>2. \A b \in bids : b.id # c
          BY <2>3, <3>3 DEF FeedInv, ServiceInv, OutcomesAgree
        <4>3. QED
          BY <4>1, <4>2 DEF Refusal
      <3>4. CASE outcome.status \notin {"accepted", "replayed", "rejected",
                                        "StrategyBusyError"}
        <4>1. http[c] = Refusal(500, NULL, NULL)
          BY <2>3, <3>4 DEF ResponseTo
        <4>2. QED
          BY <4>1 DEF Refusal
      <3>5. QED
        BY <3>1, <3>2, <3>3, <3>4
    <2>4. QED
      BY <2>1, <2>2, <2>3
  <1>2. QED
    BY <1>1, FeedInvariant, PTL

(***************************************************************************)
(* A subscriber that stays is in the table unless a send to it failed, and *)
(* hears of every broadcast it is part of unless that send failed.         *)
(***************************************************************************)
THEOREM FeedServes == Spec => []SubscribersAreServed
  <1>1. FeedInv => SubscribersAreServed
    BY DEF FeedInv, SubscriberInv, IsServed, SubscribersAreServed
  <1>2. QED
    BY <1>1, FeedInvariant, PTL

=============================================================================
