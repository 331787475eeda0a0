----------------------------- MODULE Benchmark ------------------------------
(***************************************************************************)
(* bidding.benchmark: one trial of a bid strategy.  The tables are emptied *)
(* and seeded, an executor with a bounded number of workers sends the      *)
(* requests, the invariant checker reads what they left, and the           *)
(* observations are summarised; then the next trial empties the tables.    *)
(*                                                                         *)
(* A trial calls the strategy itself (runner), or the API of a server      *)
(* (http_cli) with a client that gives up after a while.  The server does  *)
(* not notice: such a request outlives its observation.  This module has   *)
(* the steps of the harness; those of the strategy are added to it.        *)
(*                                                                         *)
(* Ids are given out in order, so requests, auctions and bidders are       *)
(* numbered, and a call is the index of its request.                       *)
(***************************************************************************)
EXTENDS InvariantChecker

CONSTANTS Concurrency,   \* workers of the executor
          Price,         \* the starting price of seeded auctions
          Increment,     \* their minimum increment
          MaxTimeouts    \* bound: requests that the client gives up on

ASSUME TrialAssumption ==
  /\ IsFiniteSet(Calls) /\ Calls = 1..Cardinality(Calls)
  /\ Requests = Calls /\ Auctions = Calls /\ Bidders = Calls
  /\ Concurrency \in Nat \ {0}
  /\ Price \in Money /\ Increment \in Money
  /\ MaxTimeouts \in Nat
  /\ NULL \notin {"accepted", "replayed", "rejected", "system_error"}

VARIABLES phase,       \* where the harness is
          remote,      \* does it go through the API?
          trial,       \* the commands of the trial
          observed,    \* the status in the observation of a request
          unchecked,   \* the auctions the checker has yet to visit
          fetched,     \* the auction the checker has read and not yet judged
          violations,  \* invariant_violations: an auction and a code
          gaveUp,      \* history: the requests that the client gave up on
          late         \* history: bids stored between the checker's two reads

history == <<gaveUp, late>>
harnessVars ==
  <<phase, remote, trial, observed, unchecked, fetched, violations, history>>

-----------------------------------------------------------------------------
(***************************************************************************)
(* The commands of a workload: equal prices or shuffled prices on one      *)
(* auction, or one auction for each request.                               *)
(***************************************************************************)
WORKLOADS == {"same_price", "unique_prices", "low_contention"}

Amounts(workload) ==
  IF workload = "unique_prices"
  THEN {[c \in Calls |-> Price + (order[c] - 1) * Increment] :
          order \in Permutations(Calls)}
  ELSE {[c \in Calls |-> Price]}

seed_commands(workload) ==
  {[c \in Calls |->
      [request_id |-> c, bidder_id |-> c, amount_cents |-> amounts[c],
       auction_id |-> IF workload = "low_contention" THEN c ELSE 1]] :
     amounts \in Amounts(workload)}

(***************************************************************************)
(* PlaceBidCommand admits every command of a workload: the prices stay     *)
(* inside the money range.                                                 *)
(***************************************************************************)
ASSUME WorkloadAssumption ==
  \A workload \in WORKLOADS : seed_commands(workload) \subseteq [Calls -> Commands]

auction_ids == {trial[c].auction_id : c \in Calls}

(***************************************************************************)
(* An auction that outlasts the trial.                                     *)
(***************************************************************************)
create_auction ==
  NewAuction([starting_price_cents |-> Price,
              minimum_increment_cents |-> Increment,
              starts_at |-> 0, ends_at |-> MaxTime + 1])

HarnessInit ==
  /\ phase = "seeding"
  /\ remote \in BOOLEAN
  /\ trial \in UNION {seed_commands(w) : w \in WORKLOADS}
  /\ observed = [c \in Calls |-> NULL]
  /\ unchecked = {}
  /\ fetched = NULL
  /\ violations = {}
  /\ gaveUp = {} /\ late = {}

Seed ==
  /\ phase = "seeding"
  /\ phase' = "running"
  /\ auctions' = [a \in Auctions |->
       IF a \in auction_ids THEN create_auction ELSE NULL]
  /\ UNCHANGED <<bids, clock, command, arrived, result, pc, txnVars,
                 remote, trial, observed, unchecked, fetched, violations,
                 history>>

-----------------------------------------------------------------------------
(***************************************************************************)
(* The executor hands out the requests in order.                           *)
(***************************************************************************)
Sent(c) == command[c] # NULL \/ c \in gaveUp

Busy == {c \in Calls : Sent(c) /\ observed[c] = NULL}

HasWorker(c) ==
  /\ ~ Sent(c)
  /\ Cardinality(Busy) < Concurrency
  /\ \A d \in 1..c - 1 : Sent(d)

Submit(c) ==
  /\ phase = "running"
  /\ HasWorker(c)
  /\ place_bid(c, trial[c])
  /\ UNCHANGED harnessVars

ErrorsAreRefusals(outcome) ==   \* mutated form: system_error is forgotten
  IF outcome.status \in {"accepted", "replayed"} THEN outcome.status
  ELSE "rejected"

(***************************************************************************)
(* How an outcome is recorded.  The API answers StrategyBusyError with a   *)
(* 503 that reads as a refusal; the body of a 500 is not JSON.             *)
(***************************************************************************)
Status(outcome) ==
  IF outcome.status \in {"accepted", "replayed", "rejected"}
  THEN outcome.status
  ELSE IF remote /\ outcome.status = "StrategyBusyError" THEN "rejected"
  ELSE "system_error"

Record(c, status) ==
  /\ phase = "running"
  /\ observed[c] = NULL
  /\ observed' = [observed EXCEPT ![c] = status]
  /\ UNCHANGED <<storeVars, phase, remote, trial, unchecked, fetched,
                 violations, late>>

Observe(c) ==
  /\ result[c] # NULL
  /\ Record(c, Status(result[c]))
  /\ UNCHANGED gaveUp

(***************************************************************************)
(* The client may give up before the request has reached the server, while *)
(* it is handled, or before it has the answer.                             *)
(***************************************************************************)
ClientTimeout(c) ==
  /\ remote
  /\ HasWorker(c) \/ command[c] # NULL
  /\ Cardinality(gaveUp) < MaxTimeouts
  /\ Record(c, "system_error")
  /\ gaveUp' = gaveUp \cup {c}

(***************************************************************************)
(* A request that the client no longer waits for may still arrive.         *)
(***************************************************************************)
ArriveLate(c) ==
  /\ c \in gaveUp
  /\ place_bid(c, trial[c])
  /\ UNCHANGED harnessVars

NoJoin ==   \* mutated form: the checker runs once all requests are submitted
  /\ phase = "running"
  /\ \A c \in Calls : Sent(c)
  /\ phase' = "checking"
  /\ unchecked' = auction_ids
  /\ UNCHANGED <<storeVars, remote, trial, observed, fetched, violations,
                 history>>

(***************************************************************************)
(* The executor ends when every request has its observation.               *)
(***************************************************************************)
Join ==
  /\ phase = "running"
  /\ \A c \in Calls : observed[c] # NULL
  /\ phase' = "checking"
  /\ unchecked' = auction_ids
  /\ UNCHANGED <<storeVars, remote, trial, observed, fetched, violations,
                 history>>

-----------------------------------------------------------------------------
(***************************************************************************)
(* check_auction_invariants reads the auction in one transaction and its   *)
(* bids in another.                                                        *)
(***************************************************************************)
Get(a) ==
  /\ phase = "checking"
  /\ a \in unchecked
  /\ fetched' = [id |-> a, row |-> auctions[a], stored |-> bids]
  /\ phase' = "listing"
  /\ UNCHANGED <<storeVars, remote, trial, observed, unchecked, violations,
                 history>>

Judge ==
  /\ phase = "listing"
  /\ \E rows \in list_bids(fetched.id) :
       violations' = violations \cup
         {[auction_id |-> fetched.id, code |-> code] :
            code \in check_auction_invariants(fetched.row, rows)}
  /\ late' = late \cup {b \in bids \ fetched.stored : b.auction_id = fetched.id}
  /\ unchecked' = unchecked \ {fetched.id}
  /\ fetched' = NULL
  /\ phase' = "checking"
  /\ UNCHANGED <<storeVars, remote, trial, observed, gaveUp>>

Summarize ==
  /\ phase = "checking"
  /\ unchecked = {}
  /\ phase' = "summarized"
  /\ UNCHANGED <<storeVars, remote, trial, observed, unchecked, fetched,
                 violations, history>>

OutcomeCount(status) == Cardinality({c \in Calls : observed[c] = status})

(***************************************************************************)
(* The k-th element of sorted(samples) is the one that k - 1 come before,  *)
(* and of equal samples the earlier comes first.  The ceiling is exact     *)
(* here; the code takes it of a float, which for p50, p95 and p99 is the   *)
(* same: the doubles nearest 0.95 and 0.99 lie below them.                 *)
(***************************************************************************)
Before(samples, j, i) ==
  samples[j] < samples[i] \/ (samples[j] = samples[i] /\ j < i)

sorted(samples) ==
  LET Indices == DOMAIN samples
  IN  [k \in Indices |-> samples[CHOOSE i \in Indices :
        Cardinality({j \in Indices : Before(samples, j, i)}) + 1 = k]]

ZeroBased(samples, percentile) ==   \* mutated form: the index is one too high
  LET rank == (percentile * Len(samples)) \div 100
  IN  sorted(samples)[IF rank < Len(samples) THEN rank + 1 ELSE rank]

percentile_ns(samples, percentile) ==
  LET index == (percentile * Len(samples) + 99) \div 100 - 1
  IN  sorted(samples)[(IF index > 0 THEN index ELSE 0) + 1]

-----------------------------------------------------------------------------
(***************************************************************************)
(* TRUNCATE by the next trial needs the two tables to itself, so it waits  *)
(* for every transaction that has used one of them, or times out.          *)
(***************************************************************************)
UsesTables(c) ==
  Connected(c) /\ pc[c] \notin {"check", "resolve", "classify_check"}

BidsOnly ==   \* mutated form: the auctions are not truncated
  /\ phase = "summarized"
  /\ \A c \in Calls : ~ UsesTables(c)
  /\ phase' = "reset"
  /\ bids' = {}
  /\ UNCHANGED <<auctions, clock, command, arrived, result, pc, txnVars, remote,
                 trial, observed, unchecked, fetched, violations, history>>

reset_experiment_data ==
  /\ phase = "summarized"
  /\ \A c \in Calls : ~ UsesTables(c)
  /\ phase' = "reset"
  /\ bids' = {}
  /\ auctions' = [a \in Auctions |-> NULL]
  /\ UNCHANGED <<clock, command, arrived, result, pc, txnVars, remote, trial,
                 observed, unchecked, fetched, violations, history>>

ResetTimeout ==
  /\ phase = "summarized"
  /\ \E c \in Calls : UsesTables(c)
  /\ phase' = "aborted"
  /\ UNCHANGED <<storeVars, remote, trial, observed, unchecked, fetched,
                 violations, history>>

HarnessStep ==
  \/ Seed \/ Join \/ Judge \/ Summarize
  \/ reset_experiment_data
  \/ \E c \in Calls : Submit(c) \/ Observe(c)
  \/ \E a \in Auctions : Get(a)

HarnessNext ==
  \/ HarnessStep \/ ResetTimeout
  \/ \E c \in Calls : ClientTimeout(c) \/ ArriveLate(c)

-----------------------------------------------------------------------------
(***************************************************************************)
(* A trial of a correct strategy is reported invalid only when a bid on    *)
(* the reported auction was committed between the two reads the checker    *)
(* made of it, by a request that the client had given up on, and then only *)
(* for what the auction's older row cannot know.                           *)
(***************************************************************************)
FalseAlarmsNeedAStraggler ==
  \A v \in violations :
    /\ v.code \in {"auction_version", "winner_missing", "winner_not_highest"}
    /\ \E b \in late : b.auction_id = v.auction_id /\ b.id \in gaveUp

(***************************************************************************)
(* The outcome counts can be trusted: every accepted request is a stored   *)
(* bid, and a stored bid that is not among them is counted as an error.    *)
(***************************************************************************)
CountsMatchBids ==
  phase \in {"checking", "listing", "summarized"} =>
    /\ OutcomeCount("accepted") <= Cardinality(bids)
    /\ Cardinality(bids) <= OutcomeCount("accepted") + OutcomeCount("system_error")

(***************************************************************************)
(* Requests that outlive their trial leave nothing in the tables of the    *)
(* next one.                                                               *)
(***************************************************************************)
NextTrialIsClean == phase = "reset" => bids = {}

(***************************************************************************)
(* "Nearest-rank p50, p95, and p99": percentile_ns is the least sample     *)
(* that at least that share of the samples does not exceed.  Latencies may *)
(* be anything, so it is checked before a trial, for all of them.          *)
(***************************************************************************)
IsNearestRank(value, samples, percentile) ==
  LET n == Len(samples)
      AtMost(v) == Cardinality({i \in 1..n : samples[i] <= v})
  IN  /\ \E i \in 1..n : value = samples[i]
      /\ 100 * AtMost(value) >= percentile * n
      /\ 100 * AtMost(value - 1) < percentile * n

PercentileIsNearestRank ==
  phase = "seeding" => \A n \in 1..5, percentile \in {1, 50, 95, 99, 100} :
    \A samples \in [1..n -> 1..3] :
      IsNearestRank(percentile_ns(samples, percentile), samples, percentile)

=============================================================================
