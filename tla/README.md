# Formal model of the transaction-safe bidding platform

TLA+ modules for the bidding core of this repository (`src/bidding`), the TLC
configurations that check them on small instances, and TLAPS proofs of the main
results for instances of every size. Source paths below are relative to the
repository root.

## 1. The system

| Component | State | Operations | Interacts through |
|---|---|---|---|
| Domain rules (`domain/rules.py`, `domain/models.py`) | none (pure) | `derive_auction_state`, `minimum_acceptable_bid`, `evaluate_bid`, `apply_accepted_bid` | called by every strategy |
| Bid strategies (`db/strategies.py`) | none of their own; the frame of each call, one transaction at a time | `place_bid` of `UnsafeBidStrategy`, `PessimisticBidStrategy`, `OptimisticBidStrategy` | shared tables, row locks, the unique index on `bids.request_id`, the connection pool |
| Store (`db/sql/001_initial_schema.sql`, `db/repositories.py`, `db/mappers.py`, `db/pool.py`) | tables `auctions` and `bids`, sessions with `lock_timeout` and `statement_timeout` | `create`, `get`, `list_bids`, SQL statements | READ COMMITTED transactions |
| Invariant checker (`verification/invariants.py`) | none | `check_auction_invariants` | two reads of the tables |
| Service and HTTP API (`application/service.py`, `api/routes.py`, `api/schemas.py`) | requests in progress | `POST /auctions`, `POST /auctions/{id}/bids`, reads | worker threads run strategies; the event loop broadcasts |
| WebSocket fan-out (`api/websockets.py`) | the sockets registered per auction | `connect`, `disconnect`, `broadcast` | called by the routes on one event loop |
| Lifecycle (`api/app.py`, `config.py`) | settings, the connection pool | `Settings.from_env`, `create_app`, `lifespan` | opens the pool, migrates, then serves |
| Migrations (`db/migrations.py`) | `schema_migrations`, the schema | `migrate`, run by every server at start and by a command | advisory lock, one transaction |
| Benchmark (`benchmark/`) | observations of a trial | seed, execute, check, summarise, reset | drives the strategies directly or through the API |

What is hard here:

* Calls of `place_bid` overlap, statement by statement. A value that a call has
  read (the request id is unused, the auction row, the clock) may be stale at
  its next statement.
* The same request may arrive several times at once, or under one id with
  different contents.
* Waits for locks, for uncommitted request ids and for pool connections are
  bounded by timeouts that raise different exceptions, and a call that misses
  takes a second connection.
* A connection may break at any statement, COMMIT included, after which the
  caller does not know whether its bid exists.
* The auction opens and closes while calls wait.
* A broadcast runs on the event loop after the commit happened in a thread;
  sockets come, go, fail and time out meanwhile, and the process may stop.
* Servers of different releases start at the same time on one database, each
  migrating it first, and may fail between any two statements.
* A benchmark client gives up on a request that the server goes on with, so the
  request overlaps the checker and the reset that come after it.

What makes each part correct:

* strategies: the bids of an auction are a serial history (versions 1, 2, ...,
  each bid raises the price by the increment, the row shows the last bid); a
  request is carried out at most once; answers agree with what is stored; every
  call ends; accepted bids lie inside the window;
* checker: it accepts exactly the histories that are correct;
* API and feed: no event without a stored bid, no event twice, truthful status
  codes and minimums, no leak of sockets, no live subscriber dropped without
  cause, no bidder held up by a subscriber;
* startup: the schema and its records agree and grow by whole releases, a server
  that serves is current, every start ends, pools are closed by their owners;
* benchmark: verdicts, counts and percentiles mean what they say, and one trial
  leaves nothing in the next.

## 2. Modules

```text
AuctionRules          domain rules (pure operators)
  BidTypes            commands, rows, outcomes; constants and assumptions
    SerialAuction     ABSTRACT: what place_bid promises
      BidStore        PostgreSQL, pool, statements shared by the strategies
        PessimisticStrategy     UnsafeStrategy     OptimisticStrategy
        InvariantChecker        judges the tables BidStore keeps
          Benchmark             the harness of a trial
            OptimisticTrial     composes Benchmark and OptimisticStrategy
      LiveFeed        HTTP routes and WebSockets composed with SerialAuction
SchemaHistory         ABSTRACT: what migrations promise
  Startup             configuration, pool, migrations and lifespan
Scenarios, MC*        clients, auctions and releases of the checked instances
*Proofs              theorems about the module of the same name:
                      SerialAuction, BidStore, Pessimistic, Optimistic, Unsafe,
                      Trial (OptimisticTrial), LiveFeed, Startup
```

**AuctionRules, BidTypes.** The operators keep the names of the Python
functions. `evaluate_bid` returns `"accepted"`, a rejection reason or
`"OverflowError"`, in the order of the code (the minimum is computed, and may
overflow, before the state is looked at). Titles, `created_at` and the checks of
Python types are abstracted away; `strip` is a function on bidder ids, so that a
bidder typed with a blank is a different command for the same bid. One call
inserts at most one bid that stays, so the call serves as the bid's `uuid4`.

**SerialAuction.** State: the two tables, the clock, and for each call its
command, arrival time and result. A bid is one atomic step `Accept`; `Replay`,
`Refuse` and `Fail` change no table. A refusal must be `Justified` by committed
data, or by an instant while the call was pending. `Accept` may end in an
`OperationalError`: the answer of COMMIT was lost. `Fail` is limited by
`MayRaise`: an `OverflowError` is allowed only when the auction can take no
further bid, and the `RuntimeError` of `_resolve_duplicate_request` never.

**BidStore.** A step is one SQL statement with the Python up to the next one.
`pc` names the statement a call executes next; `seen` and `readTime` are the
local variables `auction` and `now`; `inserted` and `updated` are the
transaction's uncommitted rows, which others feel only through `rowLock` and
`RequestInFlight` (the unique index makes the second INSERT wait). `Commit`
publishes both rows at once. `Connect`, `PoolTimeout`, `LoseConnection`,
`StatementTimeout` and `LockTimeout` are the pool and the failures; each leaves
`place_bid` as the exception the strategy's handlers turn it into. A wait for
the pool can time out whether or not the pool is full, since its connections
may also be reconnecting. A process that dies is a lost connection. PostgreSQL itself is not in this repository: its
behaviour is modelled from its use here (marked external in the map).

**PessimisticStrategy, OptimisticStrategy, UnsafeStrategy.** One action per
statement of `place_bid`; the module that a reader compares with the code. In
the optimistic UPDATE the clock of the `validation_clock` CTE is read when the
statement starts (`StartUpdate`), and the WHERE clause is evaluated again on the
new row version after a wait (`FinishUpdate`), with the same clock value.
`misses` is a history variable, and so is `overlapped` of UnsafeStrategy: it
becomes true when two calls have been inside `place_bid` at once.

**InvariantChecker.** `check_auction_invariants` as the set of violation codes
it reports, on the rows in the order of `list_bids` (all orders the random bid
id allows).

**LiveFeed.** Steps of the event loop from one suspension to the next, next to
`ServiceStep` for the worker threads and the database. `Post` is the arrival of
a request, with the validation of its body (422); `Resume` is the route after
`run_in_threadpool`, with `ResponseTo` for the answer; `Send` is one send of a
broadcast (succeeds, raises, or times out after the message was written),
`ReadSnapshot` finds the auction, finds none or raises, `Connect` is `accept()`
with registration and the snapshot, `Restart` the process. `told`, the sockets a
broadcast was meant for, is a history variable, and `failed`, those it could not
send to, is kept as one when the broadcast is over.

**SchemaHistory, Startup.** `SchemaHistory` says that the schema is a sequence
of migrations that grows by `Upgrade(files)`: in one step a release adds what is
missing, in order, and only if it contradicts nothing. `Startup` has the
processes that do this: `Start` (settings), `Open` (pool), `TakeLock`
(`pg_advisory_xact_lock`), `Inspect` (existing rows, then the files), `Visit`
(one turn of the loop), `Record`, `Commit`, then serving or the end of the
command. `OpenTimeout` and `Interrupt` are the failures, `Shutdown` the end of
the lifespan, and `Kill` ends a process at any point. The `try` of the lifespan
begins after the pool is open (`app.py:35`): `Guarded` says where a process is
inside it, `Leave` takes an exception from there to the finally clause (stage
`closing`), from anywhere else straight to the end, and only `Finally` closes a
pool. `executed` and `recorded` are private to a transaction until
`Commit`. `ImplementsHistory` is `INSTANCE SchemaHistory WITH history <- schema`.
Settings are read by `from_env` from an environment in which any variable may be
absent or wrong; a value that is not a number is the model value `Invalid`. The
one setting that is a float may also be a fraction or NaN, which `_positive_float`
lets through.

**Benchmark, OptimisticTrial.** One trial of `run_trial` or, with `remote`, of
`run_http_trial`: `Seed`, `Submit` and `Observe` (an executor with `Concurrency`
workers), `ClientTimeout` (before the request has arrived, while the server is
at it, or before its answer has), `ArriveLate`, `Join`, the checker with its two
reads `Get` and `Judge`, `Summarize`, and `reset_experiment_data` of the next
trial, whose TRUNCATE waits for transactions that use the tables or times out.
The checker takes none of the strategy's connections: through the API it has a
pool of its own, and otherwise no call is left when it runs. `OptimisticTrial`
interleaves these with every statement of the optimistic strategy. Two history
variables tell what a wrong verdict is due to: `gaveUp`, the requests the client
gave up on, and `late`, the bids on an auction that were stored between the two
reads the checker made of it.

Definitions commented "mutated form" are not part of the model. Each is a
plausible mistake in the definition that follows it (a dropped lock, predicate,
wait or timeout), and is used to confirm that the property it is paired with in
`PROJECT.json` would notice.

## 3. Runs

The runs of the strategies and of startup check deadlock; `Quiescent` is the
only way for the strategies to stop, when all calls have ended. The feed and the
trial may stop (every client has been served, the trial is over), so their runs
do not; what must not stop there is stated as liveness.

| Run | Instance | Shows |
|---|---|---|
| `pessimistic_safety` | 3 calls out of {bid, the same bid with a stray blank, a rival too low after it, a top bid}, auction scheduled at 0, open at 1, closed at 2, pool of 2 | type invariant, locking invariant `LockProtocol`, `HistoryIsSerial`, `OutcomesAgree`, `DuplicateReplays`, `RefusalIsCurrent`, and refinement of `SerialSpec` |
| `pessimistic_progress` | 3 calls with one request id on two auctions, pool of 2, fair threads | `OutcomesAgree` and `ResolveFindsBid` when only the unique index orders the calls, `ExpiryHoldsAfterLockWait`, and `CallsEnd` |
| `pessimistic_window` | as `pessimistic_safety` | **violated**: a bid can be stored with `accepted_at >= ends_at` |
| `optimistic_safety` | 3 calls out of three bids that can all win in turn, 2 attempts, pool of 2, auction opens and closes | refinement of `SerialSpec`, `AcceptedInsideWindow`, `MissMeansOvertaken` and the shared invariants |
| `optimistic_trial` | 3 requests on 2 workers, all workloads and all orders of prices, 2 attempts, pool of 2, direct or through the API with one request that the client gives up on, fair threads | `FalseAlarmsNeedAStraggler`, `CountsMatchBids`, `NextTrialIsClean`, `PercentileIsNearestRank`, and `TrialEnds`: every trial and every call ends, retries included |
| `optimistic_duplicates` | as `optimistic_safety`, pool of 3 | **violated**: a concurrent copy of an accepted request is rejected as too low |
| `optimistic_lockwait` | same | **violated**: an expired lock wait is not a `StrategyBusyError` |
| `optimistic_conflicts` | same | **violated**: a refusal after a miss reports no conflicts |
| `unsafe_contended` | 3 calls out of {bid, the same bid with a stray blank, a rival of equal amount, a top bid}, pool of 3 | lost updates, of equal amounts too, leave rows that each describe one stored bid, requests stay unique, `check_auction_invariants` reports a violation exactly when there is one, and until calls overlap the steps are those of the serial specification (`SequentialIsSerial`) |
| `feed_delivery` | 2 requests out of two bids and four bodies that the schema refuses, 1 socket, an auction that closes, restarts | `NoPhantomEvents`, `EventsAreUnique`, `NoLeakedSockets`, `AnswersAreTrue`, `SubscribersAreServed`, `BiddersAreAnswered` |
| `feed_snapshot` | same | **violated**: a bid that is broadcast and answered before a socket is registered can be missing from its snapshot |
| `startup` | 2 servers (one with a pool of its own) and the migration command, 7 releases (one adds, one inserts, one changes, one breaks a migration; one misnames, one repeats a version), 9 environments | `RecordsMatchSchema`, `ServersAreCurrent`, `NoCollisions`, `PoolsAreReturned`, refinement of `SchemaHistory`, `StartsEnd` |

*Bounds.* `MaxMoney = 5` with an increment of 2 lets three bids (1, 3, 5) win in
turn and makes the next minimum overflow after the last; the feed needs two bids
and uses 3. `MaxTime = 2` gives each state of an auction one instant, so every
order of reads, waits and the two boundaries occurs. Three calls are what it
takes for a call to be overtaken twice (retry exhaustion), and for two calls to
meet while a third holds what they need. A pool of 2 is smaller than the number
of calls, so acquisition and the second connection contend; the runs that look
for one particular interleaving use 3. Two attempts include a first, a retry and
an exhaustion. Retries by clients are further calls with the same command. The
feed run has one socket: sockets do not interact with each other. A trial of
three requests on two workers has a request that waits for a worker, and one
that outlives its observation while two others are observed: the client
gives up on at most one request of a trial (`MaxTimeouts = 1`), which is enough
for it to arrive late, or to commit between any two steps of the harness; `MaxTime = 0`, since a seeded auction outlasts its trial. Percentiles
are checked for all samples of up to five values out of three, and proved for
all. Three processes
are a holder of the advisory lock and two that wait, of which one may be
overtaken.

*Symmetry.* Safety runs permute the calls, which no command or listing
mentions. Runs with temporal properties use none.

*Fairness.* `WF(CallStep(c))`: the thread of a call executes its next statement
when it can. Nothing forces a timeout, a lost connection or the passage of time,
so `CallsEnd` holds without their help. For the feed, the event loop runs what
is ready, and `asyncio.wait_for` bounds every send, so a send ends one way or
the other. For startup, weak fairness of each process's next step, and strong
fairness of `TakeLock`: PostgreSQL grants the advisory lock in the order of
requests, so a waiter is not overtaken for ever. In the trial the harness and
the calls are weakly fair; no client timeout and no timeout of the TRUNCATE is.

## 4. Where the code and its documents disagree

1. **Window of pessimistic bids** (`pessimistic_window`). The window is judged
   on the clock read at `db/strategies.py:190`; `accepted_at` is the column
   default at the INSERT, two statements later. A bid judged just before the
   close is stored with a time at or after it, which `invariants.py:89` reports
   as a violation. The optimistic strategy cannot do this, since its UPDATE
   reads the clock after the INSERT (`optimistic_safety` checks it).
2. **Concurrent copies under the optimistic strategy** (`optimistic_duplicates`).
   The request is looked up and the auction read in two statements; when the
   copy commits in between, the call is refused as too low (or as closed)
   instead of replayed, as `docs/TRANSACTIONS.md:72` says. The second lookup
   under the lock protects the pessimistic strategy (`DuplicateReplays`).
3. **Lock waits of the optimistic strategy** (`optimistic_lockwait`). Only
   `QueryCanceled` is mapped to `StrategyBusyError`.
4. **Conflict counts** (`optimistic_conflicts`). A refusal in a retry is built
   without `conflicts`.
5. **Snapshot of the feed** (`feed_snapshot`). The auction is read before the
   socket is registered. In the counterexample a bid commits after the read, its
   route finds nobody to tell and answers 200, and only then is the socket
   registered and sent the older snapshot; no event will tell it of that bid.
   A bid that commits in between but is broadcast after the registration does
   reach the client, and `SnapshotIsCurrent` does not count it.

## 5. Proofs

TLAPS checks the following for every set of calls, auctions, requests, bidders,
commands, listings, sockets, processes and releases, and every bound, under the
assumptions that the modules name: amounts are positive and bounded
(`MoneyAssumption`), commands and listings are well formed with a non-empty
window (`CommandsAssumption`, `ListingsAssumption`: what the request schemas and
the domain classes enforce), `strip` is idempotent, bounds are positive, and
`NULL` is none of the values. `BodiesAssumption` (a body that the schema admits
is a command), `WorkloadAssumption` (so is what the harness submits),
`TrialAssumption` (requests, auctions and bidders of a trial are numbered) and
`ReleasesAssumption` (a version is a number, or the name has none) say how the
sets of an instance fit together. Of the 40 properties of the passing runs, 36
are stated by a theorem; the other four are liveness. Each inductive invariant below was checked by TLC on
the instance of its run before it was proved.

* `SerialAuctionProofs`: `SerialTypeCorrect`, `SerialHistory`
  (`SerialSpec => []HistoryIsSerial`) and `SerialOutcomes`
  (`SerialSpec => []OutcomesAgree`). `HistoryIsSerial` is inductive together
  with the types; `OutcomesAgree` needs one more fact, `OwnersHaveEnded`: the
  call that made a stored bid has ended, so a pending call has none. Three more
  theorems say what every implementation inherits: an auction never goes back
  (`SerialAdvance`), neither do stored bids and given answers (`SerialFinal`),
  and a quoted minimum stays a lower bound (`SerialQuotes`).
* `BidStoreProofs`: what each way to end a call means for the abstract
  specification, and what a statement leaves alone; a set of numbered things put
  in order by counting; what the tables enforce in any history
  (`LedgerIsSound`); and `SerialChecker`: on the tables of a serial auction,
  whoever implements it, the checker is exact.
* `PessimisticProofs`: `PessimisticTypeCorrect`, `PessimisticProtocol`
  (`[]LockProtocol`), `PessimisticIsSerial` (`Spec => SerialSpec`), from which
  `PessimisticHistory` and `PessimisticOutcomes` follow by the theorems about
  `SerialSpec`, `PessimisticResolves` (`[]ResolveFindsBid`, so the
  `RuntimeError` of `_resolve_duplicate_request` is unreachable, on which the
  refinement rests), `PessimisticRefusals`, `PessimisticReplays`,
  `PessimisticExpiry`, `PessimisticRetries` (a request that is repeated once its
  bid is committed is never refused) and `PessimisticChecker`.
* `OptimisticProofs`: type correctness with the bound on attempts,
  `OptimisticProtocol` (`[]VersionProtocol`), the refinement
  `OptimisticIsSerial` with `OptimisticHistory` and `OptimisticOutcomes`,
  `OptimisticResolves`, `OptimisticMisses`, `OptimisticWindow`,
  `OptimisticRetries` and `OptimisticChecker`. `OptimisticRetries` bounds the
  finding of section 4 about duplicates: only copies that overlap are turned
  away, never a retry after the commit.
* `UnsafeProofs`: what the baseline keeps in spite of its lost updates
  (`UnsafeTypeCorrect`, `UnsafeRows`, `UnsafeOutcomes`, `UnsafeResolves`);
  `UnsafeSequential`: until two calls overlap its steps are serial; and
  `UnsafeChecker`: however updates are lost, the checker tells.
* `TrialProofs`: `TrialAlarms`, `TrialIsClean`, `TrialCounts`, `NearestRank` and
  `TrialPercentiles`.
* `LiveFeedProofs`: the six invariants of `feed_delivery`. Its service steps are
  those of `SerialAuction`, so the invariants of that module carry over (lemma
  `FeedIsSerial`). `FeedServes` says that a subscriber that stays is out of the
  table exactly if a send to it failed in a broadcast that is over.
* `StartupProofs`: the five invariants of `startup`, and
  `StartupImplementsHistory`, the refinement of `SchemaHistory`.

*Pessimistic.* `LockProtocol` is the inductive invariant. Neither the serial
history nor the refinement is inductive by itself: that `Commit` writes what the
abstract `Accept` would write must be known from the moment the row was locked.
Its parts say that the holder of the lock sees the committed row
(`HoldersSeeTheRow`, true because nobody else can commit to it), that the
verdict was reached on that row at an instant of the call (`BidsAreJudged`),
that the uncommitted bid is the one the rules prescribe and that its request id
is unused and in nobody else's hands (`InsertsAreSound`, where the unique index
comes in), and that the uncommitted row is the bid applied to the committed one
(`UpdatesAreSound`). `DuplicateReplays` needs to know in addition that the
ground of a refusal persists (`RefusalsStand`): prices only rise, a closed
auction stays closed, and a request id once taken stays taken. For
`ExpiryHoldsAfterLockWait`, `TooLate` is the invariant from the moment the
auction closes over a waiting call.

*Optimistic.* Nothing protects the row that a bid is judged on. What replaces the
lock in `VersionProtocol` is that rows only move forward: what a call has read is
the row or a past of it (`SeesThePast`), so when the UPDATE finds the version
that was read, it has found the row that was read, and the verdict holds for it
(`IsJudged`, `InsertIsSound`, `UpdateIsSound`). `AttemptsAreOvertaken` and
`MissesAreCounted` relate retries to versions: each attempt but the last has met
a newer one, which is what makes exhausted retries truthful.
`RequestsAreExclusive` is the unique index, the only relation between two calls.

*Unsafe.* A call overwrites rows it has not read, so what it has seen says
nothing of the price any more; `UnsafeInv` keeps the columns of the listing
(`SeesARow`), the verdict on what was read, and, as long as no calls have
overlapped, that what was read is current (`AloneIsCurrent`).

*Trial.* Up to the reset every step of the trial is a step of the optimistic
strategy or leaves the tables alone, so its invariants hold (`Sound`); after the
TRUNCATE no call is left that holds a row it has read, so none can write
(`Emptied`). `CheckerReadsThePast`
says that the row the checker has fetched is one the auction had, and that every
newer bid was stored after that read, by a request the client gave up on. When
the rows are judged, those bids become `late`, so an alarm has its cause on
record. Lemma `CheckerOnThePast`
then bounds what `check_auction_invariants` can report. `TrialCounts` counts by
injections between calls and bids. `NearestRank` takes `sorted` by what it does
(the k-th element has k - 1 before it): ranks are a bijection (`Ranking`), so
there is an element at the index, the samples up to it are at least as many as
the share asks for, and the smaller ones are too few.

*Checker.* `CheckerIsExact` is about any two tables that the constraints of the
schema admit, so what it needs is little, and true of the unsafe baseline too:
ids of bids are unique, their auctions exist, and there are finitely many
(`LedgerIsSound`). One half is that a serial history inside the windows raises
no alarm. `ListedInOrder` says that `list_bids` returns bids 1 to n of the
auction in this order, since versions are contiguous and amounts rise with them
(`PricesRise`, by the least pair that does not, in place of an induction along
the list). The other half is that a listing that passes is such a history
(`ValidIsSerial`), and needs that there is a listing at all: `ListingExists`
arranges the finite set of bids by how many precede each one. That amounts rise
along the list also settles the winner: only the last bid can be the highest.

*Retries.* `Repeats` is the invariant of a call that arrives when its request is
stored: it never gets past the first lookup of `place_bid`. Stored bids are
never taken back (`SerialFinal`), which is all it needs of the other calls.

*Feed.* `FeedInv` adds to the theorems about the service where a route may be
when it has told what (`RouteIsSound`), that a socket is in the table only while
its handler runs and only for its auction (`SocketIsSound`), that every event in
an inbox comes from a broadcast that was meant for it and that each send which
succeeded is in the inbox (`EventsAreTold`, `SendsAreHeard`): without the latter
neither uniqueness nor service is preserved by the next send.

*Startup.* `MigrationProtocol` says that only the holder of the advisory lock is
in the transaction, that nobody else has uncommitted work, and how far through
its files the holder is: what it has executed is new and in order, every file it
has passed is present and recorded. That is what `Commit` needs to be one
`Upgrade` of the abstract history. `StartupPools` needs two facts that no single
step shows: a process has its pool open wherever the try statement can be left
(`PoolsAreOpen`), and a server is without a pool of its own wherever it ends
without the finally clause (`PoolsAreIdle`). Were the migrations to run before
the `try`, an exception there would end a server with its pool open.

Only model-checked: liveness (`CallsEnd`, `TrialEnds`, `BiddersAreAnswered`,
`StartsEnd`), which is out of the prover's reach. The findings of section 4 are
counterexamples found by TLC. `RetriesAreSpared` is proved and belongs to no
run.

## 6. Not modelled

* PostgreSQL's internals: deadlock detection, the KEY SHARE lock of the foreign
  key (it conflicts only with `FOR UPDATE`, and there the same transaction holds
  it), clock steps backwards, failure of the server itself.
* The `after_read_hook` of the unsafe strategy, a test aid.
* Routes that only read and the health check, which change no state; titles,
  formatting and schemas beyond what they admit.
* The content of migrations: a file is its version, its body and whether its
  SQL fails; two files of one version are taken to create the same tables.
* Latencies and throughput, command lines, metadata and report layout of the
  benchmark. Trials of the other two strategies: the harness is the same, and
  the steps it adds are independent of the strategy.
* The feed in front of the unsafe strategy: `ServiceStep` takes the steps of the
  serial specification, which the unsafe strategy does not implement.
* What the operating system does with a killed process, beyond that its
  connections break and its pool is gone; a cancellation of the lifespan while
  it opens its pool.
* One auction per feed: broadcasts of different auctions touch disjoint entries
  of the table of connections.

## 7. Plan

The safety properties of every run are proved. What could be added is a trial of
the other two strategies on the same harness: the theorems about the checker
(`PessimisticChecker`, `UnsafeChecker`) already say what its verdict would mean
there.
