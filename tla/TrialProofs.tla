---------------------------- MODULE TrialProofs -----------------------------
(***************************************************************************)
(* What a benchmark trial of the optimistic strategy reports, proved for   *)
(* any number of requests, workers and attempts.  Until the tables are     *)
(* emptied for the next trial, every step of a trial is a step of the      *)
(* strategy, so its theorems hold; what is added here is how the           *)
(* observations and the reads of the checker relate to it.                 *)
(***************************************************************************)
EXTENDS OptimisticTrial, OptimisticProofs

-----------------------------------------------------------------------------
(***************************************************************************)
(* The inductive invariant of a trial.  Up to the reset the strategy does  *)
(* what it promises; after it both tables are empty, and no call that is   *)
(* still running has read a row of the old ones.                           *)
(***************************************************************************)
Sound ==
  /\ TypeOK
  /\ VersionProtocol
  /\ ResolveFindsBid
  /\ HistoryIsSerial
  /\ OwnersHaveEnded
  /\ OutcomesAgree
  /\ AcceptedInsideWindow
  /\ LedgerIsSound

Emptied ==
  /\ bids = {}
  /\ auctions = [a \in Auctions |-> NULL]
  /\ pc \in [Calls -> Labels \ Reading]
  /\ command \in [Calls -> BidCommand \cup {NULL}]
  /\ \A c \in Calls : pc[c] # "idle" => command[c] \in BidCommand

HarnessTypeOK ==
  /\ phase \in {"seeding", "running", "checking", "listing", "summarized",
                "reset", "aborted"}
  /\ trial \in [Calls -> Commands]
  /\ observed \in [Calls -> {"accepted", "replayed", "rejected",
                             "system_error", NULL}]
  /\ unchecked \subseteq auction_ids
  /\ gaveUp \subseteq Calls

(* A trial starts on empty tables, and its auctions exist from then on. *)
TablesAreSeeded ==
  /\ phase = "seeding" => /\ Init
                          /\ observed = [c \in Calls |-> NULL]
                          /\ violations = {} /\ gaveUp = {}
  /\ phase \notin {"seeding", "reset"} =>
       \A a \in auction_ids : auctions[a] # NULL

TablesAreSound == IF phase = "reset" THEN Emptied ELSE Sound

(* What was observed of a request is how it ended, unless the client gave up
   on it, which is an error. *)
ObservationsAreTrue ==
  /\ \A c \in gaveUp : remote /\ observed[c] = "system_error"
  /\ phase # "reset" => \A c \in Calls \ gaveUp : observed[c] # NULL =>
       result[c] # NULL /\ observed[c] = Status(result[c])
  /\ phase \notin {"seeding", "running"} => \A c \in Calls : observed[c] # NULL

(* Between its two reads the checker knows a past row of the auction, and the
   bids that came after it are new, of requests the client gave up on. *)
CheckerReadsThePast ==
  phase = "listing" =>
    /\ fetched.id \in auction_ids
    /\ PastRow(fetched.id, fetched.row)
    /\ fetched.stored \subseteq bids
    /\ \A b \in BidsOn(fetched.id) :
         b.auction_version > fetched.row.version =>
           b.id \in gaveUp /\ b \notin fetched.stored

TrialInv ==
  /\ HarnessTypeOK
  /\ TablesAreSeeded
  /\ TablesAreSound
  /\ ObservationsAreTrue
  /\ CheckerReadsThePast
  /\ FalseAlarmsNeedAStraggler

-----------------------------------------------------------------------------
(***************************************************************************)
(* What the calls do in a trial.                                           *)
(***************************************************************************)
CallMoves(c) ==
  \/ CallStep(c)
  \/ PoolTimeout(c) /\ NoRetry
  \/ LoseConnection(c) /\ NoRetry
  \/ WaitExpires(c) /\ NoRetry

(* Only a call that has been made takes a step, and it is one of Next. *)
LEMMA MovesAreSteps ==
  ASSUME NEW c \in Calls, CallMoves(c)
  PROVE  Next /\ pc[c] # "idle"
<1>1. Next
  BY DEF CallMoves, Next
<1>2. pc[c] # "idle"
  BY DEF CallMoves, CallStep, PoolTimeout, LoseConnection, WaitExpires,
         StatementTimeout, LockTimeout, Connected, Connect, Acquiring, Check,
         CheckExisting, Read, ReadAuction, Evaluate, EvaluateNow, InsertBid,
         StartUpdate, FinishUpdate, Commit, ClassifyCheck, ClassifyRead,
         ClassifyEvaluate, ResolveDuplicate
<1> QED
  BY <1>1, <1>2

(* The steps of a trial, sorted by what they do to the tables. *)
LEMMA TrialSteps ==
  ASSUME TrialNext
  PROVE  \/ \E c \in Calls : CallMoves(c) /\ UNCHANGED harnessVars
         \/ Seed /\ NoRetry
         \/ \E c \in Calls : (Submit(c) \/ ArriveLate(c)) /\ NoRetry
         \/ reset_experiment_data /\ NoRetry
         \/ /\ UNCHANGED vars
            /\ \/ \E c \in Calls : Observe(c) \/ ClientTimeout(c)
               \/ Join \/ Judge \/ Summarize \/ ResetTimeout
               \/ \E a \in Auctions : Get(a)
<1>1. CASE /\ \E c \in Calls : CallMoves(c)
           /\ UNCHANGED harnessVars
  BY <1>1
<1>2. CASE HarnessNext /\ NoRetry
  <2>1. ASSUME UNCHANGED storeVars
        PROVE  UNCHANGED vars
    BY <1>2, <2>1 DEF NoRetry, vars
  <2> QED
    BY <1>2, <2>1 DEF HarnessNext, HarnessStep, Observe, ClientTimeout, Record,
                      Join, Judge, Summarize, ResetTimeout, Get
<1> QED
  BY <1>1, <1>2 DEF TrialNext, CallMoves

(***************************************************************************)
(* A step of the strategy keeps what it promises.                          *)
(***************************************************************************)
LEMMA SoundStep == Sound /\ [Next]_vars => Sound'
<1> SUFFICES ASSUME Sound, [Next]_vars
             PROVE  Sound'
  OBVIOUS
<1>1. TypeOK' /\ VersionProtocol' /\ ResolveFindsBid'
  BY TypeStep, ProtocolStep, ResolveStep DEF Sound
<1>2. SerialTypeOK /\ [SerialNext]_serialVars
  BY StepRefines DEF Sound, TypeOK, StoreTypeOK
<1>3. HistoryIsSerial' /\ OwnersHaveEnded' /\ OutcomesAgree' /\ LedgerIsSound'
  BY <1>2, HistoryStep, OutcomesStep, LedgerStep DEF Sound
<1>4. AcceptedInsideWindow'
  BY WindowStep DEF Sound
<1> QED
  BY <1>1, <1>3, <1>4 DEF Sound

(* The auctions that a trial needs exist. *)
LEMMA AuctionIds ==
  ASSUME trial \in [Calls -> Commands]
  PROVE  auction_ids \subseteq Auctions
BY CommandsAssumption DEF auction_ids, BidCommand

(* A freshly seeded database with no calls satisfies all promises. *)
LEMMA SeedIsSound ==
  ASSUME Init, Seed, NoRetry, trial \in [Calls -> Commands]
  PROVE  Sound' /\ \A a \in auction_ids : auctions'[a] # NULL
<1>0. create_auction \in AuctionSnapshot /\ create_auction # NULL
      /\ create_auction.version = 0
      /\ create_auction.current_price_cents = NULL
      /\ create_auction.winning_bid_id = NULL
  <2>1. create_auction =
          [starting_price_cents |-> Price, minimum_increment_cents |-> Increment,
           current_price_cents |-> NULL, winning_bid_id |-> NULL,
           version |-> 0, starts_at |-> 0, ends_at |-> MaxTime + 1]
    BY DEF create_auction, NewAuction
  <2>2. create_auction \in AuctionSnapshot
    BY <2>1, TrialAssumption, BoundsAssumption DEF AuctionSnapshot
  <2> QED
    BY <2>1, <2>2, NullAssumption
<1>1. /\ auctions' = [a \in Auctions |->
           IF a \in auction_ids THEN create_auction ELSE NULL]
      /\ UNCHANGED <<bids, clock, command, arrived, result, pc, txnVars,
                     attempt, misses>>
  BY DEF Seed, NoRetry
<1>2. /\ bids' = {} /\ clock' = 0 /\ \A c \in Calls : pc'[c] = "idle"
      /\ command' = [c \in Calls |-> NULL]
      /\ result' = [c \in Calls |-> NULL]
      /\ arrived' = [c \in Calls |-> 0]
      /\ inserted' = [c \in Calls |-> NULL]
      /\ attempt' = [c \in Calls |-> 1] /\ misses' = [c \in Calls |-> 0]
  BY <1>1 DEF Init, StoreInit, SerialInit, txnVars
<1>3. auctions' \in [Auctions -> AuctionSnapshot \cup {NULL}]
  BY <1>0, <1>1
<1>4. TypeOK /\ TypeOK'
  <2>1. TypeOK
    BY InitEstablishes
  <2> QED
    BY <1>1, <1>3, <2>1 DEF TypeOK, StoreTypeOK, SerialTypeOK, txnVars
<1>5. VersionProtocol'
  BY <1>2 DEF VersionProtocol, CallIsSound, IsPending, SeesThePast, IsJudged,
              InsertIsSound, UpdateIsSound, AttemptsAreOvertaken,
              MissesAreCounted, RequestsAreExclusive, Reading, Writing
<1>6. ResolveFindsBid' /\ AcceptedInsideWindow' /\ LedgerIsSound'
      /\ OwnersHaveEnded' /\ OutcomesAgree'
  BY <1>2, FS_EmptySet
     DEF ResolveFindsBid, AcceptedInsideWindow, LedgerIsSound, IdsAreUnique,
         BidsAreListed, OwnersHaveEnded, OutcomesAgree
<1>7. HistoryIsSerial'
  BY <1>0, <1>1, <1>2
     DEF HistoryIsSerial, VersionsAreContiguous, VersionsAreUnique,
         BidsBelongToAuctions, BidsRaisePrice, WinnerIsLatest
<1>8. \A a \in auction_ids : auctions'[a] # NULL
  BY <1>0, <1>1, AuctionIds
<1> QED
  BY <1>4, <1>5, <1>6, <1>7, <1>8 DEF Sound

(***************************************************************************)
(* After the reset, the calls that are left find nothing: they end without *)
(* having read or written a row.                                           *)
(***************************************************************************)
LEMMA EmptiedStep ==
  ASSUME Emptied, NEW c \in Calls, CallMoves(c)
  PROVE  Emptied'
<1>0. /\ pc \in [Calls -> Labels \ Reading]
      /\ bids = {} /\ \A a \in Auctions : auctions[a] = NULL
  BY DEF Emptied
<1>1. ASSUME NEW label \in Labels \ (Reading \cup {"idle"}), Goto(c, label),
             UNCHANGED <<auctions, bids, command>>, pc[c] # "idle"
      PROVE  Emptied'
  <2>1. pc' \in [Calls -> Labels \ Reading]
    BY <1>0, <1>1 DEF Goto
  <2>2. \A d \in Calls : pc'[d] = "idle" <=> pc[d] = "idle"
    BY <1>0, <1>1 DEF Goto
  <2> QED
    BY <1>1, <2>1, <2>2 DEF Emptied
<1>2. pc[c] # "idle" /\ pc[c] \notin Reading
  BY <1>0, MovesAreSteps
<1>3. ASSUME NEW outcome, Return(c, outcome)
      PROVE  Emptied'
  BY <1>1, <1>2, <1>3 DEF Return, Labels, Reading
<1>4. ASSUME NEW label \in Labels \ (Reading \cup {"idle"}), Proceed(c, label)
      PROVE  Emptied'
  BY <1>1, <1>2, <1>4 DEF Proceed, serialVars
<1>5. command[c].auction_id \in Auctions
  BY <1>2 DEF Emptied, BidCommand
<1>6. CASE CallStep(c)
  <2>1. CASE Connect(c)
    <3>1. AfterConnect[pc[c]] \in Labels \ (Reading \cup {"idle"})
      BY <2>1 DEF Connect, AfterConnect, Acquiring, Labels, Reading
    <3> QED
      BY <1>4, <2>1, <3>1 DEF Connect
  <2>2. CASE Check(c) \/ ClassifyCheck(c)
    BY <1>3, <1>4, <2>2 DEF Check, ClassifyCheck, CheckExisting,
                            AnswerExisting, Labels, Reading
  <2>3. CASE Read(c) \/ ClassifyRead(c)
    BY <1>0, <1>3, <1>5, <2>3 DEF Read, ClassifyRead, ReadAuction
  <2>4. CASE ResolveDuplicate(c)
    BY <1>3, <2>4 DEF ResolveDuplicate
  <2>5. ~ (Evaluate(c) \/ InsertBid(c) \/ StartUpdate(c) \/ FinishUpdate(c)
           \/ Commit(c, attempt[c], attempt[c] - 1) \/ ClassifyEvaluate(c))
    BY <1>2 DEF Evaluate, EvaluateNow, InsertBid, StartUpdate, FinishUpdate,
                Commit, ClassifyEvaluate, Reading
  <2> QED
    BY <1>6, <2>1, <2>2, <2>3, <2>4, <2>5 DEF CallStep
<1>7. CASE PoolTimeout(c) \/ LoseConnection(c) \/ WaitExpires(c)
  BY <1>3, <1>7 DEF PoolTimeout, LoseConnection, WaitExpires,
                    StatementTimeout, LockTimeout
<1> QED
  BY <1>6, <1>7 DEF CallMoves

(* The reset waits for the calls that have read a row. *)
LEMMA ResetEmpties ==
  ASSUME Sound, reset_experiment_data
  PROVE  Emptied'
<1>1. /\ bids' = {} /\ auctions' = [a \in Auctions |-> NULL]
      /\ pc' = pc /\ command' = command
      /\ \A c \in Calls : ~ UsesTables(c)
  BY DEF reset_experiment_data
<1>2. \A c \in Calls : pc[c] \notin Reading
  BY <1>1 DEF UsesTables, Connected, Reading, Acquiring
<1>3. pc \in [Calls -> Labels \ Reading]
  BY <1>2 DEF Sound, TypeOK, StoreTypeOK
<1>4. /\ command \in [Calls -> BidCommand \cup {NULL}]
      /\ \A c \in Calls : pc[c] # "idle" => command[c] \in BidCommand
  BY DEF Sound, TypeOK, StoreTypeOK, SerialTypeOK, VersionProtocol,
         CallIsSound, IsPending
<1> QED
  BY <1>1, <1>3, <1>4 DEF Emptied

-----------------------------------------------------------------------------
(* A bid is stored by a call that had not ended. *)
LEMMA NewBidsArePending ==
  ASSUME SerialTypeOK, [SerialNext]_serialVars, NEW b \in bids', b \notin bids
  PROVE  b.id \in Calls /\ Pending(b.id)
<1>1. PICK c \in Calls : Accept(c)
  BY DEF SerialNext, serialVars, Invisible, PassTime, List, Call, Fail, Replay,
         Refuse
<1>2. \E bid : bids' = bids \cup {bid} /\ bid.id = c
  BY <1>1, AcceptEffect
<1> QED
  BY <1>1, <1>2 DEF Accept

(***************************************************************************)
(* The calls, old and new, keep the invariant until the reset.             *)
(***************************************************************************)
LEMMA StrategyStep ==
  ASSUME TrialInv, phase \notin {"seeding", "reset"}, [Next]_vars,
         UNCHANGED harnessVars
  PROVE  TrialInv'
<1>1. /\ phase' = phase /\ remote' = remote /\ trial' = trial
      /\ observed' = observed /\ unchecked' = unchecked
      /\ fetched' = fetched /\ violations' = violations
      /\ gaveUp' = gaveUp /\ late' = late
      /\ auction_ids' = auction_ids
  BY DEF harnessVars, history, auction_ids
<1>2. Sound /\ Sound'
  BY SoundStep DEF TrialInv, TablesAreSound
<1>3. SerialTypeOK /\ [SerialNext]_serialVars
  BY <1>2, StepRefines DEF Sound, TypeOK, StoreTypeOK
<1>4. RowsMoveForward /\ AnswersStand
  BY <1>3, AdvanceStep, FinalStep
<1>5. HarnessTypeOK'
  BY <1>1 DEF TrialInv, HarnessTypeOK
<1>6. auction_ids \subseteq Auctions
  BY AuctionIds DEF TrialInv, HarnessTypeOK
<1>7. TablesAreSeeded'
  BY <1>1, <1>4, <1>6 DEF TrialInv, TablesAreSeeded, RowsMoveForward
<1>8. TablesAreSound'
  BY <1>1, <1>2 DEF TablesAreSound
<1>9. bids \subseteq bids'
  BY <1>4 DEF AnswersStand
<1>10. ObservationsAreTrue'
  <2>1. \A c \in Calls : result[c] # NULL =>
          /\ result'[c] # NULL
          /\ Status(result[c])' = Status(result[c])
    BY <1>1, <1>4 DEF AnswersStand, Status
  <2> QED
    BY <1>1, <2>1 DEF TrialInv, ObservationsAreTrue
<1>11. CheckerReadsThePast'
  <2> SUFFICES ASSUME phase = "listing"
               PROVE  /\ fetched.id \in auction_ids
                      /\ PastRow(fetched.id, fetched.row)'
                      /\ fetched.stored \subseteq bids'
                      /\ \A b \in bids' : b.auction_id = fetched.id
                           /\ b.auction_version > fetched.row.version
                             => b.id \in gaveUp /\ b \notin fetched.stored
    BY <1>1 DEF CheckerReadsThePast, BidsOn
  <2>1. /\ fetched.id \in auction_ids
        /\ PastRow(fetched.id, fetched.row)
        /\ fetched.stored \subseteq bids
        /\ \A b \in BidsOn(fetched.id) :
             b.auction_version > fetched.row.version =>
               b.id \in gaveUp /\ b \notin fetched.stored
    BY DEF TrialInv, CheckerReadsThePast
  <2>2. ASSUME NEW a \in Auctions, NEW row, PastRow(a, row)
        PROVE  PastRow(a, row)'
    BY <1>3, <2>2, PastRowStays
  <2>3. PastRow(fetched.id, fetched.row)'
    BY <1>1, <1>6, <2>1, <2>2 DEF PastRow, BidsOn
  <2>4. ASSUME NEW b \in bids', b \notin bids
        PROVE  b.id \in gaveUp /\ b \notin fetched.stored
    <3>1. b.id \in Calls /\ result[b.id] = NULL
      BY <1>3, <2>4, NewBidsArePending DEF Pending
    <3>2. observed[b.id] # NULL
      BY <3>1 DEF TrialInv, ObservationsAreTrue
    <3>3. b.id \in gaveUp
      BY <3>1, <3>2 DEF TrialInv, ObservationsAreTrue
    <3> QED
      BY <2>1, <2>4, <3>3
  <2> QED
    BY <1>9, <2>1, <2>3, <2>4 DEF BidsOn
<1>12. FalseAlarmsNeedAStraggler'
  BY <1>1 DEF TrialInv, FalseAlarmsNeedAStraggler
<1> QED
  BY <1>5, <1>7, <1>8, <1>10, <1>11, <1>12 DEF TrialInv

(* The harness sets the trial up. *)
LEMMA SeedKeeps ==
  ASSUME TrialInv, Seed, NoRetry
  PROVE  TrialInv'
<1>1. /\ phase = "seeding" /\ phase' = "running"
      /\ remote' = remote /\ trial' = trial /\ observed' = observed
      /\ unchecked' = unchecked /\ violations' = violations
      /\ gaveUp' = gaveUp /\ late' = late
      /\ auction_ids' = auction_ids
  BY DEF Seed, history, auction_ids
<1>2. /\ Init /\ observed = [c \in Calls |-> NULL]
      /\ violations = {} /\ gaveUp = {}
  BY <1>1 DEF TrialInv, TablesAreSeeded
<1>3. Sound' /\ \A a \in auction_ids : auctions'[a] # NULL
  BY <1>2, SeedIsSound DEF TrialInv, HarnessTypeOK
<1>4. HarnessTypeOK'
  BY <1>1 DEF TrialInv, HarnessTypeOK
<1>5. TablesAreSeeded' /\ TablesAreSound'
  BY <1>1, <1>3 DEF TablesAreSeeded, TablesAreSound
<1>6. ObservationsAreTrue' /\ CheckerReadsThePast' /\ FalseAlarmsNeedAStraggler'
  BY <1>1, <1>2 DEF ObservationsAreTrue, CheckerReadsThePast,
                    FalseAlarmsNeedAStraggler
<1> QED
  BY <1>4, <1>5, <1>6 DEF TrialInv

(* An observation is that of an ended call, or the client has given up. *)
LEMMA RecordKeeps ==
  ASSUME TrialInv, UNCHANGED vars, NEW c \in Calls,
         Observe(c) \/ ClientTimeout(c)
  PROVE  TrialInv'
<1> DEFINE statuses == {"accepted", "replayed", "rejected", "system_error"}
<1>0. UNCHANGED <<auctions, bids, clock, command, arrived, result, pc, txnVars,
                  attempt, misses>>
  BY DEF vars, storeVars
<1>1. PICK status \in statuses :
        /\ Record(c, status)
        /\ \/ /\ result[c] # NULL /\ status = Status(result[c])
              /\ gaveUp' = gaveUp
           \/ /\ remote /\ status = "system_error"
              /\ gaveUp' = gaveUp \cup {c}
  BY DEF Observe, ClientTimeout, Status
<1>2. /\ phase = "running" /\ phase' = phase /\ remote' = remote
      /\ trial' = trial /\ unchecked' = unchecked /\ violations' = violations
      /\ observed[c] = NULL /\ observed' = [observed EXCEPT ![c] = status]
      /\ late' = late /\ gaveUp \subseteq gaveUp'
      /\ auction_ids' = auction_ids
  BY <1>1 DEF Record, auction_ids
<1>3. observed \in [Calls -> statuses \cup {NULL}] /\ gaveUp \subseteq Calls
  BY DEF TrialInv, HarnessTypeOK
<1>4. HarnessTypeOK'
  BY <1>1, <1>2, <1>3 DEF TrialInv, HarnessTypeOK
<1>5. TablesAreSeeded'
  BY <1>0, <1>2 DEF TrialInv, TablesAreSeeded
<1>6. Sound'
  BY <1>2, SoundStep DEF TrialInv, TablesAreSound
<1>7. observed'[c] = status /\ \A d \in Calls : d # c => observed'[d] = observed[d]
  BY <1>2, <1>3
<1>8. \A d \in gaveUp' : remote' /\ observed'[d] = "system_error"
  <2>1. \A d \in gaveUp : d # c /\ remote /\ observed[d] = "system_error"
    BY <1>2, TrialAssumption DEF TrialInv, ObservationsAreTrue
  <2> QED
    BY <1>1, <1>2, <1>3, <1>7, <2>1
<1>9. \A d \in Calls \ gaveUp' : observed'[d] # NULL =>
        result'[d] # NULL /\ observed'[d] = Status(result[d])'
  <2>1. \A d \in Calls : Status(result[d])' = Status(result[d])
    BY <1>0, <1>2 DEF Status
  <2>2. \A d \in Calls \ gaveUp : observed[d] # NULL =>
          result[d] # NULL /\ observed[d] = Status(result[d])
    BY <1>2 DEF TrialInv, ObservationsAreTrue
  <2> QED
    BY <1>0, <1>1, <1>2, <1>7, <2>1, <2>2
<1>10. ObservationsAreTrue' /\ CheckerReadsThePast'
  BY <1>2, <1>8, <1>9 DEF ObservationsAreTrue, CheckerReadsThePast
<1>11. FalseAlarmsNeedAStraggler'
  BY <1>2 DEF TrialInv, FalseAlarmsNeedAStraggler
<1> QED
  BY <1>2, <1>4, <1>5, <1>6, <1>10, <1>11 DEF TrialInv, TablesAreSound

(* The executor joins, the checker moves on, and the trial ends. *)
LEMMA PhaseKeeps ==
  ASSUME TrialInv, UNCHANGED vars, Join \/ Summarize \/ ResetTimeout
  PROVE  TrialInv'
<1>0. UNCHANGED <<auctions, bids, clock, command, arrived, result, pc, txnVars,
                  attempt, misses>>
  BY DEF vars, storeVars
<1>1. /\ phase \in {"running", "checking", "summarized"}
      /\ phase' \in {"checking", "summarized", "aborted"}
      /\ phase = "running" => \A c \in Calls : observed[c] # NULL
      /\ remote' = remote /\ trial' = trial /\ violations' = violations
      /\ observed' = observed /\ unchecked' \in {unchecked, auction_ids}
      /\ gaveUp' = gaveUp /\ late' = late
      /\ auction_ids' = auction_ids
  BY DEF Join, Summarize, ResetTimeout, history, auction_ids
<1>2. HarnessTypeOK'
  BY <1>1 DEF TrialInv, HarnessTypeOK
<1>3. TablesAreSeeded'
  BY <1>0, <1>1 DEF TrialInv, TablesAreSeeded
<1>4. Sound
  BY <1>1 DEF TrialInv, TablesAreSound
<1>5. Sound'
  BY <1>4, SoundStep
<1>6. \A c \in Calls : Status(result[c])' = Status(result[c])
  BY <1>0, <1>1 DEF Status
<1>7. ObservationsAreTrue' /\ CheckerReadsThePast'
  BY <1>0, <1>1, <1>6 DEF TrialInv, ObservationsAreTrue, CheckerReadsThePast
<1>8. FalseAlarmsNeedAStraggler'
  BY <1>0, <1>1 DEF TrialInv, FalseAlarmsNeedAStraggler
<1> QED
  BY <1>1, <1>2, <1>3, <1>5, <1>7, <1>8 DEF TrialInv, TablesAreSound

(* The checker reads an auction. *)
LEMMA GetKeeps ==
  ASSUME TrialInv, UNCHANGED vars, NEW a \in Auctions, Get(a)
  PROVE  TrialInv'
<1>0. UNCHANGED <<auctions, bids, clock, command, arrived, result, pc, txnVars,
                  attempt, misses>>
  BY DEF vars, storeVars
<1>1. /\ phase = "checking" /\ phase' = "listing"
      /\ a \in unchecked
      /\ fetched' = [id |-> a, row |-> auctions[a], stored |-> bids]
      /\ remote' = remote /\ trial' = trial /\ violations' = violations
      /\ observed' = observed /\ unchecked' = unchecked
      /\ gaveUp' = gaveUp /\ late' = late
      /\ auction_ids' = auction_ids
  BY DEF Get, history, auction_ids
<1>2. a \in auction_ids /\ auctions[a] # NULL
  BY <1>1 DEF TrialInv, HarnessTypeOK, TablesAreSeeded
<1>3. Sound
  BY <1>1 DEF TrialInv, TablesAreSound
<1>4. Sound'
  BY <1>3, SoundStep
<1>5. PastRow(a, auctions[a])
  BY <1>2, <1>3, PresentRow DEF Sound, TypeOK, StoreTypeOK
<1>6. \A b \in BidsOn(a) : ~ (b.auction_version > auctions[a].version)
  <2>1. auctions[a].version \in Nat
    BY <1>5 DEF PastRow, AuctionSnapshot
  <2>2. \A b \in BidsOn(a) : /\ b.auction_version <= auctions[a].version
                             /\ b.auction_version \in Nat
    BY <1>3 DEF Sound, HistoryIsSerial, BidsBelongToAuctions, BidsOn, TypeOK,
                StoreTypeOK, SerialTypeOK, AcceptedBid
  <2> QED
    BY <2>1, <2>2
<1>7. CheckerReadsThePast'
  BY <1>0, <1>1, <1>2, <1>5, <1>6 DEF CheckerReadsThePast, PastRow, BidsOn
<1>8. HarnessTypeOK' /\ TablesAreSeeded'
  BY <1>0, <1>1 DEF TrialInv, HarnessTypeOK, TablesAreSeeded
<1>9. \A c \in Calls : Status(result[c])' = Status(result[c])
  BY <1>0, <1>1 DEF Status
<1>10. ObservationsAreTrue' /\ FalseAlarmsNeedAStraggler'
  BY <1>0, <1>1, <1>9 DEF TrialInv, ObservationsAreTrue,
                          FalseAlarmsNeedAStraggler
<1> QED
  BY <1>1, <1>4, <1>7, <1>8, <1>10 DEF TrialInv, TablesAreSound

(***************************************************************************)
(* The checker judges what it has read: it reports a violation only when a *)
(* bid was stored between its two reads.                                   *)
(***************************************************************************)
LEMMA JudgeKeeps ==
  ASSUME TrialInv, UNCHANGED vars, Judge
  PROVE  TrialInv'
<1> DEFINE a == fetched.id
           row == fetched.row
<1>0. UNCHANGED <<auctions, bids, clock, command, arrived, result, pc, txnVars,
                  attempt, misses>>
  BY DEF vars, storeVars
<1>1. /\ phase = "listing" /\ phase' = "checking"
      /\ remote' = remote /\ trial' = trial /\ observed' = observed
      /\ unchecked' \subseteq unchecked /\ gaveUp' = gaveUp
      /\ late' = late \cup {b \in bids \ fetched.stored : b.auction_id = a}
      /\ auction_ids' = auction_ids
  BY DEF Judge, auction_ids
<1>2. PICK rows \in list_bids(a) :
        violations' = violations \cup
          {[auction_id |-> a, code |-> code] :
             code \in check_auction_invariants(row, rows)}
  BY DEF Judge
<1>3. Sound
  BY <1>1 DEF TrialInv, TablesAreSound
<1>4. Sound'
  BY <1>3, SoundStep
<1>5. /\ a \in Auctions /\ PastRow(a, row)
      /\ \A b \in BidsOn(a) : b.auction_version > row.version =>
           b.id \in gaveUp /\ b \notin fetched.stored
  BY <1>1, AuctionIds DEF TrialInv, CheckerReadsThePast, HarnessTypeOK
<1>6. SerialTypeOK /\ HistoryIsSerial
  BY <1>3 DEF Sound, TypeOK, StoreTypeOK
<1>7. /\ check_auction_invariants(row, rows) \subseteq
           {"auction_version", "winner_missing", "winner_not_highest"}
      /\ row.version = auctions[a].version =>
           check_auction_invariants(row, rows) = {}
  <2> HIDE DEF a, row
  <2> QED
    BY <1>2, <1>3, <1>5, <1>6, CheckerOnThePast DEF Sound
<1>8. ASSUME check_auction_invariants(row, rows) # {}
      PROVE  \E b \in late' : b.auction_id = a /\ b.id \in gaveUp'
  <2>1. /\ row.version \in Nat /\ auctions[a].version \in Nat
        /\ row.version <= auctions[a].version /\ auctions[a] # NULL
    BY <1>5, <1>6 DEF PastRow, Later, AuctionSnapshot, SerialTypeOK
  <2>2. row.version < auctions[a].version
    BY <1>7, <1>8, <2>1
  <2>3. PICK b \in bids : b.auction_id = a
                          /\ b.auction_version = auctions[a].version
    BY <1>5, <1>6, <2>1, <2>2 DEF HistoryIsSerial, VersionsAreContiguous
  <2>4. b.id \in gaveUp /\ b \notin fetched.stored
    BY <1>5, <2>1, <2>2, <2>3 DEF BidsOn
  <2> QED
    BY <1>1, <2>3, <2>4
<1>9. \A v \in violations' : \/ v \in violations
                             \/ /\ v.auction_id = a
                                /\ v.code \in check_auction_invariants(row, rows)
  BY <1>2
<1>10. FalseAlarmsNeedAStraggler'
  <2> SUFFICES ASSUME NEW v \in violations'
               PROVE  /\ v.code \in {"auction_version", "winner_missing",
                                     "winner_not_highest"}
                      /\ \E b \in late' : b.auction_id = v.auction_id
                                          /\ b.id \in gaveUp'
    BY DEF FalseAlarmsNeedAStraggler
  <2>1. CASE v \in violations
    BY <1>1, <2>1 DEF TrialInv, FalseAlarmsNeedAStraggler
  <2>2. CASE v.auction_id = a /\ v.code \in check_auction_invariants(row, rows)
    BY <1>7, <1>8, <2>2
  <2> QED
    BY <1>9, <2>1, <2>2
<1>11. HarnessTypeOK' /\ TablesAreSeeded'
  BY <1>0, <1>1 DEF TrialInv, HarnessTypeOK, TablesAreSeeded
<1>12. \A c \in Calls : Status(result[c])' = Status(result[c])
  BY <1>0, <1>1 DEF Status
<1>13. ObservationsAreTrue' /\ CheckerReadsThePast'
  BY <1>0, <1>1, <1>12 DEF TrialInv, ObservationsAreTrue, CheckerReadsThePast
<1> QED
  BY <1>1, <1>4, <1>10, <1>11, <1>13 DEF TrialInv, TablesAreSound

(* The next trial empties the tables. *)
LEMMA ResetKeeps ==
  ASSUME TrialInv, reset_experiment_data, NoRetry
  PROVE  TrialInv'
<1>1. /\ phase = "summarized" /\ phase' = "reset"
      /\ remote' = remote /\ trial' = trial /\ observed' = observed
      /\ unchecked' = unchecked /\ violations' = violations
      /\ gaveUp' = gaveUp /\ late' = late
      /\ auction_ids' = auction_ids
  BY DEF reset_experiment_data, history, auction_ids
<1>2. Emptied'
  BY <1>1, ResetEmpties DEF TrialInv, TablesAreSound
<1> QED
  BY <1>1, <1>2 DEF TrialInv, HarnessTypeOK, TablesAreSeeded, TablesAreSound,
                    ObservationsAreTrue, CheckerReadsThePast,
                    FalseAlarmsNeedAStraggler

(* The calls that outlive their trial change nothing in the next one. *)
LEMMA AfterResetKeeps ==
  ASSUME TrialInv, phase = "reset", NEW c \in Calls,
         CallMoves(c) \/ ArriveLate(c), UNCHANGED harnessVars
  PROVE  TrialInv'
<1>1. /\ phase' = phase /\ remote' = remote /\ trial' = trial
      /\ observed' = observed /\ unchecked' = unchecked
      /\ violations' = violations /\ gaveUp' = gaveUp /\ late' = late
      /\ auction_ids' = auction_ids
  BY DEF harnessVars, history, auction_ids
<1>2. Emptied
  BY DEF TrialInv, TablesAreSound
<1>3. ASSUME ArriveLate(c)
      PROVE  Emptied'
  <2>1. /\ trial[c] \in BidCommand
        /\ command' = [command EXCEPT ![c] = trial[c]]
        /\ Goto(c, "connect") /\ UNCHANGED <<auctions, bids>>
    BY <1>3, CommandsAssumption
       DEF TrialInv, HarnessTypeOK, ArriveLate, place_bid, Call
  <2>2. pc' \in [Calls -> Labels \ Reading]
    <3>1. "connect" \in Labels \ Reading
      BY DEF Labels, Acquiring, Reading
    <3> QED
      BY <1>2, <2>1, <3>1 DEF Emptied, Goto
  <2>3. /\ command' \in [Calls -> BidCommand \cup {NULL}]
        /\ \A d \in Calls : pc'[d] # "idle" => command'[d] \in BidCommand
    <3>1. \A d \in Calls : d # c => command'[d] = command[d] /\ pc'[d] = pc[d]
      BY <1>2, <2>1 DEF Emptied, Goto
    <3>2. command'[c] = trial[c]
      BY <1>2, <2>1 DEF Emptied
    <3> QED
      BY <1>2, <2>1, <3>1, <3>2 DEF Emptied
  <2> QED
    BY <1>2, <2>1, <2>2, <2>3 DEF Emptied
<1>4. Emptied'
  BY <1>2, <1>3, EmptiedStep
<1> QED
  BY <1>1, <1>4 DEF TrialInv, HarnessTypeOK, TablesAreSeeded, TablesAreSound,
                    ObservationsAreTrue, CheckerReadsThePast,
                    FalseAlarmsNeedAStraggler

(***************************************************************************)
(* Every step of a trial keeps its invariant.                              *)
(***************************************************************************)
LEMMA TrialStep == TrialInv /\ [TrialNext]_trialVars => TrialInv'
<1> SUFFICES ASSUME TrialInv, [TrialNext]_trialVars
             PROVE  TrialInv'
  OBVIOUS
<1>1. ASSUME NEW c \in Calls, CallMoves(c), UNCHANGED harnessVars
      PROVE  TrialInv'
  <2>1. phase # "seeding"
    BY <1>1, MovesAreSteps
       DEF TrialInv, TablesAreSeeded, Init, StoreInit
  <2>2. CASE phase = "reset"
    BY <1>1, <2>2, AfterResetKeeps
  <2>3. CASE phase # "reset"
    BY <1>1, <2>1, <2>3, MovesAreSteps, StrategyStep
  <2> QED
    BY <2>2, <2>3
<1>2. ASSUME NEW c \in Calls, Submit(c) \/ ArriveLate(c), NoRetry
      PROVE  TrialInv'
  <2>1. trial[c] \in Commands /\ phase # "seeding"
    BY <1>2 DEF TrialInv, HarnessTypeOK, TablesAreSeeded, Submit, ArriveLate
  <2>2. Next /\ UNCHANGED harnessVars
    BY <1>2, <2>1 DEF Submit, ArriveLate, Next
  <2>3. CASE phase = "reset"
    BY <1>2, <2>2, <2>3, AfterResetKeeps DEF Submit
  <2>4. CASE phase # "reset"
    BY <2>1, <2>2, <2>4, StrategyStep
  <2> QED
    BY <2>3, <2>4
<1>3. CASE UNCHANGED trialVars
  <2>1. UNCHANGED vars /\ UNCHANGED harnessVars
    BY <1>3 DEF trialVars
  <2>2. CASE phase \notin {"seeding", "reset"}
    BY <2>1, <2>2, StrategyStep
  <2>3. CASE phase \in {"seeding", "reset"}
    <3>1. /\ UNCHANGED <<auctions, bids, clock, command, arrived, result, pc,
                         seen, readTime, rowLock, inserted, updated, attempt,
                         misses>>
          /\ UNCHANGED <<phase, remote, trial, observed, unchecked, fetched,
                         violations, gaveUp, late>>
      BY <2>1 DEF vars, storeVars, txnVars, harnessVars, history
    <3>2. auction_ids' = auction_ids
      BY <3>1 DEF auction_ids
    <3>3. Init => Init'
      BY <3>1 DEF Init, StoreInit, SerialInit
    <3>4. Emptied => Emptied'
      BY <3>1 DEF Emptied
    <3>5. Sound => Sound'
      BY <2>1, SoundStep
    <3>6. \A c \in Calls : Status(result[c])' = Status(result[c])
      BY <3>1 DEF Status
    <3>7. /\ HarnessTypeOK' /\ TablesAreSeeded' /\ TablesAreSound'
      BY <2>3, <3>1, <3>2, <3>3, <3>4, <3>5
         DEF TrialInv, HarnessTypeOK, TablesAreSeeded, TablesAreSound
    <3>8. ObservationsAreTrue' /\ CheckerReadsThePast'
          /\ FalseAlarmsNeedAStraggler'
      BY <2>3, <3>1, <3>6
         DEF TrialInv, ObservationsAreTrue, CheckerReadsThePast,
             FalseAlarmsNeedAStraggler
    <3> QED
      BY <3>7, <3>8 DEF TrialInv
  <2> QED
    BY <2>2, <2>3
<1> QED
  BY <1>1, <1>2, <1>3, TrialSteps, SeedKeeps, RecordKeeps, PhaseKeeps, GetKeeps,
     JudgeKeeps, ResetKeeps

(* A trial starts in its invariant. *)
LEMMA TrialStarts == TrialInit => TrialInv
<1> SUFFICES ASSUME TrialInit
             PROVE  TrialInv
  OBVIOUS
<1>1. /\ Init /\ phase = "seeding" /\ observed = [c \in Calls |-> NULL]
      /\ unchecked = {} /\ violations = {} /\ gaveUp = {}
      /\ trial \in UNION {seed_commands(w) : w \in WORKLOADS}
  BY DEF TrialInit, HarnessInit
<1>2. trial \in [Calls -> Commands]
  BY <1>1, WorkloadAssumption
<1>3. Sound
  <2>1. TypeOK /\ VersionProtocol /\ ResolveFindsBid
    BY <1>1, InitEstablishes
  <2>2. /\ bids = {} /\ auctions = [a \in Auctions |-> NULL]
        /\ result = [c \in Calls |-> NULL]
    BY <1>1 DEF Init, StoreInit, SerialInit
  <2> QED
    BY <2>1, <2>2, FS_EmptySet
       DEF Sound, HistoryIsSerial, VersionsAreContiguous, VersionsAreUnique,
           BidsBelongToAuctions, BidsRaisePrice, WinnerIsLatest,
           OwnersHaveEnded, OutcomesAgree, AcceptedInsideWindow,
           LedgerIsSound, IdsAreUnique, BidsAreListed
<1> QED
  BY <1>1, <1>2, <1>3
     DEF TrialInv, HarnessTypeOK, TablesAreSeeded, TablesAreSound,
         ObservationsAreTrue, CheckerReadsThePast, FalseAlarmsNeedAStraggler

(***************************************************************************)
(* The invariant of a benchmark trial, up to its reset and after it.       *)
(***************************************************************************)
THEOREM TrialInvariant == TrialSpec => []TrialInv
BY TrialStarts, TrialStep, PTL DEF TrialSpec

(***************************************************************************)
(* A trial of the optimistic strategy is reported invalid only when a bid  *)
(* of a request that the client had given up on was committed between the  *)
(* two reads that check_auction_invariants made of the reported auction.   *)
(***************************************************************************)
THEOREM TrialAlarms == TrialSpec => []FalseAlarmsNeedAStraggler
BY TrialInvariant, PTL DEF TrialInv

(***************************************************************************)
(* Requests that outlive their trial leave nothing in the tables of the    *)
(* next one: reset_experiment_data waits for those that have read a row,   *)
(* and the others find none.                                               *)
(***************************************************************************)
THEOREM TrialIsClean == TrialSpec => []NextTrialIsClean
<1>1. TrialInv => NextTrialIsClean
  BY DEF TrialInv, TablesAreSound, Emptied, NextTrialIsClean
<1> QED
  BY <1>1, TrialInvariant, PTL

(***************************************************************************)
(* The outcome counts of a trial can be trusted: every request counted as  *)
(* accepted is a bid of its own, and every stored bid is one of them or is *)
(* counted as an error.                                                    *)
(***************************************************************************)
THEOREM TrialCounts == TrialSpec => []CountsMatchBids
<1>1. TrialInv => CountsMatchBids
  <2> DEFINE Won == {c \in Calls : observed[c] = "accepted"}
             Lost == {c \in Calls : observed[c] = "system_error"}
  <2> SUFFICES ASSUME TrialInv, phase \in {"checking", "listing", "summarized"}
               PROVE  /\ Cardinality(Won) <= Cardinality(bids)
                      /\ Cardinality(bids)
                           <= Cardinality(Won) + Cardinality(Lost)
    BY DEF CountsMatchBids, OutcomeCount
  <2>1. Sound
    BY DEF TrialInv, TablesAreSound
  <2>2. /\ bids \subseteq AcceptedBid /\ IdsAreUnique /\ IsFiniteSet(bids)
        /\ result \in [Calls -> BidOutcome \cup {NULL}]
    BY <2>1 DEF Sound, TypeOK, StoreTypeOK, SerialTypeOK, LedgerIsSound
  <2>3. \A c \in Calls : /\ observed[c] # NULL
                         /\ \/ observed[c] = "system_error"
                            \/ /\ result[c] # NULL
                               /\ observed[c] = Status(result[c])
    BY DEF TrialInv, ObservationsAreTrue
  <2>4. \A c \in Won : /\ c \in Calls
                       /\ result[c] # NULL /\ result[c].status = "accepted"
    BY <2>3 DEF Status
  <2>5. \A c \in Won : result[c].bid \in bids /\ result[c].bid.id = c
    BY <2>1, <2>4 DEF Sound, OutcomesAgree, BidsOf
  <2>6. \A b \in bids : b.id \in Won \cup Lost
    <3> SUFFICES ASSUME NEW b \in bids
                 PROVE  b.id \in Won \cup Lost
      OBVIOUS
    <3>1. b.id \in Calls /\ result[b.id] # NULL
      BY <2>1, <2>2 DEF Sound, OwnersHaveEnded, AcceptedBid
    <3>2. result[b.id].status \in {"accepted", "OperationalError"}
      BY <2>1, <3>1 DEF Sound, OutcomesAgree
    <3>3. Status(result[b.id]) \in {"accepted", "system_error"}
      BY <3>2 DEF Status
    <3> QED
      BY <2>3, <3>1, <3>3
  <2>7. /\ IsFiniteSet(bids) /\ IsFiniteSet(Won) /\ IsFiniteSet(Lost)
    <3>1. Won \in SUBSET Calls /\ Lost \in SUBSET Calls
      OBVIOUS
    <3> QED
      BY <2>2, <3>1, FS_Subset, TrialAssumption
  <2> HIDE DEF Won, Lost
  <2>8. Cardinality(Won) <= Cardinality(bids)
    <3> DEFINE bidOf == [c \in Won |-> result[c].bid]
    <3>1. bidOf \in Injection(Won, bids)
      BY <2>5 DEF Injection, IsInjective
    <3> QED
      BY <2>7, <3>1, FS_Injection
  <2>9. Cardinality(bids) <= Cardinality(Won \cup Lost)
        /\ IsFiniteSet(Won \cup Lost)
    <3> DEFINE owner == [b \in bids |-> b.id]
    <3>1. owner \in Injection(bids, Won \cup Lost)
      BY <2>2, <2>6 DEF Injection, IsInjective, IdsAreUnique
    <3>2. IsFiniteSet(Won \cup Lost)
      BY <2>7, FS_Union
    <3> QED
      BY <3>1, <3>2, FS_Injection
  <2>10. Cardinality(Won \cup Lost) <= Cardinality(Won) + Cardinality(Lost)
    <3>1. Cardinality(Won \cup Lost) = Cardinality(Won) + Cardinality(Lost)
            - Cardinality(Won \cap Lost)
      BY <2>7, FS_Union
    <3>2. IsFiniteSet(Won \cap Lost)
      BY <2>7, FS_Subset
    <3>3. /\ Cardinality(Won) \in Nat /\ Cardinality(Lost) \in Nat
          /\ Cardinality(Won \cap Lost) \in Nat
      BY <2>7, <3>2, FS_CardinalityType
    <3> QED
      BY <3>1, <3>3
  <2>11. /\ Cardinality(Won) \in Nat /\ Cardinality(Lost) \in Nat
         /\ Cardinality(bids) \in Nat /\ Cardinality(Won \cup Lost) \in Nat
    BY <2>7, <2>9, FS_CardinalityType
  <2> QED
    BY <2>8, <2>9, <2>10, <2>11
<1> QED
  BY <1>1, TrialInvariant, PTL

-----------------------------------------------------------------------------
(***************************************************************************)
(* The index percentile_ns takes: the least number of samples that makes   *)
(* up the share asked for.                                                 *)
(***************************************************************************)
LEMMA NearestIndex ==
  ASSUME NEW n \in Nat \ {0}, NEW percentile \in 1..100
  PROVE  LET k == (percentile * n + 99) \div 100
         IN  /\ k \in 1..n
             /\ 100 * k >= percentile * n
             /\ 100 * (k - 1) < percentile * n
<1> DEFINE share == percentile * n
           k == (share + 99) \div 100
<1>1. share \in Nat /\ share >= n /\ share <= 100 * n
  <2>1. percentile - 1 \in Nat /\ 100 - percentile \in Nat /\ n \in Nat
    OBVIOUS
  <2>2. (percentile - 1) * n >= 0 /\ (100 - percentile) * n >= 0
    BY <2>1
  <2>3. share = (percentile - 1) * n + n /\ 100 * n = (100 - percentile) * n + share
    BY <2>1
  <2> QED
    BY <2>1, <2>2, <2>3
<1> HIDE DEF share
<1>2. k \in Int /\ 100 * k <= share + 99 /\ share + 99 < 100 * k + 100
  BY <1>1
<1> HIDE DEF k
<1>3. k \in 1..n /\ 100 * k >= share /\ 100 * (k - 1) < share
  BY <1>1, <1>2
<1> QED
  BY <1>3 DEF k, share

(***************************************************************************)
(* percentile_ns is the nearest-rank percentile of any non-empty list of   *)
(* latencies, however long: a sample that the share asked for does not     *)
(* exceed, and no smaller one would do.  It is so of the code for every    *)
(* percentile whose share is computed exactly, p50, p95 and p99 included.  *)
(***************************************************************************)
THEOREM NearestRank ==
  ASSUME NEW n \in Nat \ {0}, NEW percentile \in 1..100,
         NEW samples \in [1..n -> Nat]
  PROVE  IsNearestRank(percentile_ns(samples, percentile), samples, percentile)
<1> DEFINE k == (percentile * n + 99) \div 100
           R == {x \in (1..n) \X (1..n) : Before(samples, x[1], x[2])}
           rank == [i \in 1..n |-> Cardinality(Preceding(n, R, i)) + 1]
           AtMost(v) == {i \in 1..n : samples[i] <= v}
<1> DOMAIN samples = 1..n /\ Len(samples) = n
  BY LenProperties
<1>1. /\ k \in 1..n
      /\ 100 * k >= percentile * n /\ 100 * (k - 1) < percentile * n
      /\ percentile * n \in Int
  BY NearestIndex
<1>2. \A i, j \in 1..n : <<i, j>> \in R <=> Before(samples, i, j)
  OBVIOUS
<1> HIDE DEF R
<1>3. IsStrictOrder(n, R)
  BY <1>2 DEF IsStrictOrder, Before
<1>4. /\ rank \in Bijection(1..n, 1..n)
      /\ \A i \in 1..n : rank[i] = Cardinality(Preceding(n, R, i)) + 1
  BY <1>3, Ranking
<1>5. \A i \in 1..n : {j \in 1..n : Before(samples, j, i)} = Preceding(n, R, i)
  BY <1>2 DEF Preceding
<1> HIDE DEF k, rank
<1>6. PICK i \in 1..n : /\ Cardinality(Preceding(n, R, i)) + 1 = k
                        /\ percentile_ns(samples, percentile) = samples[i]
  <2> DEFINE Earlier(m) == {j \in 1..n : Before(samples, j, m)}
             Place(m) == Cardinality(Earlier(m)) + 1 = k
             i == CHOOSE m \in 1..n : Place(m)
  <2>1. \E j \in 1..n : rank[j] = k
    BY <1>1, <1>4 DEF Bijection, Surjection
  <2>2. \E j \in 1..n : Place(j)
    BY <2>1, <1>4, <1>5
  <2>3. i \in 1..n /\ Place(i)
    BY <2>2
  <2>4. sorted(samples)[k] = samples[i]
    BY <1>1 DEF sorted
  <2>5. percentile_ns(samples, percentile) = sorted(samples)[k]
    BY <1>1 DEF percentile_ns, k
  <2> HIDE DEF i
  <2>6. Cardinality(Preceding(n, R, i)) + 1 = k
    BY <2>3, <1>5
  <2> QED
    BY <2>3, <2>4, <2>5, <2>6
<1> DEFINE value == samples[i]
<1>7. /\ i \notin Preceding(n, R, i)
      /\ Preceding(n, R, i) \cup {i} \in SUBSET AtMost(value)
      /\ AtMost(value - 1) \in SUBSET Preceding(n, R, i)
  BY <1>2 DEF Preceding, Before
<1>8. /\ IsFiniteSet(AtMost(value)) /\ IsFiniteSet(AtMost(value - 1))
      /\ IsFiniteSet(Preceding(n, R, i))
  <2>1. IsFiniteSet(1..n)
    BY FS_Interval
  <2> QED
    BY <2>1, FS_Subset DEF Preceding
<1>9. k <= Cardinality(AtMost(value))
  <2>1. Cardinality(Preceding(n, R, i) \cup {i}) = k
    BY <1>6, <1>7, <1>8, FS_AddElement
  <2> QED
    BY <2>1, <1>7, <1>8, FS_Subset
<1>10. Cardinality(AtMost(value - 1)) + 1 <= k
  <2>1. Cardinality(AtMost(value - 1)) <= Cardinality(Preceding(n, R, i))
    BY <1>7, <1>8, FS_Subset
  <2> QED
    BY <2>1, <1>6, <1>8, FS_CardinalityType
<1>11. /\ Cardinality(AtMost(value)) \in Int
       /\ Cardinality(AtMost(value - 1)) \in Int
  BY <1>8, FS_CardinalityType
<1>12. /\ 100 * Cardinality(AtMost(value)) >= percentile * n
       /\ 100 * Cardinality(AtMost(value - 1)) < percentile * n
  BY <1>1, <1>9, <1>10, <1>11
<1> HIDE DEF AtMost
<1>13. percentile_ns(samples, percentile) = value
  BY <1>6
<1> HIDE DEF value
<1>14. \E j \in 1..n : value = samples[j]
  BY DEF value
<1> QED
  BY <1>12, <1>13, <1>14 DEF IsNearestRank, AtMost

(***************************************************************************)
(* So p50, p95 and p99 of a summary are the nearest-rank percentiles of    *)
(* the latencies of its trial, however many were measured.                 *)
(***************************************************************************)
THEOREM TrialPercentiles == TrialSpec => []PercentileIsNearestRank
<1>1. PercentileIsNearestRank
  <2> SUFFICES ASSUME NEW n \in 1..5, NEW percentile \in {1, 50, 95, 99, 100},
                      NEW samples \in [1..n -> 1..3]
               PROVE  IsNearestRank(percentile_ns(samples, percentile),
                                    samples, percentile)
    BY DEF PercentileIsNearestRank
  <2>1. /\ n \in Nat \ {0} /\ percentile \in 1..100
        /\ samples \in [1..n -> Nat]
    OBVIOUS
  <2> QED
    BY <2>1, NearestRank, Zenon
<1> QED
  BY <1>1, PTL

=============================================================================
