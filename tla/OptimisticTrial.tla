-------------------------- MODULE OptimisticTrial ---------------------------
(***************************************************************************)
(* A benchmark trial of the optimistic strategy: the harness of Benchmark  *)
(* around the calls of OptimisticStrategy.                                 *)
(***************************************************************************)
EXTENDS OptimisticStrategy, Benchmark

trialVars == <<vars, harnessVars>>

TrialInit == Init /\ HarnessInit

TrialNext ==
  \/ HarnessNext /\ NoRetry
  \/ /\ \E c \in Calls : \/ CallStep(c)
                         \/ PoolTimeout(c) /\ NoRetry
                         \/ LoseConnection(c) /\ NoRetry
                         \/ WaitExpires(c) /\ NoRetry
     /\ UNCHANGED harnessVars

(***************************************************************************)
(* The threads of the executor, the harness and the server run; nothing    *)
(* makes a timeout happen.                                                 *)
(***************************************************************************)
TrialSpec ==
  /\ TrialInit /\ [][TrialNext]_trialVars
  /\ WF_trialVars(HarnessStep /\ NoRetry)
  /\ \A c \in Calls : WF_trialVars(CallStep(c) /\ UNCHANGED harnessVars)

(***************************************************************************)
(* A trial comes to an end, and so does every request of it that reaches   *)
(* the server: the waits of contending bids are never circular, their      *)
(* retries end, and neither the executor nor the reset waits for a call    *)
(* that does not return.                                                   *)
(***************************************************************************)
TrialEnds ==
  <>[](/\ phase \in {"reset", "aborted"}
       /\ \A c \in Calls : pc[c] = "done" \/ (pc[c] = "idle" /\ c \in gaveUp))

=============================================================================
