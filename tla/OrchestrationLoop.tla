-------------------------- MODULE OrchestrationLoop --------------------------
(***************************************************************************)
(* One run of the orchestration loop                                       *)
(* (crates/orchestrator-core/src/loop_runner.rs): the task is routed, a    *)
(* Trivial or Low one goes round the flat loop - check, select, execute,   *)
(* record - and a Medium or larger one through the plan engine, which is   *)
(* one step here and the module GraphRunner in full.  The selector         *)
(* (policy-engine/src/selector.rs) is modelled with its scores.            *)
(*                                                                         *)
(* Scores and confidences are percentages.  The sum of floats that makes a *)
(* confidence may come out a shade below or above the percent it stands    *)
(* for, which matters where a threshold is met exactly: there Estimates    *)
(* leaves the outcome open, a shade being a whole percent.                 *)
(*                                                                         *)
(* The flat loop never calls a tool: ToolScore is 0 for Trivial and Low,   *)
(* and a tie goes to the retrieval before it.  Files are therefore only    *)
(* modified by the run that is resumed, and the tool budget, positive in   *)
(* every configuration considered, is never touched.                       *)
(***************************************************************************)
EXTENDS Integers, Sequences, FiniteSets, SequencesExt, FiniteSetsExt

CONSTANTS
  Complexities,   \* what the classifier may answer
  Limits,         \* budgets of the session, after the complexity's caps
  Boosts,         \* what the wording of the request adds to the confidence
  Costs           \* token estimates of observations

ASSUME LimitsAssumption ==
  Limits \subseteq [steps : Nat \ {0}, tokens : Nat, retrievals : Nat, verifies : Nat]
ASSUME BoostAssumption == Boosts \subseteq 0 .. 25
ASSUME CostAssumption == Costs \subseteq Nat
ASSUME ComplexityAssumption == Complexities \subseteq {"Trivial", "Low", "Medium"}

VARIABLES
  pc,            \* where run_inner is
  task,          \* complexity, limits and boost; resumed: files came modified
  cancelled,     \* the cancellation token
  clock,         \* how much of the time budget is gone, see Tick
  used,          \* the budget's counters
  history,       \* action_history; session.step_count is its length
  observations,  \* the kinds of the observations, oldest first
  streak,        \* error_streak
  hasRetrieved,  \* has_retrieved
  verified,      \* a verification run was recorded
  memoryErrors,  \* working memory has unresolved errors
  confidence,    \* knowledge_confidence
  acting,        \* the action selected in this turn
  status,        \* session.status
  stopped        \* the Stopped events emitted

vars == <<pc, task, cancelled, clock, used, history, observations, streak,
          hasRetrieved, verified, memoryErrors, confidence, acting, status, stopped>>

StopReasons == {"TaskComplete", "BudgetExhausted", "MaxStepsReached",
                "UserCancelled", "Error"}
Actions == {"plan", "retrieve", "verify", "respond"}
Kinds == {"text", "response", "passed", "failed", "error", "fatal"}

Init ==
  /\ pc = "start"
  /\ task \in [complexity : Complexities, limits : Limits, boost : Boosts,
               resumed : BOOLEAN]
  /\ cancelled = FALSE
  /\ clock = "plenty"
  /\ used = [tokens |-> 0, retrievals |-> 0, verifies |-> 0]
  /\ history = <<>>
  /\ observations = <<>>
  /\ streak = 0
  /\ hasRetrieved = FALSE
  /\ verified = FALSE
  /\ memoryErrors = FALSE
  /\ confidence = 50
  /\ acting = "none"
  /\ status = "Active"
  /\ stopped = <<>>

Steps == Len(history)
Occurrences(a) == Cardinality({i \in DOMAIN history : history[i] = a})
Limit == task.limits
-----------------------------------------------------------------------------
(* The budget *)

(* A limit of 0 for retrievals or verifications ends nothing. *)
WithinLimits ==
  /\ used.tokens < Limit.tokens
  /\ Limit.retrievals = 0 \/ used.retrievals < Limit.retrievals
  /\ Limit.verifies = 0 \/ used.verifies < Limit.verifies

(* BudgetEnforcer: a share of pct percent of some budget is gone. *)
Reached(pct) ==
  LET share(u, max) == max # 0 /\ 100 * u >= pct * max
  IN \/ share(used.tokens, Limit.tokens)
     \/ share(used.retrievals, Limit.retrievals)
     \/ share(used.verifies, Limit.verifies)

Exhausted == Reached(100) \/ clock \in {"exhausted", "over"}
Critical == Reached(95) \/ clock # "plenty"
-----------------------------------------------------------------------------
(* The selector *)

(* build_policy_state passes the last five observations newest first and   *)
(* the selector takes them for oldest first: it sees as the latest what is *)
(* the oldest of the five.                                                 *)
Window == SubSeq(observations, Max({1, Len(observations) - 4}), Len(observations))
LooksComplete == Window # <<>> /\ Head(Window) = "response"
HadIssues == \E i \in 1 .. Min({3, Len(Window)}) : Window[i] \in {"failed", "error"}

(* Mutant: without a run the freshness is None, and only Stale counts. *)
PendingIfStale == task.resumed /\ verified /\ ~verified

(* Modified files and no verification run after them. *)
Pending == task.resumed /\ ~verified
HasVerified == Occurrences("verify") > 0

Points(cond, n) == IF cond THEN n ELSE 0
Clamp(n) == Max({0, Min({100, n})})

ScoreRetrieve ==
  IF confidence >= 50 THEN 0
  ELSE Clamp( Points(~hasRetrieved, 30)
            - Points(used.retrievals > 3, 15 * (used.retrievals - 3))
            - (IF Limit.retrievals = 0 THEN 30
               ELSE Points(2 * used.retrievals > Limit.retrievals,
                           (60 * used.retrievals) \div Limit.retrievals - 30))
            - Points(hasRetrieved, 30))

ScoreVerify ==
  Clamp(Points(Pending, 70) + Points(HadIssues, 40)
        + Points(memoryErrors /\ ~HasVerified, 20))

ScoreRespond ==
  Clamp( Points(task.complexity = "Trivial" /\ confidence >= 50, 90)
       + Points(confidence > 80, 70)
       + Points(confidence > 60, 50)
       + Points(hasRetrieved, 40)
       - Points(memoryErrors, 20))

ScoreStop ==
  Clamp(Points(LooksComplete /\ HasVerified, 80)
        + Points(Steps >= Limit.steps - 1, 90))

(* The best score; of equal ones the first of the candidates wins. *)
Candidates == <<[does |-> "retrieve", score |-> ScoreRetrieve],
                [does |-> "verify", score |-> ScoreVerify],
                [does |-> "respond", score |-> ScoreRespond],
                [does |-> "tool_call", score |-> 0],
                [does |-> "TaskComplete", score |-> ScoreStop]>>
Best ==
  LET score == [i \in DOMAIN Candidates |-> Candidates[i].score]
      first == CHOOSE i \in DOMAIN score :
                 /\ \A j \in DOMAIN score : score[j] <= score[i]
                 /\ \A j \in 1 .. i - 1 : score[j] < score[i]
  IN Candidates[first].does

(* A stop is named by its reason. *)
SelectAction ==
  CASE Exhausted -> "BudgetExhausted"
    [] ~Exhausted /\ streak >= 3 -> "Error"
    [] ~Exhausted /\ streak < 3 /\ Steps >= Limit.steps -> "MaxStepsReached"
    [] ~Exhausted /\ streak < 3 /\ Steps < Limit.steps /\ Critical -> "respond"
    [] OTHER -> Best

(* KnowledgeBoundaryEstimator::estimate, for the tasks of the flat loop *)
Estimate(obs, retrieved) ==
  LET count(kinds, s) == Cardinality({i \in DOMAIN s : s[i] \in kinds})
      recent == SubSeq(obs, Max({1, Len(obs) - 9}), Len(obs))
      trivial == task.complexity = "Trivial"
  IN Clamp( (IF trivial THEN 85 ELSE 70) + task.boost
          + Points(retrieved, IF trivial THEN 2 ELSE 5)
          + Min({15, 5 * count({"passed"}, obs)})
          - Min({40, 10 * count({"error", "fatal"}, recent)}))

(* What the rounding makes of it: a confidence is only ever compared with  *)
(* these.                                                                  *)
Thresholds == {50, 60, 80}
Estimates(obs, retrieved) ==
  LET sum == Estimate(obs, retrieved)
  IN {sum} \cup (IF sum \in Thresholds THEN {sum - 1, sum + 1} ELSE {})
-----------------------------------------------------------------------------
(* The end of run_inner: the reason is the last Stop of the history. *)
FinalStatus(reason) ==
  CASE reason = "BudgetExhausted" -> "BudgetExhausted"
    [] reason = "Error" -> "Failed"
    [] OTHER -> "Completed"

Stopped(reason, steps) == [reason |-> reason, steps |-> steps]

(* Mutant: the event is made before the Stop is pushed. *)
StopWithEarlyEvent(reason, past) ==
  /\ history' = Append(past, reason)
  /\ status' = FinalStatus(reason)
  /\ stopped' = Append(stopped, Stopped(reason, Len(past)))
  /\ acting' = "none"
  /\ pc' = "done"

StopWith(reason, past) ==
  /\ history' = Append(past, reason)
  /\ status' = FinalStatus(reason)
  /\ stopped' = Append(stopped, Stopped(reason, Len(past) + 1))
  /\ acting' = "none"
  /\ pc' = "done"

StartFlatLoop ==
  /\ pc = "start"
  /\ task.complexity \in {"Trivial", "Low"}
  /\ pc' = "loop"
  /\ UNCHANGED <<task, cancelled, clock, used, history, observations, streak,
                 hasRetrieved, verified, memoryErrors, confidence, acting, status, stopped>>

(* should_stop; the time is looked at when it has nothing to say. *)
MustStop ==
  CASE cancelled -> "UserCancelled"
    [] ~cancelled /\ Steps >= Limit.steps -> "MaxStepsReached"
    [] ~cancelled /\ Steps < Limit.steps /\ ~WithinLimits -> "BudgetExhausted"
    [] ~cancelled /\ Steps < Limit.steps /\ WithinLimits /\ streak >= 3 -> "Error"
    [] ~cancelled /\ Steps < Limit.steps /\ WithinLimits /\ streak < 3 /\ clock = "over" ->
         "BudgetExhausted"
    [] OTHER -> "none"

LoopStops ==
  /\ pc = "loop"
  /\ MustStop # "none"
  /\ StopWith(MustStop, history)
  /\ UNCHANGED <<task, cancelled, clock, used, observations, streak, hasRetrieved,
                 verified, memoryErrors, confidence>>

Select ==
  /\ pc = "loop"
  /\ MustStop = "none"
  /\ acting' = SelectAction
  /\ pc' = "executing"
  /\ UNCHANGED <<task, cancelled, clock, used, history, observations, streak,
                 hasRetrieved, verified, memoryErrors, confidence, status, stopped>>

(* What every success leaves. *)
Observe(kind, cost) ==
  /\ observations' = Append(observations, kind)
  /\ streak' = 0
  /\ used' = [used EXCEPT !.tokens = @ + cost]

(* The budget is debited whether the action succeeded or not. *)
Debited(counters) ==
  [counters EXCEPT !.retrievals = @ + Points(acting = "retrieve", 1),
                   !.verifies = @ + Points(acting = "verify", 1)]

(* The end of a turn that did not stop the loop. *)
EndTurn ==
  /\ history' = Append(history, acting)
  /\ confidence' \in Estimates(observations', hasRetrieved')
  /\ acting' = "none"
  /\ pc' = "loop"
  /\ UNCHANGED <<task, cancelled, clock, status, stopped>>

StopSelected(cost) ==
  /\ pc = "executing"
  /\ acting \in StopReasons
  /\ Observe("text", cost)
  /\ StopWith(acting, history)
  /\ UNCHANGED <<task, cancelled, clock, hasRetrieved, verified, memoryErrors, confidence>>

Retrieved(cost) ==
  /\ pc = "executing"
  /\ acting = "retrieve"
  /\ observations' = Append(observations, "text")
  /\ streak' = 0
  /\ used' = Debited([used EXCEPT !.tokens = @ + cost])
  /\ hasRetrieved' = TRUE
  /\ UNCHANGED <<verified, memoryErrors>>
  /\ EndTurn

(* A run is recorded whatever its result, with the files modified so far;  *)
(* the failures it lists, which may be none, go to the memory.             *)
Verified(passed, listed, cost) ==
  /\ pc = "executing"
  /\ acting = "verify"
  /\ listed => ~passed
  /\ observations' = Append(observations, IF passed THEN "passed" ELSE "failed")
  /\ streak' = 0
  /\ used' = Debited([used EXCEPT !.tokens = @ + cost])
  /\ verified' = TRUE
  /\ memoryErrors' = (memoryErrors \/ listed)
  /\ UNCHANGED hasRetrieved
  /\ EndTurn

(* Only an answer that succeeded ends the run. *)
Responded(cost) ==
  /\ pc = "executing"
  /\ acting = "respond"
  /\ Observe("response", cost)
  /\ StopWith("TaskComplete", Append(history, "respond"))
  /\ UNCHANGED <<task, cancelled, clock, hasRetrieved, verified, memoryErrors, confidence>>

(* Mutants of ActionFails *)
Fails == pc = "executing" /\ acting \in {"retrieve", "verify", "respond"}

(* The debit is made on success only. *)
ActionFailsUndebited ==
  /\ Fails
  /\ observations' = Append(observations, IF streak + 1 < 3 THEN "error" ELSE "fatal")
  /\ streak' = streak + 1
  /\ UNCHANGED <<used, hasRetrieved, verified, memoryErrors>>
  /\ EndTurn

(* The streak is reset with every observation. *)
ActionFailsUncounted ==
  /\ Fails
  /\ observations' = Append(observations, IF streak + 1 < 3 THEN "error" ELSE "fatal")
  /\ streak' = 0
  /\ used' = Debited(used)
  /\ UNCHANGED <<hasRetrieved, verified, memoryErrors>>
  /\ EndTurn

(* A Respond is terminal whatever came of it. *)
ActionFailsTerminal ==
  /\ Fails
  /\ observations' = Append(observations, "error")
  /\ streak' = streak + 1
  /\ used' = Debited(used)
  /\ UNCHANGED <<hasRetrieved, verified, memoryErrors>>
  /\ IF acting = "respond"
       THEN /\ StopWith("TaskComplete", Append(history, "respond"))
            /\ UNCHANGED <<task, cancelled, clock, confidence>>
       ELSE EndTurn

(* The loop goes on at once, and nothing is recorded. *)
ActionFailsContinue ==
  /\ Fails
  /\ acting' = "none"
  /\ pc' = "loop"
  /\ UNCHANGED <<task, cancelled, clock, used, history, observations, streak,
                 hasRetrieved, verified, memoryErrors, confidence, status, stopped>>

(* The call returned an error; an error is recoverable until the third. *)
ActionFails ==
  /\ pc = "executing"
  /\ acting \in {"retrieve", "verify", "respond"}
  /\ observations' = Append(observations, IF streak + 1 < 3 THEN "error" ELSE "fatal")
  /\ streak' = streak + 1
  /\ used' = Debited(used)
  /\ UNCHANGED <<hasRetrieved, verified, memoryErrors>>
  /\ EndTurn

(* The plan path *)
StartPlan ==
  /\ pc = "start"
  /\ task.complexity = "Medium"
  /\ history' = Append(history, "plan")
  /\ pc' = "planning"
  /\ UNCHANGED <<task, cancelled, clock, used, observations, streak, hasRetrieved,
                 verified, memoryErrors, confidence, acting, status, stopped>>

(* Whatever became of the plan's steps, cancelled or failed ones included; *)
(* with no output at all and failed steps an error is observed.            *)
PlanReturns(outcome, cost) ==
  /\ pc = "planning"
  /\ used' = [used EXCEPT !.tokens = @ + cost]
  /\ observations' = observations \o
       (CASE outcome = "outputs" -> <<"response">>
          [] outcome = "failures" -> <<"fatal">>
          [] outcome = "nothing" -> <<>>)
  /\ StopWith("TaskComplete",
              history \o (IF outcome = "outputs" THEN <<"respond">> ELSE <<>>))
  /\ UNCHANGED <<task, cancelled, clock, streak, hasRetrieved, verified, memoryErrors,
                 confidence>>

(* No plan, or an engine that failed: run adds a Stopped of its own. *)
PlanFails ==
  /\ pc = "planning"
  /\ history' = Append(history, "Error")
  /\ status' = FinalStatus("Error")
  /\ stopped' = stopped \o <<Stopped("Error", Steps + 1), Stopped("Error", 0)>>
  /\ pc' = "done"
  /\ UNCHANGED <<task, cancelled, clock, used, observations, streak, hasRetrieved,
                 verified, memoryErrors, confidence, acting>>
-----------------------------------------------------------------------------
(* Outside of the loop *)
Cancel ==
  /\ pc # "done"
  /\ ~cancelled
  /\ cancelled' = TRUE
  /\ UNCHANGED <<pc, task, clock, used, history, observations, streak, hasRetrieved,
                 verified, memoryErrors, confidence, acting, status, stopped>>

(* The selector's clock starts when the loop is built, the loop's own when *)
(* it runs: the first is at its limit before the second is over it.        *)
Tick ==
  /\ pc # "done"
  /\ clock' = CASE clock = "plenty" -> "critical"
                [] clock = "critical" -> "exhausted"
                [] OTHER -> "over"
  /\ clock # "over"
  /\ UNCHANGED <<pc, task, cancelled, used, history, observations, streak, hasRetrieved,
                 verified, memoryErrors, confidence, acting, status, stopped>>

Run ==
  \/ StartFlatLoop
  \/ LoopStops
  \/ Select
  \/ \E cost \in Costs :
       \/ StopSelected(cost)
       \/ Retrieved(cost)
       \/ \E passed, listed \in BOOLEAN : Verified(passed, listed, cost)
       \/ Responded(cost)
       \/ \E outcome \in {"outputs", "failures", "nothing"} : PlanReturns(outcome, cost)
  \/ ActionFails
  \/ StartPlan
  \/ PlanFails

Next == Run \/ Cancel \/ Tick

Spec == Init /\ [][Next]_vars

(* Every call the loop awaits has a timeout; the run is polled to its end. *)
FairSpec == Spec /\ WF_vars(Run)
-----------------------------------------------------------------------------
Flat == task.complexity # "Medium"

(* No more retrievals or verifications are carried out than a positive     *)
(* limit allows, the failed ones included, and the flat loop executes no   *)
(* more steps than max_steps: the counters are debited on every path of    *)
(* run_inner and looked at before every action.                            *)
BudgetHeld ==
  /\ Limit.retrievals > 0 => Occurrences("retrieve") <= Limit.retrievals
  /\ Limit.verifies > 0 => Occurrences("verify") <= Limit.verifies
  /\ Flat => Cardinality({i \in DOMAIN history : history[i] \in Actions}) <= Limit.steps

(* Three failures in a row end the flat loop: no fourth action is carried  *)
(* out after three that failed, by should_stop and by the selector.        *)
StopsAfterThreeFailures ==
  \A i \in 3 .. Len(observations) - 1 :
    ~(\A j \in i - 2 .. i : observations[j] \in {"error", "fatal"})

(* A run of the flat loop is called complete only when it was answered, or *)
(* when the selector gave up one step before max_steps: a failed Respond   *)
(* never completes a task (the comment before the match on the action).    *)
CompletedOnGrounds ==
  pc = "done" /\ Flat /\ Last(history) = "TaskComplete"
    => \/ Last(observations) = "response"
       \/ Steps >= Limit.steps

(* The client is told once how a flat run ended, with the reason and the   *)
(* number of steps the history has, and a Stop ends the history; a run     *)
(* through the plan engine is told so first, whatever run adds.            *)
StoppedTellsTheRun ==
  pc = "done" =>
    /\ Len(stopped) >= 1
    /\ Flat => Len(stopped) = 1
    /\ stopped[1] = Stopped(Last(history), Steps)
    /\ \A i \in 1 .. Steps - 1 : history[i] \notin StopReasons

(* A Low task that resumes with modified files is verified before it is    *)
(* answered, unless time, tokens or steps run out: the pending             *)
(* verification outweighs whatever else the selector may do.               *)
ResumedLowIsVerified ==
  pc = "done" /\ task.complexity = "Low" /\ task.resumed /\ ~verified
    => \/ Last(history) # "TaskComplete"
       \/ Critical
       \/ Steps >= Limit.steps

(* The run comes to an end. *)
Termination == <>(pc = "done")

(* state.rs says of restore_from_mission that it forces the orchestrator   *)
(* to re-verify before the task can complete.                              *)
ResumeForcesVerification ==
  pc = "done" /\ Flat /\ task.resumed /\ Last(history) = "TaskComplete" => verified
=============================================================================
