----------------------------- MODULE GraphRunner -----------------------------
(***************************************************************************)
(* The plan engine of crates/orchestrator-core/src/graph_runner.rs:        *)
(* GraphRunner::execute and what it calls (process_results,                *)
(* execute_parallel, execute_sub_plan, try_replan), over the plan queries  *)
(* of crates/shared-types/src/plan.rs and the replans of crates/planner.   *)
(*                                                                         *)
(* Step identifiers are positions of the order in which planners create    *)
(* steps, so the order of a plan's step list is the order of its ids.  The *)
(* attributes of a step are functions of its id; its dependencies are      *)
(* chosen when the plan that contains it is made.  One task (the caller of *)
(* execute) moves pc; the steps in `running` are tokio tasks of their own  *)
(* (or, in a batch of one, the same task awaiting the executor).           *)
(***************************************************************************)
EXTENDS Integers, FiniteSets, Sequences, Functions

CONSTANTS
  MaxSteps,           \* bound: ids planners can allocate in one execution
  MaxInitial,         \* bound: steps of the first plan
  MaxNewSteps,        \* bound: steps one answer of the LLM planner adds
  Planners,           \* which Planner implementations answer replans
  MaxReplanAttempts,  \* MAX_REPLAN_ATTEMPTS
  TokenBudget,        \* GraphRunner.token_budget
  Estimate,           \* estimated_tokens of each step
  Cost,               \* token costs the executor may report for each step
  VerifyCost,         \* token costs a verify gate may report
  SubCost,            \* token costs the executor may report for a sub-step
  VerifyAfter,        \* steps with verify_after
  HasContract,        \* steps with an output contract
  SubPlan             \* the sub-plan of each step: depends_on of each sub-step

StepIds == 1..MaxSteps

ASSUME BoundsAssumption ==
  /\ MaxSteps \in Nat /\ MaxInitial \in 0..MaxSteps /\ MaxNewSteps \in Nat
  /\ MaxReplanAttempts \in Nat
  /\ TokenBudget \in Nat
ASSUME PlannersAssumption == Planners \subseteq {"llm", "direct"}
ASSUME AttributesAssumption ==
  /\ Estimate \in [StepIds -> Nat]
  /\ Cost \in [StepIds -> SUBSET Nat]
  /\ VerifyCost \subseteq Nat /\ SubCost \subseteq Nat
  /\ VerifyAfter \subseteq StepIds /\ HasContract \subseteq StepIds
  /\ SubPlan \in [StepIds -> Seq(SUBSET Nat)]

VARIABLES
  pc,            \* where execute is: top of its loop, spawning, in a sub-plan...
  cancelled,     \* GraphRunner.cancel, set by another thread
  planner,       \* the Planner the runner was built with
  status,        \* status[s]: StepStatus, "absent" when not in the plan
  deps,          \* deps[s]: depends_on
  nextId,        \* the id the next new step gets
  lastTerminal,  \* last_completed_count
  todo,          \* ids of the batch not yet dispatched
  solo,          \* is the batch a single step, run without tokio::spawn?
  running,       \* steps whose executor call has not returned
  outcome,       \* outcome[s]: the StepResult not yet processed, or "none"
  cost,          \* cost[s]: its tokens_used
  sub,           \* the sub-plan being walked
  tokensUsed,    \* GraphRunner.tokens_used
  replanCount,   \* replan_count
  stop,          \* why execute left its loop
  execs,         \* history: times each step was handed to the executor
  gated,         \* history: steps whose verify gate passed
  offBatch       \* history: tokens of verify gates and sub-plans

vars == <<pc, cancelled, planner, status, deps, nextId, lastTerminal, todo, solo,
          running, outcome, cost, sub, tokensUsed, replanCount, stop, execs,
          gated, offBatch>>

planVars  == <<planner, status, deps, nextId>>
batchVars == <<todo, solo, running, outcome, cost, sub, execs>>
countVars == <<lastTerminal, tokensUsed, replanCount, gated, offBatch>>

Statuses == {"absent", "pending", "completed", "failed", "replanned"}
Outcomes == {"none", "ok", "bad_output", "error"}
SubStatuses == {"pending", "completed", "failed"}
StopReasons == {"none", "cancelled", "budget", "complete", "max_replans",
                "replan_refused", "replan_failed", "deadlock", "no_progress",
                "unaffordable"}

-----------------------------------------------------------------------------
(* Queries on the plan. *)

InPlan    == {s \in StepIds : status[s] # "absent"}
Completed == {s \in StepIds : status[s] = "completed"}
Terminal  == {s \in StepIds : status[s] \in {"completed", "failed", "replanned"}}

(* Mutant of Ready: a failed dependency counts as satisfied. *)
ReadyOnTerminal ==
  {s \in StepIds : status[s] = "pending" /\ deps[s] \subseteq Terminal}

Ready == {s \in StepIds : status[s] = "pending" /\ deps[s] \subseteq Completed}

IsComplete  == InPlan \subseteq Terminal
HasFailures == \E s \in StepIds : status[s] = "failed"

(* No set of steps of which each waits for another one of the set. *)
Acyclic(ids, d) ==
  \A S \in SUBSET ids : S # {} => \E s \in S : d[s] \cap S = {}

(* The step of a set that comes first in the plan's step list. *)
First(S) == CHOOSE s \in S : \A t \in S : s <= t

-----------------------------------------------------------------------------
(* The choice of a batch. *)

Remaining == IF tokensUsed < TokenBudget THEN TokenBudget - tokensUsed ELSE 0

(* The trim accumulates the estimates of all earlier ready steps, the      *)
(* skipped ones included.                                                  *)
Affordable ==
  {s \in Ready : SumFunctionOnSet(Estimate, {t \in Ready : t <= s}) <= Remaining}

(* Mutant of Batch: nothing is trimmed until twice the whole budget. *)
BatchOfWholeBudget ==
  IF SumFunctionOnSet(Estimate, Ready) > TokenBudget * 2 THEN Affordable ELSE Ready

Batch ==
  IF SumFunctionOnSet(Estimate, Ready) > Remaining * 2 THEN Affordable ELSE Ready

NoProgress == Cardinality(Terminal) = lastTerminal /\ lastTerminal > 0

(* Neither cancellation nor the budget ends this iteration of the loop. *)
GoesOn == ~cancelled /\ tokensUsed < TokenBudget

NeedsReplan == GoesOn /\ Ready = {} /\ ~IsComplete /\ HasFailures

ReplanAffordable == Remaining >= (TokenBudget * 15) \div 100

(* The breaks of the loop, each with the condition that leads to it. *)
StopsFor(reason) ==
  \/ reason = "cancelled" /\ cancelled
  \/ reason = "budget" /\ ~cancelled /\ tokensUsed >= TokenBudget
  \/ reason = "complete" /\ GoesOn /\ Ready = {} /\ IsComplete
  \/ reason = "max_replans" /\ NeedsReplan /\ replanCount >= MaxReplanAttempts
  \/ /\ reason = "replan_refused"
     /\ NeedsReplan /\ replanCount < MaxReplanAttempts /\ ~ReplanAffordable
  \/ reason = "deadlock" /\ GoesOn /\ Ready = {} /\ ~IsComplete /\ ~HasFailures
  \/ reason = "no_progress" /\ GoesOn /\ Ready # {} /\ NoProgress
  \/ reason = "unaffordable" /\ GoesOn /\ Ready # {} /\ ~NoProgress /\ Batch = {}

-----------------------------------------------------------------------------
(* The loop of execute. *)

NoSub == [step |-> 0, status |-> <<>>, wave |-> {}, ok |-> TRUE, tokens |-> 0]

Init ==
  /\ pc = "loop"
  /\ cancelled \in BOOLEAN
  /\ planner \in Planners
  /\ nextId \in 1..(MaxInitial + 1)
  /\ status = [s \in StepIds |-> IF s < nextId THEN "pending" ELSE "absent"]
  /\ \E d \in [1..(nextId - 1) -> SUBSET (1..(nextId - 1))] :
       /\ Acyclic(1..(nextId - 1), d)
       /\ deps = [s \in StepIds |-> IF s < nextId THEN d[s] ELSE {}]
  /\ lastTerminal = 0
  /\ todo = {} /\ solo = FALSE /\ running = {}
  /\ outcome = [s \in StepIds |-> "none"]
  /\ cost = [s \in StepIds |-> 0]
  /\ sub = NoSub
  /\ tokensUsed = 0 /\ replanCount = 0
  /\ stop = "none"
  /\ execs = [s \in StepIds |-> 0]
  /\ gated = {} /\ offBatch = 0

Halt ==
  /\ pc = "loop"
  /\ \E reason \in StopReasons : StopsFor(reason) /\ stop' = reason
  /\ pc' = "done"
  /\ UNCHANGED <<cancelled, planVars, batchVars, countVars>>

StartBatch ==
  /\ pc = "loop"
  /\ GoesOn /\ Ready # {} /\ ~NoProgress /\ Batch # {}
  /\ pc' = "spawn"
  /\ todo' = Batch
  /\ solo' = (Cardinality(Batch) = 1)
  /\ lastTerminal' = Cardinality(Terminal)
  /\ UNCHANGED <<cancelled, planVars, running, outcome, cost, sub, execs,
                 tokensUsed, replanCount, gated, offBatch, stop>>

-----------------------------------------------------------------------------
(* execute_parallel: dispatch in plan order, sub-plans inline, then join. *)

HasSub(s) == DOMAIN SubPlan[s] # {}

SpawnTask ==
  /\ pc = "spawn" /\ todo # {} /\ ~HasSub(First(todo))
  /\ todo' = todo \ {First(todo)}
  /\ running' = running \cup {First(todo)}
  /\ execs' = [execs EXCEPT ![First(todo)] = @ + 1]
  /\ UNCHANGED <<pc, cancelled, planVars, solo, outcome, cost, sub, countVars, stop>>

(* The executor returns for s: Ok with or without success, or Err. *)
FinishTask(s) ==
  /\ s \in running /\ pc \in {"spawn", "sub"}
  /\ \/ /\ outcome' \in {[outcome EXCEPT ![s] = o] :
                           o \in {"ok", "error"} \cup
                                 (IF s \in HasContract THEN {"bad_output"} ELSE {})}
        /\ \E c \in Cost[s] : cost' = [cost EXCEPT ![s] = c]
     \/ /\ outcome' = [outcome EXCEPT ![s] = "error"]
        /\ cost' = [cost EXCEPT ![s] = 0]
  /\ running' = running \ {s}
  /\ UNCHANGED <<pc, cancelled, planVars, todo, solo, sub, execs, countVars, stop>>

(* The executor panics: a spawned task's JoinError becomes a failed        *)
(* result, but a batch of one runs on execute's own task, which dies.      *)
PanicTask(s) ==
  /\ s \in running /\ pc \in {"spawn", "sub"}
  /\ IF solo
     THEN pc' = "panicked" /\ UNCHANGED <<running, outcome, cost>>
     ELSE /\ outcome' = [outcome EXCEPT ![s] = "error"]
          /\ cost' = [cost EXCEPT ![s] = 0]
          /\ running' = running \ {s}
          /\ UNCHANGED pc
  /\ UNCHANGED <<cancelled, planVars, todo, solo, sub, execs, countVars, stop>>

Join ==
  /\ pc = "spawn" /\ todo = {} /\ running = {}
  /\ pc' = "process"
  /\ UNCHANGED <<cancelled, planVars, batchVars, countVars, stop>>

-----------------------------------------------------------------------------
(* execute_sub_plan: waves of ready sub-steps, each wave run in list order. *)

StartSubPlan ==
  /\ pc = "spawn" /\ todo # {} /\ HasSub(First(todo))
  /\ pc' = "sub"
  /\ todo' = todo \ {First(todo)}
  /\ execs' = [execs EXCEPT ![First(todo)] = @ + 1]
  /\ sub' = [NoSub EXCEPT !.step = First(todo),
                          !.status = [i \in DOMAIN SubPlan[First(todo)] |-> "pending"]]
  /\ UNCHANGED <<cancelled, planVars, solo, running, outcome, cost, countVars, stop>>

SubReady ==
  {i \in DOMAIN sub.status :
     /\ sub.status[i] = "pending"
     /\ \A j \in SubPlan[sub.step][i] : j \in DOMAIN sub.status /\ sub.status[j] = "completed"}

StartWave ==
  /\ pc = "sub" /\ sub.wave = {} /\ ~cancelled /\ SubReady # {}
  /\ sub' = [sub EXCEPT !.wave = SubReady]
  /\ UNCHANGED <<pc, cancelled, planVars, todo, solo, running, outcome, cost,
                 execs, countVars, stop>>

(* Mutant of RunSubStep: a sub-step whose executor answers Err stays pending. *)
RunSubStepAgainOnErr ==
  /\ pc = "sub" /\ sub.wave # {}
  /\ sub' = [sub EXCEPT !.wave = @ \ {First(sub.wave)}, !.ok = FALSE]
  /\ UNCHANGED <<pc, cancelled, planVars, todo, solo, running, outcome, cost,
                 execs, countVars, stop>>

RunSubStep ==
  /\ pc = "sub" /\ sub.wave # {}
  /\ LET i == First(sub.wave)
         Ended(how, t) == [sub EXCEPT !.wave = @ \ {i},
                                      !.status[i] = how,
                                      !.ok = @ /\ how = "completed",
                                      !.tokens = @ + t]
     IN  \/ \E how \in {"completed", "failed"}, t \in SubCost : sub' = Ended(how, t)
         \/ sub' = Ended("failed", 0)
  /\ UNCHANGED <<pc, cancelled, planVars, todo, solo, running, outcome, cost,
                 execs, countVars, stop>>

PanicSubStep ==
  /\ pc = "sub" /\ sub.wave # {}
  /\ pc' = "panicked"
  /\ UNCHANGED <<cancelled, planVars, batchVars, countVars, stop>>

(* The parent's result: a success only if every sub-step was completed.    *)
(* The aggregate's text is not the parent's own output, so a contract on   *)
(* the parent may reject it.                                               *)
EndSubPlan ==
  /\ pc = "sub" /\ sub.wave = {} /\ (cancelled \/ SubReady = {})
  /\ \E o \in Outcomes :
       /\ IF /\ sub.ok /\ ~cancelled
             /\ \A i \in DOMAIN sub.status : sub.status[i] # "pending"
          THEN o = "ok" \/ (o = "bad_output" /\ sub.step \in HasContract)
          ELSE o = "error"
       /\ outcome' = [outcome EXCEPT ![sub.step] = o]
  /\ cost' = [cost EXCEPT ![sub.step] = sub.tokens]
  /\ sub' = NoSub
  /\ pc' = "spawn"
  /\ UNCHANGED <<cancelled, planVars, todo, solo, running, execs, countVars, stop>>

-----------------------------------------------------------------------------
(* process_results: inline sub-plan results first, then tasks in order. *)

Arrived == {s \in StepIds : outcome[s] # "none"}

NextResult ==
  LET inline == {s \in Arrived : HasSub(s)}
  IN  First(IF inline # {} THEN inline ELSE Arrived)

(* One result leaves the list: its step gets status st, t more tokens are  *)
(* debited on top of the result's own.                                     *)
Settle(s, st, t) ==
  /\ status' = [status EXCEPT ![s] = st]
  /\ tokensUsed' = tokensUsed + cost[s] + t
  /\ offBatch' = offBatch + t + (IF HasSub(s) THEN cost[s] ELSE 0)
  /\ outcome' = [outcome EXCEPT ![s] = "none"]
  /\ cost' = [cost EXCEPT ![s] = 0]
  /\ UNCHANGED <<pc, cancelled, planner, deps, nextId, lastTerminal, todo, solo,
                 running, sub, replanCount, stop, execs>>

(* Mutant of RejectResult: a failed step goes back to pending for a retry. *)
RejectResultForRetry ==
  /\ pc = "process" /\ Arrived # {}
  /\ outcome[NextResult] \in {"bad_output", "error"}
  /\ Settle(NextResult, "pending", 0)
  /\ UNCHANGED gated

RejectResult ==
  /\ pc = "process" /\ Arrived # {}
  /\ outcome[NextResult] \in {"bad_output", "error"}
  /\ Settle(NextResult, "failed", 0)
  /\ UNCHANGED gated

(* Mutant of AcceptResult: the verify gate is skipped. *)
AcceptResultUnverified ==
  /\ pc = "process" /\ Arrived # {}
  /\ outcome[NextResult] = "ok"
  /\ Settle(NextResult, "completed", 0)
  /\ UNCHANGED gated

AcceptResult ==
  /\ pc = "process" /\ Arrived # {}
  /\ outcome[NextResult] = "ok" /\ NextResult \notin VerifyAfter
  /\ Settle(NextResult, "completed", 0)
  /\ UNCHANGED gated

(* verify_step answers passed, not passed, or Err (which costs nothing). *)
VerifyGate ==
  /\ pc = "process" /\ Arrived # {}
  /\ outcome[NextResult] = "ok" /\ NextResult \in VerifyAfter
  /\ \/ /\ \E t \in VerifyCost : Settle(NextResult, "completed", t)
        /\ gated' = gated \cup {NextResult}
     \/ /\ \E t \in VerifyCost \cup {0} : Settle(NextResult, "failed", t)
        /\ UNCHANGED gated

EndResults ==
  /\ pc = "process" /\ Arrived = {}
  /\ pc' = "loop"
  /\ UNCHANGED <<cancelled, planVars, batchVars, countVars, stop>>

-----------------------------------------------------------------------------
(* try_replan. *)

AskPlanner ==
  /\ pc = "loop"
  /\ NeedsReplan /\ replanCount < MaxReplanAttempts /\ ReplanAffordable
  /\ pc' = "replan"
  /\ UNCHANGED <<cancelled, planVars, batchVars, countVars, stop>>

PlannerFails ==
  /\ pc = "replan"
  /\ pc' = "done"
  /\ stop' = "replan_failed"
  /\ UNCHANGED <<cancelled, planVars, batchVars, countVars>>

(* Mutants of Merged: a failed step taken up again, the unfinished steps   *)
(* kept, every step retired.                                               *)
MergedRetried(s) == IF status[s] = "failed" THEN "pending" ELSE status[s]
MergedKept(s)    == IF status[s] = "failed" THEN "replanned" ELSE status[s]
MergedAll(s)     == IF status[s] = "absent" THEN "absent" ELSE "replanned"

(* What LlmPlanner::replan makes of a step of the old plan. *)
Merged(s) ==
  IF status[s] \in {"pending", "failed"} THEN "replanned" ELSE status[s]

(* New steps depend only on one another; nothing validates the new plan.   *)
(* DirectPlanner answers with a plan of a single retry step, without a     *)
(* sub-plan.                                                               *)
PlannerAnswers ==
  /\ pc = "replan"
  /\ \E last \in nextId..MaxSteps :
       LET new == nextId..last
       IN  /\ IF planner = "direct"
              THEN last = nextId /\ ~HasSub(nextId)
              ELSE last < nextId + MaxNewSteps
           /\ \E d \in [new -> SUBSET new] :
                /\ planner = "direct" => d[nextId] = {}
                /\ deps' = [s \in StepIds |-> IF s \in new THEN d[s] ELSE deps[s]]
           /\ status' = [s \in StepIds |->
                           IF s \in new THEN "pending"
                           ELSE IF planner = "llm" THEN Merged(s) ELSE "absent"]
           /\ nextId' = last + 1
  /\ replanCount' = replanCount + 1
  /\ pc' = "loop"
  /\ UNCHANGED <<cancelled, planner, batchVars, lastTerminal, tokensUsed, gated,
                 offBatch, stop>>

-----------------------------------------------------------------------------

(* Another thread sets the cancellation token. *)
Cancel ==
  /\ ~cancelled
  /\ cancelled' = TRUE
  /\ UNCHANGED <<pc, planVars, batchVars, countVars, stop>>

Terminating ==
  /\ pc \in {"done", "panicked"}
  /\ UNCHANGED vars

Progress ==
  \/ Halt \/ StartBatch
  \/ SpawnTask \/ Join
  \/ \E s \in StepIds : FinishTask(s) \/ PanicTask(s)
  \/ StartSubPlan \/ StartWave \/ RunSubStep \/ PanicSubStep \/ EndSubPlan
  \/ RejectResult \/ AcceptResult \/ VerifyGate \/ EndResults
  \/ AskPlanner \/ PlannerFails \/ PlannerAnswers

Next == Progress \/ Cancel \/ Terminating

Spec == Init /\ [][Next]_vars

(* execute is a task that tokio keeps polling, and every call it awaits    *)
(* returns: the providers' HTTP clients have a timeout and the verifier    *)
(* has one too.                                                            *)
FairSpec == Spec /\ WF_vars(Progress)
-----------------------------------------------------------------------------
(* Properties. *)

TypeOK ==
  /\ pc \in {"loop", "spawn", "sub", "process", "replan", "done", "panicked"}
  /\ cancelled \in BOOLEAN /\ planner \in Planners
  /\ status \in [StepIds -> Statuses]
  /\ deps \in [StepIds -> SUBSET StepIds]
  /\ nextId \in 1..(MaxSteps + 1)
  /\ lastTerminal \in Nat
  /\ todo \subseteq StepIds /\ solo \in BOOLEAN /\ running \subseteq StepIds
  /\ outcome \in [StepIds -> Outcomes]
  /\ cost \in [StepIds -> Nat]
  /\ sub \in [step : 0..MaxSteps, status : Seq(SubStatuses),
              wave : SUBSET Nat, ok : BOOLEAN, tokens : Nat]
  /\ tokensUsed \in Nat /\ replanCount \in Nat
  /\ stop \in StopReasons
  /\ execs \in [StepIds -> Nat]
  /\ gated \subseteq StepIds /\ offBatch \in Nat

(* A step is handed to the executor only after every step it depends on    *)
(* was completed, and those stay completed: whatever the batches, trims    *)
(* and replans did since (ready_steps, execute, LlmPlanner::replan).       *)
DependencyOrder ==
  \A s \in InPlan : execs[s] > 0 => deps[s] \subseteq Completed

(* No step is ever executed twice: not when a batch is trimmed, not when a *)
(* later batch or a replan follows while earlier work is already recorded. *)
AtMostOnce == \A s \in StepIds : execs[s] <= 1

(* A completed step was executed, and its verify gate, if it has one,      *)
(* passed: no path through process_results or try_replan completes a step  *)
(* on the strength of something else.                                      *)
CompletedWithEvidence ==
  \A s \in Completed : execs[s] = 1 /\ (s \in VerifyAfter => s \in gated)

(* The pre-reservation bounds the overshoot: an executor that keeps within *)
(* its estimates can take the run to at most twice the budget; only what   *)
(* the reservation does not see (verify gates, sub-plans) goes beyond.     *)
OvershootBounded ==
  (\A s \in StepIds : Cost[s] \subseteq 0..Estimate[s])
    => tokensUsed <= 2 * TokenBudget + offBatch

(* The no-progress guard never cuts a run short: whenever a step is ready, *)
(* the terminal count moved since the last batch, across trims and replans *)
(* of either planner.                                                      *)
ProgressGuardSilent == pc = "loop" /\ Ready # {} => ~NoProgress

(* A plan that was validated cannot deadlock, whichever steps fail: the    *)
(* deadlock break is reached only through an unvalidated answer of the LLM *)
(* planner whose new steps wait for one another.                           *)
DeadlockOnlyFromCyclicReplan ==
  stop = "deadlock" =>
    /\ replanCount > 0 /\ planner = "llm"
    /\ ~Acyclic({s \in StepIds : status[s] = "pending"}, deps)

(* The plan engine is an implementation of what PlanExecution promises.    *)
InFlight == running \cup Arrived \cup ({sub.step} \cap StepIds)

Phase ==
  [s \in StepIds |-> IF s \in InFlight THEN "running"
                     ELSE IF status[s] = "pending" THEN "waiting" ELSE status[s]]

Promise == INSTANCE PlanExecution
             WITH phase <- Phase, needs <- deps, used <- 1..(nextId - 1),
                  over <- pc \in {"done", "panicked"}

(* Every step of the runner is a step of PlanExecution or changes nothing  *)
(* of it: the batches, tasks, sub-plans, gates and replans of execute add  *)
(* no behaviour of their own.                                              *)
ImplementsPlanExecution == Promise!Spec

(* execute returns: no interleaving of results, gates, replans and         *)
(* cancellation leaves it looping or waiting for ever.                     *)
Termination == <>(pc \in {"done", "panicked"})

(* What the header of graph_runner.rs says: a verification failure         *)
(* triggers a replan, as long as attempts, budget and the caller's patience *)
(* last; so no run that gives up nothing ends with a failed gate.          *)
VerifyFailureTriggersReplan ==
  stop = "complete" /\ replanCount < MaxReplanAttempts =>
    \A s \in StepIds : ~(status[s] = "failed" /\ s \in VerifyAfter)
=============================================================================
