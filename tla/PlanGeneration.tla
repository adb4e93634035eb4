---------------------------- MODULE PlanGeneration ----------------------------
(***************************************************************************)
(* How a plan comes about for a task of medium or higher complexity, and   *)
(* where it goes (crates/planner, shared-types/src/plan.rs, run_with_plan  *)
(* in orchestrator-core/src/loop_runner.rs): an LLM is asked for a fast    *)
(* and for a safe plan; an answer that does not parse is asked for again;  *)
(* names become steps and dependencies, the plan is validated, collapsed   *)
(* and given a team; the better one is carried out, here if it is trivial, *)
(* and else by GraphRunner.  Without a plan the task becomes a single step.*)
(*                                                                         *)
(* A name is a sequence of parts, so that the suffix given to a repeated   *)
(* name is a further part.  A step is known by its place in the answer.    *)
(* Tokens are thousands and wrap around as in a release build.  Scores are *)
(* compared as exact fractions.                                            *)
(***************************************************************************)
EXTENDS Arrangements, Integers, FiniteSets, Sequences, Functions, FiniteSetsExt, SequencesExt

CONSTANTS Answers,       \* the step lists an LLM may answer, by candidate
          PlanTokens,    \* the token budget of the session
          TokenRange,    \* 2^32 tokens
          Complexities

(* A step as it is answered.  An answer without any counts as one that does *)
(* not parse.                                                               *)
RawStep ==
  [name : Seq(STRING), needs : Seq(Seq(STRING)), role : STRING, readOnly : BOOLEAN,
   inline : BOOLEAN, verify : BOOLEAN, tokens : Nat, nested : Nat]

ASSUME AnswersAssumption ==
  \A c \in {1, 2} : \A answer \in Answers[c] : answer \in Seq(RawStep) /\ answer # <<>>
ASSUME BudgetAssumption == PlanTokens \in Nat /\ TokenRange \in Nat \ {0}
ASSUME ComplexitiesAssumption == Complexities \subseteq {"Medium", "High", "Critical"}

VARIABLES complexity,
          candidates,    \* the two plans that compete
          course,        \* "planning", "in sequence", "graph", "done", "failed"
          chosen,        \* the plan
          carried        \* the steps carried out in sequence

planningVars == <<complexity, candidates, course, chosen, carried>>

-----------------------------------------------------------------------------
(* From an answer to steps. *)

Positions(answer) == DOMAIN answer

(* A repeated name gets the number of those before it. *)
UniqueName(answer, i) ==
  LET before == Cardinality({j \in 1 .. i - 1 : answer[j].name = answer[i].name})
  IN  IF before = 0 THEN answer[i].name ELSE Append(answer[i].name, ToString(before))

Bearers(answer, name) == {i \in Positions(answer) : UniqueName(answer, i) = name}

(* A number that is no name counts from 0. *)
AtIndex(answer, name) == {i \in Positions(answer) : name = <<ToString(i - 1)>>}

(* The last bearer of a name, the step of a number, or nothing.             *)
Resolved(answer, name) ==
  IF Bearers(answer, name) # {} THEN {Max(Bearers(answer, name))}
  ELSE AtIndex(answer, name)

(* What resolves to nothing is skipped. *)
Dependencies(answer, i) ==
  LET IsKnown(name) == Resolved(answer, name) # {}
      known == Selected(answer[i].needs, IsKnown)
  IN  [k \in DOMAIN known |-> CHOOSE j \in Resolved(answer, known[k]) : TRUE]

(* tasks: the descriptions a step carries, one after the other.             *)
Step(answer, i) ==
  [id |-> i, tasks |-> <<i>>, role |-> answer[i].role, readOnly |-> answer[i].readOnly,
   inline |-> answer[i].inline, verify |-> answer[i].verify, tokens |-> answer[i].tokens,
   dependsOn |-> Dependencies(answer, i), nested |-> answer[i].nested]

BuildSteps(answer) == [i \in Positions(answer) |-> Step(answer, i)]

-----------------------------------------------------------------------------
(* The graph of a plan. *)

Ids(plan) == {plan[i].id : i \in DOMAIN plan}

StepOf(plan, id) == plan[CHOOSE i \in DOMAIN plan : plan[i].id = id]

(* Kahn's algorithm, all that are free at once: each step reached with the   *)
(* number of rounds before it, which is its depth.                          *)
Free(plan, depths) ==
  {id \in Ids(plan) \ DOMAIN depths : ToSet(StepOf(plan, id).dependsOn) \subseteq DOMAIN depths}

Reach(plan, depths, n) ==
  [id \in DOMAIN depths \cup Free(plan, depths) |-> IF id \in DOMAIN depths THEN depths[id] ELSE n]

Depths(plan) ==
  LET reached[n \in 0 .. Len(plan)] ==
        IF n = 0 THEN <<>> ELSE Reach(plan, reached[n - 1], n - 1)
  IN  reached[Len(plan)]

HasCycle(plan) == DOMAIN Depths(plan) # Ids(plan)

ParallelGroups(plan) ==
  LET depths == Depths(plan)
  IN  {{id \in Ids(plan) : depths[id] = d} : d \in {depths[id] : id \in Ids(plan)}}

CriticalPath(plan) ==
  LET depths == Depths(plan) IN 1 + Max({depths[id] : id \in Ids(plan)})

MaxSubPlanDepth == 2

Valid(plan) ==
  /\ ~HasCycle(plan)
  /\ \A i \in DOMAIN plan :
       plan[i].nested > 0 => ~plan[i].inline /\ plan[i].nested <= MaxSubPlanDepth

MaxSteps ==
  CASE complexity = "Medium" -> 7 [] complexity = "High" -> 10
    [] complexity = "Critical" -> 15

-----------------------------------------------------------------------------
(* collapse_consecutive_read_only. *)

StepCap == Min({PlanTokens, 50})

(* Mutant of OnlyAfter: some dependency is enough. *)
AlsoAfter(b, a) == b.dependsOn # <<>> /\ Head(b.dependsOn) = a.id

OnlyAfter(b, a) == b.dependsOn = <<a.id>>

Mergeable(s) == s.readOnly /\ ~s.verify /\ s.inline

SumOfTokens(a, b) == (a.tokens + b.tokens) % TokenRange

Collapsible(plan) ==
  {p \in (DOMAIN plan) \X (DOMAIN plan) :
     LET a == plan[p[1]]
         b == plan[p[2]]
     IN  /\ p[1] # p[2]
         /\ Mergeable(a) /\ Mergeable(b)
         /\ OnlyAfter(b, a)
         /\ a.role = b.role
         /\ SumOfTokens(a, b) <= StepCap}

(* The pair found first, by the place of the earlier and then of the later. *)
FirstOf(pairs) ==
  CHOOSE p \in pairs : \A q \in pairs : p[1] < q[1] \/ (p[1] = q[1] /\ p[2] <= q[2])

(* What waited for the step removed waits for the one that is kept.         *)
Repointed(s, from, to) ==
  LET IsOther(d) == d # from
      others == Selected(s.dependsOn, IsOther)
  IN  IF ~Contains(s.dependsOn, from) THEN s
      ELSE [s EXCEPT !.dependsOn = IF Contains(others, to) THEN others
                                   ELSE Append(others, to)]

Merge(plan, keep, remove) ==
  LET kept    == plan[keep]
      removed == plan[remove]
      merged  == [plan EXCEPT ![keep].tasks  = @ \o removed.tasks,
                              ![keep].tokens = SumOfTokens(kept, removed)]
  IN  RemoveAt([i \in DOMAIN plan |-> Repointed(merged[i], removed.id, kept.id)], remove)

MergeOnce(plan) ==
  LET pairs == Collapsible(plan)
  IN  IF pairs = {} THEN plan ELSE Merge(plan, FirstOf(pairs)[1], FirstOf(pairs)[2])

(* Each merge removes a step. *)
Collapsed(plan) ==
  LET merged[n \in 0 .. Len(plan)] == IF n = 0 THEN plan ELSE MergeOnce(merged[n - 1])
  IN  merged[Len(plan)]

-----------------------------------------------------------------------------
(* generate_team. *)

NoTeam == [members |-> {}, mesh |-> FALSE]

NeedsTeam == complexity \in {"High", "Critical"}

Member(plan, role) ==
  [role |-> role,
   steps |-> {plan[i].id : i \in {j \in DOMAIN plan : plan[j].role = role}}]

Writers(plan, group) ==
  {id \in group : LET s == StepOf(plan, id) IN ~s.readOnly /\ s.verify}

TeamFor(plan) ==
  LET groups == ParallelGroups(plan)
  IN  IF ~NeedsTeam \/ \A g \in groups : Cardinality(g) <= 1 THEN NoTeam
      ELSE [members |-> {Member(plan, plan[i].role) : i \in DOMAIN plan},
            mesh    |-> \E g \in groups : Cardinality(Writers(plan, g)) > 1]

-----------------------------------------------------------------------------
(* A plan with its team, and the score of it. *)

NoPlan == [steps |-> <<>>, team |-> NoTeam]

(* Mutant of Finished: the team is put together first. *)
TeamFirst(plan) == [steps |-> Collapsed(plan), team |-> TeamFor(plan)]

Finished(plan) ==
  LET collapsed == Collapsed(plan)
  IN  [steps |-> collapsed, team |-> TeamFor(collapsed)]

TotalTokens(steps) == SumFunction([i \in DOMAIN steps |-> steps[i].tokens])

(* score_plan as a fraction.  Verification counts 35, cost 25, parallel     *)
(* groups 20, depth 15 and the number of steps 5, of 100.                   *)
PlanScore(steps) ==
  LET n        == Len(steps)
      verified == Cardinality({i \in DOMAIN steps : steps[i].verify})
      spared   == PlanTokens - Min({TotalTokens(steps), PlanTokens})
      groups   == IF n > 1 THEN n - Cardinality(ParallelGroups(steps)) ELSE 0
  IN  [num |-> PlanTokens * (35 * verified + 20 * groups
                               + 15 * (n - CriticalPath(steps)) + 5)
                 + 25 * n * spared,
       den |-> n * PlanTokens]

AtLeast(x, y) == x.num * y.den >= y.num * x.den

-----------------------------------------------------------------------------
(* generate_one: an error of the LLM ends it, and so does an answer that    *)
(* does not parse after one that did not; an empty list counts as one.      *)

Asked == [at |-> "asked", answer |-> <<>>, plan |-> NoPlan]

GivenUp == [at |-> "failed", answer |-> <<>>, plan |-> NoPlan]

Judged(answer) ==
  LET steps == BuildSteps(answer)
  IN  IF Valid(steps) /\ Len(steps) <= MaxSteps
      THEN [at |-> "planned", answer |-> answer, plan |-> Finished(steps)]
      ELSE [GivenUp EXCEPT !.answer = answer]

Settled(c) == candidates[c].at \in {"planned", "failed"}

Candidate(c, new) ==
  /\ course = "planning" /\ ~Settled(c)
  /\ candidates' = [candidates EXCEPT ![c] = new]
  /\ UNCHANGED <<complexity, course, chosen, carried>>

LlmError(c) == Candidate(c, GivenUp)

DoesNotParse(c) ==
  Candidate(c, IF candidates[c].at = "asked" THEN [Asked EXCEPT !.at = "asked again"]
               ELSE GivenUp)

Answer(c) == ~Settled(c) /\ \E answer \in Answers[c] : Candidate(c, Judged(answer))

-----------------------------------------------------------------------------
(* plan_competitive, and what run_with_plan does with the plan. *)

Planned == {c \in DOMAIN candidates : candidates[c].at = "planned"}

(* Mutant of Contenders: one that fails ends the competition. *)
AllOrNone == IF Planned = DOMAIN candidates THEN Planned ELSE {}

Contenders == Planned

(* Of two that score the same the last. *)
Winner ==
  LET best == {c \in Contenders : \A d \in Contenders :
                 AtLeast(PlanScore(candidates[c].plan.steps), PlanScore(candidates[d].plan.steps))}
  IN  Max(best)

(* DirectPlanner: one step, verified for some categories of tasks. *)
DirectPlan(verify, readOnly) ==
  [steps |-> <<[id |-> 1, tasks |-> <<1>>, role |-> "executor", readOnly |-> readOnly,
                inline |-> TRUE, verify |-> verify, nested |-> 0, dependsOn |-> <<>>,
                tokens |-> Min({PlanTokens \div 2, 50})]>>,
   team |-> NoTeam]

IsTrivial(steps) ==
  /\ Len(steps) <= 3
  /\ \A i \in DOMAIN steps : steps[i].inline /\ ~steps[i].verify
  /\ \A g \in ParallelGroups(steps) : Cardinality(g) <= 1

Route(plan) ==
  /\ chosen' = plan
  /\ course' = IF IsTrivial(plan.steps) THEN "in sequence" ELSE "graph"
  /\ UNCHANGED <<complexity, candidates, carried>>

Choose ==
  /\ course = "planning" /\ \A c \in DOMAIN candidates : Settled(c)
  /\ IF Contenders # {} THEN Route(candidates[Winner].plan)
     ELSE \E verify, readOnly \in BOOLEAN :
            ~(verify /\ readOnly) /\ Route(DirectPlan(verify, readOnly))

(* execute_trivial_plan: the steps in the order of the list. *)
CarryOut ==
  /\ course = "in sequence"
  /\ carried' = Append(carried, chosen.steps[Len(carried) + 1].id)
  /\ course' = IF Len(carried') = Len(chosen.steps) THEN "done" ELSE course
  /\ UNCHANGED <<complexity, candidates, chosen>>

CarryOutFails ==
  /\ course = "in sequence"
  /\ course' = "failed"
  /\ UNCHANGED <<complexity, candidates, chosen, carried>>

PlanningInit ==
  /\ complexity \in Complexities
  /\ candidates = [c \in {1, 2} |-> Asked]
  /\ course = "planning"
  /\ chosen = NoPlan /\ carried = <<>>

PlanningNext ==
  \/ \E c \in {1, 2} : LlmError(c) \/ DoesNotParse(c) \/ Answer(c)
  \/ Choose \/ CarryOut \/ CarryOutFails

PlanningSpec == PlanningInit /\ [][PlanningNext]_planningVars

-----------------------------------------------------------------------------
(* Properties. *)

(* What an answer says that step i waits for, told by names that no suffix  *)
(* of another name imitates.                                                *)
Unambiguous(answer) ==
  \A i, j \in Positions(answer) :
    answer[i].name = UniqueName(answer, j) => UniqueName(answer, j) = answer[j].name

FirstNamed(answer, name) ==
  {i \in Positions(answer) :
     answer[i].name = name /\ \A j \in 1 .. i - 1 : answer[j].name # name}

MustFollow(answer, i) ==
  UNION {FirstNamed(answer, answer[i].needs[k]) : k \in DOMAIN answer[i].needs}

(* The step of a plan that carries a task of the answer. *)
Holder(steps, task) ==
  CHOOSE s \in ToSet(steps) : Contains(s.tasks, task)

PositionIn(s, task) == CHOOSE k \in DOMAIN s.tasks : s.tasks[k] = task

Follows(steps, later, earlier) ==
  LET a == Holder(steps, earlier)
      b == Holder(steps, later)
  IN  \/ a = b /\ PositionIn(a, earlier) < PositionIn(a, later)
      \/ a # b /\ Contains(b.dependsOn, a.id)

(* A plan made of an answer carries every task of it once, and a task after *)
(* each of those that the answer names for it, through the resolution of    *)
(* repeated names and the merging of steps (build_steps_from_raw,           *)
(* collapse_consecutive_read_only).                                         *)
OrderKept ==
  \A c \in Planned :
    LET steps  == candidates[c].plan.steps
        answer == candidates[c].answer
    IN  /\ ~HasCycle(steps)
        /\ \A i \in Positions(answer) :
             Cardinality({s \in ToSet(steps) : Contains(s.tasks, i)}) = 1
        /\ Unambiguous(answer) =>
             \A i \in Positions(answer) : \A j \in MustFollow(answer, i) :
               Follows(steps, i, j)

(* A team shares out the steps of its plan as merged, each to one member.   *)
TeamOfThePlan ==
  \A c \in Planned :
    LET steps   == candidates[c].plan.steps
        members == candidates[c].plan.team.members
    IN  members # {} =>
          /\ UNION {m.steps : m \in members} = Ids(steps)
          /\ \A m, n \in members : m # n => m.steps \cap n.steps = {}

(* A candidate that fails, on an error, twice in parsing or in validation,  *)
(* does not cost the task the plan of the other (plan_competitive).         *)
OnePlanIsEnough ==
  course # "planning" /\ Planned # {} => \E c \in Planned : chosen = candidates[c].plan

(* The plan that is carried out is one that the answers ask for.            *)
PlannedAsAnswered == OrderKept /\ TeamOfThePlan /\ OnePlanIsEnough

(* What the doc of depends_on says: the steps in it must complete before    *)
(* the step can start.  A trivial plan is carried out in the order of its   *)
(* list.                                                                    *)
DependenciesFirst ==
  \A k \in DOMAIN carried :
    ToSet(StepOf(chosen.steps, carried[k]).dependsOn)
      \subseteq {carried[j] : j \in 1 .. k - 1}
=============================================================================
