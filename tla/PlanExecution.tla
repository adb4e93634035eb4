---------------------------- MODULE PlanExecution ----------------------------
(***************************************************************************)
(* What the plan engine promises to its caller, without batches, tasks,    *)
(* verify gates, budgets or planners: the steps of a DAG are carried out   *)
(* at most once each, a step only after everything it depends on, a plan   *)
(* is revised only while nothing is being carried out, and nothing happens *)
(* after the execution is over.  GraphRunner implements this.              *)
(***************************************************************************)
CONSTANT StepIds        \* every identifier a plan may ever use

VARIABLES
  phase,   \* phase[s]: where step s is in its life
  needs,   \* needs[s]: the steps s depends on
  used,    \* the identifiers that have ever been in a plan
  over     \* has the execution returned?

vars == <<phase, needs, used, over>>

Phases == {"absent", "waiting", "running", "completed", "failed", "replanned"}

Done == {s \in StepIds : phase[s] = "completed"}

TypeOK ==
  /\ phase \in [StepIds -> Phases]
  /\ needs \in [StepIds -> SUBSET StepIds]
  /\ used \subseteq StepIds
  /\ over \in BOOLEAN

Init ==
  /\ phase \in [StepIds -> {"absent", "waiting"}]
  /\ needs \in [StepIds -> SUBSET StepIds]
  /\ used = {s \in StepIds : phase[s] = "waiting"}
  /\ over = FALSE

(* A waiting step is begun once all it depends on is completed. *)
Begin(s) ==
  /\ ~over
  /\ phase[s] = "waiting"
  /\ needs[s] \subseteq Done
  /\ phase' = [phase EXCEPT ![s] = "running"]
  /\ UNCHANGED <<needs, used, over>>

(* A running step ends, one way or the other. *)
End(s) ==
  /\ ~over
  /\ phase[s] = "running"
  /\ \E how \in {"completed", "failed"} : phase' = [phase EXCEPT ![s] = how]
  /\ UNCHANGED <<needs, used, over>>

(* What a revision may make of a step of the old plan: completed work is   *)
(* kept or the whole plan is dropped, unfinished work is retired, and only *)
(* an identifier never used before becomes a new waiting step.             *)
Kept(s) == IF phase[s] \in {"absent", "completed"} THEN phase[s] ELSE "replanned"

Revise(new, keep) ==
  /\ ~over
  /\ \A s \in StepIds : phase[s] # "running"
  /\ phase' = [s \in StepIds |->
                 IF s \in new THEN "waiting"
                 ELSE IF keep THEN Kept(s) ELSE "absent"]
  /\ needs' \in [StepIds -> SUBSET StepIds]
  /\ \A s \in StepIds \ new : needs'[s] = needs[s]
  /\ used' = used \cup new
  /\ UNCHANGED over

(* The execution returns (or its thread dies); it never resumes. *)
Finish ==
  /\ ~over
  /\ over' = TRUE
  /\ UNCHANGED <<phase, needs, used>>

Next ==
  \/ \E s \in StepIds : Begin(s) \/ End(s)
  \/ \E new \in SUBSET (StepIds \ used), keep \in BOOLEAN : Revise(new, keep)
  \/ Finish

Spec == Init /\ [][Next]_vars
==============================================================================
