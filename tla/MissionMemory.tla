----------------------------- MODULE MissionMemory -----------------------------
(***************************************************************************)
(* What a line of runs knows of its mission: the working memory and the    *)
(* verification state of a run (shared-types/src/memory.rs, verification.  *)
(* rs), the operations the loop applies to them (loop_runner.rs), the      *)
(* mission memory that is saved when a run ends (mission.rs, main.rs) and  *)
(* taken over by a run that resumes it (state.rs).                         *)
(*                                                                         *)
(* A claim is the content of an entry and stands for it.  Confidences and  *)
(* evidence are left out, and the steps of a plan are there or not.  Times *)
(* are nanoseconds: no two are equal.                                      *)
(***************************************************************************)
EXTENDS Naturals, FiniteSets, Sequences, SequencesExt, Functions

CONSTANTS Claims, Files,
          MaxMissions, MaxTime  \* missions saved, and the time of a run

VARIABLES running,
          known,            \* the claims somebody has made
          findings, hypotheses, facts, questions, invalidated, status, steps,
          modified,         \* when each of the files was modified
          verifications,    \* the runs of the verifier
          now,
          missions,         \* those saved
          givenUp, untested \* of this line of runs: claims refuted, or
                            \* superseded before they were facts; files modified
                            \* and not verified since

memoryVars  == <<findings, hypotheses, facts, questions, invalidated, status, steps>>
checkVars   == <<modified, verifications, now>>
missionVars == <<running, known, memoryVars, checkVars, missions, givenUp, untested>>

-----------------------------------------------------------------------------
(* The working memory. *)

NewClaim(c) ==
  /\ running /\ c \notin known
  /\ known' = known \cup {c}
  /\ status' = [status EXCEPT ![c] = "active"]
  /\ UNCHANGED <<running, facts, invalidated, steps, checkVars, missions, givenUp, untested>>

AddFinding(c) ==
  NewClaim(c) /\ findings' = findings \cup {c} /\ UNCHANGED <<hypotheses, questions>>

AddHypothesis(c) ==
  NewClaim(c) /\ hypotheses' = hypotheses \cup {c} /\ UNCHANGED <<findings, questions>>

AddQuestion(c) ==
  NewClaim(c) /\ questions' = questions \cup {c} /\ UNCHANGED <<findings, hypotheses>>

(* Whatever has become of it since. *)
PromoteToFact(c) ==
  /\ running /\ c \in findings
  /\ findings' = findings \ {c}
  /\ facts' = facts \cup {c}
  /\ status' = [status EXCEPT ![c] = "confirmed"]
  /\ UNCHANGED <<running, known, hypotheses, questions, invalidated, steps, checkVars,
                 missions, givenUp, untested>>

Invalidate(c) ==
  /\ running /\ c \in findings \cup hypotheses \cup facts
  /\ findings' = findings \ {c}
  /\ hypotheses' = hypotheses \ {c}
  /\ facts' = facts \ {c}
  /\ invalidated' = invalidated \cup {c}
  /\ status' = [status EXCEPT ![c] = "contradicted"]
  /\ givenUp' = givenUp \cup {c}
  /\ UNCHANGED <<running, known, questions, steps, checkVars, missions, untested>>

Supersede(c) ==
  /\ running /\ c \in findings \cup hypotheses \cup facts
  /\ status' = [status EXCEPT ![c] = "superseded"]
  /\ givenUp' = IF c \in hypotheses THEN givenUp \cup {c} ELSE givenUp
  /\ UNCHANGED <<running, known, findings, hypotheses, facts, questions, invalidated,
                 steps, checkVars, missions, untested>>

ResolveQuestion(c) ==
  /\ running /\ c \in questions
  /\ questions' = questions \ {c}
  /\ UNCHANGED <<running, known, findings, hypotheses, facts, invalidated, status, steps,
                 checkVars, missions, givenUp, untested>>

UpdatePlan ==
  /\ running /\ steps' = ~steps
  /\ UNCHANGED <<running, known, findings, hypotheses, facts, questions, invalidated,
                 status, checkVars, missions, givenUp, untested>>

ActiveEntries ==
  {c \in findings \cup hypotheses \cup facts \cup questions :
     status[c] \in {"active", "confirmed"}}

-----------------------------------------------------------------------------
(* The verification state.  The loop verifies the whole project. *)

RecordModification(f) ==
  /\ running /\ now < MaxTime
  /\ now' = now + 1
  /\ modified' = [g \in DOMAIN modified \cup {f} |-> IF g = f THEN now' ELSE modified[g]]
  /\ untested' = untested \cup {f}
  /\ UNCHANGED <<running, known, memoryVars, verifications, missions, givenUp>>

RecordRun ==
  /\ running /\ now < MaxTime
  /\ now' = now + 1
  /\ verifications' = Append(verifications, [timestamp |-> now', snapshot |-> modified])
  /\ untested' = {}
  /\ UNCHANGED <<running, known, memoryVars, modified, missions, givenUp>>

(* Mutant of ModifiedSince: only files that the run knew can be stale. *)
KnownModifiedSince(run, f) ==
  f \in DOMAIN run.snapshot /\ modified[f] > run.snapshot[f]

ModifiedSince(run, f) ==
  \/ f \in DOMAIN run.snapshot /\ modified[f] > run.snapshot[f]
  \/ f \notin DOMAIN run.snapshot /\ modified[f] > run.timestamp

VerificationFreshness ==
  CASE verifications = <<>> -> "none"
    [] verifications # <<>> /\ \E f \in DOMAIN modified :
         ModifiedSince(Last(verifications), f) -> "stale"
    [] OTHER -> "fresh"

-----------------------------------------------------------------------------
(* From one run to the next. *)

(* This is found out from the times alone. *)
UnverifiedFiles ==
  {f \in DOMAIN modified :
     verifications = <<>> \/ modified[f] > Last(verifications).timestamp}

(* Mutant of Believed: hypotheses are handed over like facts. *)
BelievedOnce == hypotheses

Believed == {c \in hypotheses : status[c] = "active"}

FromWorkingState ==
  [facts |-> facts, hypotheses |-> Believed, questions |-> questions, steps |-> steps,
   modified |-> DOMAIN modified, unverified |-> UnverifiedFiles,
   givenUp |-> givenUp, untested |-> untested]

(* What was modified does not count. *)
HasContent == facts # {} \/ Believed # {} \/ questions # {} \/ steps

(* A run that fails saves nothing. *)
EndRun ==
  /\ running /\ running' = FALSE
  /\ \/ UNCHANGED missions
     \/ /\ HasContent /\ Cardinality(missions) < MaxMissions
        /\ missions' = missions \cup {FromWorkingState}
  /\ UNCHANGED <<known, memoryVars, checkVars, givenUp, untested>>

(* The state of the next run is a new one. *)
RestoreFromMission(m) ==
  /\ ~running /\ running' = TRUE
  /\ facts' = m.facts
  /\ hypotheses' = m.hypotheses
  /\ questions' = m.questions
  /\ steps' = m.steps
  /\ findings' = {} /\ invalidated' = {}
  /\ status' = [c \in Claims |-> IF c \in m.facts THEN "confirmed" ELSE "active"]
  /\ now' = 1
  /\ modified' = [f \in m.modified \cup m.unverified |-> 1]
  /\ verifications' = <<>>
  /\ givenUp' = m.givenUp /\ untested' = m.untested
  /\ UNCHANGED <<known, missions>>

MissionInit ==
  /\ running = TRUE /\ known = {} /\ missions = {}
  /\ findings = {} /\ hypotheses = {} /\ facts = {} /\ questions = {}
  /\ invalidated = {} /\ status = [c \in Claims |-> "active"] /\ steps = FALSE
  /\ modified = <<>> /\ verifications = <<>> /\ now = 0
  /\ givenUp = {} /\ untested = {}

MemoryStep ==
  \E c \in Claims :
    \/ AddFinding(c) \/ AddHypothesis(c) \/ AddQuestion(c)
    \/ PromoteToFact(c) \/ Invalidate(c) \/ Supersede(c) \/ ResolveQuestion(c)

CheckStep == RecordRun \/ \E f \in Files : RecordModification(f)

LineStep == UpdatePlan \/ EndRun \/ \E m \in missions : RestoreFromMission(m)

MissionNext == MemoryStep \/ CheckStep \/ LineStep

MissionSpec == MissionInit /\ [][MissionNext]_missionVars

-----------------------------------------------------------------------------
(* Properties. *)

(* A claim that was refuted, or superseded while it was a hypothesis, is    *)
(* not taken for true again, neither in the run that gave it up nor in one  *)
(* that resumes it, unless somebody makes it anew (from_working_state,      *)
(* restore_from_mission).                                                   *)
GivenUpStaysOut == givenUp \cap ActiveEntries = {}

(* Through any line of runs, a file that was modified and not verified      *)
(* since is among those reported as unverified, and the verdict on the      *)
(* whole, which goes by what each verification knew, agrees with that list, *)
(* which goes by the times (freshness, from_working_state,                  *)
(* restore_from_mission).                                                   *)
UntestedIsReported ==
  /\ untested \subseteq UnverifiedFiles
  /\ VerificationFreshness = "fresh" => UnverifiedFiles = {}
  /\ VerificationFreshness = "stale" => UnverifiedFiles # {}
=============================================================================
