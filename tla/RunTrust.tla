------------------------------- MODULE RunTrust -------------------------------
(***************************************************************************)
(* The trust verdict that is saved with a run of the orchestration loop    *)
(* (OrchestrationState::create_mission_memory, TrustVerdict::compute), as  *)
(* a function of the state the run ended in.  The scorecard of the run     *)
(* takes it, and through it the gate of BaselineGovernance.                *)
(*                                                                         *)
(* The flat loop modifies no file: what is modified was restored when the  *)
(* run began.  It verifies the whole project, with one strategy for all of *)
(* a run: Build for a task that writes, RunTests for the others.           *)
(***************************************************************************)
EXTENDS OrchestrationLoop

PolicyPacks == {"fast", "balanced", "strict"}
Strategies  == {"Build", "RunTests"}

MandatoryStrategies(pack) ==
  CASE pack = "fast"     -> {"Build"}
    [] pack = "balanced" -> {"Build", "RunTests"}
    [] pack = "strict"   -> {"Build", "RunTests", "Lint", "TypeCheck"}

(* The strategies have names in capitals; a mandatory one is looked for by  *)
(* its name in small letters.                                               *)
Lowercase ==
  [Build |-> "build", RunTests |-> "runtests", Lint |-> "lint", TypeCheck |-> "typecheck"]

(* The runs the loop recorded, under the name of the strategy as it is.     *)
VerificationRuns(strategy) ==
  LET IsRun(kind) == kind \in {"passed", "failed"}
      results     == SelectSeq(observations, IsRun)
  IN  [i \in DOMAIN results |-> [strategy |-> strategy, passed |-> results[i] = "passed"]]

(* A run covers every file, and none is modified after the restoration. *)
Freshness(runs) == IF runs = <<>> THEN "none" ELSE "fresh"

AllMandatoryPassed(runs, pack) ==
  \A i \in DOMAIN runs :
    (\E s \in MandatoryStrategies(pack) : Lowercase[s] = runs[i].strategy) => runs[i].passed

UnverifiedSensitive(runs, sensitive) == runs = <<>> /\ task.resumed /\ sensitive

TrustVerdict(freshness, mandatoryPassed, unverifiedSensitive) ==
  CASE freshness = "fresh" /\ mandatoryPassed ->
         IF unverifiedSensitive THEN "medium" ELSE "high"
    [] freshness = "fresh" /\ ~mandatoryPassed -> "low"
    [] freshness = "none"                      -> IF mandatoryPassed THEN "none" ELSE "low"

(* The verdict in a repository with the pack, whose files are sensitive or  *)
(* not.                                                                     *)
Trust(pack, strategy, sensitive) ==
  LET runs == VerificationRuns(strategy)
  IN  TrustVerdict(Freshness(runs), AllMandatoryPassed(runs, pack),
                   UnverifiedSensitive(runs, sensitive))

-----------------------------------------------------------------------------
(* telemetry.rs says of a high trust: all mandatory checks passed,          *)
(* verification is fresh, no unverified files.  Then at least the last run  *)
(* of a check that is mandatory passed (create_mission_memory).             *)
HighTrustIsEarned ==
  pc = "done" =>
    \A pack \in PolicyPacks, strategy \in Strategies, sensitive \in BOOLEAN :
      LET runs == VerificationRuns(strategy)
      IN  /\ Trust(pack, strategy, sensitive) = "high"
          /\ strategy \in MandatoryStrategies(pack)
          => Last(runs).passed
=============================================================================
