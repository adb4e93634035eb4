-------------------------- MODULE BaselineGovernance --------------------------
(***************************************************************************)
(* The quality baseline of a repository, as the commands of one terminal   *)
(* keep it (apps/dev-cli/src/main.rs, orchestrator-core/src/config.rs):    *)
(* `oco run` saves a run's artifacts, `eval-gate` judges the last run or   *)
(* an eval suite against the baseline, `baseline-save` overwrites it,      *)
(* `baseline-promote` replaces it under the gate, with a backup and an     *)
(* entry in the audit trail, and `baseline-history prune` shortens the     *)
(* trail.                                                                  *)
(*                                                                         *)
(* Commands run one after another, and one of them may stop at any step:   *)
(* the process is killed, or a write fails.  A file written in place       *)
(* (std::fs::write, std::fs::copy) is Torn from its truncation until its   *)
(* content is down; summary.json and scorecard.json are renamed into       *)
(* place and never are.  The command counter stands for the name given to  *)
(* each baseline, different for each.                                      *)
(***************************************************************************)
EXTENDS GateEvaluation, SequencesExt

CONSTANTS Missing, Torn,    \* states of a file other than its content
          RunData,          \* what a run may end with
          Suites,           \* eval results: sequences of scenario results
          Configs,          \* what oco.toml may say
          Keeps,            \* arguments of prune
          MaxCommands, MaxCrashes, MaxDay     \* bounds of the exploration

ASSUME FilesAssumption == Missing # Torn
ASSUME KeepsAssumption == Keeps \subseteq Nat
ASSUME SuitesAssumption ==
  \A suite \in Suites : Len(suite) \in Nat /\ DOMAIN suite = 1 .. Len(suite)
ASSUME UnknownAssumption == Unknown \notin {"high", "medium", "low", "none"}

VARIABLES config,           \* oco.toml
          run,              \* the newest run directory: its data, what is saved
          earlier,          \* the other run directories
          baseline, backup, \* .oco/baseline.json and its .json.bak
          history,          \* .oco/baseline-history.json, missing = empty
          cmd,              \* the command under way
          day,
          commands, crashes,
          report,           \* exit code of the last command, verdict behind it
          promoted,         \* names a promotion was reported for
          pruned,           \* names prune was reported to remove
          replaced          \* the baseline the last truncation cut, and by whom

files == <<run, earlier, baseline, backup, history>>
ghosts == <<promoted, pruned, replaced>>
baselineVars == <<config, files, cmd, day, commands, crashes, report, ghosts>>

Idle == [pc |-> "idle"]
NoReport == [code |-> Unknown, verdict |-> Unknown]

-----------------------------------------------------------------------------
(* Scorecards of the candidates. *)

Weights == config.weights

(* Mutant of Reconstructed: the mission is asked for what the summary       *)
(* does not tell.                                                           *)
TrustFromMission(r) ==
  LET told == [NoData EXCEPT !.success = r.data.success, !.tokens = r.data.tokens,
                             !.replans = r.data.replans]
  IN  Build(IF r.stage = "mission" THEN WithMission(told, r.data.mission, r.data.trust)
            ELSE told, Weights)

(* What is rebuilt without a scorecard.json: the summary holds no verdict   *)
(* on trust, so none is given, whatever the mission says.                   *)
Reconstructed(r) ==
  LET told == [NoData EXCEPT !.success = r.data.success, !.trust = "none",
                             !.tokens = r.data.tokens, !.replans = r.data.replans]
  IN  Build(IF r.stage = "mission" THEN WithMission(told, r.data.mission, r.data.trust)
            ELSE told, Weights)

ScenarioData(result) ==
  [NoData EXCEPT !.success = result.success, !.tokens = result.tokens,
                 !.verified = result.verified, !.errors = result.errors]

SavedCard(r) == Build(r.data, Weights)

IsContent(file) == file \notin {Missing, Torn}

(* The scorecard in what a command is given; Unknown when there is none to  *)
(* read.  A run is given by its id or directory, or as "last"; a run that   *)
(* is saved also by its scorecard.json, alone or as a copy.                 *)
CardOfRun(r) ==
  CASE r.stage \in {"none", "started"} -> Unknown
    [] r.stage = "saved"              -> SavedCard(r)
    [] OTHER                          -> Reconstructed(r)

CardOfFile(file) == IF IsContent(file) THEN file.card ELSE Unknown

CardOfSuite(suite) ==
  IF suite = <<>> THEN Unknown
  ELSE Aggregate([i \in DOMAIN suite |-> Build(ScenarioData(suite[i]), Weights)])

Candidates ==
  {CardOfRun(r) : r \in {run} \cup earlier}
    \cup {CardOfFile(file) : file \in {baseline, backup}}
    \cup {CardOfSuite(suite) : suite \in Suites}

-----------------------------------------------------------------------------
(* The gate on the baseline file: an EvalBaseline, or a bare scorecard with *)
(* no name and no date, which only eval-gate takes.                         *)

Baseline(name, card) == [name |-> name, created |-> day, card |-> card]
Bare(card) == [name |-> Unknown, created |-> Unknown, card |-> card]

IsBaseline(file) == IsContent(file) /\ file.name # Unknown

Days(given, default) == IF given = Unknown THEN default ELSE given

AgeOf(file) ==
  Freshness(file.created, day, Days(config.fresh, 14), Days(config.stale, 30))

VerdictOn(card) == GateVerdict(ResolvePolicy(config), baseline.card, card)

(* The record of a promotion; no verdict when there is nothing to replace.  *)
Record(name, card) ==
  IF baseline = Missing
  THEN [old |-> Missing, new |-> name, verdict |-> Unknown,
        recommendation |-> "promote"]
  ELSE LET verdict == VerdictOn(card)
       IN  [old |-> baseline.name, new |-> name, verdict |-> verdict,
            recommendation |-> Recommendation(verdict, AgeOf(baseline))]

-----------------------------------------------------------------------------
(* The audit trail. *)

(* Mutant of NextNumber: numbers follow the length of the trail. *)
NumberByLength(entries) == Len(entries) + 1

NextNumber(entries) == IF entries = <<>> THEN 1 ELSE Last(entries).seq + 1

Appended(entries, record) ==
  Append(entries, [seq |-> NextNumber(entries), promotion |-> record])

(* Mutant of Newest: the other end of the trail stays. *)
Oldest(entries, keep) == SubSeq(entries, 1, keep)

Newest(entries, keep) ==
  SubSeq(entries, Len(entries) - keep + 1, Len(entries))

NamesIn(entries) == {entries[i].promotion.new : i \in DOMAIN entries}

(* Mutant of LoadHistory: a file that does not parse counts as none. *)
ForgivingHistory == IF history = Torn THEN <<>> ELSE history

LoadHistory == history      \* Torn: an error

-----------------------------------------------------------------------------
(* A command ends, reporting an exit code. *)

Report(code, verdict) ==
  /\ cmd' = Idle
  /\ report' = [code |-> code, verdict |-> verdict]

Starts == cmd = Idle /\ commands < MaxCommands /\ commands' = commands + 1

GoesOn(command) == cmd' = command /\ report' = NoReport

Refused(code, verdict) ==
  /\ Report(code, verdict)
  /\ UNCHANGED <<config, files, day, crashes, ghosts>>

(* save_run_artifacts: the directory and trace.jsonl, summary.json,          *)
(* mission.json when there is something to hand over, scorecard.json.       *)
RunBegin ==
  /\ Starts
  /\ \E data \in RunData : run' = [stage |-> "started", data |-> data]
  /\ earlier' = IF run.stage = "none" THEN earlier ELSE earlier \cup {run}
  /\ GoesOn([pc |-> "saving"])
  /\ UNCHANGED <<config, baseline, backup, history, day, crashes, ghosts>>

NextStage ==
  CASE run.stage = "started" -> "summary"
    [] run.stage = "summary" /\ run.data.mission -> "torn mission"
    [] run.stage = "torn mission" -> "mission"
    [] OTHER -> "saved"

RunSave ==
  /\ cmd.pc = "saving"
  /\ run' = [run EXCEPT !.stage = NextStage]
  /\ IF NextStage = "saved" THEN Report(0, Unknown) ELSE UNCHANGED <<cmd, report>>
  /\ UNCHANGED <<config, earlier, baseline, backup, history, day, commands, crashes, ghosts>>

(* cmd_eval_gate.  Every error ends the process with 1, as main returns it.  *)
EvalGate(card) ==
  /\ Starts
  /\ IF ValidConfig(config) /\ IsContent(baseline) /\ card # Unknown
     THEN LET verdict == VerdictOn(card)
          IN  Refused(ExitCode(verdict), verdict)
     ELSE Refused(1, Unknown)

(* cmd_baseline_save: no gate, no backup, no entry in the trail. *)
SaveBegin(card) ==
  /\ Starts
  /\ IF ValidConfig(config) /\ card # Unknown
     THEN /\ GoesOn([pc |-> "overwriting", new |-> Baseline(commands, card)])
          /\ baseline' = Torn
          /\ replaced' = [by |-> "save", file |-> baseline]
          /\ UNCHANGED <<config, run, earlier, backup, history, day, crashes, promoted,
                         pruned>>
     ELSE Refused(1, Unknown)

SaveEnd ==
  /\ cmd.pc = "overwriting"
  /\ baseline' = cmd.new
  /\ Report(0, Unknown)
  /\ UNCHANGED <<config, run, earlier, backup, history, day, commands, crashes, ghosts>>

(* promote_baseline. *)

(* Mutant of AfterGate: the old baseline is not copied. *)
NoCopy == "backed up"

AfterGate == IF baseline = Missing THEN "backed up" ELSE "gated"

PromoteBegin(card, force) ==
  /\ Starts
  /\ IF ValidConfig(config) /\ card # Unknown
          /\ (baseline = Missing \/ IsBaseline(baseline))
     THEN LET record == Record(commands, card)
          IN  IF record.recommendation = "reject" /\ ~force
              THEN Refused(2, record.verdict)
              ELSE /\ GoesOn([pc |-> AfterGate, force |-> force,
                              record |-> record, new |-> Baseline(commands, card)])
                   /\ UNCHANGED <<config, files, day, crashes, ghosts>>
     ELSE Refused(1, Unknown)

BackupBegin ==
  /\ cmd.pc = "gated"
  /\ cmd' = [cmd EXCEPT !.pc = "backing up"]
  /\ backup' = Torn
  /\ UNCHANGED <<config, run, earlier, baseline, history, day, commands, crashes, report, ghosts>>

BackupEnd ==
  /\ cmd.pc = "backing up"
  /\ cmd' = [cmd EXCEPT !.pc = "backed up"]
  /\ backup' = baseline
  /\ UNCHANGED <<config, run, earlier, baseline, history, day, commands, crashes, report, ghosts>>

WriteBegin ==
  /\ cmd.pc = "backed up"
  /\ cmd' = [cmd EXCEPT !.pc = "writing"]
  /\ baseline' = Torn
  /\ replaced' = [by |-> "promote", file |-> baseline]
  /\ UNCHANGED <<config, run, earlier, backup, history, day, commands, crashes, report,
                 promoted, pruned>>

WriteEnd ==
  /\ cmd.pc = "writing"
  /\ cmd' = [cmd EXCEPT !.pc = "written"]
  /\ baseline' = cmd.new
  /\ UNCHANGED <<config, run, earlier, backup, history, day, commands, crashes, report, ghosts>>

(* The trail is read after the baseline was replaced: one that does not     *)
(* parse fails a promotion that has taken place.                            *)
AppendBegin ==
  /\ cmd.pc = "written"
  /\ IF LoadHistory = Torn
     THEN Refused(1, Unknown) /\ UNCHANGED commands
     ELSE /\ cmd' = [pc |-> "appending", record |-> cmd.record,
                     entries |-> Appended(LoadHistory, cmd.record)]
          /\ history' = Torn
          /\ UNCHANGED <<config, run, earlier, baseline, backup, day, commands, crashes,
                         report, ghosts>>

AppendEnd ==
  /\ cmd.pc = "appending"
  /\ history' = cmd.entries
  /\ promoted' = promoted \cup {cmd.record.new}
  /\ Report(0, cmd.record.verdict)
  /\ UNCHANGED <<config, run, earlier, baseline, backup, day, commands, crashes, pruned, replaced>>

(* cmd_baseline_history_prune: the newest entries stay. *)
PruneBegin(keep) ==
  /\ Starts
  /\ CASE history = Torn -> Refused(1, Unknown)
       [] history # Torn /\ Len(history) <= keep -> Refused(0, Unknown)
       [] OTHER ->
            /\ GoesOn([pc |-> "pruning", entries |-> Newest(history, keep),
                       gone |-> NamesIn(history) \ NamesIn(Newest(history, keep))])
            /\ history' = Torn
            /\ UNCHANGED <<config, run, earlier, baseline, backup, day, crashes, ghosts>>

PruneEnd ==
  /\ cmd.pc = "pruning"
  /\ history' = cmd.entries
  /\ pruned' = pruned \cup cmd.gone
  /\ Report(0, Unknown)
  /\ UNCHANGED <<config, run, earlier, baseline, backup, day, commands, crashes, promoted, replaced>>

(* The command stops where it is; files stay as they are. *)
Crash ==
  /\ cmd # Idle /\ crashes < MaxCrashes
  /\ cmd' = Idle
  /\ crashes' = crashes + 1
  /\ report' = NoReport
  /\ UNCHANGED <<config, files, day, commands, ghosts>>

Day ==
  /\ cmd = Idle /\ day < MaxDay
  /\ day' = day + 1
  /\ UNCHANGED <<config, files, cmd, commands, crashes, report, ghosts>>

BaselineInit ==
  /\ config \in Configs
  /\ run = [stage |-> "none", data |-> Unknown]
  /\ \/ earlier = {} /\ baseline = Missing
     \/ \E data \in RunData :
          /\ earlier = {[stage |-> "saved", data |-> data]}
          /\ baseline = Bare(Build(data, Weights))
  /\ backup = Missing
  /\ history = <<>>
  /\ cmd = Idle
  /\ day = 0 /\ commands = 0 /\ crashes = 0
  /\ report = NoReport
  /\ promoted = {} /\ pruned = {}
  /\ replaced = [by |-> "nobody", file |-> Missing]

BaselineNext ==
  \/ RunBegin \/ RunSave
  \/ /\ cmd = Idle /\ commands < MaxCommands
     /\ \E card \in Candidates :
          \/ EvalGate(card)
          \/ SaveBegin(card)
          \/ \E force \in BOOLEAN : PromoteBegin(card, force)
  \/ SaveEnd
  \/ BackupBegin \/ BackupEnd \/ WriteBegin \/ WriteEnd
  \/ AppendBegin \/ AppendEnd
  \/ \E keep \in Keeps : PruneBegin(keep)
  \/ PruneEnd \/ Crash \/ Day

BaselineSpec == BaselineInit /\ [][BaselineNext]_baselineVars
-----------------------------------------------------------------------------
(* Properties. *)

(* A baseline cut short by a promotion that stopped while writing is in the *)
(* backup as it was (the copy of promote_baseline comes first and is whole, *)
(* and nothing later spoils it before the baseline is written again).       *)
CopyKept ==
  baseline = Torn /\ replaced.by = "promote" /\ replaced.file # Missing
    => backup = replaced.file

(* The numbers of the trail follow one another without a gap or a repeat,   *)
(* through prunes, stops and failed appends (BaselineHistory::append).      *)
AuditNumbered ==
  history # Torn =>
    \A i \in 1..Len(history) - 1 : history[i + 1].seq = history[i].seq + 1

(* What a promotion reported is in every trail that can be read, until a    *)
(* prune removes it: no later command loses it by starting a new trail.     *)
ReportedIsRecorded == history # Torn => promoted \ pruned \subseteq NamesIn(history)

(* A trail that can be read is whole: numbered without a gap or a repeat,   *)
(* and with every promotion reported and not pruned.                        *)
TrailIsWhole == AuditNumbered /\ ReportedIsRecorded

(* A baseline whose promotion was reported is the one the newest entry of a *)
(* readable trail names: an audit that starts at the end of the trail       *)
(* starts at the baseline in use.                                           *)
AuditTellsTheBaseline ==
  history # Torn /\ history # <<>> /\ IsBaseline(baseline) /\ baseline.name \in promoted
    => Last(history).promotion.new = baseline.name

(* What replaces a baseline without --force, under a policy that blocks on  *)
(* trust, is the scorecard of a run whose artifacts were all saved, be it   *)
(* read from the run, from the baseline or its backup, or from a copy: a    *)
(* run cut short while it was saved, rebuilt from what is left, and an eval *)
(* suite have no verdict on trust, also when baseline-save or --force made  *)
(* a baseline of them that is offered again.                                *)
NoTrustNoPromotion ==
  cmd.pc = "gated" /\ ~cmd.force /\ config.policy # "lenient"
    => \E r \in {run} \cup earlier : r.stage = "saved" /\ cmd.new.card = SavedCard(r)
=============================================================================
