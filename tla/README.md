# TLA+ models of OCO

TLA+ specifications of the orchestrator in this repository, their TLC
configurations and TLAPS proofs.  Paths below are relative to the repository;
`orchestrator-core`, `mcp-server`, ... are the crates of that name.

## The system

OCO is an orchestration server for coding agents.  A client asks the MCP server
for a session; the session runs an orchestration loop on a thread of its own; a
medium or larger task is planned into a DAG of steps and executed by the plan
engine; what happens is streamed to a web dashboard.

| Component | State it keeps | Operations | What makes it correct |
|---|---|---|---|
| Plan engine (`orchestrator-core/src/graph_runner.rs`, `shared-types/src/plan.rs`) | the plan and its step statuses, tokens used, replan count, cancellation token | `execute` and its batches, tasks, sub-plans, verify gates, replans | dependencies completed first, no step twice, completed means gated, bounded overshoot, it ends |
| Planners (`planner`, `plan.rs`, `run_with_plan`) | none | `plan_competitive`, `plan`, `replan`, `execute_trivial_plan` | a plan is what the answer asks for, in its order; one good candidate is enough; a replan keeps what is done and retires the rest |
| Session manager (`mcp-server/src/session_manager.rs`) | map of sessions: status, token, hook log, event log, broadcast sender | create, track, stop, record hook, save snapshot, subscribe, inject | bounded admission, status moves forward, stop ends the thread |
| Live feed (`mcp-server/src/dashboard.rs`, `shared-types/src/dashboard.rs`, `apps/dashboard/src/lib/sse.ts`) | event log, broadcast channel, client cursor | bridge, inject, connect, catch up, receive, lag, reconnect | every event once and in order to every reader |
| Hook endpoints (`mcp-server/src/hooks.rs`) | rate-limit window and count | one handler per Claude Code event | limit per second, timeouts |
| Orchestration loop (`orchestrator-core/src/loop_runner.rs`, `state.rs`) | session budget, observations, memory, verification state, status | `run`, flat loop, plan path | budget and cancellation respected, status says what happened, verification fresh |
| Policy engine (`policy-engine`) | none | score candidates, gate writes, budget checks | gates deny, budget categories |
| Action scheduler (`policy-engine/src/scheduler.rs`) | none | `schedule` | waves and slack are those of the graph |
| Replay (`orchestrator-core/src/replay.rs`) | playback state, speed, event list | run, pause, resume, speed, remove | paused means paused, resumed means played to the end |
| Teams (`shared-types/src/team.rs`, `agent.rs`) | task list and claims, agent registry | claim, complete, fail, sync, revoke, reserve, health check, spawn, dismiss | no late result counts, no agent over its slots, only silent ones die |
| Missions (`shared-types/src/memory.rs`, `mission.rs`, `verification.rs`) | working memory, modified files, verifications | promote, invalidate, supersede, record, save, restore | what was refuted or not verified stays so in the next run |
| Gates, scorecards, baselines (`shared-types/src/gate.rs`, `scorecard.rs`, `orchestrator-core/src/scorecard.rs`, `config.rs`, the commands of `apps/dev-cli/src/main.rs`) | baseline, its backup, the audit trail, run artifacts | save a run, score, gate, promote, prune, save | the old baseline survives, the trail tells the new one |
| Context engine (`context-engine`, `orchestrator-core/src/runtime.rs`) | none | gather, deduplicate, merge, rank, pack | budgets respected, nothing left out for something worse |
| Plugin (`cli.mjs`, `plugin/hooks`) | the plugin's files, the user's settings, `.mcp.json`, the manifest; per project the modified files and two time stamps | install, repair, uninstall; note an edit, note a verification, let a completion through | the user's own settings survive, nothing stays registered, no completion on stale evidence |
| Review packets, eval, LLM providers, code intelligence, retrieval, tool runtime, verifier, telemetry, adapter, the rest of the CLI, editor extension, Python workers | indexes, files, processes | I/O and text | not protocols |

How they interact: `create_session` spawns a thread that runs
`OrchestrationLoop::run` (shared: the cancellation token, an mpsc channel of
events, the session's mutex); the loop calls `GraphRunner::execute` with a
`Planner` and a `StepExecutor`; a bridge task drains the mpsc channel into the
session's event log and broadcast channel, which the SSE streams read; HTTP
handlers reach a session through the map and its mutex.  `oco run` runs the loop
without the server and saves the run's artifacts, which `--resume` takes a
mission from and the gate commands a scorecard; the trust verdict of a run is
what the promotion of a baseline goes by.

What is hard: tasks that finish in any order or panic; batches trimmed by the
budget; a replan that rewrites the plan under the engine; cancellation between
any two steps; check-then-insert in the session map; a stop racing a
completion; lagging, reconnecting readers; two writers of one log;
atomics that are swapped and then reset; late results and late heartbeats; a
promotion that stops between its writes, and an installer that does; time stamps written by
processes nobody waits for; knowledge that passes through several runs.

## Modules

* `PlanExecution` - what plan execution promises: a step waits, runs and ends
  once; it begins only after what it needs has completed; a revision adds new
  waiting steps and retires the unfinished ones, or drops the whole old plan.
* `GraphRunner` - the engine.  `pc` is where `execute` is.  `StartBatch`
  is one turn of its loop up to the dispatch (`Batch` is the budget trim),
  `SpawnTask`/`FinishTask`/`PanicTask`/`Join` are `execute_parallel`,
  `StartSubPlan`/`StartWave`/`RunSubStep`/`PanicSubStep`/`EndSubPlan` are
  `execute_sub_plan`, `RejectResult`/`AcceptResult`/`VerifyGate`/`EndResults`
  are `process_results`, `AskPlanner`/`PlannerFails`/`PlannerAnswers` are
  `try_replan`, `Halt` is every break of the loop with its reason, `Cancel` the
  token set by another thread.  Steps are numbered in the order they are created,
  which is the order of the plan's list; token costs are drawn from small sets;
  texts are left out.  A contract and a sub-plan may be attached to any step,
  although no planner attaches a contract today.
* `MCGraphRunner` - the instance TLC checks.
* `PlanGeneration` - how a plan comes about before the engine gets it: `LlmError`,
  `DoesNotParse` and `Answer` are what one of the two competing candidates meets
  (`generate_one`), `Judged` is all that happens to an answer: `BuildSteps` resolves its
  names, `Valid` and `MaxSteps` refuse it, `Collapsed` merges its readers, `TeamFor`
  puts a team together.  `Choose` is the competition with its fallback, the direct plan,
  and the routing; `CarryOut` the trivial path.  Names are sequences of parts, so that
  the suffix of a repeated name is a part of its own.
* `PlanAnswers` - the answers TLC lets an LLM give; `MCPlanGeneration` uses them for
  the violated run.
* `DashboardStream` - the live feed from the loop's mpsc sender to `connectSSE`
  in the browser.  The log and the channel are written together under the lock,
  so a position of the log is one of the channel.  `Lag` is both the server's
  `lagged` message and the client's reaction, which is to reconnect from its
  cursor.
* `SessionManager` - HTTP handlers as small processes around the session map.
  `Admit`/`Insert`/`Spawn`/`SpawnFails` are the steps of `create_session` that
  share no lock; `Resolve` then `RecordHookEvent`/`StopSession`/`StopTooLate`/
  `Save` the requests about a session, with `TimeOut` in between;
  `Returns`/`Panics`/`Publish` the session's thread.

* `OrchestrationLoop` - one run.  `StartFlatLoop`/`StartPlan` are the routing,
  `LoopStops` the checks at the head of the flat loop, `Select` the selector with
  its scores as percentages, `Retrieved`/`Verified`/`Responded`/`StopSelected`/
  `ActionFails` what the selected action comes to, up to the end of the turn;
  `PlanReturns`/`PlanFails` are the plan path in one step, `Cancel` and `Tick` the
  token and the clocks.  A confidence is a sum of floats: where it meets a threshold
  of the selector, `Estimates` lets it come out a percent below or above as well.  High and Critical tasks take the path of Medium ones.
* `RunTrust` - the trust verdict on a run, as a function of the state in which
  `OrchestrationLoop` leaves it: its verifications under the names the loop gives
  them, the mandatory ones of the policy pack, `TrustVerdict::compute`.
* `MCOrchestrationLoop` - the budgets of both for TLC.
* `MissionMemory` - a line of runs that resume one another.  A claim moves between
  findings, hypotheses, facts, questions and the invalidated; files are modified
  and the project is verified at times that differ; `EndRun` saves a mission if
  there is content, `RestoreFromMission` makes the state of the next run from one.
  `givenUp` and `untested` are what the properties remember across runs.
* `GateEvaluation` - scorecards and the gate as operators: how a run is scored, how
  a suite is averaged, presets, overrides, verdicts, freshness, recommendation.
  Scores are percentages, overall scores hundredths of a percent.
* `BaselineGovernance` - the commands that save a run, evaluate the gate, save or
  promote a baseline and prune its trail, as processes whose writes are steps of
  their own, so that one can stop between any two.  A file is missing, torn or
  holds a value.  The scorecard to judge (`Candidates`) comes from any run directory,
  from its `scorecard.json` or a copy, out of the baseline or its backup, or from a suite;
  files that none of these commands wrote are left out.  `MCBaselineGovernance` holds TLC's runs and configurations.
* `TeamCoordination` - the shared task list, the coordinator and the registry; each
  operation is one step, as the three are values their caller locks.  A status can be
  forced on any task, a retired one too (`ForceStatus`).  The owner of
  the plan is external: nothing under `src/` drives a team yet.
* `RateLimiter` - the two atomics of the hook limiter, one access per step.
* `ReplaySession` - the task that re-emits a run, the watch channel it listens to,
  and the endpoints that send to it.
* `ContextAssembly` - one context window, from the gathered items through
  deduplication, merging and decay to the greedy packing, one item per step.
* `ActionSchedule` - the scheduler, with Kahn's queue filled in any order, one
  action per step, and the two passes of the critical path.  `Arrangements` has the
  stable sorts and filters of this module, `ContextAssembly` and `PlanGeneration`.
* `PluginInstaller` - `install`, `repair` and `uninstall` of one project, one write
  per step, with the copies of the plugin's files in any order.  Of the settings the
  model keeps which kinds of entries they hold.  `AtomicWrite` renames a file into place,
  or else writes in place, and neither may go to its end without the command hearing of
  it.  `Cut` ends a command where it is, in the middle of a copy included; `damaged`,
  `overdue` and `doubtful` are what the properties remember of these; `Update` brings a Claude Code that reads drop-ins.
* `PluginHooks` - the state directory of a session: `EditHook` and the three steps of
  the hook of a verification that succeeded write it, `Stop` and `ClearState` read it
  and clear it, also when Claude stops for another reason than completion: `safeExit(0)`
  only schedules the exit, and the rest of the hook still runs.  `unverified` is the truth about the last edit, `lastEdit` and
  `lastCheck` what the hooks saw of it.
* `MCIndependentParts` - `BaselineGovernance`, `MissionMemory`, `PlanGeneration` and the last seven for
  TLC in one run: they share no variable, so a behaviour moves one of them (`focus`)
  and leaves the others as they began.  The team's list and its registry share nothing either,
  nor do a mission's claims and its files.
* `GraphRunnerProofs`, `SessionManagerProofs`, `DashboardStreamProofs`,
  `OrchestrationLoopProofs`, `PlanGenerationProofs` - theorems about these modules;
  `SavedRecordsProofs` - about `BaselineGovernance` and `MissionMemory`;
  `IndependentPartsProofs` - about `TeamCoordination`, `RateLimiter`, `ReplaySession`,
  `PluginInstaller` and `PluginHooks`; `PreparationProofs` - about `ContextAssembly` and
  `ActionSchedule`, with the lemmas on orders and sums that plans need too.

`SessionManager` takes the loop as something that returns, fails or panics, and
`DashboardStream` as something that emits and ends; `GraphRunner` says why it
ends.  `BaselineGovernance` takes what is known of a run as data, and `RunTrust`
says where the trust in it comes from.

## Runs

| Run | Shows | Bounds |
|---|---|---|
| `graph_runner` | `DependencyOrder`, `AtMostOnce`, `CompletedWithEvidence`, `OvershootBounded`, `ProgressGuardSilent`, `DeadlockOnlyFromCyclicReplan`, `Termination`, `ImplementsPlanExecution` | up to 3 first steps with any acyclic dependencies, 6 in all, 2 replans adding up to 2 steps each with any dependencies, budget 14 with estimates 3, 7 and 20: batches that fit, are trimmed, or cannot be afforded; 177,764 states |
| `graph_runner_doc` | `VerifyFailureTriggersReplan` is violated | two steps |
| `trivial_plan` | `DependenciesFirst` is violated | the answers of `PlanAnswers` to a Medium task |
| `dashboard_stream` | `NoSilentLoss`, `GapFree`, `EveryEventLogged`, `EveryEventDelivered` | one client (clients do not interact), a channel of 2, six events, one broken connection and any number of lags; 41,808 states |
| `dashboard_reconnect` | `ReconnectSendsWhatWasMissed` is violated | two writers |
| `dashboard_finished` | `FinishedOnCompletion` is violated | one client that never breaks off |
| `session_manager` | `AdmissionBounded`, `RecordedThenDropped`, `SavedFromFinalState`, `StatusMovesForward`, `StopEndsThread` | 2 handlers, 3 sessions, limit 1, hook log of 2, hooks observed on one session (sessions do not interact otherwise); 289,408 states |
| `orchestration_loop` | `BudgetHeld`, `StopsAfterThreeFailures`, `CompletedOnGrounds`, `StoppedTellsTheRun`, `ResumedLowIsVerified`, `Termination` | 3 or 6 steps, 20 tokens and actions of 1, 16 or 30, a limit of 1 retrieval and 2 verifications or none, confidence boosts of 0, 3 and 20 by the wording of the request: at a threshold and off it; 682,004 states |
| `resume_unverified` | `ResumeForcesVerification` is violated | Trivial tasks |
| `run_trust` | `HighTrustIsEarned` is violated | Low tasks |
| `stop_hook` | `VerifiedAfterModified` is violated | three seconds, two hooks at a time |
| `independent_parts` | of teams `LoadIsHeld`, `RevokedStaysRetired`, `DeadOnlyAfterSilence`; of the limiter `AdmittedBounded`; of baselines `CopyKept`, `TrailIsWhole` (`AuditNumbered`, `ReportedIsRecorded`), `AuditTellsTheBaseline`, `NoTrustNoPromotion`; of plans `PlannedAsAnswered` (`OrderKept`, `TeamOfThePlan`, `OnePlanIsEnough`); of replays `OneEventAfterPause`, `ReplayEnds` (`PlaysToTheEnd`); of contexts `BestThatFits` (`WithinBudgets`, `LeftOutForBetter`); of schedules `ScheduleOfTheGraph` (`WavesAreChains`, `SlackIsSpare`); of missions `GivenUpStaysOut`, `UntestedIsReported`; of the installer `HarmlessWhereverCut` (`OwnSettingsKept`, `NothingLeftRegistered`); of the hooks `AllowedOnEvidence` | see below; 1,424,576 states |

In `independent_parts` the team has two members and three steps, of which one
comes with a replan, two reservations, one message, a clock of 3 with a timeout
and a grace of 1; the limiter three requests at a time over two seconds under a
limit of 2; the baseline four commands, of which one may stop anywhere, two days, three
configurations (balanced, lenient with weights and an overridden drop, an invalid
one), a good and a bad run, an empty suite and one of two scenarios, and prunes that keep 0 or 1; the
replay three events (with no, a long and a short delay) and four
controls; a plan is made of every graph of three steps, circles included, of readers or of two
editors and a reader, of four steps two of which may be writers, of repeated and confusing names, of
estimates at the cap and near the end of their range, of too many steps or of sub-plans too deep,
beside one of two rivals, for a Medium and a High task; a context two observations, of 1 or 3 tokens, two relevances and up to
two half-lives, and a note, in windows of 4, 7 or 20 tokens with and without caps, or two
snippets of a file of five lines; the scheduler every graph of three actions,
circles included, every acyclic one of four, an incomplete one, repeated
identifiers, and durations 1 and 3; the mission two claims, two files, two saved
missions and four time stamps in a run; the installer one file of the plugin, four
commands, two faults in all (a cut, or a write that fails untold), and every set of the entries that matter in the user's
settings, or settings that do not parse; the hooks four seconds and two hooks of
verifications under way.

The bounds are the smallest at which each hazard happens: three steps are needed
for a batch of two to block a third, two replans for a replan of a replan, a
channel of two for a reader to fall behind within a catch-up, three sessions for
two handlers to pass the limit of one together and a third to be turned away.  In
six steps three failures in a row come after a success, every limit can be the
one that is met, and the step limit can be what ends a run; costs of 1, 16 and 30
leave the tokens low, critical and overdrawn.  Four commands are a promotion that
replaces the baseline of an earlier one, a prune and a gate; a clock of 3 lets an
agent be silent for timeout and grace, and be heard in between; three actions make
the smallest graph in which a longest chain is not a shortest one.

These runs do not check deadlock, because there the system does stop:
`dashboard_stream`, `dashboard_reconnect` and `dashboard_finished` (the loop has
ended and the client has left), `orchestration_loop`, `resume_unverified` and
`run_trust` (the run is done) and `independent_parts` (a window is packed, a replay
played, a plan or a schedule made, the commands are done) and `trivial_plan` (the steps are done).  `stop_hook` asks for one invariant.

Types are not among the properties of the runs: what they come to is in the
inductive invariants of the proofs.

### What the violated runs say

* `VerifyFailureTriggersReplan` (header of `graph_runner.rs`): a failed step is
  terminal, so a gate that fails on the last unfinished step ends the run as
  complete without a replan.
* `ReconnectSendsWhatWasMissed` (`dashboard.rs`): the bridge and the injection
  endpoint number events independently; once both have written, a cursor does
  not say what was missed.  `NoSilentLoss` and `GapFree` therefore speak of
  logs with one writer, or of clients that have not resumed.
* `FinishedOnCompletion` (`dashboard.rs`): the session keeps a broadcast sender
  and is never removed, so the stream of a completed session stays open.  (This
  is also why `finished` is never reached in `dashboard_stream`: `holders`
  always contains the map.)
* `DependenciesFirst` (`plan.rs:49`): the trivial path carries out the steps in the order
  of the list, and an answer may list a step before what it depends on, as names are
  resolved in a second pass.  In the engine the order holds (`DependencyOrder`).
* `ResumeForcesVerification` (`restore_from_mission`): a pending verification is
  one score among others.  It wins for Low tasks (`ResumedLowIsVerified`); for
  Trivial ones answering scores higher, and the run completes unverified.

* `HighTrustIsEarned` (`telemetry.rs`): `create_mission_memory` looks for the
  mandatory strategies by their names in small letters (`state.rs:193`), and the
  loop records its verifications with the names as they are ("RunTests",
  `loop_runner.rs`).  None is ever mandatory, and a run whose only verification
  failed is saved with a high trust.  The tests record theirs as "build".

* `VerifiedAfterModified` (`plugin/hooks/stop.mjs:99`): the time stamps are whole
  seconds and compared with `>=`, so an edit in the second of the verification passes
  for verified; so does one made while the hook of the verification, which nobody
  waits for, was still starting.  To the second and by the hooks' own clocks the
  comparison holds (`AllowedOnEvidence`).

### What else the models have as the code has it

None of these has a run of its own.

Orchestration loop.  One step before `max_steps` the selector stops with
`TaskComplete` whether or not anything was answered; `CompletedOnGrounds` names
this case.  The last five observations reach the selector in the reverse of the
order `PolicyState` asks for (`Window`).  A limit of 0, which `budget.rs` says
forbids an action, limits nothing.  The plan path reports `Completed` however the
plan ended.

Session manager.  The hook log stops at 1000 events, though an event is said to be
stored as long as the session is there.  Sessions that ended stay in the map and count
against `max_concurrent_sessions`: once it is reached none can be created any more.

Planners.  A name that an answer gives itself and that is also the suffixed form of a
repeated one stands for its last bearer (`OrderKept` leaves such answers out); a
dependency that resolves to nothing is dropped; the sum of two estimates is a u32 and
wraps in a release build, past the cap it is compared with.  The tokens of a retry are
not counted.  The trivial path looks neither at the cancellation nor at the budget, and
when a step fails it charges nothing for those before.

Missions.  A mission is saved only if it has facts, active hypotheses, questions,
a current objective or steps left (`has_content`); modified files do not count.  Nothing in the
loop leaves any of these behind today: the selector never chooses `UpdateMemory`,
and the plan path sets a phase only.  So a run is resumed only from a mission that
came from elsewhere, and a run that left files unverified cannot be.  A fact that was
superseded is handed over, and comes back as confirmed; so does a superseded
finding that is promoted later.  A hypothesis cannot be promoted.  A verification
that failed counts as one in `freshness` and in the list of unverified files.

Gates and baselines.  `eval-gate` ends with 1 on every error, which ADR-012 gives to
warnings.  An eval suite and a run interrupted before its mission was saved have no
trust verdict, so the balanced and the strict gate always reject them, though
ADR-012 recommends the call on eval results; and runs of the plan engine record no
verification, so their trust is always "none".  `covered_files` is never filled, so
the coverage of a run with modified files is 0.  The lenient preset, said to fail on
critical regressions only, has no drop that could be one: a dimension would have to
fall by more than it has.  The baseline and the trail are written in place; after a
torn trail a promotion replaces the baseline and then reports an error.
`baseline-save` keeps no copy, asks no gate and leaves no trail; what it made of a run
can be promoted again from its own file or its backup, with the score it had.  A prune that
keeps nothing makes the numbers start at 1 again.

Replays.  A client that connects while events come out can get some twice.  Removing a
paused replay leaves its task waiting for ever; a resume after the end makes a
finished replay say Playing; as long as it is registered, no stream of it ends.

Teams.  A claim survives a synchronisation; a result between a synchronisation and the
revocation counts, and so does a status forced on a retired task, until the next
synchronisation (`RevokedStaysRetired` leaves such a task out).  A member without assigned steps has no slots.  A second spawn
would leave the first agents without anyone to dismiss them.  Nothing gives a
dead agent's tasks to another.

Contexts.  Merging snippets that overlap loses lines: the first one's before the
overlap are put in front of the whole second one, so 1-3 with 1-2 gives 1-2
(`dedup.rs:141`; no caller builds file snippets today).  A merged snippet loses its
pin.  The user's request ages with the run, so that fresh pinned notes of the same
priority come before it.

Plugin.  `uninstall`, a "clean removal" (`README.md`), removes every hook whose command
lies in `.claude/hooks`, the user's own as well, a permission the user had given
before, and a file of the user's that had the name of one of the plugin's when it was
installed.  Settings that do not parse are replaced by an install.  An install cut
before its manifest leaves what uninstall does not look for, or the hooks registered
twice; a `repair` takes any `settings.json` for the plugin's, and after an uninstall
that was cut it can write a drop-in the manifest does not tell of (install, uninstall cut,
repair, uninstall): `NothingLeftRegistered` speaks of installs that ended with a manifest
and of projects where no repair wrote settings or a manifest since.
`atomicWriteFileSync`, there "to prevent corruption on crash", falls back to a write in
place and swallows its failure: settings and servers can be left half written, which the
next command takes for empty (`OwnSettingsKept` leaves out a file this happened to), or
as they were while the command reports success (`overdue`).
The second of a verification is overwritten by the older one of a hook that is late, and
a verified completion is blocked.

Schedules.  The error about a circle also names the actions that only wait for one.

### Fairness

`GraphRunner`: weak fairness of everything but `Cancel`: `execute` is one tokio
task that is polled until it ends, and each call it awaits returns (the
providers' HTTP clients have a timeout, `llm.rs`; the verifier too,
`loop_runner.rs`).  Within `Progress` the tasks interleave freely, and each
action makes the state move on, so one weak fairness is enough.
`DashboardStream`: the bridge, the stream and the client's reconnect timer; the
loop is not obliged to end, nobody to inject, no connection to break.
`SessionManager`: a thread that returned publishes, and a cancelled loop ends;
handlers are under no obligation.
`OrchestrationLoop`: weak fairness of the run's own steps, `Run`, as the LLM
client and the verifier have timeouts; not of `Cancel` and not of the clock, so
`Termination` does not rest on time running out.
`MCIndependentParts`: weak fairness of the replay's own task, a tokio task whose
delays end; nobody is obliged to resume it.  The other modules state safety only.

## Proofs

Every theorem is about every value of the constants that the assumptions of its
module allow, and is proved from an inductive invariant that is stronger than
what it says.  Each action preserves each part of it, by one step per action.

**`GraphRunnerProofs`**: `TypeCorrect`; `StepsInOrder`
(`Spec => [](DependencyOrder /\ AtMostOnce /\ CompletedWithEvidence)`);
`Implements` (`Spec => ImplementsPlanExecution`).  `IInv` adds to the types what the
engine knows about a batch (`BatchInv`: tasks only while spawning, at most one
sub-plan, outcomes only of dispatched steps) and about each step (`StepInv`: a
pending step that is neither dispatched nor awaiting its result was never
executed, a dispatched one exactly once, its dependencies completed, ids from
`nextId` on untouched).  That the dependencies of a dispatched step stay completed
across a replan needs that a replan gives an old id no new dependencies and never
retires a completed step.  `Implements` shows that under the mapping `Phase` every
action is a step of `PlanExecution` or a stutter, with the invariant of both states.

In the second half of the module, `NoStepTwice` and `CompletionProven` cite `IInv`;
`GuardSilent` shows that a batch that was started has work left until the number of
terminal steps grows, through trims, skips and replans, so that the no-progress guard
finds a step ready only when the number has moved; `NoDeadlockOfValidated` that a
pending step waits only for steps that were not retired, and that what is left of a
plan without circles has a step that waits for nothing.

`OvershootIsBounded` (`OvershootBounded`) counts what was paid and the estimates of the
steps in the air together: `SpendInv` keeps the two within twice the budget and what
the reservation does not see, `TrimFits` shows that what a trim lets through fits the
budget that is left.  The sum is the library's fold over a chosen order; `OneFold` to
`EstimateGrows` free it from the order, by counting up the size of the set
(`CountingUp`, which is well-foundedness stated for a set of numbers).

**`SessionManagerProofs`**: `TypeCorrect`, `Admission`, `LogEndsWithSession`,
`SavedOnceFinal`, `MovesForward`.  `HandlerInv` says what each handler holds
between its two locks, `SessionInv` how a session's status, thread, token and log
go together.  For `Admission` the sessions begun and those about to be inserted are
counted together: each check leaves at most one more handler past it.  The sets of
handlers and sessions are finite (`FiniteAssumption`).

**`DashboardStreamProofs`**: `TypeCorrect`, `PrefixOfTheLog` (`GapFree`),
`NothingLost` (`NoSilentLoss`).  With one writer the number of an event is its position
in the log; the client has a prefix, and what is pending for an open stream is
exactly the interval from there to the stream's place in the channel.

**`OrchestrationLoopProofs`**: `BudgetNeverOverrun` (`BudgetHeld`), `NoFourthFailure`
(`StopsAfterThreeFailures`), `ToldAsItEnded` (`StoppedTellsTheRun`).  `DebitInv`
counts what was carried out against what was debited, `StreakInv` ties the streak to
the end of the history, `OpenInv` says that nobody is told before the end.  These
three use nothing of the selector's scores: they hold whatever it prefers.

`CompletedAsAnswered` (`CompletedOnGrounds`) and `VerifiedBeforeAnswered`
(`ResumedLowIsVerified`) are about the scores.  `FirstOfTheBest` says that what is
selected has the best score of all candidates.  `GroundsInv`: before the end nothing
was answered, so the candidate for stopping is on the list only a step before the
limit.  `PressingInv`: as long as a Low task, resumed, is not verified, every
observation is a verification that failed, so the streak is their number.  Before
the first of them the confidence is the 50 every run begins with, and
answering scores below the verification.  After it the verification scores 100 and
a retrieval at most 60; an answer may score 100 too, and then the verification is
the earlier candidate.  So nothing is asked of the confidence, whose sums may meet
the thresholds: the boosts are any of 0 to 25 (`BoostAssumption`), the limits any with
at least one step (`LimitsAssumption`).

**`IndependentPartsProofs`**, of the limiter: `AtMostTwiceTheLimit` (`AdmittedBounded`), for a positive limit.
What was admitted, plus the room left under the counter, plus the limit for each
pending reset by a request of this second and for a window that is still behind,
never exceeds the limit times two more than the number of stale swaps and resets.
Of replays, `PauseHolds` (`OneEventAfterPause`): when an event came out after a pause the task is back
where it looks at the state, and the state is not "playing" (`PauseInv`).  Of the plugin,
`CutsDoNoHarm` (`HarmlessWhereverCut`): `Stages` says what each command has come to
where it is, `Tidy` what an uninstall finds after whatever was cut; the plugin is
registered where the manifest tells and nowhere else (`Told`), but for the files a write
could not replace (`overdue`), unless a cut install or a repair made that `doubtful`; what
the user had is in a file that was never left half written (`damaged`).  `EvidenceIsNeeded` (`AllowedOnEvidence`): no second that a hook of a
verification holds or wrote is newer than the newest one taken (`HooksInv`), so a
late hook can only make the evidence look older.

Of teams: `TypeCorrect`, `LoadBounded` (`LoadIsHeld`), `RevokedForGood`
(`RevokedStaysRetired`), `SilentBeforeDead` (`DeadOnlyAfterSilence`).  A revoked task is held by
nobody and its step stays retired in the plan, so only a forced status can change it.  `ListInv` and
`AgentInv` are proved apart, as list and registry share nothing.  An agent's heartbeat
is its last sign of life, and one that is flagged had been silent for the timeout
when it was.

**`SavedRecordsProofs`**, of baselines: `BackupOfTheCut` (`CopyKept`), `TrailStaysWhole`
(`TrailIsWhole`), `TrailTellsTheBaseline` (`AuditTellsTheBaseline`).  `Shape` says where a
command can be, `CopyInv`, `TrailInv`, `RecordInv` and `TellInv` what the files hold
there; names are given once, so an entry that names a baseline names the promotion
that made it.  The files are what `FilesAssumption` and `KeepsAssumption` say; these
three do not look at what the gate decides.  `TrustIsNeeded` (`NoTrustNoPromotion`) does:
a run without a verdict on trust scores 0 in it (`ReconstructedHasNoTrust`), and so does
a suite, whose sum of nothing but zeros is 0 (`NothingAddsUp`, `SuiteHasNoTrust`).  By
`TrustInv` every scorecard in a file or carried by a command is such a one or that of a
run that was saved whole, so a candidate is (`CandidatesHonest`).  A trust of 0 is
below the minimum of either policy that blocks, whatever the overrides, so the
recommendation is to reject.  `SuitesAssumption` and `UnknownAssumption` say
that suites are sequences and that a missing verdict is not one of the four.

Of missions: `NoReturnOfTheRefuted` (`GivenUpStaysOut`) and
`UntestedFilesReported` (`UntestedIsReported`).  `BeliefInv` and `Apart` say where the
claims given up can be, in the memory of a run and in the missions saved; `TestedInv`
and `LastRunInv` that a file untested is listed by the mission it came with, or was
modified no earlier than the last verification.

**`PreparationProofs`**, of contexts: `WindowIsBest` (`BestThatFits`).  `WindowInv` says that the queue
is in the order of the rank, that nothing queued outranks what is packed (`InTurn`), that
the counters are the cost of what is packed (`Counted`), and that what was left out still
has no room beside what it does not outrank (`AllLeftOut`): when it is left out all that
is packed is ahead of it, and more packed items only take more room (`NoMoreRoom`).  A
sequence put in order is one because in a finite order every rank is taken once
(`Ranks`); the merged snippets are items by induction along the fold
(`SnippetsMerged`).  `AgesAssumption` says that a power of two is positive, which the
provers do not know.

Of schedules: `ScheduleFitsGraph` (`ScheduleOfTheGraph`), for every graph and all
durations.  While the queue is worked off (`SortInv`) an action with a wave has all its
dependencies in lower ones, the queue holds once what waits for nothing more, and the
counters of the others tell how many they wait for and which wave they would be in.  So
what is left when the queue is empty is a circle, or the waves are the depths
(`WavesHold`).  Waves go up along dependencies (`Layered`), which gives induction up and
down the graph (`UpTheLevels`, `DownTheLevels`); the two passes then write the one
solution of their equations (`ForwardIsFirst`, `BackwardIsLast`, `TimedInv`).  With its
slack an action starts at its latest moment and everything after it no later than at
its own; a moment more, and one without successors ends too late (`SlackIsSpareOf`).
`ActionsAssumption` and `GraphsAssumption` say that actions are finitely many and
dependencies are actions or unknown.

**`PlanGenerationProofs`**: `PlansAsAnswered` (`PlannedAsAnswered`), for every answer, budget
and width of a token field.  `Depths` and `Collapsed` are recursive functions; the lemmas
`Iterated` and `CountingUp` give that they exist and are what their rounds make them
(`DepthsInRounds`).  A plan has no circle if and only if its steps have ranks that go up
along the dependencies (`AcyclicIsRanked`, `RankedIsAcyclic`), and ranks are what a merge
can be shown to keep: the step that is merged waits for the one it goes into alone, so
whoever waited for it may wait for that one instead (`MergedIsRanked`).  `Kept` says of
the steps, as a family without places, that they have ranks and ids of their own, carry
each task once and have each task behind those it was asked to follow; a merge keeps it
(`MergedIsKept`: every task of the new steps is traced to where it was, `Origin`), giving
the rest new places keeps it (`RenumberedIsKept`), and so does merging to the end
(`CollapsedKeeps`).  An answer without a circle starts with it (`BuiltIsKept`): a name
that no suffix imitates stands for the first step that bears it (`FirstIsMeant`).
`PlanInv` says that of each candidate that is planned; that one of them wins needs
scores that are numbers (`ScoreIsFraction`), of which one is at least the other
(`WinnerIsPlanned`).  `AnswersAssumption` says that answers are lists of steps, not empty;
`BudgetAssumption` that the budget and the width are numbers.

Every safety invariant and every action property that a passing run checks is stated by
a theorem.  Model-checked only: the temporal properties `Termination`, `EveryEventLogged`,
`EveryEventDelivered`, `StopEndsThread` and `ReplayEnds` rest on fairness:
liveness and `ENABLED` are out of the provers' reach.  So are the induction theorems of
the library, which take an operator; where a fold is over a finite set of the model the
proofs count up its size instead.

## Not modelled, and why

* The prompts of the LLM planner and the extraction of JSON from an answer: an answer is
  a list of steps or does not parse.  Of a sub-plan only its depth is kept.  The plan of
  `PlanGeneration` is not handed to `GraphRunner`, which starts from any validated
  plan.  Tasks left behind by a panicking `execute` are not followed: nothing reads their results.
* In `OrchestrationLoop` tool calls are left out because the selector never chooses
  one for a Trivial or Low task, and the plan path is one step.
* Of missions: evidence and confidences (no decision depends on them), inspected areas,
  the compact snapshot (a projection that only tests restore), `merge_from_previous`
  (no caller), the readable text.
* The shared memory of a team, leases, task packets and `AgentTeamsExecutor` are data
  types or have no caller.
* Concurrent promotions: the commands take no lock, so entries of the trail would be
  lost; `BaselineGovernance` runs one command at a time.
* The retries of `RetryingLlmProvider`: a sequence of attempts with a delay, which
  the models have as a call that returns.  Seen while reading: a `Retry-After` above a
  minute is cut to a minute though it is said to be respected, and the shift of the
  back-off overflows beyond 64 retries.
* The dashboard's choreography (`apps/dashboard/src/lib/event-player.ts`): it paces what
  the client of `DashboardStream` has received.  Seen while reading: past 500 waiting
  events it drops the oldest that is not a phase change, so the page may show less than
  the feed delivered, and the duration it waits is varied by 10%, so the event after
  `plan_generated` may be applied before the exploration's `done`.
* Review packets and the eval harness format and collect; their results are data of
  `BaselineGovernance`.
* Of the plugin: `--global` and the native plugin (the same steps elsewhere, or without
  settings), `status` and `doctor` (they only read), temporary files left by a cut, the
  counters of the loop warning and the guard of destructive commands; failing writes of
  a hook; two sessions in one project, which share a state directory.
* Text processing, file and process I/O, parsing and ranking of code, user
  interfaces, the Claude adapter's deserialisation and telemetry have no protocol.

## Plan

Done: the plan engine with its refinement, the live feed, the session manager, the
orchestration loop and the trust in a run, baselines and gates, teams, replays,
the making of a plan, the rate limiter, contexts, schedules, missions and the plugin, with
proofs of the safety of them all.

Left, in this order:

1. Two promotions at a time, and a mission that is resumed twice at once.
2. `LlmRetries`: attempts, delays and the fallback of the router.
3. Leases and the step-scoped context, once something calls them.
