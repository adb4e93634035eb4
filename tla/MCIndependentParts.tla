-------------------------- MODULE MCIndependentParts --------------------------
(***************************************************************************)
(* Ten parts that share no variable, each on a small instance: a team on   *)
(* a plan, the rate limiter, the quality baseline of a repository, a       *)
(* replay of three events, the assembly of a context window, the scheduler *)
(* of actions, the making of a plan, the memory of a mission, and the      *)
(* plugin's installer and hooks.  A behaviour moves one of them, `focus`,  *)
(* and leaves the others as they began.  The team's task list and its      *)
(* registry share nothing either (a claim asks nobody whether its agent    *)
(* lives), so they move apart once the team is there; nor do the claims of *)
(* a mission and its files.                                                *)
(*                                                                         *)
(* The team: a lead with two slots and a helper with one; step 2 waits for *)
(* step 1, step 3 comes with a replan and waits for step 1 too.            *)
(***************************************************************************)
EXTENDS MCBaselineGovernance, TeamCoordination, RateLimiter, ReplaySession,
        ContextAssembly, ActionSchedule, MissionMemory, PluginInstaller, PluginHooks,
        PlanGeneration, PlanAnswers

VARIABLE focus

MCMembers   == <<"lead", "helper">>
MCDependsOn == [s \in Steps |-> IF s = 1 THEN {} ELSE {1}]
MCAssigned  == [a \in Agents |-> IF a = "lead" THEN {1, 2} ELSE {3}]
MCSkills    == [a \in Agents |-> IF a = "lead" THEN {"code", "review"} ELSE {"code"}]
MCNeeds     == [s \in Steps |-> IF s = 2 THEN "review" ELSE "code"]

MCDelays == <<"none", "long", "short">>

MCCaps == {[c \in {} |-> 0],
           [search_results |-> 4, tool_outputs |-> 2, verification |-> 1]}

(* All graphs of three actions, some of which depend on themselves or on one *)
(* another in a circle, those of four without a circle, and one that is      *)
(* not complete.                                                             *)
MCGraphs ==
  {g \in [1 .. 4 -> SUBSET (1 .. 3)] :
     \/ g[4] = {}
     \/ \A a \in 1 .. 4 : g[a] \subseteq 1 .. a - 1}
  \cup {[a \in 1 .. 4 |-> IF a = 2 THEN {1, Unlisted} ELSE {}]}

allVars == <<focus, vars, limiterVars, baselineVars, replayVars, contextVars, scheduleVars,
             missionVars, installerVars, hookVars, planningVars>>

(* The user of the installer has no file at a path of the plugin's (a copy  *)
(* that fails leaves the same) and no permission the plugin brings too (a   *)
(* hook of his own goes the same way).                                      *)
TheUsers ==
  /\ \A p \in Paths : content[p] = "none"
  /\ "plugin permission" \notin settings.entries

NotFocused ==
  /\ focus # "baseline" =>
       /\ baseline = Missing /\ earlier = {}
       /\ config = Config("strict", 2, 1)
  /\ focus # "replay" => speed = "slow"
  /\ focus # "context" =>
       /\ items = <<>> /\ budget = 0 /\ caps = [c \in {} |-> 0]
       /\ NothingPacked
  /\ focus # "planner" =>
       /\ dependsOn = <<>> /\ duration = <<>> /\ repeated = FALSE
       /\ NothingScheduled
  /\ focus # "installer" =>
       /\ content = [p \in Paths |-> "none"] /\ settings = NoFile
       /\ servers = NoFile /\ recent = TRUE
  /\ focus # "hooks" => hasChecks = TRUE
  /\ focus # "planning" => complexity = "Medium"

MCInit ==
  /\ focus \in {"list", "agents", "limiter", "baseline", "replay", "context", "planner",
                "claims", "files", "installer", "hooks", "planning"}
  /\ NotFocused
  /\ Init /\ LimiterInit /\ BaselineInit /\ ReplayInit /\ MissionInit
  /\ InstallerInit /\ HooksInit /\ PlanningInit
  /\ focus = "installer" => TheUsers
  /\ focus = "context" => ContextInit \/ SnippetInit
  /\ focus = "planner" => ScheduleInit

TeamStep ==
  \/ focus \in {"list", "agents"} /\ SpawnMembers
  \/ focus = "list" /\ ListStep
  \/ focus = "agents" /\ AgentStep

MissionStep ==
  \/ focus = "claims" /\ MemoryStep
  \/ focus = "files" /\ CheckStep
  \/ focus \in {"claims", "files"} /\ LineStep

OthersStay(part) ==
  /\ UNCHANGED focus
  /\ IF part = "team"      THEN TRUE ELSE UNCHANGED vars
  /\ IF part = "limiter"   THEN TRUE ELSE UNCHANGED limiterVars
  /\ IF part = "baseline"  THEN TRUE ELSE UNCHANGED baselineVars
  /\ IF part = "replay"    THEN TRUE ELSE UNCHANGED replayVars
  /\ IF part = "context"   THEN TRUE ELSE UNCHANGED contextVars
  /\ IF part = "planner"   THEN TRUE ELSE UNCHANGED scheduleVars
  /\ IF part = "mission"   THEN TRUE ELSE UNCHANGED missionVars
  /\ IF part = "installer" THEN TRUE ELSE UNCHANGED installerVars
  /\ IF part = "hooks"     THEN TRUE ELSE UNCHANGED hookVars
  /\ IF part = "planning"  THEN TRUE ELSE UNCHANGED planningVars

MCNext ==
  \/ TeamStep /\ OthersStay("team")
  \/ focus = "limiter" /\ LimiterNext /\ OthersStay("limiter")
  \/ focus = "baseline" /\ BaselineNext /\ OthersStay("baseline")
  \/ focus = "replay" /\ ReplayNext /\ OthersStay("replay")
  \/ focus = "context" /\ ContextNext /\ OthersStay("context")
  \/ focus = "planner" /\ ScheduleNext /\ OthersStay("planner")
  \/ MissionStep /\ OthersStay("mission")
  \/ focus = "installer" /\ InstallerNext /\ OthersStay("installer")
  \/ focus = "hooks" /\ HooksNext /\ OthersStay("hooks")
  \/ focus = "planning" /\ PlanningNext /\ OthersStay("planning")

ReplayTask == focus = "replay" /\ TaskStep /\ OthersStay("replay")

MCSpec == MCInit /\ [][MCNext]_allVars /\ WF_allVars(ReplayTask)

(* A replay that is not left paused is played to its end. *)
ReplayEnds == focus = "replay" => PlaysToTheEnd
=============================================================================
