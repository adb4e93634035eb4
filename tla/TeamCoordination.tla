--------------------------- MODULE TeamCoordination ---------------------------
(***************************************************************************)
(* A team of agents at work on a plan: the shared task list and the        *)
(* coordinator that spawns and dismisses the members (crates/shared-types/ *)
(* src/team.rs), and the registry that watches their heartbeats and hands  *)
(* out their slots (shared-types/src/agent.rs).                            *)
(*                                                                         *)
(* The three are values their caller locks, so each operation is one step; *)
(* the calls of the members, of the coordinator and of the plan's owner    *)
(* come in any order.  The owner (external: nothing under src/crates       *)
(* drives a team yet) tells the plan what the list says, and may replan:   *)
(* completed steps stay, the others are retired and NewSteps come in.  A   *)
(* team is spawned once.  Proficiencies are the default for everyone, so   *)
(* they do not tell the members apart.                                     *)
(***************************************************************************)
EXTENDS Integers, Sequences, FiniteSets, SequencesExt

CONSTANTS Members,        \* sequence of the team's members, the lead first
          Steps, NewSteps, \* of the plan; those only a replan brings
          DependsOn,      \* [Steps -> SUBSET Steps]
          Assigned,       \* [member -> SUBSET Steps]: its slots are their number
          Skills,         \* [member -> SUBSET capabilities]
          Needs,          \* [Steps -> capability]
          Topology,       \* "mesh", "hub_spoke" or "pipeline"
          Timeout, Grace, \* seconds
          MaxClock, MaxMessages, MaxReservations     \* bounds of the exploration

ASSUME MembersAssumption == IsInjective(Members) /\ Members # <<>>
ASSUME TimesAssumption == Timeout \in Nat \ {0} /\ Grace \in Nat
ASSUME BoundsAssumption == MaxClock \in Nat /\ MaxMessages \in Nat
ASSUME StepsAssumption == IsFiniteSet(Steps) /\ Assigned \in [Range(Members) -> SUBSET Steps]

VARIABLES plan,           \* status of the steps in the plan
          tasks,          \* the shared task list
          registry,       \* the agents registered, by identifier
          spawned,        \* those the coordinator must dismiss
          joined,         \* has the team been spawned?
          messages, clock,
          held,           \* slots taken and not given back, by agent
          revoked,        \* tasks found replanned by a revocation
          forced,         \* those forced to a status since, until a synchronisation
          heard           \* last sign of life of every agent

vars == <<plan, tasks, registry, spawned, joined, messages, clock, held, revoked, forced, heard>>

Agents == Range(Members)
Nobody == "nobody"
ASSUME NobodyAssumption == Nobody \notin Agents

-----------------------------------------------------------------------------
(* The shared task list. *)

Task(status) == [status |-> status, claimedBy |-> Nobody]

FromPlan == [s \in {t \in Steps : plan[t] # "absent"} |-> Task(plan[s])]

CompletedIds == {s \in DOMAIN tasks : tasks[s].status = "completed"}

Claimable(s) ==
  /\ s \in DOMAIN tasks
  /\ tasks[s].status = "pending"
  /\ DependsOn[s] \subseteq CompletedIds
  /\ tasks[s].claimedBy = Nobody

Claim(s, a) ==
  /\ Claimable(s)
  /\ tasks' = [tasks EXCEPT ![s] = [status |-> "in_progress", claimedBy |-> a]]
  /\ UNCHANGED <<plan, registry, spawned, joined, messages, clock, held, revoked, forced, heard>>

(* complete and fail ask who claimed the task, not what became of it since.  *)
Finish(s, a, status) ==
  /\ s \in DOMAIN tasks /\ tasks[s].claimedBy = a
  /\ tasks' = [tasks EXCEPT ![s].status = status]
  /\ UNCHANGED <<plan, registry, spawned, joined, messages, clock, held, revoked, forced, heard>>

(* force_complete and force_fail ask nothing: neither who claimed the task   *)
(* nor whether its step was retired.                                        *)
ForceStatus(s, status) ==
  /\ s \in DOMAIN tasks
  /\ tasks' = [tasks EXCEPT ![s].status = status]
  /\ forced' = forced \cup ({s} \cap revoked)
  /\ UNCHANGED <<plan, registry, spawned, joined, messages, clock, held, revoked, heard>>

SyncWithPlan ==
  /\ tasks' = [s \in DOMAIN FromPlan |->
                 IF s \in DOMAIN tasks THEN [tasks[s] EXCEPT !.status = plan[s]]
                 ELSE FromPlan[s]]
  /\ forced' = {}
  /\ UNCHANGED <<plan, registry, spawned, joined, messages, clock, held, revoked, heard>>

(* Mutant of Unclaimed: the time of the claim is erased, the claim stays. *)
StillClaimed(task) == task

Unclaimed(task) == [task EXCEPT !.claimedBy = Nobody]

RevokeReplannedClaims ==
  LET retired == {s \in DOMAIN tasks : tasks[s].status = "replanned"}
  IN  /\ tasks' = [s \in DOMAIN tasks |->
                     IF s \in retired THEN Unclaimed(tasks[s]) ELSE tasks[s]]
      /\ revoked' = revoked \cup retired
      /\ UNCHANGED <<plan, registry, spawned, joined, messages, clock, held, forced, heard>>

-----------------------------------------------------------------------------
(* The plan's owner: takes over what the list says of a step under way, and *)
(* replans once.                                                            *)

Adopt(s) ==
  /\ s \in DOMAIN tasks /\ plan[s] \in {"pending", "in_progress"}
  /\ plan' = [plan EXCEPT ![s] = tasks[s].status]
  /\ UNCHANGED <<tasks, registry, spawned, joined, messages, clock, held, revoked, forced, heard>>

Replan ==
  /\ \A s \in NewSteps : plan[s] = "absent"
  /\ plan' = [s \in Steps |-> CASE s \in NewSteps -> "pending"
                                [] plan[s] = "completed" -> "completed"
                                [] OTHER -> "replanned"]
  /\ UNCHANGED <<tasks, registry, spawned, joined, messages, clock, held, revoked, forced, heard>>

-----------------------------------------------------------------------------
(* The registry. *)

Descriptor(a) ==
  [status |-> "active", beat |-> clock, since |-> clock, load |-> 0,
   done |-> 0, failed |-> 0]

(* Mutant of Beaten: the status stays what the health check made it. *)
BeatOnly(agent) == [agent EXCEPT !.beat = clock]

Beaten(agent) ==
  [agent EXCEPT !.beat = clock,
                !.status = IF @ = "unresponsive" THEN "active" ELSE @]

Heartbeat(a) ==
  /\ a \in DOMAIN registry
  /\ registry' = [registry EXCEPT ![a] = Beaten(@)]
  /\ heard' = [heard EXCEPT ![a] = clock]
  /\ UNCHANGED <<plan, tasks, spawned, joined, messages, clock, held, revoked, forced>>

(* A silent agent is flagged first, and given up a grace period later. *)
Checked(agent) ==
  LET silent == clock - agent.beat >= Timeout
  IN  CASE silent /\ agent.status = "active" ->
             [agent EXCEPT !.status = "unresponsive", !.since = clock]
        [] silent /\ agent.status = "unresponsive" /\ clock - agent.since >= Grace ->
             [agent EXCEPT !.status = "dead"]
        [] OTHER -> agent

CheckHealth ==
  /\ registry' = [a \in DOMAIN registry |-> Checked(registry[a])]
  /\ UNCHANGED <<plan, tasks, spawned, joined, messages, clock, held, revoked, forced, heard>>

Slots(a) == Cardinality(Assigned[a])

(* Mutant of HasCapacity: one slot too many. *)
AlmostHasCapacity(a) ==
  registry[a].status = "active" /\ registry[a].load <= Slots(a)

HasCapacity(a) ==
  registry[a].status = "active" /\ registry[a].load < Slots(a)

(* The terms that differ, in sixtieths of a percent: exact for loads and    *)
(* counts up to 6.                                                          *)
Score(a) ==
  LET agent == registry[a]
      ended == agent.done + agent.failed
      slots == IF Slots(a) = 0 THEN 1 ELSE Slots(a)
  IN  (1800 * (slots - agent.load)) \div slots
        + (IF ended = 0 THEN 1200 ELSE (1200 * agent.done) \div ended)

(* One of the best; which one is up to the order of a hash map. *)
Selectable(capability) ==
  LET able == {a \in DOMAIN registry : HasCapacity(a) /\ capability \in Skills[a]}
  IN  {a \in able : \A b \in able : Score(b) <= Score(a)}

ReserveAgent(capability) ==
  \E a \in Selectable(capability) :
    /\ held[a] + registry[a].done + registry[a].failed < MaxReservations
    /\ registry' = [registry EXCEPT ![a].load = @ + 1]
    /\ held' = [held EXCEPT ![a] = @ + 1]
    /\ UNCHANGED <<plan, tasks, spawned, joined, messages, clock, revoked, forced, heard>>

(* Called once for a reservation, whether or not its agent is still there. *)
ReleaseAgent(a, succeeded) ==
  /\ held[a] > 0
  /\ held' = [held EXCEPT ![a] = @ - 1]
  /\ registry' =
       IF a \notin DOMAIN registry THEN registry
       ELSE [registry EXCEPT ![a].load = IF @ = 0 THEN 0 ELSE @ - 1,
                             ![a].done = IF succeeded THEN @ + 1 ELSE @,
                             ![a].failed = IF succeeded THEN @ ELSE @ + 1]
  /\ UNCHANGED <<plan, tasks, spawned, joined, messages, clock, revoked, forced, heard>>

-----------------------------------------------------------------------------
(* The coordinator. *)

SpawnMembers ==
  /\ ~joined
  /\ joined' = TRUE
  /\ registry' = [a \in Agents |-> Descriptor(a)]
  /\ spawned' = Agents
  /\ heard' = [a \in Agents |-> clock]
  /\ UNCHANGED <<plan, tasks, messages, clock, held, revoked, forced>>

Teardown ==
  /\ registry' = [a \in DOMAIN registry \ spawned |-> registry[a]]
  /\ spawned' = {}
  /\ UNCHANGED <<plan, tasks, joined, messages, clock, held, revoked, forced, heard>>

Position(a) == CHOOSE i \in DOMAIN Members : Members[i] = a

MayTell(from, to) ==
  /\ from # to
  /\ from \in spawned /\ to \in spawned
  /\ CASE Topology = "mesh"      -> TRUE
       [] Topology = "hub_spoke" -> Members[1] \in {from, to}
       [] Topology = "pipeline"  -> Position(to) = Position(from) + 1

RecordMessage(from, to) ==
  /\ messages < MaxMessages
  /\ MayTell(from, to)
  /\ messages' = messages + 1
  /\ UNCHANGED <<plan, tasks, registry, spawned, joined, clock, held, revoked, forced, heard>>

Tick ==
  /\ clock < MaxClock
  /\ clock' = clock + 1
  /\ UNCHANGED <<plan, tasks, registry, spawned, joined, messages, held, revoked, forced, heard>>

Init ==
  /\ plan = [s \in Steps |-> IF s \in NewSteps THEN "absent" ELSE "pending"]
  /\ tasks = FromPlan
  /\ registry = <<>>
  /\ spawned = {} /\ joined = FALSE
  /\ messages = 0 /\ clock = 0
  /\ held = [a \in Agents |-> 0]
  /\ revoked = {} /\ forced = {}
  /\ heard = [a \in Agents |-> 0]

ListStep ==
  \/ \E s \in Steps, a \in Agents :
       \/ joined /\ Claim(s, a)
       \/ \E status \in {"completed", "failed"} : Finish(s, a, status)
  \/ \E s \in Steps :
       \/ \E status \in {"completed", "failed"} : ForceStatus(s, status)
       \/ Adopt(s)
  \/ SyncWithPlan \/ RevokeReplannedClaims \/ Replan

AgentStep ==
  \/ \E a \in Agents :
       \/ Heartbeat(a)
       \/ \E succeeded \in BOOLEAN : ReleaseAgent(a, succeeded)
  \/ CheckHealth
  \/ \E s \in Steps : ReserveAgent(Needs[s])
  \/ Teardown
  \/ \E from, to \in Agents : RecordMessage(from, to)
  \/ Tick

Next == SpawnMembers \/ ListStep \/ AgentStep

Spec == Init /\ [][Next]_vars

-----------------------------------------------------------------------------
(* Properties. *)

Statuses == {"pending", "in_progress", "completed", "failed", "replanned"}

TypeOK ==
  /\ plan \in [Steps -> Statuses \cup {"absent"}]
  /\ DOMAIN tasks \subseteq Steps
  /\ \A s \in DOMAIN tasks :
       tasks[s] \in [status : Statuses, claimedBy : Agents \cup {Nobody}]
  /\ DOMAIN registry \subseteq Agents /\ spawned \subseteq DOMAIN registry
  /\ \A a \in DOMAIN registry :
       registry[a] \in [status : {"active", "unresponsive", "dead"}, beat : 0..clock,
                        since : 0..clock, load : Nat, done : Nat, failed : Nat]
  /\ joined \in BOOLEAN
  /\ messages \in 0..MaxMessages /\ clock \in 0..MaxClock
  /\ held \in [Agents -> Nat]
  /\ revoked \subseteq Steps /\ forced \subseteq revoked

(* An agent is given more work only while it is alive and has a slot: the    *)
(* load of an agent is the number of its reservations not yet released and  *)
(* never more than its slots, through health checks, late releases and the  *)
(* dismissal of the team (reserve_agent and release_agent).                 *)
LoadIsHeld ==
  \A a \in DOMAIN registry : registry[a].load = held[a] /\ held[a] <= Slots(a)

(* An agent is given up only after it was silent for the timeout and the    *)
(* grace period together: a sign of life in between starts both anew        *)
(* (check_health and heartbeat).                                            *)
DeadOnlyAfterSilence ==
  [][\A a \in DOMAIN registry' :
       registry'[a].status = "dead" /\ (a \in DOMAIN registry => registry[a].status # "dead")
         => clock - heard[a] >= Timeout + Grace]_vars

(* A task whose step was retired is out of reach once its claim is revoked: *)
(* no result its agent sends late, no new claim and no second revocation or *)
(* replan makes it count as done or failed.  Only a status forced on it     *)
(* does, and no longer than until the next synchronisation                  *)
(* (revoke_replanned_claims, complete, fail, sync_with_plan).               *)
RevokedStaysRetired == \A s \in revoked \ forced : tasks[s].status = "replanned"
=============================================================================
