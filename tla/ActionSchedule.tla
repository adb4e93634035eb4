---------------------------- MODULE ActionSchedule ----------------------------
(***************************************************************************)
(* The scheduler of the policy engine (policy-engine/src/scheduler.rs):    *)
(* actions that depend on one another are grouped into waves by Kahn's     *)
(* algorithm, and each gets its earliest and latest start.                 *)
(*                                                                         *)
(* The queue is filled in the order of a hash map, which is any order.     *)
(* Identifiers are numbers, in the order the strings sort.                 *)
(***************************************************************************)
EXTENDS Arrangements, Naturals, FiniteSets, Sequences, FiniteSetsExt, SequencesExt

CONSTANTS Actions,   \* their identifiers
          Graphs,    \* what each of them depends on
          Durations,
          Unlisted   \* an identifier no action has

(* Without actions there is nothing to schedule, and nothing is. *)
ASSUME ActionsAssumption ==
  /\ Actions \subseteq Nat /\ IsFiniteSet(Actions) /\ Actions # {}
  /\ Durations \subseteq Nat /\ Unlisted \notin Actions
ASSUME GraphsAssumption ==
  \A g \in Graphs : \A a \in Actions : g[a] \subseteq Actions \cup {Unlisted}

VARIABLES dependsOn, duration, \* the actions as given
          repeated,            \* two of them have one identifier
          stage,               \* "given", "sorting", or the outcome
          ready,               \* the queue
          inDegree, predLevel, levels,
          earliest, latest, makespan

scheduleVars == <<dependsOn, duration, repeated, stage, ready, inDegree, predLevel,
                  levels, earliest, latest, makespan>>

given == <<dependsOn, duration, repeated>>

With(f, a, value) == [x \in DOMAIN f \cup {a} |-> IF x = a THEN value ELSE f[x]]

Successors(a) == {b \in Actions : a \in dependsOn[b]}

-----------------------------------------------------------------------------

Reject ==
  /\ stage = "given"
  /\ \/ repeated /\ stage' = "duplicate"
     \/ /\ ~repeated /\ \E a \in Actions : Unlisted \in dependsOn[a]
        /\ stage' = "unknown"
  /\ UNCHANGED <<given, ready, inDegree, predLevel, levels, earliest, latest, makespan>>

Prepare ==
  /\ stage = "given" /\ ~repeated /\ \A a \in Actions : dependsOn[a] \subseteq Actions
  /\ stage' = "sorting"
  /\ inDegree' = [a \in Actions |-> Cardinality(dependsOn[a])]
  /\ predLevel' = [a \in Actions |-> 0]
  /\ ready' \in SetToSeqs({a \in Actions : dependsOn[a] = {}})
  /\ UNCHANGED <<given, levels, earliest, latest, makespan>>

(* Mutant of Freed: the first dependency is enough. *)
FreedAtFirst(a) == {b \in Successors(a) : inDegree[b] = Cardinality(dependsOn[b])}

(* Those for which a is the last dependency. *)
Freed(a) == {b \in Successors(a) : inDegree[b] = 1}

Pop ==
  /\ stage = "sorting" /\ ready # <<>>
  /\ LET a == Head(ready)
     IN  /\ levels' = With(levels, a, predLevel[a])
         /\ predLevel' = [b \in Actions |->
              IF b \in Successors(a) /\ predLevel[a] + 1 > predLevel[b]
              THEN predLevel[a] + 1 ELSE predLevel[b]]
         /\ inDegree' = [b \in Actions |->
              IF b \in Successors(a) THEN inDegree[b] - 1 ELSE inDegree[b]]
         /\ \E freed \in SetToSeqs(Freed(a)) : ready' = Tail(ready) \o freed
  /\ UNCHANGED <<given, stage, earliest, latest, makespan>>

Unsorted == Actions \ DOMAIN levels

Cycle ==
  /\ stage = "sorting" /\ ready = <<>>
  /\ Unsorted # {}
  /\ stage' = "cyclic"
  /\ UNCHANGED <<given, ready, inDegree, predLevel, levels, earliest, latest, makespan>>

(* The actions wave after wave, those of a wave in order. *)
InWaves ==
  LET Before(a, b) == levels[a] < levels[b] \/ (levels[a] = levels[b] /\ a < b)
  IN  Arranged([a \in Actions |-> a], Actions,
               {p \in Actions \X Actions : Before(p[1], p[2])})

(* A pass writes the starts in the order it is given and reads those of the *)
(* neighbours, which must be there.                                         *)
Pass(order, Start(_, _)) ==
  LET starts[n \in 0 .. Len(order)] ==
        IF n = 0 THEN <<>>
        ELSE With(starts[n - 1], order[n], Start(starts[n - 1], order[n]))
  IN  starts[Len(order)]

FirstMoment(starts, a) == Max({0} \cup {starts[b] + duration[b] : b \in dependsOn[a]})

Forward(order) == Pass(order, FirstMoment)

(* Mutant of LastMoment: the latest successor decides. *)
LatestSuccessor(starts, a, end) ==
  IF Successors(a) = {} THEN end ELSE Max({starts[b] : b \in Successors(a)})

LastMoment(starts, a, end) ==
  IF Successors(a) = {} THEN end ELSE Min({starts[b] : b \in Successors(a)})

SaturatingSub(m, n) == IF m > n THEN m - n ELSE 0

Backward(order, end) ==
  LET Start(starts, a) == SaturatingSub(LastMoment(starts, a, end), duration[a])
  IN  Pass(Reverse(order), Start)

Makespan(starts) == Max({starts[a] + duration[a] : a \in Actions})

Analyse ==
  /\ stage = "sorting" /\ ready = <<>>
  /\ Unsorted = {}
  /\ stage' = "scheduled"
  /\ earliest' = Forward(InWaves)
  /\ makespan' = Makespan(earliest')
  /\ latest' = Backward(InWaves, makespan')
  /\ UNCHANGED <<given, ready, inDegree, predLevel, levels>>

NothingScheduled ==
  /\ stage = "given" /\ ready = <<>>
  /\ inDegree = [a \in Actions |-> 0] /\ predLevel = inDegree
  /\ levels = <<>> /\ earliest = <<>> /\ latest = <<>> /\ makespan = 0

ScheduleInit ==
  /\ dependsOn \in Graphs
  /\ duration \in [Actions -> Durations]
  /\ repeated \in BOOLEAN
  /\ NothingScheduled

ScheduleNext == Reject \/ Prepare \/ Pop \/ Cycle \/ Analyse

ScheduleSpec == ScheduleInit /\ [][ScheduleNext]_scheduleVars

-----------------------------------------------------------------------------
(* Properties. *)

Cyclic == \E loop \in (SUBSET Actions) \ {{}} : \A a \in loop : dependsOn[a] \cap loop # {}

Depth[a \in Actions] ==
  IF dependsOn[a] = {} THEN 0 ELSE 1 + Max({Depth[b] : b \in dependsOn[a]})

(* In whatever order the queue is filled, actions that depend on each other *)
(* in a circle are refused and no others, and the wave of an action is the  *)
(* length of the longest chain of dependencies before it (schedule).        *)
WavesAreChains ==
  /\ stage = "cyclic" => Cyclic
  /\ stage = "scheduled" => ~Cyclic /\ \A a \in Actions : levels[a] = Depth[a]

(* When everything starts as early as it can, and one action that much      *)
(* later still.                                                             *)
EndsWithDelay(late, delay) ==
  LET start[a \in Actions] ==
        Max({0} \cup {start[b] + duration[b] : b \in dependsOn[a]})
          + (IF a = late THEN delay ELSE 0)
  IN  Makespan(start)

(* The slack of an action is what it can be late without the whole being    *)
(* late, and not a moment more; without slack it is critical (schedule).    *)
SlackIsSpare ==
  stage = "scheduled" =>
    \A a \in Actions :
      LET slack == SaturatingSub(latest[a], earliest[a])
      IN  EndsWithDelay(a, slack) = makespan /\ EndsWithDelay(a, slack + 1) > makespan

(* The waves and the slack of a schedule are those of its graph.            *)
ScheduleOfTheGraph == WavesAreChains /\ SlackIsSpare
=============================================================================
