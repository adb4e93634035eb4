----------------------- MODULE OrchestrationLoopProofs -----------------------
(***************************************************************************)
(* Theorems about OrchestrationLoop for every budget, cost and wording of  *)
(* the request, with their proofs: first those that rest on what the loop  *)
(* looks at before an action and records after it, then those that rest on *)
(* what the selector prefers.                                              *)
(***************************************************************************)
EXTENDS OrchestrationLoop, TLAPS, FiniteSetTheorems, SequenceTheorems

Errors == {"error", "fatal"}

(* How many members of A a sequence has. *)
Count(h, A) == Cardinality({i \in DOMAIN h : h[i] \in A})

(* Types of the variables the theorems are about. *)
Typed ==
  /\ task \in [complexity : Complexities, limits : Limits, boost : Boosts,
               resumed : BOOLEAN]
  /\ used \in [tokens : Nat, retrievals : Nat, verifies : Nat]
  /\ history \in Seq(Actions \union StopReasons)
  /\ observations \in Seq(Kinds)
  /\ streak \in 0 .. 3

(* What was debited is what was carried out, and an action is under way     *)
(* only while there is room for it.                                         *)
DebitInv ==
  /\ used.retrievals = Count(history, {"retrieve"})
  /\ used.verifies = Count(history, {"verify"})
  /\ pc = "loop" => Steps <= Limit.steps
  /\ pc = "executing" =>
       /\ Steps < Limit.steps
       /\ Limit.retrievals > 0 => used.retrievals < Limit.retrievals
       /\ Limit.verifies > 0 => used.verifies < Limit.verifies

(* The streak counts the errors at the end of the observations. *)
StreakInv ==
  /\ streak <= Len(observations)
  /\ \A j \in 1 .. Len(observations) : j > Len(observations) - streak => observations[j] \in Errors
  /\ streak < Len(observations) => observations[Len(observations) - streak] \notin Errors

(* A run that has not ended has told nobody, and its history holds no Stop. *)
OpenInv ==
  /\ stopped = <<>> /\ history \in Seq(Actions)
  /\ StreakInv
  /\ pc = "executing" => streak < 3
  /\ pc \in {"loop", "executing"} <=> Flat /\ pc # "start"
  /\ pc = "start" => history = <<>> /\ observations = <<>>
  /\ pc = "planning" => history = <<"plan">> /\ observations = <<>>

IInv ==
  /\ Typed /\ DebitInv
  /\ pc \in {"start", "loop", "executing", "planning", "done"}
  /\ pc # "done" => OpenInv
  /\ BudgetHeld /\ StopsAfterThreeFailures /\ StoppedTellsTheRun

-----------------------------------------------------------------------------
(* Counting. *)

LEMMA CountType ==
  ASSUME NEW S, NEW h \in Seq(S), NEW A
  PROVE  Count(h, A) \in Nat /\ Count(h, A) <= Len(h)
<1> DEFINE T == {i \in DOMAIN h : h[i] \in A}
<1>0. Len(h) \in Nat
  OBVIOUS
<1>1. IsFiniteSet(1 .. Len(h)) /\ Cardinality(1 .. Len(h)) = Len(h)
  <2>1. Cardinality(1 .. Len(h)) = IF 1 > Len(h) THEN 0 ELSE Len(h) - 1 + 1
    BY <1>0, FS_Interval
  <2> QED
    BY <1>0, <2>1, FS_Interval
<1>2. T \subseteq 1 .. Len(h)
  OBVIOUS
<1>3. IsFiniteSet(T) /\ Cardinality(T) <= Len(h)
  BY <1>1, <1>2, FS_Subset
<1> QED
  BY <1>3, FS_CardinalityType DEF Count

LEMMA CountAppend ==
  ASSUME NEW S, NEW h \in Seq(S), NEW x, NEW A
  PROVE  Count(Append(h, x), A) = IF x \in A THEN Count(h, A) + 1 ELSE Count(h, A)
<1> DEFINE T == {i \in DOMAIN h : h[i] \in A}
           U == {i \in DOMAIN Append(h, x) : Append(h, x)[i] \in A}
<1>1. /\ DOMAIN h = 1 .. Len(h) /\ Len(h) \in Nat
      /\ DOMAIN Append(h, x) = 1 .. (Len(h) + 1)
      /\ Append(h, x)[Len(h) + 1] = x
      /\ \A i \in 1 .. Len(h) : Append(h, x)[i] = h[i]
  OBVIOUS
<1>2. IsFiniteSet(T)
  <2>1. IsFiniteSet(1 .. Len(h)) /\ T \subseteq 1 .. Len(h)
    BY <1>1, FS_Interval
  <2> QED
    BY <2>1, FS_Subset
<1>3. CASE x \in A
  <2>1. U = T \cup {Len(h) + 1} /\ Len(h) + 1 \notin T
    BY <1>1, <1>3
  <2>2. Cardinality(U) = Cardinality(T) + 1
    BY <1>2, <2>1, FS_AddElement
  <2> QED
    BY <1>3, <2>2 DEF Count
<1>4. CASE x \notin A
  <2>1. U = T
    BY <1>1, <1>4
  <2> QED
    BY <1>4, <2>1 DEF Count
<1> QED
  BY <1>3, <1>4

LEMMA CountEmpty == \A A : Count(<<>>, A) = 0
  BY FS_EmptySet DEF Count

LEMMA OccurrencesIsCount == \A a : Occurrences(a) = Count(history, {a})
  BY DEF Occurrences, Count

LEMMA LimitTypes ==
  ASSUME Typed
  PROVE  /\ Limit.steps \in Nat /\ Limit.steps > 0 /\ Limit.retrievals \in Nat
         /\ Limit.verifies \in Nat
<1>1. task.limits \in Limits
  BY DEF Typed
<1>2. task.limits \in [steps : Nat \ {0}, tokens : Nat, retrievals : Nat, verifies : Nat]
  BY <1>1, LimitsAssumption
<1> QED
  BY <1>2 DEF Limit

(* BudgetHeld from the counters. *)
LEMMA HeldIf ==
  ASSUME Limit.retrievals > 0 => Count(history, {"retrieve"}) <= Limit.retrievals,
         Limit.verifies > 0 => Count(history, {"verify"}) <= Limit.verifies,
         Flat => Count(history, Actions) <= Limit.steps
  PROVE  BudgetHeld
  BY OccurrencesIsCount DEF BudgetHeld, Count

-----------------------------------------------------------------------------
(* Observations. *)

(* A success ends the streak; fewer than three errors in a row may be       *)
(* followed by anything.                                                    *)
LEMMA Observed ==
  ASSUME NEW kind \in Kinds, Typed, StreakInv, streak < 3, StopsAfterThreeFailures,
         observations' = Append(observations, kind)
  PROVE  /\ observations' \in Seq(Kinds) /\ StopsAfterThreeFailures'
         /\ kind \notin Errors /\ streak' = 0 => StreakInv'
         /\ kind \in Errors /\ streak' = streak + 1 => StreakInv'
<1> DEFINE n == Len(observations)
<1>1. /\ n \in Nat /\ streak \in Nat /\ observations' \in Seq(Kinds) /\ Len(observations') = n + 1
      /\ observations'[n + 1] = kind
      /\ \A i \in 1 .. n : observations'[i] = observations[i]
  BY DEF Typed
<1>2. StopsAfterThreeFailures'
  <2> SUFFICES ASSUME NEW i \in 3 .. n,
                      \A j \in i - 2 .. i : observations[j] \in Errors
               PROVE  FALSE
    BY <1>1 DEF StopsAfterThreeFailures, Errors
  <2>1. i = n
    <3>1. i \in 3 .. n - 1 => ~(\A j \in i - 2 .. i : observations[j] \in {"error", "fatal"})
      BY DEF StopsAfterThreeFailures
    <3> QED
      BY <1>1, <3>1 DEF Errors
  <2>2. streak < n /\ n - streak \in i - 2 .. i
    BY <1>1, <2>1
  <2> QED
    BY <2>2 DEF StreakInv
<1>3. ASSUME kind \notin Errors, streak' = 0
      PROVE  StreakInv'
  BY <1>1, <1>3 DEF StreakInv
<1>4. ASSUME kind \in Errors, streak' = streak + 1
      PROVE  StreakInv'
  <2>1. \A j \in 1 .. n + 1 : j > n + 1 - (streak + 1) => observations'[j] \in Errors
    BY <1>1, <1>4 DEF StreakInv
  <2>2. streak + 1 < n + 1 => observations'[n + 1 - (streak + 1)] \notin Errors
    BY <1>1 DEF StreakInv
  <2>3. streak <= n
    BY DEF StreakInv
  <2> QED
    BY <1>1, <1>4, <2>1, <2>2, <2>3 DEF StreakInv
<1> QED
  BY <1>1, <1>2, <1>3, <1>4

-----------------------------------------------------------------------------
(* The end of a run. *)

LEMMA Ends ==
  ASSUME NEW reason \in StopReasons, NEW past \in Seq(Actions), stopped = <<>>,
         StopWith(reason, past)
  PROVE  /\ history' \in Seq(Actions \union StopReasons) /\ history' = Append(past, reason)
         /\ StoppedTellsTheRun' /\ pc' = "done"
         /\ \A A \in SUBSET Actions : Count(history', A) = Count(past, A)
<1>1. /\ history' = Append(past, reason) /\ pc' = "done"
      /\ stopped' = <<Stopped(reason, Len(past) + 1)>>
  BY DEF StopWith
<1>2. Actions \cap StopReasons = {}
  BY DEF Actions, StopReasons
<1>3. /\ past \in Seq(Actions \union StopReasons)
      /\ history' \in Seq(Actions \union StopReasons)
      /\ Len(history') = Len(past) + 1 /\ Len(past) \in Nat
      /\ history'[Len(past) + 1] = reason
      /\ \A i \in 1 .. Len(past) : history'[i] = past[i] /\ past[i] \in Actions
  BY <1>1
<1>4. \A A \in SUBSET Actions : Count(history', A) = Count(past, A)
  BY <1>1, <1>2, CountAppend
<1>5. StoppedTellsTheRun'
  BY <1>1, <1>2, <1>3 DEF StoppedTellsTheRun, Steps, Last
<1> QED
  BY <1>1, <1>3, <1>4, <1>5

(* The end of a turn that goes on. *)
LEMMA TurnEnds ==
  ASSUME IInv, pc = "executing", acting \in {"retrieve", "verify", "respond"}, EndTurn,
         NEW tokens, tokens \in Nat, used' = Debited([used EXCEPT !.tokens = tokens]),
         NEW kind \in Kinds, observations' = Append(observations, kind),
         \/ kind \notin Errors /\ streak' = 0
         \/ kind \in Errors /\ streak' = streak + 1
  PROVE  IInv'
<1> DEFINE h == history
<1>0. Typed /\ OpenInv /\ DebitInv /\ streak < 3
  BY DEF IInv, OpenInv
<1>1. /\ history' = Append(history, acting) /\ pc' = "loop"
      /\ UNCHANGED <<task, stopped>>
  BY DEF EndTurn
<1>2. acting \in Actions /\ history \in Seq(Actions)
  BY <1>0 DEF OpenInv, Actions
<1>3. history' \in Seq(Actions) /\ history' \in Seq(Actions \union StopReasons)
      /\ Len(history') = Len(history) + 1
  BY <1>1, <1>2
<1>4. /\ observations' \in Seq(Kinds) /\ StopsAfterThreeFailures' /\ StreakInv'
      /\ streak' \in 0 .. 3
  BY <1>0, Observed DEF IInv, OpenInv, Typed
<1>5. /\ used'.retrievals = used.retrievals + Points(acting = "retrieve", 1)
      /\ used'.verifies = used.verifies + Points(acting = "verify", 1)
      /\ used' \in [tokens : Nat, retrievals : Nat, verifies : Nat]
  <2>1. /\ used \in [tokens : Nat, retrievals : Nat, verifies : Nat]
        /\ Points(acting = "retrieve", 1) \in Nat /\ Points(acting = "verify", 1) \in Nat
    BY <1>0 DEF Typed, Points
  <2>2. used' = [tokens |-> tokens,
                 retrievals |-> used.retrievals + Points(acting = "retrieve", 1),
                 verifies |-> used.verifies + Points(acting = "verify", 1)]
    BY <2>1 DEF Debited
  <2> QED
    BY <2>1, <2>2
<1>6. Typed'
  BY <1>0, <1>1, <1>3, <1>4, <1>5 DEF Typed
<1>7. /\ Count(history', {"retrieve"}) = Count(history, {"retrieve"}) + Points(acting = "retrieve", 1)
      /\ Count(history', {"verify"}) = Count(history, {"verify"}) + Points(acting = "verify", 1)
  <2>1. Count(history, {"retrieve"}) \in Nat /\ Count(history, {"verify"}) \in Nat
    BY <1>2, CountType
  <2> QED
    BY <1>1, <1>2, <2>1, CountAppend DEF Points
<1>8. Limit' = Limit /\ (Flat' <=> Flat)
  BY <1>1 DEF Limit, Flat
<1>9. DebitInv'
  BY <1>0, <1>1, <1>3, <1>5, <1>7, <1>8, LimitTypes DEF DebitInv, Steps, Typed
<1>10. BudgetHeld'
  <2>1. Count(history', Actions) <= Len(history) + 1
    BY <1>3, CountType
  <2>2. Len(history) < Limit.steps /\ Len(history) \in Nat /\ Count(history', Actions) \in Nat
    BY <1>0, <1>3, CountType DEF DebitInv, Steps, Typed
  <2>3. Limit.retrievals > 0 => Count(history', {"retrieve"}) <= Limit.retrievals
    BY <1>0, <1>7, LimitTypes DEF DebitInv, Points, Typed
  <2>4. Limit.verifies > 0 => Count(history', {"verify"}) <= Limit.verifies
    BY <1>0, <1>7, LimitTypes DEF DebitInv, Points, Typed
  <2>5. Count(history', Actions) <= Limit.steps
    BY <1>0, <2>1, <2>2, LimitTypes
  <2> QED
    BY <1>8, <2>3, <2>4, <2>5, OccurrencesIsCount DEF BudgetHeld, Occurrences, Count
<1>11. OpenInv'
  BY <1>0, <1>1, <1>3, <1>4, <1>8 DEF OpenInv
<1>12. StoppedTellsTheRun'
  BY <1>1 DEF StoppedTellsTheRun
<1> QED
  BY <1>1, <1>4, <1>6, <1>9, <1>10, <1>11, <1>12 DEF IInv

(* The end of the run.  Its last observations are judged by the caller of   *)
(* the lemma, its counters and its history here.                            *)
LEMMA RunEnds ==
  ASSUME IInv, pc # "done", NEW reason \in StopReasons, NEW past \in Seq(Actions),
         StopWith(reason, past), UNCHANGED task,
         NEW tokens, tokens \in Nat, used' = [used EXCEPT !.tokens = tokens],
         Count(past, {"retrieve"}) = Count(history, {"retrieve"}),
         Count(past, {"verify"}) = Count(history, {"verify"}),
         Flat => Count(past, Actions) <= Limit.steps,
         observations' \in Seq(Kinds), StopsAfterThreeFailures', streak' \in 0 .. 3
  PROVE  IInv'
<1>0. Typed /\ OpenInv /\ DebitInv /\ BudgetHeld
  BY DEF IInv
<1>1. /\ history' \in Seq(Actions \union StopReasons) /\ StoppedTellsTheRun' /\ pc' = "done"
      /\ \A A \in SUBSET Actions : Count(history', A) = Count(past, A)
  BY <1>0, Ends DEF OpenInv
<1>2. /\ {"retrieve"} \in SUBSET Actions /\ {"verify"} \in SUBSET Actions
      /\ Actions \in SUBSET Actions
  BY DEF Actions
<1>3. /\ Count(history', {"retrieve"}) = Count(history, {"retrieve"})
      /\ Count(history', {"verify"}) = Count(history, {"verify"})
      /\ Count(history', Actions) = Count(past, Actions)
  BY <1>1, <1>2
<1>4. used' = [tokens |-> tokens, retrievals |-> used.retrievals, verifies |-> used.verifies]
  BY <1>0 DEF Typed
<1>5. Typed'
  BY <1>0, <1>1, <1>4 DEF Typed
<1>6. DebitInv'
  BY <1>0, <1>1, <1>3, <1>4 DEF DebitInv
<1>7. Limit' = Limit /\ (Flat' <=> Flat)
  BY DEF Limit, Flat
<1>8. BudgetHeld'
  <2>1. /\ Limit.retrievals > 0 => Count(history, {"retrieve"}) <= Limit.retrievals
        /\ Limit.verifies > 0 => Count(history, {"verify"}) <= Limit.verifies
    BY <1>0 DEF BudgetHeld, Occurrences, Count
  <2> QED
    BY <1>3, <1>7, <2>1 DEF BudgetHeld, Occurrences, Count
<1> QED
  BY <1>1, <1>5, <1>6, <1>8 DEF IInv

-----------------------------------------------------------------------------
(* The invariant. *)

LEMMA InitIInv == Init => IInv
<1> SUFFICES ASSUME Init PROVE IInv
  OBVIOUS
<1>1. \A A : Count(history, A) = 0
  BY CountEmpty DEF Init
<1>2. Typed
  BY DEF Init, Typed
<1>3. DebitInv
  BY <1>1 DEF Init, DebitInv
<1>4. OpenInv
  BY DEF Init, OpenInv, StreakInv, Flat
<1>5. BudgetHeld
  <2>1. Flat => Count(history, Actions) <= Limit.steps
    BY <1>1, <1>2, LimitTypes
  <2>2. /\ Limit.retrievals > 0 => Count(history, {"retrieve"}) <= Limit.retrievals
        /\ Limit.verifies > 0 => Count(history, {"verify"}) <= Limit.verifies
    BY <1>1, <1>2, LimitTypes
  <2> QED
    BY <2>1, <2>2, HeldIf
<1>6. StopsAfterThreeFailures /\ StoppedTellsTheRun
  BY DEF Init, StopsAfterThreeFailures, StoppedTellsTheRun
<1> QED
  BY <1>2, <1>3, <1>4, <1>5, <1>6 DEF Init, IInv

(* A step that touches none of the variables the invariant speaks of. *)
LEMMA Untouched ==
  ASSUME IInv, UNCHANGED <<pc, task, used, history, observations, streak, stopped>>
  PROVE  IInv'
<1>1. Typed' /\ StreakInv' = StreakInv
  BY DEF IInv, Typed, StreakInv
<1>2. DebitInv'
  BY DEF IInv, DebitInv, Count, Steps, Limit
<1>3. pc' # "done" => OpenInv'
  BY <1>1 DEF IInv, OpenInv, Flat
<1>4. BudgetHeld' /\ StopsAfterThreeFailures' /\ StoppedTellsTheRun'
  BY DEF IInv, BudgetHeld, Occurrences, Limit, Flat, StopsAfterThreeFailures,
         StoppedTellsTheRun, Steps
<1> QED
  BY <1>1, <1>2, <1>3, <1>4 DEF IInv

(* No history is longer than the number of actions it may hold. *)
LEMMA OpenFacts ==
  ASSUME IInv, pc # "done"
  PROVE  /\ history \in Seq(Actions) /\ Len(history) \in Nat
         /\ Count(history, Actions) \in Nat /\ Count(history, Actions) <= Len(history)
         /\ Flat => Count(history, Actions) <= Limit.steps
         /\ stopped = <<>>
<1>1. history \in Seq(Actions) /\ stopped = <<>>
  BY DEF IInv, OpenInv
<1>2. Flat => Count(history, Actions) <= Limit.steps
  BY DEF IInv, BudgetHeld, Count
<1> QED
  BY <1>1, <1>2, CountType

LEMMA StartFlatLoopKeeps == IInv /\ StartFlatLoop => IInv'
<1> SUFFICES ASSUME IInv, StartFlatLoop PROVE IInv'
  OBVIOUS
<1>0. Typed /\ OpenInv /\ DebitInv /\ pc = "start" /\ pc' = "loop"
      /\ UNCHANGED <<task, used, history, observations, streak, stopped>>
  BY DEF IInv, StartFlatLoop
<1>1. Typed'
  BY <1>0 DEF Typed
<1>2. DebitInv'
  <2>1. Len(history) = 0
    BY <1>0 DEF OpenInv
  <2> QED
    BY <1>0, <2>1, LimitTypes DEF DebitInv, Count, Steps, Limit
<1>3. OpenInv'
  BY <1>0 DEF OpenInv, StreakInv, Flat, StartFlatLoop
<1>4. BudgetHeld' /\ StopsAfterThreeFailures' /\ StoppedTellsTheRun'
  BY <1>0 DEF IInv, BudgetHeld, Occurrences, Limit, Flat, StopsAfterThreeFailures,
              StoppedTellsTheRun
<1> QED
  BY <1>0, <1>1, <1>2, <1>3, <1>4 DEF IInv

LEMMA LoopStopsKeeps == IInv /\ LoopStops => IInv'
<1> SUFFICES ASSUME IInv, LoopStops PROVE IInv'
  OBVIOUS
<1>1. /\ pc = "loop" /\ MustStop \in StopReasons /\ StopWith(MustStop, history)
      /\ UNCHANGED <<task, used, observations, streak>>
  BY DEF LoopStops, MustStop, StopReasons
<1>2. /\ history \in Seq(Actions)
      /\ Flat => Count(history, Actions) <= Limit.steps
  BY <1>1, OpenFacts
<1>3. /\ used.tokens \in Nat /\ used' = [used EXCEPT !.tokens = used.tokens]
      /\ observations' \in Seq(Kinds) /\ streak' \in 0 .. 3
      /\ StopsAfterThreeFailures'
  BY <1>1 DEF IInv, Typed, StopsAfterThreeFailures
<1> QED
  BY <1>1, <1>2, <1>3, RunEnds

LEMMA SelectKeeps == IInv /\ Select => IInv'
<1> SUFFICES ASSUME IInv, Select PROVE IInv'
  OBVIOUS
<1>0. /\ Typed /\ OpenInv /\ DebitInv /\ pc = "loop" /\ pc' = "executing"
      /\ MustStop = "none"
      /\ UNCHANGED <<task, used, history, observations, streak, stopped>>
  BY DEF IInv, Select
<1>1. Steps < Limit.steps /\ WithinLimits /\ streak < 3
  <2>1. Steps \in Nat /\ Limit.steps \in Nat /\ streak \in Nat
    BY <1>0, LimitTypes DEF Typed, Steps
  <2>2. /\ ~(~cancelled /\ Steps >= Limit.steps)
        /\ ~cancelled
        /\ ~(~cancelled /\ Steps < Limit.steps /\ ~WithinLimits)
        /\ ~(~cancelled /\ Steps < Limit.steps /\ WithinLimits /\ streak >= 3)
    BY <1>0 DEF MustStop
  <2> QED
    BY <2>1, <2>2
<1>2. Typed'
  BY <1>0 DEF Typed
<1>3. DebitInv'
  <2>1. /\ Limit.retrievals > 0 => used.retrievals < Limit.retrievals
        /\ Limit.verifies > 0 => used.verifies < Limit.verifies
    BY <1>1 DEF WithinLimits
  <2> QED
    BY <1>0, <1>1, <2>1 DEF DebitInv, Count, Steps, Limit
<1>4. OpenInv'
  BY <1>0, <1>1 DEF OpenInv, StreakInv, Flat
<1>5. BudgetHeld' /\ StopsAfterThreeFailures' /\ StoppedTellsTheRun'
  BY <1>0 DEF IInv, BudgetHeld, Occurrences, Limit, Flat, StopsAfterThreeFailures,
              StoppedTellsTheRun
<1> QED
  BY <1>0, <1>2, <1>3, <1>4, <1>5 DEF IInv

LEMMA StopSelectedKeeps ==
  ASSUME IInv, NEW cost \in Costs, StopSelected(cost)
  PROVE  IInv'
<1>1. /\ pc = "executing" /\ acting \in StopReasons /\ StopWith(acting, history)
      /\ UNCHANGED task
      /\ observations' = Append(observations, "text") /\ streak' = 0
      /\ used' = [used EXCEPT !.tokens = used.tokens + cost]
  BY DEF StopSelected, Observe
<1>2. /\ history \in Seq(Actions)
      /\ Flat => Count(history, Actions) <= Limit.steps
  BY <1>1, OpenFacts
<1>3. used.tokens + cost \in Nat
  BY CostAssumption DEF IInv, Typed
<1>4. observations' \in Seq(Kinds) /\ StopsAfterThreeFailures' /\ streak' \in 0 .. 3
  <2>1. "text" \in Kinds
    BY DEF Kinds
  <2> QED
    BY <1>1, <2>1, Observed DEF IInv, OpenInv
<1> QED
  BY <1>1, <1>2, <1>3, <1>4, RunEnds

LEMMA RespondedKeeps ==
  ASSUME IInv, NEW cost \in Costs, Responded(cost)
  PROVE  IInv'
<1> DEFINE past == Append(history, "respond")
<1>1. /\ pc = "executing" /\ StopWith("TaskComplete", past)
      /\ UNCHANGED task
      /\ observations' = Append(observations, "response") /\ streak' = 0
      /\ used' = [used EXCEPT !.tokens = used.tokens + cost]
  BY DEF Responded, Observe
<1>2. history \in Seq(Actions) /\ "respond" \in Actions /\ past \in Seq(Actions)
  BY <1>1, OpenFacts DEF Actions
<1>3. /\ Count(past, {"retrieve"}) = Count(history, {"retrieve"})
      /\ Count(past, {"verify"}) = Count(history, {"verify"})
      /\ Count(past, Actions) = Count(history, Actions) + 1
  BY <1>2, CountAppend
<1>4. Count(past, Actions) <= Limit.steps
  <2>1. Steps < Limit.steps
    BY <1>1 DEF IInv, DebitInv
  <2>2. Limit.steps \in Nat
    BY LimitTypes DEF IInv
  <2> QED
    BY <1>1, <1>3, <2>1, <2>2, OpenFacts DEF Steps
<1>5. used.tokens + cost \in Nat
  BY CostAssumption DEF IInv, Typed
<1>6. observations' \in Seq(Kinds) /\ StopsAfterThreeFailures' /\ streak' \in 0 .. 3
  <2>1. "response" \in Kinds
    BY DEF Kinds
  <2> QED
    BY <1>1, <2>1, Observed DEF IInv, OpenInv
<1>7. "TaskComplete" \in StopReasons
  BY DEF StopReasons
<1> HIDE DEF past
<1> QED
  BY <1>1, <1>2, <1>3, <1>4, <1>5, <1>6, <1>7, RunEnds


LEMMA RetrievedKeeps ==
  ASSUME IInv, NEW cost \in Costs, Retrieved(cost)
  PROVE  IInv'
<1>1. /\ pc = "executing" /\ acting = "retrieve" /\ EndTurn
      /\ observations' = Append(observations, "text") /\ streak' = 0
      /\ used' = Debited([used EXCEPT !.tokens = used.tokens + cost])
  BY DEF Retrieved
<1>2. used.tokens + cost \in Nat
  BY CostAssumption DEF IInv, Typed
<1>3. "text" \in Kinds /\ "text" \notin Errors
  BY DEF Kinds, Errors
<1> QED
  BY <1>1, <1>2, <1>3, TurnEnds

LEMMA VerifiedKeeps ==
  ASSUME IInv, NEW passed \in BOOLEAN, NEW listed \in BOOLEAN, NEW cost \in Costs,
         Verified(passed, listed, cost)
  PROVE  IInv'
<1> DEFINE kind == IF passed THEN "passed" ELSE "failed"
<1>1. /\ pc = "executing" /\ acting = "verify" /\ EndTurn
      /\ observations' = Append(observations, kind) /\ streak' = 0
      /\ used' = Debited([used EXCEPT !.tokens = used.tokens + cost])
  BY DEF Verified
<1>2. used.tokens + cost \in Nat
  BY CostAssumption DEF IInv, Typed
<1>3. kind \in Kinds /\ kind \notin Errors
  BY DEF Kinds, Errors
<1> HIDE DEF kind
<1> QED
  BY <1>1, <1>2, <1>3, TurnEnds

LEMMA ActionFailsKeeps == IInv /\ ActionFails => IInv'
<1> SUFFICES ASSUME IInv, ActionFails PROVE IInv'
  OBVIOUS
<1> DEFINE kind == IF streak + 1 < 3 THEN "error" ELSE "fatal"
<1>1. /\ pc = "executing" /\ acting \in {"retrieve", "verify", "respond"} /\ EndTurn
      /\ observations' = Append(observations, kind) /\ streak' = streak + 1
      /\ used' = Debited(used)
  BY DEF ActionFails
<1>2. used.tokens \in Nat /\ used = [used EXCEPT !.tokens = used.tokens]
  BY DEF IInv, Typed
<1>3. kind \in Kinds /\ kind \in Errors
  BY DEF Kinds, Errors
<1> HIDE DEF kind
<1> QED
  BY <1>1, <1>2, <1>3, TurnEnds

LEMMA StartPlanKeeps == IInv /\ StartPlan => IInv'
<1> SUFFICES ASSUME IInv, StartPlan PROVE IInv'
  OBVIOUS
<1>0. /\ Typed /\ OpenInv /\ DebitInv /\ pc = "start" /\ pc' = "planning" /\ ~Flat
      /\ history = <<>> /\ history' = Append(history, "plan")
      /\ UNCHANGED <<task, used, observations, streak, stopped>>
  BY DEF IInv, OpenInv, StartPlan, Flat
<1>1. /\ history' = <<"plan">> /\ history' \in Seq(Actions)
      /\ history' \in Seq(Actions \union StopReasons) /\ ~Flat'
  BY <1>0 DEF Actions, Flat
<1>2. /\ Count(history', {"retrieve"}) = Count(history, {"retrieve"})
      /\ Count(history', {"verify"}) = Count(history, {"verify"})
  <2>1. history \in Seq(Actions)
    BY <1>0 DEF OpenInv
  <2> QED
    BY <1>0, <2>1, CountAppend
<1>3. Typed' /\ DebitInv' /\ OpenInv'
  BY <1>0, <1>1, <1>2 DEF Typed, DebitInv, OpenInv, StreakInv
<1>4. BudgetHeld'
  <2>1. /\ Limit.retrievals > 0 => Count(history, {"retrieve"}) <= Limit.retrievals
        /\ Limit.verifies > 0 => Count(history, {"verify"}) <= Limit.verifies
    BY DEF IInv, BudgetHeld, Occurrences, Count
  <2>2. Limit' = Limit
    BY <1>0 DEF Limit
  <2> QED
    BY <1>1, <1>2, <2>1, <2>2 DEF BudgetHeld, Occurrences, Count
<1>5. StopsAfterThreeFailures' /\ StoppedTellsTheRun'
  BY <1>0 DEF IInv, StopsAfterThreeFailures, StoppedTellsTheRun
<1> QED
  BY <1>0, <1>3, <1>4, <1>5 DEF IInv

LEMMA PlanReturnsKeeps ==
  ASSUME IInv, NEW outcome \in {"outputs", "failures", "nothing"}, NEW cost \in Costs,
         PlanReturns(outcome, cost)
  PROVE  IInv'
<1> DEFINE past == history \o (IF outcome = "outputs" THEN <<"respond">> ELSE <<>>)
           seen == CASE outcome = "outputs" -> <<"response">>
                     [] outcome = "failures" -> <<"fatal">>
                     [] outcome = "nothing" -> <<>>
<1>1. /\ pc = "planning" /\ StopWith("TaskComplete", past)
      /\ UNCHANGED <<task, streak>>
      /\ observations' = observations \o seen
      /\ used' = [used EXCEPT !.tokens = used.tokens + cost]
  BY DEF PlanReturns
<1>2. observations = <<>> /\ ~Flat /\ history \in Seq(Actions)
  BY <1>1 DEF IInv, OpenInv
<1>3. past \in {Append(history, "respond"), history}
  <2>1. CASE outcome = "outputs"
    <3>1. past = history \o <<"respond">> /\ "respond" \in Actions
      BY <2>1 DEF Actions
    <3> QED
      BY <1>2, <3>1
  <2>2. CASE outcome # "outputs"
    <3>1. past = history \o <<>>
      BY <2>2
    <3> QED
      BY <1>2, <3>1
  <2> QED
    BY <2>1, <2>2
<1>4. /\ past \in Seq(Actions)
      /\ Count(past, {"retrieve"}) = Count(history, {"retrieve"})
      /\ Count(past, {"verify"}) = Count(history, {"verify"})
  <2>1. "respond" \in Actions
    BY DEF Actions
  <2>2. CASE past = history
    BY <1>2, <2>2
  <2>3. CASE past = Append(history, "respond")
    <3>1. past \in Seq(Actions)
      BY <1>2, <2>1, <2>3
    <3>2. /\ Count(Append(history, "respond"), {"retrieve"}) = Count(history, {"retrieve"})
          /\ Count(Append(history, "respond"), {"verify"}) = Count(history, {"verify"})
      BY <1>2, CountAppend
    <3> HIDE DEF past
    <3> QED
      BY <2>3, <3>1, <3>2
  <2> QED
    BY <1>3, <2>2, <2>3
<1>5. used.tokens + cost \in Nat
  BY CostAssumption DEF IInv, Typed
<1>6. seen \in Seq(Kinds) /\ Len(seen) <= 1
  <2>2. /\ \A k \in Kinds : <<k>> \in Seq(Kinds) /\ Len(<<k>>) = 1
        /\ <<>> \in Seq(Kinds) /\ Len(<<>>) = 0
        /\ "response" \in Kinds /\ "fatal" \in Kinds
    BY DEF Kinds
  <2>3. CASE outcome = "outputs"
    BY <2>2, <2>3
  <2>4. CASE outcome = "failures"
    BY <2>2, <2>4
  <2>5. CASE outcome = "nothing"
    BY <2>2, <2>5
  <2> QED
    BY <2>3, <2>4, <2>5
<1>7. observations' = seen
  <2>1. observations' = <<>> \o seen
    BY <1>1, <1>2
  <2>2. \A S : \A s \in Seq(S) : <<>> \o s = s
    BY ConcatEmptySeq, Zenon
  <2>3. <<>> \o seen = seen
    BY <1>6, <2>2, Zenon
  <2> QED
    BY <2>1, <2>3, Zenon
<1>8. observations' \in Seq(Kinds) /\ StopsAfterThreeFailures' /\ streak' \in 0 .. 3
  <2>1. observations' \in Seq(Kinds) /\ Len(observations') <= 1
    BY <1>6, <1>7, Zenon
  <2>2. streak' \in 0 .. 3
    BY <1>1 DEF IInv, Typed
  <2> QED
    BY <2>1, <2>2 DEF StopsAfterThreeFailures
<1>9. "TaskComplete" \in StopReasons
  BY DEF StopReasons
<1> HIDE DEF past, seen
<1> QED
  BY <1>1, <1>2, <1>4, <1>5, <1>8, <1>9, RunEnds

LEMMA PlanFailsKeeps == IInv /\ PlanFails => IInv'
<1> SUFFICES ASSUME IInv, PlanFails PROVE IInv'
  OBVIOUS
<1>0. /\ Typed /\ OpenInv /\ DebitInv /\ pc = "planning" /\ pc' = "done" /\ ~Flat
      /\ history = <<"plan">> /\ history' = Append(history, "Error") /\ stopped = <<>>
      /\ stopped' = stopped \o <<Stopped("Error", Steps + 1), Stopped("Error", 0)>>
      /\ UNCHANGED <<task, used, observations, streak>>
  BY DEF IInv, OpenInv, PlanFails
<1>1. /\ Len(history') = 2 /\ history'[1] = "plan" /\ history'[2] = "Error"
      /\ history' \in Seq(Actions \union StopReasons) /\ ~Flat'
      /\ stopped' = <<Stopped("Error", 2), Stopped("Error", 0)>>
  <2>1. /\ "plan" \in Actions \union StopReasons /\ "Error" \in Actions \union StopReasons
        /\ history \in Seq(Actions \union StopReasons)
    BY <1>0 DEF Actions, StopReasons, Typed
  <2>2. Len(history) = 1 /\ history[1] = "plan" /\ Steps = 1
    BY <1>0 DEF Steps
  <2>3. ~Flat'
    BY <1>0 DEF Flat
  <2>4. stopped' = <<>> \o <<Stopped("Error", 2), Stopped("Error", 0)>>
    BY <1>0, <2>2
  <2> QED
    BY <1>0, <2>1, <2>2, <2>3, <2>4
<1>2. /\ Count(history', {"retrieve"}) = Count(history, {"retrieve"})
      /\ Count(history', {"verify"}) = Count(history, {"verify"})
  <2>1. history \in Seq(Actions)
    BY <1>0 DEF OpenInv
  <2> QED
    BY <1>0, <2>1, CountAppend
<1>3. Typed' /\ DebitInv'
  BY <1>0, <1>1, <1>2 DEF Typed, DebitInv
<1>4. BudgetHeld'
  <2>1. /\ Limit.retrievals > 0 => Count(history, {"retrieve"}) <= Limit.retrievals
        /\ Limit.verifies > 0 => Count(history, {"verify"}) <= Limit.verifies
    BY DEF IInv, BudgetHeld, Occurrences, Count
  <2>2. Limit' = Limit
    BY <1>0 DEF Limit
  <2> QED
    BY <1>1, <1>2, <2>1, <2>2 DEF BudgetHeld, Occurrences, Count
<1>5. StopsAfterThreeFailures'
  BY <1>0 DEF IInv, StopsAfterThreeFailures
<1>6. StoppedTellsTheRun'
  BY <1>1 DEF StoppedTellsTheRun, Steps, Last, StopReasons
<1> QED
  BY <1>0, <1>3, <1>4, <1>5, <1>6 DEF IInv

LEMMA NextIInv == IInv /\ [Next]_vars => IInv'
<1> SUFFICES ASSUME IInv, [Next]_vars PROVE IInv'
  OBVIOUS
<1>1. CASE Run
  BY <1>1, StartFlatLoopKeeps, LoopStopsKeeps, SelectKeeps, StopSelectedKeeps,
     RetrievedKeeps, VerifiedKeeps, RespondedKeeps, PlanReturnsKeeps, ActionFailsKeeps,
     StartPlanKeeps, PlanFailsKeeps DEF Run
<1>2. CASE Cancel
  BY <1>2, Untouched DEF Cancel
<1>3. CASE Tick
  BY <1>3, Untouched DEF Tick
<1>4. CASE UNCHANGED vars
  BY <1>4, Untouched DEF vars
<1> QED
  BY <1>1, <1>2, <1>3, <1>4 DEF Next

LEMMA Invariant == Spec => []IInv
  BY InitIInv, NextIInv, PTL DEF Spec

-----------------------------------------------------------------------------

(* Whatever the budget, no more retrievals and verifications are carried    *)
(* out than a positive limit allows, failed ones included, and no more      *)
(* actions of the flat loop than max_steps (the debit of run_inner and the  *)
(* checks before every action).                                             *)
THEOREM BudgetNeverOverrun == Spec => []BudgetHeld
<1>1. IInv => BudgetHeld
  BY DEF IInv
<1> QED
  BY <1>1, Invariant, PTL

(* However the failures come, no action follows three that failed in a row  *)
(* (error_streak in should_stop).                                           *)
THEOREM NoFourthFailure == Spec => []StopsAfterThreeFailures
<1>1. IInv => StopsAfterThreeFailures
  BY DEF IInv
<1> QED
  BY <1>1, Invariant, PTL

(* A run that ended has told its client so, first with the reason and the   *)
(* number of steps its history has, and a Stop ends the history (the end of *)
(* run_inner and of the plan path).                                         *)
THEOREM ToldAsItEnded == Spec => []StoppedTellsTheRun
<1>1. IInv => StoppedTellsTheRun
  BY DEF IInv
<1> QED
  BY <1>1, Invariant, PTL

-----------------------------------------------------------------------------
(* Scores. *)

LEMMA MaxOfTwo ==
  ASSUME NEW a \in Int, NEW b \in Int
  PROVE  Max({a, b}) = IF a >= b THEN a ELSE b
<1> DEFINE m == IF a >= b THEN a ELSE b
<1>1. m \in {a, b} /\ \A y \in {a, b} : m >= y
  OBVIOUS
<1>2. \A x \in {a, b} : (\A y \in {a, b} : x >= y) => x = m
  OBVIOUS
<1>3. Max({a, b}) \in {a, b} /\ \A y \in {a, b} : Max({a, b}) >= y
  BY <1>1 DEF Max
<1> QED
  BY <1>2, <1>3

LEMMA MinOfTwo ==
  ASSUME NEW a \in Int, NEW b \in Int
  PROVE  Min({a, b}) = IF a <= b THEN a ELSE b
<1> DEFINE m == IF a <= b THEN a ELSE b
<1>1. m \in {a, b} /\ \A y \in {a, b} : m <= y
  OBVIOUS
<1>2. \A x \in {a, b} : (\A y \in {a, b} : x <= y) => x = m
  OBVIOUS
<1>3. Min({a, b}) \in {a, b} /\ \A y \in {a, b} : Min({a, b}) <= y
  BY <1>1 DEF Min
<1> QED
  BY <1>2, <1>3

LEMMA Clamped ==
  ASSUME NEW n \in Int
  PROVE  Clamp(n) = IF n < 0 THEN 0 ELSE IF n > 100 THEN 100 ELSE n
<1>1. Min({100, n}) = IF 100 <= n THEN 100 ELSE n
  BY MinOfTwo
<1>2. Max({0, Min({100, n})}) = IF 0 >= Min({100, n}) THEN 0 ELSE Min({100, n})
  BY <1>1, MaxOfTwo
<1> QED
  BY <1>1, <1>2 DEF Clamp

(* A share is a natural number. *)
LEMMA Shares ==
  ASSUME NEW a \in Nat, NEW b \in Nat \ {0}
  PROVE  (60 * a) \div b \in Nat
  OBVIOUS

LEMMA ScoreTypes ==
  ASSUME Typed
  PROVE  /\ ScoreRetrieve \in 0 .. 100 /\ ScoreVerify \in 0 .. 100
         /\ ScoreRespond \in 0 .. 100 /\ ScoreStop \in 0 .. 100
         /\ ScoreRetrieve <= 60
<1>1. ScoreVerify \in 0 .. 100 /\ ScoreStop \in 0 .. 100
  BY Clamped DEF ScoreVerify, ScoreStop, Points
<1>2. ScoreRespond \in 0 .. 100
  BY Clamped DEF ScoreRespond, Points
<1>3. ScoreRetrieve \in 0 .. 60
  <2> DEFINE u == used.retrievals
             over == IF Limit.retrievals = 0 THEN 30
                     ELSE Points(2 * u > Limit.retrievals,
                                 (60 * u) \div Limit.retrievals - 30)
             rest == Points(~hasRetrieved, 30) - Points(u > 3, 15 * (u - 3)) - over
                     - Points(hasRetrieved, 30)
  <2>1. u \in Nat /\ Limit.retrievals \in Nat
    BY LimitTypes DEF Typed
  <2>2. over \in Int /\ over >= -30
    <3>1. Limit.retrievals # 0 => (60 * u) \div Limit.retrievals \in Nat
      BY <2>1, Shares
    <3> QED
      BY <2>1, <3>1 DEF Points
  <2>3. rest \in Int /\ rest <= 60
    <3> HIDE DEF over
    <3> QED
      BY <2>1, <2>2 DEF Points
  <2>4. ScoreRetrieve = IF confidence >= 50 THEN 0 ELSE Clamp(rest)
    BY DEF ScoreRetrieve
  <2> HIDE DEF rest
  <2> QED
    BY <2>3, <2>4, Clamped
<1> QED
  BY <1>1, <1>2, <1>3

(* The selector's choice has the best score, and a better one than the      *)
(* candidates before it.                                                    *)
LEMMA FirstOfTheBest ==
  ASSUME Typed
  PROVE  \/ Best = "retrieve" /\ ScoreRetrieve >= ScoreVerify
         \/ Best = "verify"
         \/ Best = "respond" /\ ScoreRespond > ScoreVerify
         \/ Best = "tool_call" /\ ScoreVerify < 0
         \/ Best = "TaskComplete" /\ ScoreStop > 0
<1> DEFINE s == [i \in DOMAIN Candidates |-> Candidates[i].score]
           wins(i) == /\ \A j \in DOMAIN s : s[j] <= s[i]
                      /\ \A j \in 1 .. i - 1 : s[j] < s[i]
           first == CHOOSE i \in DOMAIN s : wins(i)
<1>1. /\ DOMAIN Candidates = 1 .. 5
      /\ Candidates[1] = [does |-> "retrieve", score |-> ScoreRetrieve]
      /\ Candidates[2] = [does |-> "verify", score |-> ScoreVerify]
      /\ Candidates[3] = [does |-> "respond", score |-> ScoreRespond]
      /\ Candidates[4] = [does |-> "tool_call", score |-> 0]
      /\ Candidates[5] = [does |-> "TaskComplete", score |-> ScoreStop]
  BY DEF Candidates
<1>2. /\ DOMAIN s = 1 .. 5 /\ s[1] = ScoreRetrieve /\ s[2] = ScoreVerify
      /\ s[3] = ScoreRespond /\ s[4] = 0 /\ s[5] = ScoreStop
  BY <1>1
<1>3. /\ s[1] \in Int /\ s[2] \in Int /\ s[3] \in Int /\ s[4] \in Int /\ s[5] \in Int
  BY <1>2, ScoreTypes
<1>4. Best = Candidates[first].does
  BY DEF Best
<1> HIDE DEF s
<1>5. \E i \in 1 .. 5 : wins(i)
  <2>1. \A j \in DOMAIN s : j \in {1, 2, 3, 4, 5}
    BY <1>2
  <2>2. PICK i \in {1, 2, 3, 4, 5} : \A j \in {1, 2, 3, 4, 5} : s[j] < s[i] \/ (s[j] = s[i] /\ j >= i)
    BY <1>3
  <2> QED
    BY <1>2, <1>3, <2>1, <2>2
<1>6. first \in 1 .. 5 /\ wins(first)
  BY <1>2, <1>5
<1> HIDE DEF first
<1>7. first \in {1, 2, 3, 4, 5}
  BY <1>6
<1>8. CASE first = 1
  BY <1>1, <1>2, <1>4, <1>6, <1>8
<1>9. CASE first = 2
  BY <1>1, <1>4, <1>9
<1>10. CASE first = 3
  BY <1>1, <1>2, <1>4, <1>6, <1>10
<1>11. CASE first = 4
  BY <1>1, <1>2, <1>4, <1>6, <1>11
<1>12. CASE first = 5
  BY <1>1, <1>2, <1>4, <1>6, <1>12
<1> QED
  BY <1>7, <1>8, <1>9, <1>10, <1>11, <1>12

-----------------------------------------------------------------------------
(* What a run is answered on. *)

(* Nothing looks like an answer before the run ends, so the selector gives  *)
(* up only when a step is left.                                             *)
GroundsInv ==
  /\ pc \in {"start", "loop", "executing"} =>
       \A i \in 1 .. Len(observations) : observations[i] # "response"
  /\ pc = "executing" /\ acting = "TaskComplete" => Steps >= Limit.steps - 1
  /\ CompletedOnGrounds

(* A Low task, resumed and not verified, with time and budget left.         *)
Pressing == task.complexity = "Low" /\ task.resumed /\ ~verified /\ ~Critical

(* Then whatever was done was to verify, and it failed.                     *)
PressingInv ==
  /\ Pressing /\ pc \in {"start", "loop", "executing"} =>
       /\ streak = Len(observations) /\ ~hasRetrieved
       /\ Len(observations) = 0 => confidence = 50
       /\ Len(observations) \in {1, 2} => observations[1] = "error"
       /\ pc = "executing" => acting \notin {"retrieve", "respond"}
  /\ ResumedLowIsVerified

AnswerInv == GroundsInv /\ PressingInv

LEMMA WindowFacts ==
  ASSUME Typed, observations # <<>>
  PROVE  /\ Window # <<>> /\ \E i \in 1 .. Len(observations) : Head(Window) = observations[i]
         /\ Len(observations) <= 2 =>
              Len(Window) = Len(observations) /\ Window[1] = observations[1]
<1> DEFINE n == Len(observations)
           m == Max({1, n - 4})
<1>1. observations \in Seq(Kinds) /\ n \in Nat /\ n >= 1
  BY DEF Typed
<1>2. m = IF 1 >= n - 4 THEN 1 ELSE n - 4
  BY <1>1, MaxOfTwo
<1>3. m \in 1 .. n /\ n \in m .. n /\ Window = SubSeq(observations, m, n)
  BY <1>1, <1>2 DEF Window
<1> HIDE DEF m
<1>4. Head(Window) = observations[m]
  BY <1>1, <1>3, HeadTailOfSubSeq
<1>5. \A i \in m .. n : observations[i] \in Kinds
  BY <1>1, <1>3
<1>6. Len(Window) = n - m + 1 /\ \A i \in 1 .. n - m + 1 : Window[i] = observations[m + i - 1]
  BY <1>1, <1>3, <1>5, SubSeqProperties
<1>7. Window # <<>>
  BY <1>3, <1>6
<1>8. n <= 2 => Len(Window) = n /\ Window[1] = observations[1]
  <2> SUFFICES ASSUME n <= 2 PROVE Len(Window) = n /\ Window[1] = observations[1]
    OBVIOUS
  <2>1. m = 1
    BY <1>1, <1>2 DEF m
  <2>2. 1 \in 1 .. n - m + 1 /\ n - m + 1 = n /\ m + 1 - 1 = 1
    BY <1>1, <2>1
  <2>3. Len(Window) = n /\ Window[1] = observations[m + 1 - 1]
    BY <1>6, <2>2
  <2> QED
    BY <2>2, <2>3
<1> QED
  BY <1>3, <1>4, <1>7, <1>8

LEMMA NothingLooksComplete ==
  ASSUME Typed, \A i \in 1 .. Len(observations) : observations[i] # "response"
  PROVE  ~LooksComplete
<1>1. CASE observations = <<>>
  <2>1. Max({1, Len(observations) - 4}) = 1
    BY <1>1, MaxOfTwo
  <2>2. Window = SubSeq(observations, 1, 0)
    BY <1>1, <2>1 DEF Window
  <2>3. Window = <<>>
    BY <2>2, SubSeqEmpty
  <2> QED
    BY <2>3 DEF LooksComplete
<1>2. CASE observations # <<>>
  BY <1>2, WindowFacts DEF LooksComplete
<1> QED
  BY <1>1, <1>2

(* What is used up stays used up. *)
LEMMA CriticalStays ==
  ASSUME Typed, Typed', UNCHANGED task, Critical, clock # "plenty" => clock' # "plenty",
         used'.tokens >= used.tokens, used'.retrievals >= used.retrievals,
         used'.verifies >= used.verifies
  PROVE  Critical'
<1>1. CASE clock # "plenty"
  BY <1>1 DEF Critical
<1>2. CASE Reached(95)
  <2>1. /\ used.tokens \in Nat /\ used.retrievals \in Nat /\ used.verifies \in Nat
        /\ used'.tokens \in Nat /\ used'.retrievals \in Nat /\ used'.verifies \in Nat
    BY DEF Typed
  <2>2. Limit.tokens \in Nat /\ Limit.retrievals \in Nat /\ Limit.verifies \in Nat
    <3>1. task.limits \in Limits
      BY DEF Typed
    <3> QED
      BY <3>1, LimitsAssumption DEF Limit
  <2>3. Limit' = Limit
    BY DEF Limit
  <2>4. Reached(95)'
    BY <1>2, <2>1, <2>2, <2>3 DEF Reached
  <2> QED
    BY <2>4 DEF Critical
<1> QED
  BY <1>1, <1>2 DEF Critical

(* An answer to a Low task is worth no more than a verification, which goes *)
(* before it, and a retrieval is worth less.  Before the first failure the  *)
(* confidence is the one a run begins with; after it the verification       *)
(* scores 100, whatever the confidence has become.                          *)
LEMMA VerifyOutweighs ==
  ASSUME Typed, Pressing, PressingInv, pc = "loop", streak < 3
  PROVE  ScoreRetrieve < ScoreVerify /\ ScoreRespond <= ScoreVerify /\ ScoreVerify > 0
<1>0. /\ task.complexity = "Low" /\ task.resumed /\ ~verified /\ ~hasRetrieved
      /\ streak = Len(observations) /\ streak \in 0 .. 3
      /\ Len(observations) = 0 => confidence = 50
      /\ Len(observations) \in {1, 2} => observations[1] = "error"
  BY DEF Pressing, PressingInv, Typed
<1>1. ScoreRetrieve <= 60 /\ ScoreRetrieve \in Int
  BY ScoreTypes
<1>2. ScoreVerify >= 70 /\ ScoreVerify \in Int
  <2>1. Pending
    BY <1>0 DEF Pending
  <2> QED
    BY <2>1, Clamped DEF ScoreVerify, Points
<1>3. CASE Len(observations) = 0
  <2>1. ScoreRespond = 0
    <3>1. Points(memoryErrors, 20) \in {0, 20}
      BY DEF Points
    <3>2. /\ Points(task.complexity = "Trivial" /\ confidence >= 50, 90) = 0
          /\ Points(confidence > 80, 70) = 0 /\ Points(confidence > 60, 50) = 0
          /\ Points(hasRetrieved, 40) = 0
      BY <1>0, <1>3 DEF Points
    <3> QED
      BY <3>1, <3>2, Clamped DEF ScoreRespond
  <2> QED
    BY <1>1, <1>2, <2>1, ScoreTypes
<1>4. CASE Len(observations) \in {1, 2}
  <2>1. HadIssues
    <3>1. observations # <<>> /\ Len(observations) <= 2
      <4>1. observations = <<>> => Len(observations) = 0
        OBVIOUS
      <4> QED
        BY <1>4, <4>1
    <3>2. Len(Window) \in {1, 2} /\ Window[1] = "error"
      BY <1>0, <1>4, <3>1, WindowFacts
    <3>3. Min({3, 1}) = 1 /\ Min({3, 2}) = 2
      <4>1. \A a, b \in Int : Min({a, b}) = IF a <= b THEN a ELSE b
        BY MinOfTwo
      <4>2. Min({3, 1}) = (IF 3 <= 1 THEN 3 ELSE 1) /\ Min({3, 2}) = IF 3 <= 2 THEN 3 ELSE 2
        <5>1. 1 \in Int /\ 2 \in Int /\ 3 \in Int
          OBVIOUS
        <5> QED
          BY <4>1, <5>1, Zenon
      <4> QED
        BY <4>2
    <3>4. 1 \in 1 .. Min({3, Len(Window)}) /\ Window[1] \in {"failed", "error"}
      <4>1. CASE Len(Window) = 1
        BY <3>2, <3>3, <4>1
      <4>2. CASE Len(Window) = 2
        BY <3>2, <3>3, <4>2
      <4> QED
        BY <3>2, <4>1, <4>2
    <3> QED
      BY <3>4 DEF HadIssues
  <2>2. Pending
    BY <1>0 DEF Pending
  <2>3. ScoreVerify = 100
    BY <2>1, <2>2, Clamped DEF ScoreVerify, Points
  <2> QED
    BY <1>1, <2>3, ScoreTypes
<1> QED
  BY <1>0, <1>3, <1>4

(* The two claims hold of a run that has not ended. *)
LEMMA NotYet == pc # "done" => CompletedOnGrounds /\ ResumedLowIsVerified
  BY DEF CompletedOnGrounds, ResumedLowIsVerified

LEMMA PressingStays ==
  ASSUME Typed, Typed', UNCHANGED <<task, verified>>, clock # "plenty" => clock' # "plenty",
         used'.tokens >= used.tokens, used'.retrievals >= used.retrievals,
         used'.verifies >= used.verifies, Pressing'
  PROVE  Pressing
  BY CriticalStays DEF Pressing

LEMMA InitAnswerInv == Init => AnswerInv
<1> SUFFICES ASSUME Init PROVE AnswerInv
  OBVIOUS
<1>1. pc = "start" /\ Len(observations) = 0 /\ streak = 0 /\ ~hasRetrieved /\ confidence = 50
  BY DEF Init
<1> QED
  BY <1>1, NotYet DEF AnswerInv, GroundsInv, PressingInv

(* A step that leaves the turn as it is. *)
LEMMA TurnAsItIs ==
  ASSUME IInv, IInv', AnswerInv, clock # "plenty" => clock' # "plenty",
         pc' = pc \/ (pc = "start" /\ pc' \in {"loop", "planning"}),
         UNCHANGED <<task, used, observations, streak, hasRetrieved, verified,
                     confidence, acting>>,
         pc # "start" => UNCHANGED history, pc = "done" => UNCHANGED clock
  PROVE  AnswerInv'
<1>1. Typed /\ Typed' /\ pc \in {"start", "loop", "executing", "planning", "done"}
  BY DEF IInv
<1>2. used.tokens \in Nat /\ used.retrievals \in Nat /\ used.verifies \in Nat
  BY <1>1 DEF Typed
<1>3. Pressing' => Pressing
  BY <1>1, <1>2, PressingStays
<1>4. CASE pc' = "done"
  <2>1. pc = "done" /\ UNCHANGED <<history, clock>>
    BY <1>4
  <2>2. UNCHANGED <<pc, history, observations, task, verified, used, clock>>
    BY <1>4, <2>1
  <2>3. CompletedOnGrounds' /\ ResumedLowIsVerified'
    BY <2>2 DEF AnswerInv, GroundsInv, PressingInv, CompletedOnGrounds,
       ResumedLowIsVerified, Flat, Steps, Limit, Critical, Reached
  <2> QED
    BY <1>4, <2>3 DEF AnswerInv, GroundsInv, PressingInv
<1>5. CASE pc' # "done"
  <2>1. CompletedOnGrounds' /\ ResumedLowIsVerified'
    BY <1>5 DEF CompletedOnGrounds, ResumedLowIsVerified
  <2>2. GroundsInv'
    BY <1>1, <2>1 DEF AnswerInv, GroundsInv, Steps, Limit
  <2>3. PressingInv'
    BY <1>1, <1>3, <2>1 DEF AnswerInv, PressingInv
  <2> QED
    BY <2>2, <2>3 DEF AnswerInv
<1> QED
  BY <1>4, <1>5

LEMMA SelectAnswers ==
  ASSUME IInv, IInv', AnswerInv, Select
  PROVE  AnswerInv'
<1>1. /\ pc = "loop" /\ pc' = "executing" /\ acting' = SelectAction /\ MustStop = "none"
      /\ UNCHANGED <<task, clock, used, history, observations, streak, hasRetrieved,
                     verified, confidence>>
  BY DEF Select
<1>2. /\ Typed /\ Typed' /\ streak < 3
      /\ \A i \in 1 .. Len(observations) : observations[i] # "response"
      /\ Steps \in Nat /\ Limit.steps \in Nat
  <2>1. streak' < 3
    BY <1>1 DEF IInv, OpenInv
  <2> QED
    BY <1>1, <2>1, LimitTypes DEF IInv, AnswerInv, GroundsInv, Typed, Steps
<1>3. ~LooksComplete
  BY <1>2, NothingLooksComplete
<1>4. SelectAction \in {"BudgetExhausted", "Error", "MaxStepsReached"}
        \/ (SelectAction = "respond" /\ Critical) \/ SelectAction = Best
  BY DEF SelectAction
<1>5. ASSUME SelectAction = "TaskComplete"
      PROVE  Steps >= Limit.steps - 1
  <2>1. Best = "TaskComplete"
    BY <1>4, <1>5
  <2>2. ScoreStop > 0
    BY <1>2, <2>1, FirstOfTheBest
  <2> QED
    BY <1>2, <1>3, <2>2, Clamped DEF ScoreStop, Points
<1>6. ASSUME Pressing
      PROVE  SelectAction \notin {"retrieve", "respond"}
  <2>1. ~Critical
    BY <1>6 DEF Pressing
  <2>2. ScoreRetrieve < ScoreVerify /\ ScoreRespond <= ScoreVerify
    BY <1>1, <1>2, <1>6, VerifyOutweighs DEF AnswerInv
  <2>3. Best \notin {"retrieve", "respond"}
    <3>1. ScoreRetrieve \in Int /\ ScoreVerify \in Int /\ ScoreRespond \in Int
      <4>1. /\ ScoreRetrieve \in 0 .. 100 /\ ScoreVerify \in 0 .. 100
            /\ ScoreRespond \in 0 .. 100
        BY <1>2, ScoreTypes, Zenon
      <4> QED
        BY <4>1
    <3>2. ~(ScoreRetrieve >= ScoreVerify) /\ ~(ScoreRespond > ScoreVerify)
      BY <2>2, <3>1
    <3> QED
      BY <1>2, <3>2, FirstOfTheBest, Zenon
  <2> QED
    BY <1>4, <2>1, <2>3
<1>7. Pressing' <=> Pressing
  BY <1>1 DEF Pressing, Critical, Reached, Limit
<1>8. CompletedOnGrounds' /\ ResumedLowIsVerified'
  BY <1>1 DEF CompletedOnGrounds, ResumedLowIsVerified
<1>9. GroundsInv'
  BY <1>1, <1>2, <1>5, <1>8 DEF GroundsInv, Steps, Limit
<1>10. PressingInv'
  BY <1>1, <1>6, <1>7, <1>8 DEF AnswerInv, PressingInv
<1> QED
  BY <1>9, <1>10 DEF AnswerInv

(* The end of a run that was not completed, or on grounds. *)
LEMMA EndAnswers ==
  ASSUME IInv, IInv', NEW reason, NEW past, past \in Seq(Actions), StopWith(reason, past),
         \/ reason # "TaskComplete"
         \/ Len(past) + 1 >= Limit'.steps
         \/ /\ Flat' => Last(observations') = "response"
            /\ ~Pressing'
  PROVE  AnswerInv'
<1>1. pc' = "done" /\ history' = Append(past, reason)
  BY DEF StopWith
<1>2. Last(history') = reason /\ Steps' = Len(past) + 1
  BY <1>1 DEF Last, Steps
<1>3. CompletedOnGrounds' /\ ResumedLowIsVerified'
  BY <1>1, <1>2 DEF CompletedOnGrounds, ResumedLowIsVerified, Pressing
<1> QED
  BY <1>1, <1>3 DEF AnswerInv, GroundsInv, PressingInv

LEMMA LoopStopsAnswers ==
  ASSUME IInv, IInv', AnswerInv, LoopStops
  PROVE  AnswerInv'
<1>1. StopWith(MustStop, history) /\ MustStop # "TaskComplete" /\ pc = "loop"
  BY DEF LoopStops, MustStop
<1>2. history \in Seq(Actions)
  BY <1>1, OpenFacts
<1> QED
  BY <1>1, <1>2, EndAnswers

LEMMA StopSelectedAnswers ==
  ASSUME IInv, IInv', AnswerInv, NEW cost \in Costs, StopSelected(cost)
  PROVE  AnswerInv'
<1>1. StopWith(acting, history) /\ pc = "executing" /\ Limit' = Limit
  BY DEF StopSelected, Limit
<1>2. history \in Seq(Actions) /\ Len(history) \in Nat /\ Limit.steps \in Nat
  BY <1>1, OpenFacts, LimitTypes DEF IInv
<1>3. acting = "TaskComplete" => Len(history) + 1 >= Limit'.steps
  BY <1>1, <1>2 DEF AnswerInv, GroundsInv, Steps
<1> QED
  BY <1>1, <1>2, <1>3, EndAnswers

LEMMA RespondedAnswers ==
  ASSUME IInv, IInv', AnswerInv, NEW cost \in Costs, Responded(cost)
  PROVE  AnswerInv'
<1> DEFINE past == Append(history, "respond")
<1>1. /\ pc = "executing" /\ acting = "respond" /\ StopWith("TaskComplete", past)
      /\ observations' = Append(observations, "response")
      /\ used' = [used EXCEPT !.tokens = used.tokens + cost]
      /\ UNCHANGED <<task, verified, clock>>
  BY DEF Responded, Observe
<1>2. past \in Seq(Actions)
  <2>1. history \in Seq(Actions) /\ "respond" \in Actions
    BY <1>1, OpenFacts DEF Actions
  <2> QED
    BY <2>1
<1>3. Typed /\ Typed'
  BY DEF IInv
<1>4. Last(observations') = "response"
  BY <1>1, <1>3 DEF Last, Typed
<1>5. ~Pressing'
  <2>1. /\ used'.tokens >= used.tokens /\ used'.retrievals >= used.retrievals
        /\ used'.verifies >= used.verifies
    BY <1>1, <1>3, CostAssumption DEF Typed
  <2>2. ~Pressing
    BY <1>1 DEF AnswerInv, PressingInv
  <2> QED
    BY <1>1, <1>3, <2>1, <2>2, PressingStays
<1> HIDE DEF past
<1> QED
  BY <1>1, <1>2, <1>4, <1>5, EndAnswers

LEMMA PlanReturnsAnswers ==
  ASSUME IInv, IInv', AnswerInv, NEW outcome, NEW cost \in Costs, PlanReturns(outcome, cost)
  PROVE  AnswerInv'
<1>1. /\ pc = "planning" /\ pc' = "done" /\ UNCHANGED task
  BY DEF PlanReturns, StopWith
<1>2. ~Flat' /\ task'.complexity # "Low"
  BY <1>1 DEF IInv, OpenInv, Flat
<1> QED
  BY <1>1, <1>2 DEF AnswerInv, GroundsInv, PressingInv, CompletedOnGrounds,
     ResumedLowIsVerified, Flat

LEMMA PlanFailsAnswers ==
  ASSUME IInv, IInv', AnswerInv, PlanFails
  PROVE  AnswerInv'
<1>1. /\ pc = "planning" /\ pc' = "done" /\ UNCHANGED task
  BY DEF PlanFails
<1>2. ~Flat' /\ task'.complexity # "Low"
  BY <1>1 DEF IInv, OpenInv, Flat
<1> QED
  BY <1>1, <1>2 DEF AnswerInv, GroundsInv, PressingInv, CompletedOnGrounds,
     ResumedLowIsVerified, Flat

(* The end of a turn that goes on. *)
LEMMA TurnAnswers ==
  ASSUME IInv, IInv', AnswerInv, EndTurn, pc = "executing",
         NEW kind \in Kinds \ {"response"}, observations' = Append(observations, kind),
         Pressing' =>
           /\ Pressing /\ streak' = streak + 1 /\ UNCHANGED hasRetrieved
           /\ streak = 0 => kind = "error"
  PROVE  AnswerInv'
<1>1. pc' = "loop" /\ UNCHANGED task
  BY DEF EndTurn
<1>2. /\ Typed /\ Typed' /\ Len(observations) \in Nat /\ observations' \in Seq(Kinds)
      /\ Len(observations') = Len(observations) + 1
      /\ observations'[Len(observations) + 1] = kind
      /\ \A i \in 1 .. Len(observations) : observations'[i] = observations[i]
  BY DEF IInv, Typed
<1>3. CompletedOnGrounds' /\ ResumedLowIsVerified'
  BY <1>1 DEF CompletedOnGrounds, ResumedLowIsVerified
<1>4. GroundsInv'
  BY <1>1, <1>2, <1>3 DEF AnswerInv, GroundsInv
<1>5. ASSUME Pressing'
      PROVE  /\ streak' = Len(observations') /\ ~hasRetrieved'
             /\ Len(observations') \in {1, 2} => observations'[1] = "error"
  <2>1. /\ streak = Len(observations) /\ ~hasRetrieved
        /\ Len(observations) \in {1, 2} => observations[1] = "error"
        /\ streak' = streak + 1 /\ hasRetrieved' = hasRetrieved
        /\ streak = 0 => kind = "error"
    BY <1>5 DEF AnswerInv, PressingInv
  <2> QED
    BY <1>2, <2>1
<1>6. PressingInv'
  BY <1>1, <1>2, <1>3, <1>5 DEF PressingInv
<1> QED
  BY <1>4, <1>6 DEF AnswerInv

LEMMA RetrievedAnswers ==
  ASSUME IInv, IInv', AnswerInv, NEW cost \in Costs, Retrieved(cost)
  PROVE  AnswerInv'
<1>1. /\ pc = "executing" /\ acting = "retrieve" /\ EndTurn
      /\ observations' = Append(observations, "text")
      /\ used' = Debited([used EXCEPT !.tokens = used.tokens + cost])
      /\ UNCHANGED <<verified, task, clock>>
  BY DEF Retrieved, EndTurn
<1>2. ~Pressing
  BY <1>1 DEF AnswerInv, PressingInv
<1>3. /\ Typed /\ Typed' /\ used'.tokens >= used.tokens
      /\ used'.retrievals >= used.retrievals /\ used'.verifies >= used.verifies
  BY <1>1, CostAssumption DEF IInv, Typed, Debited, Points
<1>4. ~Pressing'
  BY <1>1, <1>2, <1>3, PressingStays
<1>5. "text" \in Kinds \ {"response"}
  BY DEF Kinds
<1> QED
  BY <1>1, <1>4, <1>5, TurnAnswers

LEMMA VerifiedAnswers ==
  ASSUME IInv, IInv', AnswerInv, NEW passed \in BOOLEAN, NEW listed \in BOOLEAN,
         NEW cost \in Costs, Verified(passed, listed, cost)
  PROVE  AnswerInv'
<1> DEFINE kind == IF passed THEN "passed" ELSE "failed"
<1>1. /\ pc = "executing" /\ EndTurn /\ verified' = TRUE
      /\ observations' = Append(observations, kind)
  BY DEF Verified
<1>2. ~Pressing' /\ kind \in Kinds \ {"response"}
  BY <1>1 DEF Pressing, Kinds
<1> HIDE DEF kind
<1> QED
  BY <1>1, <1>2, TurnAnswers

LEMMA ActionFailsAnswers ==
  ASSUME IInv, IInv', AnswerInv, ActionFails
  PROVE  AnswerInv'
<1> DEFINE kind == IF streak + 1 < 3 THEN "error" ELSE "fatal"
<1>1. /\ pc = "executing" /\ EndTurn
      /\ observations' = Append(observations, kind) /\ streak' = streak + 1
      /\ used' = Debited(used)
      /\ UNCHANGED <<hasRetrieved, verified, task, clock>>
  BY DEF ActionFails, EndTurn
<1>2. kind \in Kinds \ {"response"} /\ (streak = 0 => kind = "error")
  BY DEF Kinds
<1>3. /\ Typed /\ Typed' /\ used'.tokens >= used.tokens
      /\ used'.retrievals >= used.retrievals /\ used'.verifies >= used.verifies
  BY <1>1 DEF IInv, Typed, Debited, Points
<1>4. Pressing' => Pressing
  BY <1>1, <1>3, PressingStays
<1> HIDE DEF kind
<1> QED
  BY <1>1, <1>2, <1>4, TurnAnswers

LEMMA NextAnswers == IInv /\ IInv' /\ AnswerInv /\ [Next]_vars => AnswerInv'
<1> SUFFICES ASSUME IInv, IInv', AnswerInv, [Next]_vars PROVE AnswerInv'
  OBVIOUS
<1>1. CASE StartFlatLoop
  BY <1>1, TurnAsItIs DEF StartFlatLoop
<1>2. CASE StartPlan
  BY <1>2, TurnAsItIs DEF StartPlan
<1>3. CASE Run /\ ~StartFlatLoop /\ ~StartPlan
  BY <1>3, LoopStopsAnswers, SelectAnswers, StopSelectedAnswers, RetrievedAnswers,
     VerifiedAnswers, RespondedAnswers, PlanReturnsAnswers, ActionFailsAnswers,
     PlanFailsAnswers DEF Run
<1>4. CASE Cancel
  BY <1>4, TurnAsItIs DEF Cancel
<1>5. CASE Tick
  <2>1. clock' # "plenty"
    BY <1>5 DEF Tick
  <2> QED
    BY <1>5, <2>1, TurnAsItIs DEF Tick
<1>6. CASE UNCHANGED vars
  BY <1>6, TurnAsItIs DEF vars
<1> QED
  BY <1>1, <1>2, <1>3, <1>4, <1>5, <1>6 DEF Next

LEMMA AnswerInvariant == Spec => []AnswerInv
<1>1. Spec => []IInv
  BY Invariant
<1> QED
  BY <1>1, InitAnswerInv, NextAnswers, PTL DEF Spec

(* Whatever the selector's scores come to, a flat run is called complete    *)
(* only when it was answered, or one step before max_steps: no failed       *)
(* Respond completes a task (the match on the action in run_inner).         *)
THEOREM CompletedAsAnswered == Spec => []CompletedOnGrounds
<1>1. AnswerInv => CompletedOnGrounds
  BY DEF AnswerInv, GroundsInv
<1> QED
  BY <1>1, AnswerInvariant, PTL

(* Whatever its wording adds to the confidence, and whatever the rounding   *)
(* makes of it at a threshold, a Low task resumed with modified files is    *)
(* not completed unverified while time, tokens and steps are left           *)
(* (score_verify against score_respond and score_stop).  The answer may     *)
(* score as much as the verification, 100, which is then chosen because it  *)
(* is an earlier candidate.                                                 *)
THEOREM VerifiedBeforeAnswered == Spec => []ResumedLowIsVerified
<1>1. AnswerInv => ResumedLowIsVerified
  BY DEF AnswerInv, PressingInv
<1> QED
  BY <1>1, AnswerInvariant, PTL
=============================================================================
