------------------------- MODULE GraphRunnerProofs -------------------------
(***************************************************************************)
(* Theorems about GraphRunner for every number of steps, every shape of    *)
(* the plans, every budget and every planner, with their proofs.           *)
(***************************************************************************)
EXTENDS GraphRunner, TLAPS, FiniteSetTheorems, SequenceTheorems,
        WellFoundedInduction

(* What every state says of one step: where it can be at once, and what    *)
(* must have happened for it to be there.                                  *)
StepInv(s) ==
  /\ execs[s] \in {0, 1}
  /\ s >= nextId => status[s] = "absent" /\ execs[s] = 0
  /\ s \in todo => status[s] = "pending" /\ s \notin InFlight /\ deps[s] \subseteq Completed
  /\ s \in InFlight => status[s] = "pending" /\ execs[s] = 1
  /\ status[s] = "pending" /\ s \notin InFlight => execs[s] = 0
  /\ status[s] = "completed" => execs[s] = 1 /\ (s \in VerifyAfter => s \in gated)
  /\ status[s] # "absent" /\ execs[s] > 0 => deps[s] \subseteq Completed

(* What the position in the loop says of the batch. *)
BatchInv ==
  /\ pc \in {"loop", "replan", "done", "process"} => todo = {} /\ running = {}
  /\ pc \in {"loop", "replan", "done"} => Arrived = {}
  /\ pc \in {"loop", "replan", "done", "process", "spawn"} => sub.step = 0

IInv == TypeOK /\ BatchInv /\ \A s \in StepIds : StepInv(s)

-----------------------------------------------------------------------------
(* The operators the model is built from. *)

(* The first of a set of steps is one of the set. *)
LEMMA FirstIsMember ==
  ASSUME NEW S \in SUBSET Nat, S # {}
  PROVE  First(S) \in S /\ \A t \in S : First(S) <= t
<1>1. PICK x \in S : \A y \in S : ~(<<y, x>> \in OpToRel(<, Nat))
  BY NatLessThanWellFounded, WFMin, S \subseteq Nat
<1>2. \A y \in S : x <= y
  <2> SUFFICES ASSUME NEW y \in S PROVE x <= y
    OBVIOUS
  <2>1. x \in Nat /\ y \in Nat
    OBVIOUS
  <2>2. ~(y < x)
    BY <1>1, <2>1 DEF OpToRel
  <2> QED
    BY <2>1, <2>2
<1> QED
  BY <1>2 DEF First

(* Any set of steps is finite, so its cardinality is a number. *)
LEMMA CardinalityOfSteps ==
  ASSUME NEW S \in SUBSET StepIds
  PROVE  Cardinality(S) \in Nat
<1>1. IsFiniteSet(StepIds)
  BY FS_Interval, BoundsAssumption DEF StepIds
<1>2. IsFiniteSet(S)
  BY <1>1, FS_Subset
<1> QED
  BY <1>2, FS_CardinalityType

(* A batch is made of ready steps only. *)
LEMMA BatchIsReady == Batch \subseteq Ready
  BY DEF Batch, Affordable

(* What process_results takes off the list is a result that arrived. *)
LEMMA NextResultArrived ==
  ASSUME Arrived # {}
  PROVE  NextResult \in Arrived /\ NextResult \in StepIds
<1> DEFINE inline == {s \in Arrived : HasSub(s)}
           S == IF inline # {} THEN inline ELSE Arrived
<1>1. S \in SUBSET Nat /\ S # {} /\ S \subseteq Arrived /\ Arrived \subseteq StepIds
  BY BoundsAssumption DEF Arrived, StepIds
<1>2. First(S) \in S
  BY <1>1, FirstIsMember
<1>3. NextResult = First(S)
  BY DEF NextResult
<1> QED
  BY <1>1, <1>2, <1>3

-----------------------------------------------------------------------------
(* Type correctness. *)

LEMMA InitTypeOK == Init => TypeOK
<1> USE BoundsAssumption DEF StepIds
<1> SUFFICES ASSUME Init PROVE TypeOK
  OBVIOUS
<1>1. nextId \in 1..(MaxSteps + 1)
  BY DEF Init
<1>2. deps \in [StepIds -> SUBSET StepIds]
  <2>1. PICK d \in [1..(nextId - 1) -> SUBSET (1..(nextId - 1))] :
          deps = [s \in StepIds |-> IF s < nextId THEN d[s] ELSE {}]
    BY DEF Init
  <2> QED
    BY <1>1, <2>1
<1>3. sub \in [step : 0..MaxSteps, status : Seq(SubStatuses),
                wave : SUBSET Nat, ok : BOOLEAN, tokens : Nat]
  <2>1. << >> \in Seq(SubStatuses)
    OBVIOUS
  <2> QED
    BY <2>1 DEF Init, NoSub
<1> QED
  BY <1>1, <1>2, <1>3 DEF Init, TypeOK, Statuses, Outcomes, StopReasons

(* Running a sub-step keeps the shape of the sub-plan being walked. *)
LEMMA SubStepShape ==
  ASSUME TypeOK, RunSubStep
  PROVE  sub' \in [step : 0..MaxSteps, status : Seq(SubStatuses),
                   wave : SUBSET Nat, ok : BOOLEAN, tokens : Nat]
<1> DEFINE i == First(sub.wave)
           Ended(how, t) == [sub EXCEPT !.wave = @ \ {i},
                                        !.status[i] = how,
                                        !.ok = @ /\ how = "completed",
                                        !.tokens = @ + t]
<1>1. sub \in [step : 0..MaxSteps, status : Seq(SubStatuses),
               wave : SUBSET Nat, ok : BOOLEAN, tokens : Nat]
  BY DEF TypeOK
<1>2. PICK how \in {"completed", "failed"}, t \in Nat : sub' = Ended(how, t)
  BY AttributesAssumption DEF RunSubStep
<1>3. [sub.status EXCEPT ![i] = how] \in Seq(SubStatuses)
  <2>1. sub.status \in Seq(SubStatuses) /\ how \in SubStatuses
    BY <1>1 DEF SubStatuses
  <2>2. CASE i \in 1..Len(sub.status)
    BY <2>1, <2>2, ExceptSeq
  <2>3. CASE i \notin 1..Len(sub.status)
    <3>1. DOMAIN sub.status = 1..Len(sub.status)
      BY <2>1
    <3>2. sub.status \in [1..Len(sub.status) -> SubStatuses]
      BY <2>1
    <3>3. [sub.status EXCEPT ![i] = how] = sub.status
      BY <2>3, <3>2
    <3> QED
      BY <2>1, <3>3
  <2> QED
    BY <2>2, <2>3
<1>4. (sub.ok /\ how = "completed") \in BOOLEAN
  BY Zenon
<1>5. sub.tokens + t \in Nat /\ sub.wave \ {i} \in SUBSET Nat
  BY <1>1
<1>6. sub' = [step |-> sub.step, status |-> [sub.status EXCEPT ![i] = how],
              wave |-> sub.wave \ {i}, ok |-> (sub.ok /\ how = "completed"),
              tokens |-> sub.tokens + t]
  BY <1>1, <1>2
<1> QED
  BY <1>1, <1>3, <1>4, <1>5, <1>6

(* The next step to dispatch is one of the batch. *)
LEMMA FirstToDo ==
  ASSUME TypeOK, todo # {}
  PROVE  First(todo) \in todo /\ First(todo) \in StepIds
<1>1. todo \in SUBSET Nat /\ todo \subseteq StepIds
  BY BoundsAssumption DEF TypeOK, StepIds
<1> QED
  BY <1>1, FirstIsMember

(* Every operation of the runner keeps the types. *)
LEMMA NextTypeOK == TypeOK /\ [Next]_vars => TypeOK'
<1> USE BoundsAssumption DEF StepIds, planVars, batchVars, countVars
<1> SUFFICES ASSUME TypeOK, [Next]_vars PROVE TypeOK'
  OBVIOUS
<1>1. CASE Halt
  BY <1>1 DEF TypeOK, Halt
<1>2. CASE StartBatch
  <2>1. Batch \subseteq StepIds
    BY BatchIsReady DEF Ready
  <2>2. Cardinality(Terminal) \in Nat
    BY CardinalityOfSteps DEF Terminal
  <2>3. solo' \in BOOLEAN
    BY <1>2, Zenon DEF StartBatch
  <2> QED
    BY <1>2, <2>1, <2>2, <2>3 DEF TypeOK, StartBatch
<1>3. CASE SpawnTask
  <2>1. First(todo) \in StepIds
    BY <1>3, FirstToDo DEF SpawnTask
  <2>2. execs[First(todo)] + 1 \in Nat
    BY <2>1 DEF TypeOK
  <2>3. todo' \subseteq StepIds /\ running' \subseteq StepIds
    BY <1>3, <2>1 DEF TypeOK, SpawnTask
  <2>4. execs' \in [StepIds -> Nat]
    BY <1>3, <2>2 DEF TypeOK, SpawnTask
  <2> QED
    BY <1>3, <2>3, <2>4 DEF TypeOK, SpawnTask
<1>4. CASE Join
  BY <1>4 DEF TypeOK, Join
<1>5. ASSUME NEW s \in StepIds, FinishTask(s)
      PROVE  TypeOK'
  <2>1. PICK o \in Outcomes : outcome' = [outcome EXCEPT ![s] = o]
    BY <1>5 DEF FinishTask, Outcomes
  <2>2. PICK c \in Nat : cost' = [cost EXCEPT ![s] = c]
    BY <1>5, AttributesAssumption DEF FinishTask
  <2> QED
    BY <1>5, <2>1, <2>2 DEF TypeOK, FinishTask
<1>6. ASSUME NEW s \in StepIds, PanicTask(s)
      PROVE  TypeOK'
  <2>1. CASE solo
    BY <1>6, <2>1 DEF TypeOK, PanicTask
  <2>2. CASE ~solo
    <3>1. outcome' \in [StepIds -> Outcomes]
      <4>1. outcome' = [outcome EXCEPT ![s] = "error"]
        BY <1>6, <2>2 DEF PanicTask
      <4>2. "error" \in Outcomes
        BY DEF Outcomes
      <4> QED
        BY <4>1, <4>2 DEF TypeOK
    <3>2. cost' = [cost EXCEPT ![s] = 0] /\ running' = running \ {s} /\ pc' = pc
      BY <1>6, <2>2 DEF PanicTask
    <3>3. cost' \in [StepIds -> Nat] /\ running' \subseteq StepIds
      BY <3>2 DEF TypeOK
    <3> QED
      BY <1>6, <3>1, <3>2, <3>3 DEF TypeOK, PanicTask
  <2> QED
    BY <2>1, <2>2
<1>7. CASE StartSubPlan
  <2>1. First(todo) \in StepIds
    BY <1>7, FirstToDo DEF StartSubPlan
  <2>2. [i \in DOMAIN SubPlan[First(todo)] |-> "pending"] \in Seq(SubStatuses)
    <3>1. SubPlan[First(todo)] \in Seq(SUBSET Nat)
      BY <2>1, AttributesAssumption
    <3>2. DOMAIN SubPlan[First(todo)] = 1..Len(SubPlan[First(todo)])
          /\ Len(SubPlan[First(todo)]) \in Nat
      BY <3>1
    <3> QED
      BY <3>2 DEF SubStatuses
  <2>3. sub' = [step |-> First(todo),
                status |-> [i \in DOMAIN SubPlan[First(todo)] |-> "pending"],
                wave |-> {}, ok |-> TRUE, tokens |-> 0]
    BY <1>7 DEF StartSubPlan, NoSub
  <2>4. sub' \in [step : 0..MaxSteps, status : Seq(SubStatuses),
                  wave : SUBSET Nat, ok : BOOLEAN, tokens : Nat]
    BY <2>1, <2>2, <2>3
  <2>5. execs[First(todo)] + 1 \in Nat
    BY <2>1 DEF TypeOK
  <2>6. todo' \subseteq StepIds /\ execs' \in [StepIds -> Nat]
    BY <1>7, <2>5 DEF TypeOK, StartSubPlan
  <2> QED
    BY <1>7, <2>4, <2>6 DEF TypeOK, StartSubPlan
<1>8. CASE StartWave
  <2>1. SubReady \in SUBSET Nat
    <3>1. sub.status \in Seq(SubStatuses)
      BY DEF TypeOK
    <3>2. DOMAIN sub.status \subseteq Nat
      BY <3>1
    <3> QED
      BY <3>2 DEF SubReady
  <2> QED
    BY <1>8, <2>1 DEF TypeOK, StartWave
<1>9. CASE RunSubStep
  BY <1>9, SubStepShape DEF TypeOK, RunSubStep
<1>10. CASE PanicSubStep
  BY <1>10 DEF TypeOK, PanicSubStep
<1>11. CASE EndSubPlan
  <2>1. << >> \in Seq(SubStatuses)
    OBVIOUS
  <2>2. sub' \in [step : 0..MaxSteps, status : Seq(SubStatuses),
                  wave : SUBSET Nat, ok : BOOLEAN, tokens : Nat]
    BY <1>11, <2>1 DEF EndSubPlan, NoSub
  <2>3. outcome' \in [StepIds -> Outcomes]
    BY <1>11 DEF TypeOK, EndSubPlan
  <2> QED
    BY <1>11, <2>2, <2>3 DEF TypeOK, EndSubPlan
<1>12. ASSUME NEW st \in Statuses, NEW t \in Nat, Arrived # {},
              Settle(NextResult, st, t), gated' \subseteq StepIds
       PROVE  TypeOK'
  <2>1. NextResult \in StepIds
    BY <1>12, NextResultArrived
  <2>2. cost[NextResult] \in Nat
    BY <2>1 DEF TypeOK
  <2>3. tokensUsed' \in Nat /\ offBatch' \in Nat
    <3> DEFINE own == IF HasSub(NextResult) THEN cost[NextResult] ELSE 0
    <3>1. own \in Nat /\ tokensUsed \in Nat /\ offBatch \in Nat
      BY <2>2 DEF TypeOK
    <3>2. tokensUsed' = tokensUsed + cost[NextResult] + t /\ offBatch' = offBatch + t + own
      BY <1>12 DEF Settle
    <3> HIDE DEF own
    <3> QED
      BY <2>2, <3>1, <3>2
  <2>4. outcome' = [outcome EXCEPT ![NextResult] = "none"] /\ "none" \in Outcomes
    BY <1>12 DEF Settle, Outcomes
  <2>5. outcome' \in [StepIds -> Outcomes]
    BY <2>1, <2>4 DEF TypeOK
  <2>6. status' \in [StepIds -> Statuses]
    BY <1>12, <2>1 DEF TypeOK, Settle
  <2> QED
    BY <1>12, <2>3, <2>5, <2>6 DEF TypeOK, Settle
<1>13. CASE RejectResult
  BY <1>12, <1>13 DEF TypeOK, RejectResult, Statuses
<1>14. CASE AcceptResult
  BY <1>12, <1>14 DEF TypeOK, AcceptResult, Statuses
<1>15. CASE VerifyGate
  <2>1. NextResult \in StepIds
    BY <1>15, NextResultArrived DEF VerifyGate
  <2>2. gated' \subseteq StepIds /\ Arrived # {}
    BY <1>15, <2>1 DEF TypeOK, VerifyGate
  <2>3. PICK st \in Statuses, t \in Nat : Settle(NextResult, st, t)
    BY <1>15, AttributesAssumption DEF VerifyGate, Statuses
  <2> QED
    BY <1>12, <2>2, <2>3
<1>16. CASE EndResults
  BY <1>16 DEF TypeOK, EndResults
<1>17. CASE AskPlanner
  BY <1>17 DEF TypeOK, AskPlanner
<1>18. CASE PlannerFails
  BY <1>18 DEF TypeOK, PlannerFails, StopReasons
<1>19. CASE PlannerAnswers
  <2>1. PICK last \in nextId..MaxSteps :
          LET new == nextId..last
          IN  /\ \E d \in [new -> SUBSET new] :
                   deps' = [s \in StepIds |-> IF s \in new THEN d[s] ELSE deps[s]]
              /\ status' = [s \in StepIds |->
                              IF s \in new THEN "pending"
                              ELSE IF planner = "llm" THEN Merged(s) ELSE "absent"]
              /\ nextId' = last + 1
    BY <1>19 DEF PlannerAnswers
  <2> DEFINE new == nextId..last
  <2>2. new \subseteq StepIds /\ nextId' \in 1..(MaxSteps + 1)
    BY <2>1 DEF TypeOK
  <2>3. PICK d \in [new -> SUBSET new] :
          deps' = [s \in StepIds |-> IF s \in new THEN d[s] ELSE deps[s]]
    BY <2>1
  <2>4. deps' \in [StepIds -> SUBSET StepIds]
    BY <2>2, <2>3 DEF TypeOK
  <2>5. \A s \in StepIds : Merged(s) \in Statuses
    BY DEF TypeOK, Merged, Statuses
  <2>6. status' \in [StepIds -> Statuses]
    BY <2>1, <2>5 DEF Statuses
  <2>7. replanCount' = replanCount + 1 /\ pc' = "loop"
    BY <1>19 DEF PlannerAnswers
  <2>8. UNCHANGED <<cancelled, planner, batchVars, lastTerminal, tokensUsed, gated,
                    offBatch, stop>>
    BY <1>19 DEF PlannerAnswers
  <2> QED
    BY <2>2, <2>4, <2>6, <2>7, <2>8, SMTT(30) DEF TypeOK
<1>20. CASE Cancel
  BY <1>20 DEF TypeOK, Cancel
<1>21. CASE UNCHANGED vars
  BY <1>21 DEF TypeOK, vars
<1> QED
  BY <1>1, <1>2, <1>3, <1>4, <1>5, <1>6, <1>7, <1>8, <1>9, <1>10, <1>11, <1>13,
     <1>14, <1>15, <1>16, <1>17, <1>18, <1>19, <1>20, <1>21
     DEF Next, Progress, Terminating

(* The state of the runner is always well formed. *)
THEOREM TypeCorrect == Spec => []TypeOK
  BY InitTypeOK, NextTypeOK, PTL DEF Spec

-----------------------------------------------------------------------------
(* The inductive invariant. *)

LEMMA InitIInv == Init => IInv
<1> SUFFICES ASSUME Init PROVE IInv
  OBVIOUS
<1>1. TypeOK
  BY InitTypeOK
<1>2. Arrived = {} /\ running = {} /\ todo = {} /\ sub.step = 0 /\ 0 \notin StepIds
  BY BoundsAssumption DEF Init, NoSub, Arrived, StepIds
<1>3. InFlight = {}
  BY <1>2 DEF InFlight
<1>4. ASSUME NEW s \in StepIds
      PROVE  StepInv(s)
  <2>1. execs[s] = 0 /\ status[s] = IF s < nextId THEN "pending" ELSE "absent"
    BY DEF Init
  <2>2. s >= nextId => ~(s < nextId)
    BY <1>1, BoundsAssumption DEF TypeOK, StepIds
  <2> QED
    BY <1>2, <1>3, <2>1, <2>2 DEF StepInv
<1> QED
  BY <1>1, <1>2, <1>4 DEF IInv, BatchInv

(* Handing a step of the batch to the executor. *)
LEMMA Dispatched ==
  ASSUME IInv, todo # {},
         todo' = todo \ {First(todo)},
         execs' = [execs EXCEPT ![First(todo)] = @ + 1],
         InFlight' = InFlight \cup {First(todo)},
         UNCHANGED <<status, deps, nextId, gated>>
  PROVE  \A s \in StepIds : StepInv(s)'
<1>1. First(todo) \in todo /\ First(todo) \in StepIds
  BY FirstToDo DEF IInv
<1>2. Completed' = Completed
  BY DEF Completed
<1>3. StepInv(First(todo))
  BY <1>1 DEF IInv
<1>4. execs'[First(todo)] = 1
  BY <1>1, <1>3 DEF StepInv, IInv, TypeOK
<1>5. ASSUME NEW s \in StepIds, s = First(todo)
      PROVE  StepInv(s)'
  BY <1>1, <1>2, <1>3, <1>4, <1>5 DEF StepInv
<1>6. ASSUME NEW s \in StepIds, s # First(todo)
      PROVE  StepInv(s)'
  <2>1. StepInv(s) /\ execs'[s] = execs[s]
    BY <1>6, <1>1 DEF IInv, TypeOK
  <2>2. s \in todo' <=> s \in todo
    BY <1>6
  <2>3. s \in InFlight' <=> s \in InFlight
    BY <1>6
  <2> QED
    BY <1>2, <2>1, <2>2, <2>3 DEF StepInv
<1> QED
  BY <1>5, <1>6

(* Settling the result of a step, as completed or as failed. *)
LEMMA Settled ==
  ASSUME IInv, pc = "process", Arrived # {}, gated \subseteq gated',
         NEW st \in {"completed", "failed"}, NEW t, Settle(NextResult, st, t),
         st = "completed" /\ NextResult \in VerifyAfter => NextResult \in gated'
  PROVE  \A s \in StepIds : StepInv(s)'
<1> DEFINE r == NextResult
<1>1. r \in Arrived /\ r \in StepIds
  BY NextResultArrived
<1>2. StepInv(r) /\ r \in InFlight /\ status[r] = "pending"
  BY <1>1 DEF IInv, StepInv, InFlight
<1>3. status' = [status EXCEPT ![r] = st] /\ outcome' = [outcome EXCEPT ![r] = "none"]
  BY DEF Settle
<1>4. UNCHANGED <<deps, nextId, todo, running, sub, execs>>
  BY DEF Settle
<1>5. Completed \subseteq Completed'
  BY <1>1, <1>2, <1>3 DEF Completed, IInv, TypeOK
<1>6. InFlight' = InFlight \ {r}
  <2>1. running = {} /\ sub.step = 0 /\ 0 \notin StepIds
    BY BoundsAssumption DEF IInv, BatchInv, StepIds
  <2>2. Arrived' = Arrived \ {r}
    BY <1>1, <1>3 DEF Arrived, IInv, TypeOK
  <2> QED
    BY <1>4, <2>1, <2>2 DEF InFlight
<1>7. ASSUME NEW s \in StepIds, s = r
      PROVE  StepInv(s)'
  <2>1. status'[s] = st
    BY <1>3, <1>7 DEF IInv, TypeOK
  <2>2. ~(s >= nextId) /\ execs[s] = 1 /\ s \notin todo /\ deps[s] \subseteq Completed
    BY <1>2, <1>7 DEF StepInv, IInv, TypeOK
  <2>3. s \notin InFlight'
    BY <1>6, <1>7
  <2> QED
    BY <1>4, <1>5, <1>7, <2>1, <2>2, <2>3 DEF StepInv
<1>8. ASSUME NEW s \in StepIds, s # r
      PROVE  StepInv(s)'
  <2>1. StepInv(s) /\ status'[s] = status[s]
    BY <1>3, <1>8 DEF IInv, TypeOK
  <2> QED
    BY <1>4, <1>5, <1>6, <1>8, <2>1 DEF StepInv
<1> QED
  BY <1>7, <1>8

(* Operations that move only the control state or the batch's bookkeeping. *)
LEMMA Undisturbed ==
  ASSUME IInv, InFlight' = InFlight,
         UNCHANGED <<status, deps, nextId, todo, execs, gated>>
  PROVE  \A s \in StepIds : StepInv(s)'
<1> SUFFICES ASSUME NEW s \in StepIds PROVE StepInv(s)'
  OBVIOUS
<1>1. StepInv(s)
  BY DEF IInv
<1>2. Completed' = Completed
  BY DEF Completed
<1> QED
  BY <1>1, <1>2 DEF StepInv

(* A new plan: what was executed keeps its record, what is new has none. *)
LEMMA Replanned ==
  ASSUME IInv, PlannerAnswers
  PROVE  \A s \in StepIds : StepInv(s)'
<1>1. PICK last \in nextId..MaxSteps :
        /\ \E d \in [nextId..last -> SUBSET (nextId..last)] :
             deps' = [s \in StepIds |-> IF s \in nextId..last THEN d[s] ELSE deps[s]]
        /\ status' = [s \in StepIds |->
                        IF s \in nextId..last THEN "pending"
                        ELSE IF planner = "llm" THEN Merged(s) ELSE "absent"]
        /\ nextId' = last + 1
  BY DEF PlannerAnswers
<1>2. /\ InFlight = {} /\ InFlight' = {} /\ todo = {} /\ todo' = {}
      /\ execs' = execs /\ gated' = gated
  <2>1. UNCHANGED <<todo, running, outcome, sub, execs, gated>> /\ pc = "replan"
    BY DEF PlannerAnswers, batchVars
  <2>2. running = {} /\ Arrived = {} /\ todo = {} /\ sub.step = 0 /\ 0 \notin StepIds
    BY <2>1, BoundsAssumption DEF IInv, BatchInv, StepIds
  <2>3. Arrived' = Arrived
    BY <2>1 DEF Arrived
  <2> QED
    BY <2>1, <2>2, <2>3 DEF InFlight
<1> SUFFICES ASSUME NEW s \in StepIds PROVE StepInv(s)'
  OBVIOUS
<1>3. StepInv(s) /\ s \in Int /\ nextId \in Int /\ last \in Int
  BY BoundsAssumption DEF IInv, TypeOK, StepIds
<1>4. CASE s \in nextId..last
  <2>1. status'[s] = "pending" /\ execs[s] = 0 /\ ~(s >= nextId')
    BY <1>1, <1>3, <1>4 DEF StepInv
  <2> QED
    BY <1>2, <2>1 DEF StepInv
<1>5. CASE s \notin nextId..last /\ planner = "llm"
  <2>1. status'[s] = Merged(s) /\ deps'[s] = deps[s]
    BY <1>1, <1>5
  <2>2. Completed \subseteq Completed'
    <3> SUFFICES ASSUME NEW c \in Completed PROVE c \in Completed'
      OBVIOUS
    <3>1. c \in StepIds /\ status[c] = "completed" /\ c \in Int
      BY BoundsAssumption DEF Completed, StepIds
    <3>2. c \notin nextId..last
      BY <1>3, <3>1 DEF IInv, StepInv
    <3>3. status'[c] = "completed"
      BY <1>1, <1>5, <3>1, <3>2 DEF Merged
    <3> QED
      BY <3>1, <3>3 DEF Completed
  <2>3. s >= nextId' => s >= nextId
    BY <1>1, <1>3
  <2> QED
    BY <1>2, <1>3, <2>1, <2>2, <2>3 DEF StepInv, Merged
<1>6. CASE s \notin nextId..last /\ planner # "llm"
  <2>1. status'[s] = "absent" /\ (s >= nextId' => s >= nextId)
    BY <1>1, <1>3, <1>6
  <2> QED
    BY <1>2, <1>3, <2>1 DEF StepInv
<1> QED
  BY <1>4, <1>5, <1>6

LEMMA NextIInv == IInv /\ [Next]_vars => IInv'
<1> USE DEF planVars, batchVars, countVars
<1> SUFFICES ASSUME IInv, [Next]_vars PROVE BatchInv' /\ \A s \in StepIds : StepInv(s)'
  BY NextTypeOK DEF IInv
<1>0. TypeOK /\ BatchInv /\ 0 \notin StepIds
  BY BoundsAssumption DEF IInv, StepIds
<1>1. ASSUME UNCHANGED <<status, deps, nextId, todo, execs, gated, running, outcome>>,
             sub'.step = sub.step
      PROVE  (\A s \in StepIds : StepInv(s)') /\ Arrived' = Arrived
  <2>1. InFlight' = InFlight
    BY <1>1 DEF InFlight, Arrived
  <2> QED
    BY <1>1, <2>1, Undisturbed DEF Arrived
<1>2. CASE Halt \/ Join \/ PanicSubStep \/ EndResults \/ AskPlanner \/ PlannerFails \/ Cancel
           \/ UNCHANGED vars
  <2>1. UNCHANGED <<status, deps, nextId, todo, execs, gated, running, outcome, sub>>
    BY <1>2 DEF Halt, Join, PanicSubStep, EndResults, AskPlanner, PlannerFails, Cancel, vars
  <2>2. Arrived' = Arrived
    BY <2>1 DEF Arrived
  <2>3. BatchInv'
    BY <1>0, <1>2, <2>1, <2>2 DEF BatchInv, Halt, Join, PanicSubStep, EndResults,
       AskPlanner, PlannerFails, Cancel, vars
  <2> QED
    BY <1>1, <2>1, <2>3
<1>3. CASE StartWave \/ RunSubStep
  <2>1. UNCHANGED <<status, deps, nextId, todo, execs, gated, running, outcome, pc>> /\ pc = "sub"
    BY <1>3 DEF StartWave, RunSubStep
  <2>2. sub'.step = sub.step
    BY <1>0, <1>3 DEF StartWave, RunSubStep, TypeOK
  <2> QED
    BY <1>1, <2>1, <2>2 DEF BatchInv
<1>4. CASE StartBatch
  <2>1. UNCHANGED <<status, deps, nextId, execs, gated, running, outcome, sub>>
        /\ pc = "loop" /\ pc' = "spawn" /\ todo' = Batch
    BY <1>4 DEF StartBatch
  <2>2. InFlight = {} /\ InFlight' = {} /\ sub'.step = 0
    BY <1>0, <2>1 DEF BatchInv, InFlight, Arrived
  <2>3. Completed' = Completed
    BY <2>1 DEF Completed
  <2>4. ASSUME NEW s \in StepIds PROVE StepInv(s)'
    <3>1. StepInv(s) /\ (s \in todo' => status[s] = "pending" /\ deps[s] \subseteq Completed)
      BY <2>1, BatchIsReady DEF Ready, IInv
    <3> QED
      BY <2>1, <2>2, <2>3, <3>1 DEF StepInv
  <2> QED
    BY <2>1, <2>2, <2>4 DEF BatchInv
<1>5. CASE SpawnTask
  <2>1. InFlight' = InFlight \cup {First(todo)}
    <3>1. First(todo) \in StepIds
      BY <1>0, <1>5, FirstToDo DEF SpawnTask
    <3> QED
      BY <1>5, <3>1 DEF SpawnTask, InFlight, Arrived
  <2>2. BatchInv'
    BY <1>0, <1>5 DEF BatchInv, SpawnTask
  <2> QED
    BY <1>5, <2>1, <2>2, Dispatched DEF SpawnTask
<1>6. CASE StartSubPlan
  <2>1. First(todo) \in StepIds /\ sub.step = 0
    BY <1>0, <1>6, FirstToDo DEF StartSubPlan, BatchInv
  <2>2. sub'.step = First(todo)
    BY <1>6 DEF StartSubPlan, NoSub
  <2>3. InFlight' = InFlight \cup {First(todo)}
    BY <1>0, <1>6, <2>1, <2>2 DEF StartSubPlan, InFlight, Arrived
  <2>4. BatchInv'
    BY <1>6 DEF BatchInv, StartSubPlan
  <2> QED
    BY <1>6, <2>3, <2>4, Dispatched DEF StartSubPlan
<1>7. ASSUME NEW t \in StepIds, FinishTask(t) \/ PanicTask(t)
      PROVE  BatchInv' /\ \A s \in StepIds : StepInv(s)'
  <2>1. UNCHANGED <<status, deps, nextId, todo, execs, gated, sub>>
        /\ t \in running /\ pc \in {"spawn", "sub"} /\ pc' \in {pc, "panicked"}
    BY <1>7 DEF FinishTask, PanicTask
  <2>2. BatchInv'
    BY <1>0, <2>1 DEF BatchInv
  <2>3. CASE UNCHANGED <<running, outcome>>
    BY <1>1, <2>1, <2>2, <2>3
  <2>4. CASE \E o \in Outcomes \ {"none"} :
               outcome' = [outcome EXCEPT ![t] = o] /\ running' = running \ {t}
    <3>1. Arrived' = Arrived \cup {t}
      BY <1>0, <2>4 DEF Arrived, TypeOK
    <3>2. InFlight' = InFlight
      BY <2>1, <2>4, <3>1 DEF InFlight
    <3> QED
      BY <2>1, <2>2, <3>2, Undisturbed
  <2>5. CASE FinishTask(t)
    BY <2>4, <2>5 DEF FinishTask, Outcomes
  <2>6. CASE PanicTask(t)
    BY <2>3, <2>4, <2>6 DEF PanicTask, Outcomes
  <2> QED
    BY <1>7, <2>5, <2>6
<1>8. CASE EndSubPlan
  <2>1. UNCHANGED <<status, deps, nextId, todo, execs, gated, running>>
        /\ pc' = "spawn" /\ sub'.step = 0
    BY <1>8 DEF EndSubPlan, NoSub
  <2>2. PICK o \in Outcomes \ {"none"} : outcome' = [outcome EXCEPT ![sub.step] = o]
    BY <1>8 DEF EndSubPlan
  <2>3. Arrived' = Arrived \cup ({sub.step} \cap StepIds)
    BY <1>0, <2>2 DEF Arrived, TypeOK
  <2>4. InFlight' = InFlight
    BY <1>0, <2>1, <2>3 DEF InFlight
  <2> QED
    BY <2>1, <2>4, Undisturbed DEF BatchInv
<1>9. CASE RejectResult \/ AcceptResult \/ VerifyGate
  <2>1. PICK st \in {"completed", "failed"}, t \in Nat : Settle(NextResult, st, t)
    BY <1>9, AttributesAssumption DEF RejectResult, AcceptResult, VerifyGate
  <2>2. pc = "process" /\ Arrived # {} /\ gated \subseteq gated'
    BY <1>9 DEF RejectResult, AcceptResult, VerifyGate
  <2>3. BatchInv'
    BY <1>0, <2>1, <2>2 DEF BatchInv, Settle
  <2>4. CASE RejectResult
    BY <2>2, <2>3, <2>4, Settled DEF RejectResult
  <2>5. CASE AcceptResult
    BY <2>2, <2>3, <2>5, Settled DEF AcceptResult
  <2>6. CASE VerifyGate
    BY <2>2, <2>3, <2>6, Settled DEF VerifyGate
  <2> QED
    BY <1>9, <2>4, <2>5, <2>6
<1>10. CASE PlannerAnswers
  <2>1. BatchInv'
    BY <1>0, <1>10 DEF BatchInv, PlannerAnswers, Arrived
  <2> QED
    BY <1>10, <2>1, Replanned
<1> QED
  BY <1>2, <1>3, <1>4, <1>5, <1>6, <1>7, <1>8, <1>9, <1>10
     DEF Next, Progress, Terminating

LEMMA InductiveInvariant == Spec => []IInv
  BY InitIInv, NextIInv, PTL DEF Spec

(* No execution runs a step before what it depends on, runs a step twice,  *)
(* or completes one that was not run and, if it has a gate, verified.      *)
THEOREM StepsInOrder ==
  Spec => [](DependencyOrder /\ AtMostOnce /\ CompletedWithEvidence)
<1>1. IInv => DependencyOrder /\ AtMostOnce /\ CompletedWithEvidence
  <2> SUFFICES ASSUME IInv
               PROVE  DependencyOrder /\ AtMostOnce /\ CompletedWithEvidence
    OBVIOUS
  <2>1. ASSUME NEW s \in StepIds
        PROVE  /\ status[s] # "absent" /\ execs[s] > 0 => deps[s] \subseteq Completed
               /\ execs[s] <= 1
               /\ status[s] = "completed" => execs[s] = 1 /\ (s \in VerifyAfter => s \in gated)
    <3>1. StepInv(s)
      BY DEF IInv
    <3> QED
      BY <3>1 DEF StepInv
  <2> QED
    BY <2>1 DEF DependencyOrder, AtMostOnce, CompletedWithEvidence, InPlan, Completed
<1> QED
  BY <1>1, InductiveInvariant, PTL

-----------------------------------------------------------------------------
(* Every step of the runner is a step of PlanExecution or a stutter. *)

LEMMA PhaseOf ==
  ASSUME IInv, NEW s \in StepIds
  PROVE  /\ Phase[s] = "waiting" <=> status[s] = "pending" /\ s \notin InFlight
         /\ Phase[s] = "running" <=> s \in InFlight
         /\ Phase[s] = "completed" <=> status[s] = "completed"
         /\ s \notin InFlight /\ status[s] # "pending" => Phase[s] = status[s]
<1>1. StepInv(s) /\ status[s] \in Statuses
  BY DEF IInv, TypeOK
<1> QED
  BY <1>1 DEF StepInv, Phase, Statuses

LEMMA ImplementsInit == Init => Promise!Init
<1> SUFFICES ASSUME Init PROVE Promise!Init
  OBVIOUS
<1>1. IInv /\ InFlight = {}
  <2>1. IInv
    BY InitIInv
  <2>2. Arrived = {} /\ running = {} /\ sub.step = 0 /\ 0 \notin StepIds
    BY <2>1, BoundsAssumption DEF Init, IInv, BatchInv, StepIds
  <2> QED
    BY <2>1, <2>2 DEF InFlight
<1>2. Phase = [s \in StepIds |-> IF s < nextId THEN "waiting" ELSE "absent"]
  BY <1>1 DEF Init, Phase
<1>3. 1..(nextId - 1) = {s \in StepIds : Phase[s] = "waiting"}
  BY <1>1, <1>2, BoundsAssumption DEF IInv, TypeOK, StepIds
<1>4. (pc \in {"done", "panicked"}) = FALSE
  BY DEF Init
<1> QED
  BY <1>1, <1>2, <1>3, <1>4 DEF Promise!Init, IInv, TypeOK

(* Handing a step to the executor is Begin. *)
LEMMA DispatchBegins ==
  ASSUME IInv, todo # {}, pc = "spawn", pc' \notin {"done", "panicked"},
         InFlight' = InFlight \cup {First(todo)},
         UNCHANGED <<status, deps, nextId>>
  PROVE  Promise!Next
<1>1. PICK s \in StepIds : s = First(todo) /\ s \in todo
  BY FirstToDo DEF IInv
<1>2. StepInv(s)
  BY DEF IInv
<1>3. Phase[s] = "waiting"
  BY <1>1, <1>2, PhaseOf DEF StepInv
<1>4. deps[s] \subseteq Promise!Done
  BY <1>1, <1>2, PhaseOf DEF StepInv, Completed, Promise!Done
<1>5. Phase' = [Phase EXCEPT ![s] = "running"]
  BY <1>1 DEF Phase
<1>6. ~(pc \in {"done", "panicked"}) /\ (pc \in {"done", "panicked"})' = (pc \in {"done", "panicked"})
  OBVIOUS
<1>7. Promise!Begin(s)
  BY <1>3, <1>4, <1>5, <1>6 DEF Promise!Begin
<1> QED
  BY <1>7 DEF Promise!Next

(* Settling a result is End. *)
LEMMA SettleEnds ==
  ASSUME IInv, pc = "process", Arrived # {},
         NEW st \in {"completed", "failed"}, NEW t, Settle(NextResult, st, t)
  PROVE  Promise!Next
<1>1. PICK r \in StepIds : r = NextResult /\ r \in Arrived
  BY NextResultArrived
<1>2. Phase[r] = "running"
  BY <1>1, PhaseOf DEF InFlight
<1>3. UNCHANGED <<pc, deps, nextId, running, sub>>
  BY DEF Settle
<1>4. InFlight' = InFlight \ {r}
  <2>1. running = {} /\ sub.step = 0 /\ 0 \notin StepIds
    BY BoundsAssumption DEF IInv, BatchInv, StepIds
  <2>2. Arrived' = Arrived \ {r}
    BY <1>1 DEF Arrived, IInv, TypeOK, Settle
  <2> QED
    BY <1>3, <2>1, <2>2 DEF InFlight
<1>5. Phase' = [Phase EXCEPT ![r] = st]
  BY <1>1, <1>4 DEF Phase, Settle, IInv, TypeOK
<1>6. ~(pc \in {"done", "panicked"}) /\ (pc \in {"done", "panicked"})' = (pc \in {"done", "panicked"})
  BY <1>3
<1>7. Promise!End(r)
  BY <1>2, <1>3, <1>5, <1>6 DEF Promise!End
<1> QED
  BY <1>7 DEF Promise!Next

(* A replan is Revise: the LLM planner keeps the old plan's completed      *)
(* steps, the direct planner drops the old plan.                           *)
LEMMA ReplanRevises ==
  ASSUME IInv, IInv', PlannerAnswers
  PROVE  Promise!Next
<1>1. PICK last \in nextId..MaxSteps :
        /\ deps' = [s \in StepIds |-> IF s \in nextId..last THEN deps'[s] ELSE deps[s]]
        /\ status' = [s \in StepIds |->
                        IF s \in nextId..last THEN "pending"
                        ELSE IF planner = "llm" THEN Merged(s) ELSE "absent"]
        /\ nextId' = last + 1
  <2>1. PICK last \in nextId..MaxSteps :
          /\ \E d \in [nextId..last -> SUBSET (nextId..last)] :
               deps' = [s \in StepIds |-> IF s \in nextId..last THEN d[s] ELSE deps[s]]
          /\ status' = [s \in StepIds |->
                          IF s \in nextId..last THEN "pending"
                          ELSE IF planner = "llm" THEN Merged(s) ELSE "absent"]
          /\ nextId' = last + 1
    BY DEF PlannerAnswers
  <2> QED
    BY <2>1
<1> DEFINE new == nextId..last
           keep == planner = "llm"
<1>2. pc = "replan" /\ pc' = "loop"
  BY DEF PlannerAnswers
<1>3. InFlight = {} /\ InFlight' = {}
  <2>1. running = {} /\ Arrived = {} /\ sub.step = 0 /\ 0 \notin StepIds
    BY <1>2, BoundsAssumption DEF IInv, BatchInv, StepIds
  <2>2. running' = running /\ sub' = sub /\ Arrived' = Arrived
    BY DEF PlannerAnswers, batchVars, Arrived
  <2> QED
    BY <2>1, <2>2 DEF InFlight
<1>4. /\ nextId \in 1..(MaxSteps + 1) /\ last \in Int /\ MaxSteps \in Nat
      /\ new \in SUBSET (StepIds \ (1..(nextId - 1)))
  BY BoundsAssumption DEF IInv, TypeOK, StepIds
<1>5. 1..(nextId' - 1) = (1..(nextId - 1)) \cup new
  BY <1>1, <1>4
<1>6. \A s \in StepIds : Phase[s] # "running"
  BY <1>3, PhaseOf
<1>7. Phase' = [s \in StepIds |->
                  IF s \in new THEN "waiting"
                  ELSE IF keep THEN Promise!Kept(s) ELSE "absent"]
  <2> SUFFICES ASSUME NEW s \in StepIds
               PROVE  Phase'[s] = IF s \in new THEN "waiting"
                                  ELSE IF keep THEN Promise!Kept(s) ELSE "absent"
    BY DEF Phase
  <2>1. /\ Phase[s] = IF status[s] = "pending" THEN "waiting" ELSE status[s]
        /\ Phase'[s] = IF status'[s] = "pending" THEN "waiting" ELSE status'[s]
    BY <1>3 DEF Phase
  <2>2. status[s] \in Statuses
    BY DEF IInv, TypeOK
  <2>3. CASE s \in new
    BY <1>1, <2>1, <2>3
  <2>4. CASE s \notin new /\ keep
    BY <1>1, <2>1, <2>2, <2>4 DEF Merged, Promise!Kept, Statuses
  <2>5. CASE s \notin new /\ ~keep
    BY <1>1, <2>1, <2>5
  <2> QED
    BY <2>3, <2>4, <2>5
<1>8. deps' \in [StepIds -> SUBSET StepIds] /\ \A s \in StepIds \ new : deps'[s] = deps[s]
  BY <1>1 DEF IInv, TypeOK
<1>9. ~(pc \in {"done", "panicked"}) /\ (pc \in {"done", "panicked"})' = (pc \in {"done", "panicked"})
  BY <1>2
<1>10. Promise!Revise(new, keep)
  BY <1>5, <1>6, <1>7, <1>8, <1>9 DEF Promise!Revise
<1>11. keep \in BOOLEAN
  OBVIOUS
<1> QED
  BY <1>4, <1>10, <1>11 DEF Promise!Next

LEMMA ImplementsNext ==
  IInv /\ IInv' /\ [Next]_vars => [Promise!Next]_(Promise!vars)
<1> USE DEF planVars, batchVars, countVars
<1> SUFFICES ASSUME IInv, IInv', [Next]_vars
             PROVE  [Promise!Next]_(Promise!vars)
  OBVIOUS
<1>1. ASSUME UNCHANGED <<status, deps, nextId>>, InFlight' = InFlight, pc' = pc \/ pc' \notin {"done", "panicked"},
             pc' = pc \/ pc \notin {"done", "panicked"}
      PROVE  UNCHANGED Promise!vars
  BY <1>1 DEF Phase, Promise!vars
<1>2. ASSUME UNCHANGED <<status, deps, nextId>>, InFlight' = InFlight,
             pc \notin {"done", "panicked"}, pc' \in {"done", "panicked"}
      PROVE  Promise!Next
  <2>1. Phase' = Phase
    BY <1>2 DEF Phase
  <2>2. Promise!Finish
    BY <1>2, <2>1 DEF Promise!Finish
  <2> QED
    BY <2>2 DEF Promise!Next
<1>3. CASE Join \/ EndResults \/ AskPlanner \/ StartBatch \/ StartWave \/ RunSubStep
           \/ Cancel \/ UNCHANGED vars
  <2>1. UNCHANGED <<status, deps, nextId, running, outcome>> /\ sub'.step = sub.step
    BY <1>3 DEF Join, EndResults, AskPlanner, StartBatch, StartWave, RunSubStep, Cancel,
       vars, IInv, TypeOK
  <2>2. InFlight' = InFlight
    BY <2>1 DEF InFlight, Arrived
  <2>3. pc' = pc \/ {pc, pc'} \cap {"done", "panicked"} = {}
    BY <1>3 DEF Join, EndResults, AskPlanner, StartBatch, StartWave, RunSubStep, Cancel, vars
  <2> QED
    BY <1>1, <2>1, <2>2, <2>3
<1>4. CASE Halt \/ PanicSubStep \/ PlannerFails
  <2>1. UNCHANGED <<status, deps, nextId, running, outcome, sub>>
        /\ pc \notin {"done", "panicked"} /\ pc' \in {"done", "panicked"}
    BY <1>4 DEF Halt, PanicSubStep, PlannerFails
  <2>2. InFlight' = InFlight
    BY <2>1 DEF InFlight, Arrived
  <2> QED
    BY <1>2, <2>1, <2>2
<1>5. CASE SpawnTask
  <2>1. First(todo) \in StepIds
    BY <1>5, FirstToDo DEF SpawnTask, IInv
  <2>2. InFlight' = InFlight \cup {First(todo)}
    BY <1>5, <2>1 DEF SpawnTask, InFlight, Arrived
  <2> QED
    BY <1>5, <2>2, DispatchBegins DEF SpawnTask
<1>6. CASE StartSubPlan
  <2>1. First(todo) \in StepIds /\ sub.step = 0 /\ 0 \notin StepIds
    BY <1>6, FirstToDo, BoundsAssumption DEF StartSubPlan, IInv, BatchInv, StepIds
  <2>2. sub'.step = First(todo)
    BY <1>6 DEF StartSubPlan, NoSub
  <2>3. InFlight' = InFlight \cup {First(todo)}
    BY <1>6, <2>1, <2>2 DEF StartSubPlan, InFlight, Arrived
  <2> QED
    BY <1>6, <2>3, DispatchBegins DEF StartSubPlan
<1>7. ASSUME NEW t \in StepIds, FinishTask(t) \/ PanicTask(t)
      PROVE  [Promise!Next]_(Promise!vars)
  <2>1. UNCHANGED <<status, deps, nextId, sub>> /\ t \in running
        /\ pc \notin {"done", "panicked"}
    BY <1>7 DEF FinishTask, PanicTask
  <2>2. CASE UNCHANGED <<running, outcome>> /\ pc' = "panicked"
    <3>1. InFlight' = InFlight
      BY <2>1, <2>2 DEF InFlight, Arrived
    <3> QED
      BY <1>2, <2>1, <2>2, <3>1
  <2>3. CASE pc' = pc /\ running' = running \ {t}
             /\ \E o \in Outcomes \ {"none"} : outcome' = [outcome EXCEPT ![t] = o]
    <3>1. Arrived' = Arrived \cup {t}
      BY <2>3 DEF Arrived, IInv, TypeOK
    <3>2. InFlight' = InFlight
      BY <2>1, <2>3, <3>1 DEF InFlight
    <3> QED
      BY <1>1, <2>1, <2>3, <3>2
  <2>4. CASE FinishTask(t)
    BY <2>3, <2>4 DEF FinishTask, Outcomes
  <2>5. CASE PanicTask(t)
    BY <2>2, <2>3, <2>5 DEF PanicTask, Outcomes
  <2> QED
    BY <1>7, <2>4, <2>5
<1>8. CASE EndSubPlan
  <2>1. UNCHANGED <<status, deps, nextId, running>> /\ pc = "sub" /\ pc' = "spawn"
        /\ sub'.step = 0 /\ 0 \notin StepIds
    BY <1>8, BoundsAssumption DEF EndSubPlan, NoSub, StepIds
  <2>2. PICK o \in Outcomes \ {"none"} : outcome' = [outcome EXCEPT ![sub.step] = o]
    BY <1>8 DEF EndSubPlan
  <2>3. Arrived' = Arrived \cup ({sub.step} \cap StepIds)
    BY <2>2 DEF Arrived, IInv, TypeOK
  <2>4. InFlight' = InFlight
    BY <2>1, <2>3 DEF InFlight
  <2> QED
    BY <1>1, <2>1, <2>4
<1>9. CASE RejectResult \/ AcceptResult \/ VerifyGate
  <2>1. PICK st \in {"completed", "failed"}, t \in Nat : Settle(NextResult, st, t)
    BY <1>9, AttributesAssumption DEF RejectResult, AcceptResult, VerifyGate
  <2>2. pc = "process" /\ Arrived # {}
    BY <1>9 DEF RejectResult, AcceptResult, VerifyGate
  <2> QED
    BY <2>1, <2>2, SettleEnds
<1>10. CASE PlannerAnswers
  BY <1>10, ReplanRevises
<1> QED
  BY <1>3, <1>4, <1>5, <1>6, <1>7, <1>8, <1>9, <1>10 DEF Next, Progress, Terminating

(* The runner implements PlanExecution: whatever the planners, executors,  *)
(* gates and canceller do, it keeps that module's promise.                 *)
THEOREM Implements == Spec => ImplementsPlanExecution
<1>1. Spec => Promise!Init /\ [][Promise!Next]_(Promise!vars)
  BY ImplementsInit, ImplementsNext, InductiveInvariant, PTL DEF Spec
<1> QED
  BY <1>1 DEF ImplementsPlanExecution, Promise!Spec

-----------------------------------------------------------------------------
(* The parts of StepsInOrder one by one, and the guards at the top of the   *)
(* loop, which no validated plan reaches.                                   *)

(* No step is handed to the executor twice, across batches, trims and       *)
(* replans of either planner.                                               *)
THEOREM NoStepTwice == Spec => []AtMostOnce
  BY StepsInOrder, PTL

(* A completed step was run and, if it has a gate, the gate passed.         *)
THEOREM CompletionProven == Spec => []CompletedWithEvidence
  BY StepsInOrder, PTL

-----------------------------------------------------------------------------
(* The no-progress guard: a batch that was started ends with more terminal  *)
(* steps than there were, since it has work left as long as it has not.     *)

Work == todo \cup InFlight

ProgressInv ==
  /\ pc = "loop" => \/ lastTerminal = 0 \/ Terminal = {}
                    \/ Cardinality(Terminal) > lastTerminal
  /\ pc = "replan" => lastTerminal = 0 \/ Cardinality(Terminal) > lastTerminal
  /\ pc \in {"spawn", "sub", "process"} =>
       \/ Cardinality(Terminal) > lastTerminal
       \/ Cardinality(Terminal) = lastTerminal /\ Work # {}

LEMMA FiniteSteps == \A S \in SUBSET StepIds : IsFiniteSet(S)
<1>1. IsFiniteSet(StepIds)
  BY FS_Interval, BoundsAssumption DEF StepIds
<1> QED
  BY <1>1, FS_Subset

LEMMA TerminalCount ==
  /\ IsFiniteSet(Terminal) /\ Cardinality(Terminal) \in Nat
  /\ Cardinality(Terminal) = 0 <=> Terminal = {}
<1>1. IsFiniteSet(Terminal)
  BY FiniteSteps DEF Terminal
<1> QED
  BY <1>1, FS_CardinalityType, FS_EmptySet

(* The steps of the loop that change nothing the invariant looks at. *)
LEMMA ProgressKept ==
  ASSUME IInv, ProgressInv, UNCHANGED <<status, lastTerminal>>,
         \/ pc' \in {"done", "panicked"}
         \/ /\ pc \in {"spawn", "sub", "process"} /\ pc' \in {"spawn", "sub", "process"}
            /\ Work # {} => Work' # {}
         \/ pc' = pc /\ UNCHANGED <<todo, running, outcome, sub>>
  PROVE  ProgressInv'
<1>1. Terminal' = Terminal
  BY DEF Terminal
<1>2. ASSUME UNCHANGED <<todo, running, outcome, sub>>
      PROVE  Work' = Work
  BY <1>2 DEF Work, InFlight, Arrived
<1> QED
  BY <1>1, <1>2 DEF ProgressInv

LEMMA InitProgress == Init => ProgressInv
  BY DEF Init, ProgressInv

LEMMA NextProgress == IInv /\ ProgressInv /\ [Next]_vars => ProgressInv'
<1> USE DEF planVars, batchVars, countVars
<1> SUFFICES ASSUME IInv, ProgressInv, [Next]_vars
             PROVE  ProgressInv'
  OBVIOUS
<1>0. TypeOK /\ BatchInv /\ 0 \notin StepIds
  BY BoundsAssumption DEF IInv, StepIds
<1>1. CASE Halt \/ PanicSubStep \/ PlannerFails \/ Cancel \/ UNCHANGED vars
  <2>1. UNCHANGED <<status, lastTerminal>>
        /\ \/ pc' \in {"done", "panicked"}
           \/ pc' = pc /\ UNCHANGED <<todo, running, outcome, sub>>
    BY <1>1 DEF Halt, PanicSubStep, PlannerFails, Cancel, vars
  <2> QED
    BY <2>1, ProgressKept
<1>2. CASE StartBatch
  <2>1. /\ UNCHANGED status /\ pc' = "spawn"
        /\ lastTerminal' = Cardinality(Terminal) /\ todo' # {}
    BY <1>2 DEF StartBatch
  <2>2. Terminal' = Terminal
    BY <2>1 DEF Terminal
  <2> QED
    BY <2>1, <2>2 DEF ProgressInv, Work
<1>3. CASE SpawnTask
  <2>1. /\ First(todo) \in StepIds /\ First(todo) \in running'
        /\ UNCHANGED <<status, lastTerminal, pc>> /\ pc = "spawn"
    BY <1>0, <1>3, FirstToDo DEF SpawnTask
  <2>2. Work' # {}
    BY <2>1 DEF Work, InFlight
  <2> QED
    BY <2>1, <2>2, ProgressKept
<1>4. CASE StartSubPlan
  <2>1. /\ First(todo) \in StepIds /\ sub'.step = First(todo)
        /\ UNCHANGED <<status, lastTerminal>> /\ pc = "spawn" /\ pc' = "sub"
    BY <1>0, <1>4, FirstToDo DEF StartSubPlan, NoSub
  <2>2. Work' # {}
    BY <2>1 DEF Work, InFlight
  <2> QED
    BY <2>1, <2>2, ProgressKept
<1>5. CASE StartWave \/ RunSubStep
  <2>1. UNCHANGED <<status, lastTerminal, pc, todo, running, outcome>> /\ pc = "sub"
    BY <1>5 DEF StartWave, RunSubStep
  <2>2. sub'.step = sub.step
    BY <1>0, <1>5 DEF StartWave, RunSubStep, TypeOK
  <2>3. Work' = Work
    BY <2>1, <2>2 DEF Work, InFlight, Arrived
  <2> QED
    BY <2>1, <2>3, ProgressKept
<1>6. ASSUME NEW t \in StepIds, FinishTask(t) \/ PanicTask(t)
      PROVE  ProgressInv'
  <2>1. UNCHANGED <<status, lastTerminal>> /\ pc \in {"spawn", "sub"}
    BY <1>6 DEF FinishTask, PanicTask
  <2>2. CASE pc' = "panicked"
    BY <2>1, <2>2, ProgressKept
  <2>3. CASE pc' = pc /\ \E o \in Outcomes \ {"none"} : outcome' = [outcome EXCEPT ![t] = o]
    <3>1. t \in Arrived'
      BY <1>0, <2>3 DEF Arrived, TypeOK
    <3>2. Work' # {}
      BY <3>1 DEF Work, InFlight
    <3> QED
      BY <2>1, <2>3, <3>2, ProgressKept
  <2>4. CASE FinishTask(t)
    BY <2>3, <2>4 DEF FinishTask, Outcomes
  <2>5. CASE PanicTask(t)
    BY <2>2, <2>3, <2>5 DEF PanicTask, Outcomes
  <2> QED
    BY <1>6, <2>4, <2>5
<1>7. CASE EndSubPlan
  <2>1. /\ UNCHANGED <<status, lastTerminal, todo, running>> /\ pc = "sub" /\ pc' = "spawn"
        /\ sub'.step = 0
    BY <1>7 DEF EndSubPlan, NoSub
  <2>2. PICK o \in Outcomes \ {"none"} : outcome' = [outcome EXCEPT ![sub.step] = o]
    BY <1>7 DEF EndSubPlan
  <2>3. Arrived' = Arrived \cup ({sub.step} \cap StepIds)
    BY <1>0, <2>2 DEF Arrived, TypeOK
  <2>4. Work' = Work
    BY <1>0, <2>1, <2>3 DEF Work, InFlight
  <2> QED
    BY <2>1, <2>4, ProgressKept
<1>8. CASE Join
  <2>1. /\ UNCHANGED <<status, lastTerminal, todo, running, outcome, sub>>
        /\ pc = "spawn" /\ pc' = "process"
    BY <1>8 DEF Join
  <2>2. Work' = Work
    BY <2>1 DEF Work, InFlight, Arrived
  <2> QED
    BY <2>1, <2>2, ProgressKept
<1>9. CASE RejectResult \/ AcceptResult \/ VerifyGate
  <2> DEFINE r == NextResult
  <2>1. PICK st \in {"completed", "failed"}, t \in Nat : Settle(NextResult, st, t)
    BY <1>9, AttributesAssumption DEF RejectResult, AcceptResult, VerifyGate
  <2>2. pc = "process" /\ pc' = "process" /\ Arrived # {} /\ UNCHANGED lastTerminal
    BY <1>9, <2>1 DEF RejectResult, AcceptResult, VerifyGate, Settle
  <2>3. r \in Arrived /\ r \in StepIds
    BY <2>2, NextResultArrived
  <2>4. StepInv(r) /\ r \in InFlight
    BY <2>3 DEF IInv, InFlight
  <2>5. r \notin Terminal
    BY <2>4 DEF StepInv, Terminal
  <2>6. Terminal' = Terminal \cup {r}
    BY <1>0, <2>1, <2>3 DEF Settle, Terminal, TypeOK
  <2>7. Cardinality(Terminal') = Cardinality(Terminal) + 1
    BY <2>5, <2>6, TerminalCount, FS_AddElement
  <2>8. Cardinality(Terminal) \in Nat /\ lastTerminal \in Nat
    BY <1>0, TerminalCount DEF TypeOK
  <2> QED
    BY <2>2, <2>7, <2>8 DEF ProgressInv
<1>10. CASE EndResults
  <2>1. UNCHANGED <<status, lastTerminal>> /\ pc = "process" /\ pc' = "loop" /\ Arrived = {}
    BY <1>10 DEF EndResults
  <2>2. Work = {}
    BY <1>0, <2>1 DEF Work, InFlight, BatchInv
  <2>3. Terminal' = Terminal
    BY <2>1 DEF Terminal
  <2> QED
    BY <2>1, <2>2, <2>3 DEF ProgressInv
<1>11. CASE AskPlanner
  <2>1. /\ UNCHANGED <<status, lastTerminal>> /\ pc = "loop" /\ pc' = "replan"
        /\ Terminal # {}
    BY <1>11 DEF AskPlanner, NeedsReplan, HasFailures, Terminal
  <2>2. Terminal' = Terminal
    BY <2>1 DEF Terminal
  <2> QED
    BY <2>1, <2>2 DEF ProgressInv
<1>12. CASE PlannerAnswers
  <2>1. /\ pc = "replan" /\ pc' = "loop" /\ UNCHANGED lastTerminal
    BY <1>12 DEF PlannerAnswers
  <2>2. PICK last \in nextId..MaxSteps :
          status' = [s \in StepIds |->
                       IF s \in nextId..last THEN "pending"
                       ELSE IF planner = "llm" THEN Merged(s) ELSE "absent"]
    BY <1>12 DEF PlannerAnswers
  <2>3. CASE planner = "llm"
    <3>1. ASSUME NEW s \in Terminal
          PROVE  s \in Terminal'
      <4>1. s \in StepIds /\ s < nextId /\ s \notin nextId..last
        BY <1>0 DEF Terminal, IInv, StepInv, TypeOK, StepIds
      <4> QED
        BY <2>2, <2>3, <4>1 DEF Terminal, Merged
    <3>2. Cardinality(Terminal) <= Cardinality(Terminal')
      <4>1. IsFiniteSet(Terminal')
        BY FiniteSteps DEF Terminal
      <4> QED
        BY <3>1, <4>1, FS_Subset
    <3>3. /\ Cardinality(Terminal) \in Nat /\ Cardinality(Terminal') \in Nat
          /\ lastTerminal \in Nat
      BY <1>0, FiniteSteps, FS_CardinalityType DEF TypeOK, Terminal
    <3> QED
      BY <2>1, <3>2, <3>3 DEF ProgressInv
  <2>4. CASE planner # "llm"
    <3>1. Terminal' = {}
      BY <2>2, <2>4 DEF Terminal
    <3> QED
      BY <2>1, <3>1 DEF ProgressInv
  <2> QED
    BY <2>3, <2>4
<1> QED
  BY <1>1, <1>2, <1>3, <1>4, <1>5, <1>6, <1>7, <1>8, <1>9, <1>10, <1>11, <1>12
     DEF Next, Progress, Terminating

(* The no-progress guard never cuts a run short. *)
THEOREM GuardSilent == Spec => []ProgressGuardSilent
<1>1. TypeOK /\ ProgressInv => ProgressGuardSilent
  <2> SUFFICES ASSUME TypeOK, ProgressInv, pc = "loop", NoProgress
               PROVE  FALSE
    BY DEF ProgressGuardSilent
  <2>1. /\ Cardinality(Terminal) = lastTerminal /\ lastTerminal > 0
        /\ Cardinality(Terminal) \in Nat /\ Terminal # {}
    BY TerminalCount DEF NoProgress
  <2> QED
    BY <2>1 DEF ProgressInv
<1> QED
  BY <1>1, TypeCorrect, InductiveInvariant, InitProgress, NextProgress, PTL DEF Spec

-----------------------------------------------------------------------------
(* The deadlock break: steps wait for steps of the plan that are not        *)
(* retired, and no cycle is in a plan that was validated.                   *)

PendingSteps == {s \in StepIds : status[s] = "pending"}

PlanInv ==
  /\ \A s \in PendingSteps : \A t \in deps[s] : status[t] \in {"pending", "completed", "failed"}
  /\ planner = "direct" \/ replanCount = 0 => Acyclic(PendingSteps, deps)
  /\ stop = "deadlock" => pc = "done"
  /\ DeadlockOnlyFromCyclicReplan

LEMMA InitPlan == Init => PlanInv
<1> SUFFICES ASSUME Init PROVE PlanInv
  OBVIOUS
<1>1. PICK d \in [1..(nextId - 1) -> SUBSET (1..(nextId - 1))] :
        /\ Acyclic(1..(nextId - 1), d)
        /\ deps = [s \in StepIds |-> IF s < nextId THEN d[s] ELSE {}]
  BY DEF Init
<1>2. nextId \in 1..(MaxSteps + 1) /\ nextId \in Nat
  BY BoundsAssumption DEF Init
<1>3. /\ status = [s \in StepIds |-> IF s < nextId THEN "pending" ELSE "absent"]
      /\ stop = "none"
  BY DEF Init
<1>4. PendingSteps = 1..(nextId - 1)
  BY <1>2, <1>3, BoundsAssumption DEF PendingSteps, StepIds
<1>5. \A s \in PendingSteps : deps[s] = d[s]
  BY <1>1, <1>2, <1>4, BoundsAssumption DEF StepIds
<1>6. Acyclic(PendingSteps, deps)
  BY <1>1, <1>4, <1>5 DEF Acyclic
<1>7. \A s \in PendingSteps : \A t \in deps[s] : t \in PendingSteps
  BY <1>1, <1>4, <1>5
<1> QED
  BY <1>3, <1>6, <1>7 DEF PlanInv, PendingSteps, DeadlockOnlyFromCyclicReplan

LEMMA NextPlan == IInv /\ PlanInv /\ [Next]_vars => PlanInv'
<1> USE DEF planVars, batchVars, countVars
<1> SUFFICES ASSUME IInv, PlanInv, [Next]_vars
             PROVE  PlanInv'
  OBVIOUS
<1>0. TypeOK /\ planner \in {"llm", "direct"}
  BY PlannersAssumption DEF IInv, TypeOK
<1>1. ASSUME UNCHANGED <<status, deps, planner, replanCount, stop>>, pc # "done" \/ pc' = "done"
      PROVE  PlanInv'
  <2>1. PendingSteps' = PendingSteps
    BY <1>1 DEF PendingSteps
  <2> QED
    BY <1>1, <2>1 DEF PlanInv, DeadlockOnlyFromCyclicReplan, Acyclic, PendingSteps
<1>2. CASE Halt
  <2>1. PICK reason \in StopReasons : StopsFor(reason) /\ stop' = reason
    BY <1>2 DEF Halt
  <2>2. pc' = "done" /\ UNCHANGED <<status, deps, planner, replanCount>>
    BY <1>2 DEF Halt
  <2>3. PendingSteps' = PendingSteps
    BY <2>2 DEF PendingSteps
  <2>4. CASE reason # "deadlock"
    BY <2>1, <2>2, <2>3, <2>4 DEF PlanInv, DeadlockOnlyFromCyclicReplan, Acyclic
  <2>5. CASE reason = "deadlock"
    <3>1. Ready = {} /\ ~IsComplete /\ ~HasFailures
      BY <2>1, <2>5 DEF StopsFor
    <3>2. PendingSteps # {}
      BY <1>0, <3>1 DEF IsComplete, InPlan, Terminal, PendingSteps, TypeOK, Statuses
    <3>3. ASSUME NEW s \in PendingSteps
          PROVE  deps[s] \cap PendingSteps # {}
      <4>1. s \in StepIds /\ s \notin Ready /\ deps[s] \subseteq StepIds
        BY <1>0, <3>1 DEF PendingSteps, TypeOK
      <4>2. PICK t \in deps[s] : status[t] # "completed" /\ t \in StepIds
        BY <4>1 DEF Ready, Completed, PendingSteps
      <4>3. status[t] = "pending"
        BY <3>1, <4>2 DEF PlanInv, HasFailures
      <4> QED
        BY <4>2, <4>3 DEF PendingSteps
    <3>4. ~Acyclic(PendingSteps, deps)
      BY <3>2, <3>3 DEF Acyclic
    <3>5. planner = "llm" /\ replanCount # 0
      BY <1>0, <3>4 DEF PlanInv
    <3>6. replanCount > 0
      BY <1>0, <3>5 DEF TypeOK
    <3> QED
      BY <2>2, <2>3, <3>4, <3>5, <3>6
         DEF PlanInv, DeadlockOnlyFromCyclicReplan, PendingSteps, Acyclic
  <2> QED
    BY <2>4, <2>5
<1>3. CASE RejectResult \/ AcceptResult \/ VerifyGate
  <2> DEFINE r == NextResult
  <2>1. PICK st \in {"completed", "failed"}, t \in Nat : Settle(NextResult, st, t)
    BY <1>3, AttributesAssumption DEF RejectResult, AcceptResult, VerifyGate
  <2>2. /\ status' = [status EXCEPT ![r] = st]
        /\ UNCHANGED <<deps, planner, replanCount, stop, pc>>
    BY <2>1 DEF Settle
  <2>3. pc = "process" /\ r \in StepIds
    BY <1>3, NextResultArrived DEF RejectResult, AcceptResult, VerifyGate
  <2>4. PendingSteps' \subseteq PendingSteps
    BY <1>0, <2>2, <2>3 DEF PendingSteps, TypeOK
  <2>5. \A s \in StepIds : status[s] \in {"pending", "completed", "failed"}
                             => status'[s] \in {"pending", "completed", "failed"}
    BY <1>0, <2>2, <2>3 DEF TypeOK
  <2>6. \A s \in PendingSteps' : deps'[s] = deps[s] /\ deps[s] \subseteq StepIds
    BY <1>0, <2>2 DEF TypeOK, PendingSteps
  <2>7. Acyclic(PendingSteps, deps) => Acyclic(PendingSteps', deps')
    BY <2>2, <2>4 DEF Acyclic
  <2>8. stop # "deadlock"
    BY <2>3 DEF PlanInv
  <2> QED
    BY <2>2, <2>4, <2>5, <2>6, <2>7, <2>8 DEF PlanInv, DeadlockOnlyFromCyclicReplan
<1>4. CASE PlannerAnswers
  <2>1. /\ pc = "replan" /\ UNCHANGED <<planner, stop>> /\ replanCount' = replanCount + 1
    BY <1>4 DEF PlannerAnswers
  <2>2. PICK last \in nextId..MaxSteps :
          /\ planner = "direct" => last = nextId
          /\ \E d \in [nextId..last -> SUBSET (nextId..last)] :
               /\ planner = "direct" => d[nextId] = {}
               /\ deps' = [s \in StepIds |-> IF s \in nextId..last THEN d[s] ELSE deps[s]]
          /\ status' = [s \in StepIds |->
                          IF s \in nextId..last THEN "pending"
                          ELSE IF planner = "llm" THEN Merged(s) ELSE "absent"]
    BY <1>4 DEF PlannerAnswers
  <2>3. nextId \in Nat /\ nextId >= 1 /\ nextId..last \subseteq StepIds
    BY <1>0, BoundsAssumption, <2>2 DEF TypeOK, StepIds
  <2>4. PendingSteps' = nextId..last
    BY <2>2, <2>3 DEF PendingSteps, Merged
  <2>5. \A s \in PendingSteps' : deps'[s] \subseteq PendingSteps'
    BY <2>2, <2>3, <2>4
  <2>6. ASSUME planner = "direct"
        PROVE  Acyclic(PendingSteps', deps')
    <3>1. PendingSteps' = {nextId} /\ deps'[nextId] = {}
      BY <2>2, <2>3, <2>4, <2>6
    <3> QED
      BY <3>1 DEF Acyclic
  <2>7. replanCount' # 0 /\ stop # "deadlock"
    BY <1>0, <2>1 DEF TypeOK, PlanInv
  <2> QED
    BY <2>1, <2>5, <2>6, <2>7 DEF PlanInv, DeadlockOnlyFromCyclicReplan, PendingSteps
<1>5. CASE PlannerFails
  <2>1. /\ UNCHANGED <<status, deps, planner, replanCount>> /\ pc' = "done"
        /\ stop' = "replan_failed"
    BY <1>5 DEF PlannerFails
  <2>2. PendingSteps' = PendingSteps
    BY <2>1 DEF PendingSteps
  <2> QED
    BY <2>1, <2>2 DEF PlanInv, DeadlockOnlyFromCyclicReplan, Acyclic
<1>6. CASE UNCHANGED vars \/ Cancel \/ Terminating
  <2>1. UNCHANGED <<status, deps, planner, replanCount, stop, pc>>
    BY <1>6 DEF Cancel, Terminating, vars
  <2> QED
    BY <1>1, <2>1
<1>7. ASSUME \/ StartBatch \/ SpawnTask \/ Join
             \/ \E s \in StepIds : FinishTask(s) \/ PanicTask(s)
             \/ StartSubPlan \/ StartWave \/ RunSubStep \/ PanicSubStep \/ EndSubPlan
             \/ EndResults \/ AskPlanner
      PROVE  PlanInv'
  <2>1. UNCHANGED <<status, deps, planner, replanCount, stop>> /\ pc # "done"
    BY <1>7 DEF StartBatch, SpawnTask, Join, FinishTask, PanicTask, StartSubPlan, StartWave,
       RunSubStep, PanicSubStep, EndSubPlan, EndResults, AskPlanner
  <2> QED
    BY <1>1, <2>1
<1> QED
  BY <1>2, <1>3, <1>4, <1>5, <1>6, <1>7 DEF Next, Progress

(* A plan that was validated never deadlocks, whichever steps fail.         *)
THEOREM NoDeadlockOfValidated == Spec => []DeadlockOnlyFromCyclicReplan
<1>1. PlanInv => DeadlockOnlyFromCyclicReplan
  BY DEF PlanInv
<1> QED
  BY <1>1, InductiveInvariant, InitPlan, NextPlan, PTL DEF Spec

-----------------------------------------------------------------------------
(* Sums of estimates.  The library's sum is a fold over a chosen order; the *)
(* lemmas free it from the order.                                           *)

(* Induction over the natural numbers, as a fact about sets. *)
LEMMA CountingUp ==
  ASSUME NEW T \in SUBSET Nat, 0 \in T, \A n \in T : n + 1 \in T
  PROVE  T = Nat
<1> SUFFICES ASSUME Nat \ T # {} PROVE FALSE
  OBVIOUS
<1>1. PICK x \in Nat \ T : \A y \in Nat \ T : ~(<<y, x>> \in OpToRel(<, Nat))
  BY NatLessThanWellFounded, WFMin, Nat \ T \subseteq Nat
<1>2. x # 0 /\ x - 1 \in Nat /\ x - 1 < x
  OBVIOUS
<1>3. x - 1 \in T
  BY <1>1, <1>2 DEF OpToRel
<1> QED
  BY <1>2, <1>3

EstimateOf(S) == SumFunctionOnSet(Estimate, S)

Chosen(S) == CHOOSE s \in S : TRUE

(* What the fold makes of a set, given what it makes of the smaller ones. *)
Sum(f, S) == IF S = {} THEN 0 ELSE Estimate[Chosen(S)] + f[S \ {Chosen(S)}]

IsFold(f, T) == f = [S \in SUBSET T |-> Sum(f, S)]

LEMMA ChosenIsOfIt ==
  ASSUME NEW S \in SUBSET StepIds, S # {}
  PROVE  /\ Chosen(S) \in S /\ Estimate[Chosen(S)] \in Nat
         /\ S \ {Chosen(S)} \in SUBSET StepIds
         /\ Cardinality(S \ {Chosen(S)}) = Cardinality(S) - 1
<1>1. Chosen(S) \in S
  BY DEF Chosen
<1>2. Estimate[Chosen(S)] \in Nat
  BY <1>1, AttributesAssumption
<1>3. Cardinality(S \ {Chosen(S)}) = Cardinality(S) - 1
  BY <1>1, FiniteSteps, FS_RemoveElement
<1> QED
  BY <1>1, <1>2, <1>3

LEMMA FoldExists ==
  ASSUME NEW T \in SUBSET StepIds
  PROVE  \E f \in [SUBSET T -> Nat] : IsFold(f, T)
<1> DEFINE UpTo(n, f) == \A S \in SUBSET T : Cardinality(S) <= n => f[S] = Sum(f, S)
           Reached == {n \in Nat : \E f \in [SUBSET T -> Nat] : UpTo(n, f)}
<1>1. 0 \in Reached
  <2> DEFINE f == [S \in SUBSET T |-> 0]
  <2>1. \A S \in SUBSET T : Cardinality(S) <= 0 => S = {}
    BY FiniteSteps, CardinalityOfSteps, FS_EmptySet
  <2>2. f \in [SUBSET T -> Nat] /\ UpTo(0, f)
    BY <2>1 DEF Sum
  <2> QED
    BY <2>2
<1>2. ASSUME NEW n \in Reached
      PROVE  n + 1 \in Reached
  <2>1. PICK f \in [SUBSET T -> Nat] : UpTo(n, f)
    OBVIOUS
  <2> DEFINE g == [S \in SUBSET T |-> IF Cardinality(S) <= n THEN f[S] ELSE Sum(f, S)]
  <2>2. \A S \in SUBSET T : S # {} =>
          /\ Chosen(S) \in S /\ Estimate[Chosen(S)] \in Nat /\ S \ {Chosen(S)} \in SUBSET T
          /\ Cardinality(S \ {Chosen(S)}) = Cardinality(S) - 1 /\ Cardinality(S) \in Nat
    BY ChosenIsOfIt, CardinalityOfSteps
  <2>3. g \in [SUBSET T -> Nat]
    <3> SUFFICES ASSUME NEW S \in SUBSET T
                 PROVE  f[S] \in Nat /\ Sum(f, S) \in Nat
      OBVIOUS
    <3>1. CASE S = {}
      BY <3>1 DEF Sum
    <3>2. CASE S # {}
      <4>1. Estimate[Chosen(S)] \in Nat /\ f[S \ {Chosen(S)}] \in Nat
        BY <2>2, <3>2
      <4> QED
        BY <3>2, <4>1 DEF Sum
    <3> QED
      BY <3>1, <3>2
  <2>4. \A S \in SUBSET T : Cardinality(S) <= n + 1 => Sum(g, S) = Sum(f, S)
    BY <2>2 DEF Sum
  <2>5. UpTo(n + 1, g)
    BY <2>1, <2>4
  <2> HIDE DEF g
  <2> QED
    BY <2>3, <2>5
<1>3. Cardinality(T) \in Reached
  <2> HIDE DEF Reached
  <2>1. Reached \subseteq Nat
    BY DEF Reached
  <2> QED
    BY <1>1, <1>2, <2>1, CountingUp, CardinalityOfSteps
<1>4. PICK f \in [SUBSET T -> Nat] : UpTo(Cardinality(T), f)
  BY <1>3
<1>5. \A S \in SUBSET T : Cardinality(S) <= Cardinality(T)
  BY FiniteSteps, FS_Subset
<1>6. \A S \in SUBSET T : f[S] = Sum(f, S)
  BY <1>4, <1>5
<1>7. IsFold(f, T)
  BY <1>6 DEF IsFold
<1> QED
  BY <1>7

(* Two folds give a set both know the same sum. *)
LEMMA FoldsAgree ==
  ASSUME NEW T \in SUBSET StepIds, NEW U \in SUBSET T, NEW f, NEW g,
         IsFold(f, T), IsFold(g, U)
  PROVE  \A S \in SUBSET U : f[S] = g[S]
<1> DEFINE Reached == {n \in Nat : \A S \in SUBSET U : Cardinality(S) = n => f[S] = g[S]}
<1>0. \A S \in SUBSET U : f[S] = Sum(f, S) /\ g[S] = Sum(g, S)
  BY DEF IsFold
<1>1. 0 \in Reached
  <2>1. \A S \in SUBSET U : Cardinality(S) = 0 => S = {}
    BY FiniteSteps, FS_EmptySet
  <2> QED
    BY <1>0, <2>1 DEF Sum
<1>2. ASSUME NEW n \in Reached
      PROVE  n + 1 \in Reached
  <2> SUFFICES ASSUME NEW S \in SUBSET U, Cardinality(S) = n + 1
               PROVE  f[S] = g[S]
    OBVIOUS
  <2>1. S # {}
    BY FS_EmptySet
  <2>2. Cardinality(S \ {Chosen(S)}) = n /\ S \ {Chosen(S)} \in SUBSET U
    BY <2>1, ChosenIsOfIt
  <2>3. f[S \ {Chosen(S)}] = g[S \ {Chosen(S)}]
    BY <2>2
  <2> QED
    BY <1>0, <2>1, <2>3 DEF Sum
<1>3. Reached = Nat
  <2> HIDE DEF Reached
  <2>1. Reached \subseteq Nat
    BY DEF Reached
  <2> QED
    BY <1>1, <1>2, <2>1, CountingUp
<1> QED
  BY <1>3, CardinalityOfSteps

(* The sum of the library is a fold. *)
LEMMA EstimateIsFold ==
  ASSUME NEW S \in SUBSET StepIds
  PROVE  \E f : IsFold(f, S) /\ EstimateOf(S) = f[S]
<1> DEFINE f == CHOOSE f : f = [R \in SUBSET S |->
                  IF R = {} THEN 0
                  ELSE Estimate[CHOOSE s \in R : TRUE] + f[R \ {CHOOSE s \in R : TRUE}]]
<1>1. EstimateOf(S) = f[S]
  BY DEF EstimateOf, SumFunctionOnSet, FoldFunctionOnSet, MapThenFoldSet
<1>2. PICK g : IsFold(g, S)
  BY FoldExists
<1>3. g = [R \in SUBSET S |->
             IF R = {} THEN 0
             ELSE Estimate[CHOOSE s \in R : TRUE] + g[R \ {CHOOSE s \in R : TRUE}]]
  BY <1>2 DEF IsFold, Sum, Chosen
<1>4. f = [R \in SUBSET S |->
             IF R = {} THEN 0
             ELSE Estimate[CHOOSE s \in R : TRUE] + f[R \ {CHOOSE s \in R : TRUE}]]
  BY <1>3
<1>5. IsFold(f, S)
  <2> HIDE DEF f
  <2> QED
    BY <1>4 DEF IsFold, Sum, Chosen
<1> QED
  BY <1>1, <1>5

(* One fold gives every set its sum. *)
LEMMA OneFold ==
  \E f \in [SUBSET StepIds -> Nat] :
    IsFold(f, StepIds) /\ \A S \in SUBSET StepIds : EstimateOf(S) = f[S]
<1>1. PICK f \in [SUBSET StepIds -> Nat] : IsFold(f, StepIds)
  BY FoldExists
<1>2. ASSUME NEW S \in SUBSET StepIds
      PROVE  EstimateOf(S) = f[S]
  <2>1. PICK g : IsFold(g, S) /\ EstimateOf(S) = g[S]
    BY EstimateIsFold
  <2> QED
    BY <1>1, <2>1, FoldsAgree
<1> QED
  BY <1>1, <1>2

LEMMA EstimateUnfolds ==
  /\ EstimateOf({}) = 0
  /\ \A S \in SUBSET StepIds :
       /\ EstimateOf(S) \in Nat
       /\ S # {} => EstimateOf(S) = Estimate[Chosen(S)] + EstimateOf(S \ {Chosen(S)})
<1>1. PICK f \in [SUBSET StepIds -> Nat] :
        IsFold(f, StepIds) /\ \A S \in SUBSET StepIds : EstimateOf(S) = f[S]
  BY OneFold
<1>2. \A S \in SUBSET StepIds : f[S] = Sum(f, S) /\ S \ {Chosen(S)} \in SUBSET StepIds
  BY <1>1 DEF IsFold
<1> QED
  BY <1>1, <1>2 DEF Sum

(* A further step adds its estimate, wherever the fold takes it. *)
LEMMA EstimateAdds ==
  ASSUME NEW S \in SUBSET StepIds, NEW s \in StepIds \ S
  PROVE  EstimateOf(S \cup {s}) = EstimateOf(S) + Estimate[s]
<1> DEFINE Adds(R, r) == EstimateOf(R \cup {r}) = EstimateOf(R) + Estimate[r]
           Reached == {n \in Nat : \A R \in SUBSET StepIds : Cardinality(R) = n =>
                                     \A r \in StepIds \ R : Adds(R, r)}
<1>0. \A R \in SUBSET StepIds : EstimateOf(R) \in Nat
  BY EstimateUnfolds
<1>1. 0 \in Reached
  <2> SUFFICES ASSUME NEW R \in SUBSET StepIds, Cardinality(R) = 0, NEW r \in StepIds
               PROVE  Adds(R, r)
    OBVIOUS
  <2>1. R = {}
    BY FiniteSteps, FS_EmptySet
  <2>2. Chosen({r}) = r /\ {r} \in SUBSET StepIds /\ {r} \ {r} = {} /\ Estimate[r] \in Nat
    BY AttributesAssumption DEF Chosen
  <2>3. EstimateOf({r}) = Estimate[r]
    BY <2>2, EstimateUnfolds
  <2> QED
    BY <2>1, <2>2, <2>3, EstimateUnfolds
<1>2. ASSUME NEW n \in Reached
      PROVE  n + 1 \in Reached
  <2> SUFFICES ASSUME NEW R \in SUBSET StepIds, Cardinality(R) = n + 1, NEW r \in StepIds \ R
               PROVE  Adds(R, r)
    OBVIOUS
  <2> DEFINE all == R \cup {r}
             c == Chosen(all)
  <2>1. all \in SUBSET StepIds /\ all # {} /\ c \in all /\ Estimate[r] \in Nat
    BY AttributesAssumption DEF Chosen
  <2>2. EstimateOf(all) = Estimate[c] + EstimateOf(all \ {c})
    BY <2>1, EstimateUnfolds
  <2>3. CASE c = r
    <3>1. all \ {c} = R
      BY <2>3
    <3> HIDE DEF all
    <3> QED
      BY <1>0, <2>1, <2>2, <2>3, <3>1 DEF all
  <2>4. CASE c # r
    <3>1. c \in R /\ Estimate[c] \in Nat
      BY <2>1, <2>4, AttributesAssumption
    <3>2. Cardinality(R \ {c}) = n /\ R \ {c} \in SUBSET StepIds
      <4>1. IsFiniteSet(R) /\ n \in Nat
        BY FiniteSteps
      <4>2. Cardinality(R \ {c}) = Cardinality(R) - 1
        BY <3>1, <4>1, FS_RemoveElement
      <4> HIDE DEF c
      <4> QED
        BY <4>1, <4>2
    <3>3. r \in StepIds \ (R \ {c}) /\ c \in StepIds \ (R \ {c})
      BY <3>1
    <3>4. Adds(R \ {c}, r) /\ Adds(R \ {c}, c)
      BY <3>2, <3>3
    <3>5. (R \ {c}) \cup {c} = R /\ (R \ {c}) \cup {r} = all \ {c}
      BY <2>4, <3>1
    <3>6. EstimateOf(R) = EstimateOf(R \ {c}) + Estimate[c]
      BY <3>4, <3>5
    <3>7. EstimateOf(all \ {c}) = EstimateOf(R \ {c}) + Estimate[r]
      BY <3>4, <3>5
    <3>8. EstimateOf(R \ {c}) \in Nat
      BY <1>0, <3>2
    <3> HIDE DEF all, c
    <3> QED
      BY <2>1, <2>2, <3>1, <3>6, <3>7, <3>8 DEF all
  <2> QED
    BY <2>3, <2>4
<1>3. Reached = Nat
  <2> HIDE DEF Reached
  <2>1. Reached \subseteq Nat
    BY DEF Reached
  <2> QED
    BY <1>1, <1>2, <2>1, CountingUp
<1> QED
  BY <1>3, CardinalityOfSteps

(* More steps have no lower an estimate. *)
LEMMA EstimateGrows ==
  ASSUME NEW T \in SUBSET StepIds, NEW S \in SUBSET T
  PROVE  EstimateOf(S) <= EstimateOf(T)
<1> DEFINE Reached == {n \in Nat : \A R \in SUBSET StepIds : Cardinality(R) = n =>
                                     \A Q \in SUBSET R : EstimateOf(Q) <= EstimateOf(R)}
<1>0. \A R \in SUBSET StepIds : EstimateOf(R) \in Nat
  BY EstimateUnfolds
<1>1. 0 \in Reached
  <2>1. \A R \in SUBSET StepIds : Cardinality(R) = 0 => R = {}
    BY FiniteSteps, FS_EmptySet
  <2> QED
    BY <1>0, <2>1
<1>2. ASSUME NEW n \in Reached
      PROVE  n + 1 \in Reached
  <2> SUFFICES ASSUME NEW R \in SUBSET StepIds, Cardinality(R) = n + 1, NEW Q \in SUBSET R,
                      Q # R
               PROVE  EstimateOf(Q) <= EstimateOf(R)
    BY <1>0
  <2>1. PICK r \in R : r \notin Q
    OBVIOUS
  <2>2. Cardinality(R \ {r}) = n /\ R \ {r} \in SUBSET StepIds /\ Q \in SUBSET (R \ {r})
    <3>1. IsFiniteSet(R) /\ n \in Nat
      BY FiniteSteps
    <3>2. Cardinality(R \ {r}) = Cardinality(R) - 1
      BY <2>1, <3>1, FS_RemoveElement
    <3> QED
      BY <2>1, <3>1, <3>2
  <2>3. EstimateOf(Q) <= EstimateOf(R \ {r})
    BY <2>2
  <2>4. EstimateOf(R) = EstimateOf(R \ {r}) + Estimate[r]
    <3>1. (R \ {r}) \cup {r} = R /\ r \in StepIds \ (R \ {r})
      OBVIOUS
    <3> QED
      BY <2>2, <3>1, EstimateAdds
  <2>5. Estimate[r] \in Nat
    BY AttributesAssumption
  <2> QED
    BY <1>0, <2>2, <2>3, <2>4, <2>5
<1>3. Reached = Nat
  <2> HIDE DEF Reached
  <2>1. Reached \subseteq Nat
    BY DEF Reached
  <2> QED
    BY <1>1, <1>2, <2>1, CountingUp
<1> QED
  BY <1>3, CardinalityOfSteps

-----------------------------------------------------------------------------
(* The overshoot: what the budget has paid and what the batch in the air   *)
(* has reserved stay together within twice the budget.                     *)

Modest == \A s \in StepIds : Cost[s] \subseteq 0..Estimate[s]

SpendInv ==
  /\ sub.step # 0 => HasSub(sub.step)
  /\ \A s \in StepIds : ~HasSub(s) => cost[s] <= Estimate[s]
  /\ tokensUsed + EstimateOf(Work) <= 2 * TokenBudget + offBatch

(* What a trim lets through fits the budget that is left: its last step    *)
(* was admitted with all earlier ready ones counted.                       *)
LEMMA TrimFits == TypeOK => EstimateOf(Affordable) <= Remaining
<1>0. ASSUME TypeOK
      PROVE  Remaining \in Nat
  BY <1>0, BoundsAssumption DEF Remaining, TypeOK
<1> SUFFICES ASSUME TypeOK, Affordable # {}
             PROVE  EstimateOf(Affordable) <= Remaining
  BY <1>0, EstimateUnfolds
<1> DEFINE back == {MaxSteps - s : s \in Affordable}
           m == MaxSteps - First(back)
<1>1. Affordable \subseteq Ready /\ Ready \subseteq StepIds
  BY DEF Affordable, Ready
<1>2. back \in SUBSET Nat /\ back # {}
  <2>1. \A s \in Affordable : MaxSteps - s \in Nat
    BY <1>1, BoundsAssumption DEF StepIds
  <2> QED
    BY <2>1
<1>3. First(back) \in back /\ \A b \in back : First(back) <= b
  BY <1>2, FirstIsMember
<1>4. m \in Affordable /\ \A s \in Affordable : s <= m
  <2> HIDE DEF back
  <2>1. PICK s \in Affordable : First(back) = MaxSteps - s
    BY <1>3 DEF back
  <2>2. \A t \in Affordable : First(back) <= MaxSteps - t
    BY <1>3 DEF back
  <2> QED
    BY <1>1, <2>1, <2>2, BoundsAssumption DEF StepIds
<1> DEFINE upTo == {t \in Ready : t <= m}
<1> HIDE DEF m
<1>5. EstimateOf(upTo) <= Remaining
  BY <1>4 DEF Affordable, EstimateOf
<1>6. Affordable \in SUBSET upTo /\ upTo \in SUBSET StepIds
  BY <1>1, <1>4
<1>7. EstimateOf(Affordable) <= EstimateOf(upTo)
  BY <1>6, EstimateGrows
<1>8. EstimateOf(Affordable) \in Nat /\ EstimateOf(upTo) \in Nat
  <2> HIDE DEF upTo
  <2>1. Affordable \in SUBSET StepIds
    BY <1>6
  <2> QED
    BY <1>6, <2>1, EstimateUnfolds
<1> HIDE DEF upTo
<1> QED
  BY <1>0, <1>5, <1>7, <1>8

(* A batch reserves at most twice what is left of the budget. *)
LEMMA BatchFits == TypeOK => EstimateOf(Batch) <= Remaining * 2 /\ Batch \in SUBSET StepIds
<1> SUFFICES ASSUME TypeOK
             PROVE  EstimateOf(Batch) <= Remaining * 2 /\ Batch \in SUBSET StepIds
  OBVIOUS
<1>1. Affordable \in SUBSET StepIds /\ Ready \in SUBSET StepIds
  BY DEF Affordable, Ready
<1>2. EstimateOf(Affordable) \in Nat /\ EstimateOf(Ready) \in Nat
  BY <1>1, EstimateUnfolds
<1>3. Remaining \in Nat
  BY BoundsAssumption DEF Remaining, TypeOK
<1>5. CASE EstimateOf(Ready) > Remaining * 2
  <2>1. Batch = Affordable
    BY <1>5 DEF Batch, EstimateOf
  <2> QED
    BY <1>1, <1>2, <1>3, <2>1, TrimFits
<1>4. CASE ~(EstimateOf(Ready) > Remaining * 2)
  <2>1. Batch = Ready
    BY <1>4 DEF Batch, EstimateOf
  <2>2. EstimateOf(Ready) <= Remaining * 2
    BY <1>2, <1>3, <1>4
  <2> QED
    BY <1>1, <2>1, <2>2
<1> QED
  BY <1>4, <1>5

LEMMA InitSpend == Init => SpendInv
<1> SUFFICES ASSUME Init PROVE SpendInv
  OBVIOUS
<1>1. Work = {}
  BY BoundsAssumption DEF Init, Work, InFlight, Arrived, NoSub, StepIds
<1> QED
  BY <1>1, EstimateUnfolds, AttributesAssumption, BoundsAssumption
     DEF Init, SpendInv, NoSub

(* Steps that neither pay nor reserve. *)
LEMMA SpendKept ==
  ASSUME IInv, SpendInv, Work' = Work, UNCHANGED <<tokensUsed, offBatch>>,
         sub'.step # 0 => HasSub(sub'.step),
         \A s \in StepIds : ~HasSub(s) => cost'[s] <= Estimate[s]
  PROVE  SpendInv'
  BY DEF SpendInv, EstimateOf, HasSub

(* The account of one result: c paid where e was reserved, t for its gate. *)
LEMMA PaidAndReserved ==
  ASSUME NEW used \in Nat, NEW off \in Nat, NEW before \in Nat, NEW after \in Nat,
         NEW e \in Nat, NEW c \in Nat, NEW t \in Nat, NEW b \in Nat, NEW extra \in {0, c},
         before = after + e, extra = 0 => c <= e, used + before <= b + off
  PROVE  (used + c + t) + after <= b + (off + t + extra)
<1>1. CASE extra = 0
  BY <1>1
<1>2. CASE extra = c
  BY <1>2
<1> QED
  BY <1>1, <1>2

(* A settled result gives its reservation back and pays at most that, or   *)
(* pays on the account the reservation does not cover.                     *)
LEMMA SettlePays ==
  ASSUME Modest, IInv, SpendInv, pc = "process", Arrived # {},
         NEW st \in {"completed", "failed"}, NEW t \in Nat,
         Settle(NextResult, st, t)
  PROVE  SpendInv'
<1> DEFINE r == NextResult
<1>1. TypeOK /\ BatchInv
  BY DEF IInv
<1>2. r \in Arrived /\ r \in StepIds
  BY NextResultArrived
<1>3. todo = {} /\ running = {} /\ sub.step = 0 /\ 0 \notin StepIds
  BY <1>1, BoundsAssumption DEF BatchInv, StepIds
<1>4. /\ tokensUsed' = tokensUsed + cost[r] + t
      /\ offBatch' = offBatch + t + (IF HasSub(r) THEN cost[r] ELSE 0)
      /\ outcome' = [outcome EXCEPT ![r] = "none"]
      /\ cost' = [cost EXCEPT ![r] = 0]
      /\ UNCHANGED <<todo, running, sub>>
  BY DEF Settle
<1> HIDE DEF r
<1>5. Work = Arrived /\ Work' = Arrived'
  BY <1>3, <1>4 DEF Work, InFlight
<1>6. Arrived' = Arrived \ {r} /\ Arrived \in SUBSET StepIds
  BY <1>1, <1>2, <1>4 DEF Arrived, TypeOK
<1>7. EstimateOf(Work) = EstimateOf(Work') + Estimate[r]
  <2>1. (Arrived \ {r}) \cup {r} = Arrived
    BY <1>2
  <2>2. Arrived \ {r} \in SUBSET StepIds /\ r \in StepIds \ (Arrived \ {r})
    BY <1>2, <1>6
  <2>3. EstimateOf((Arrived \ {r}) \cup {r}) = EstimateOf(Arrived \ {r}) + Estimate[r]
    BY <2>2, EstimateAdds
  <2> QED
    BY <1>5, <1>6, <2>1, <2>3
<1>8. /\ EstimateOf(Work') \in Nat /\ Estimate[r] \in Nat /\ cost[r] \in Nat
      /\ tokensUsed \in Nat /\ offBatch \in Nat /\ TokenBudget \in Nat
  BY <1>1, <1>2, <1>5, <1>6, EstimateUnfolds, AttributesAssumption, BoundsAssumption
     DEF TypeOK
<1>9. ~HasSub(r) => cost[r] <= Estimate[r]
  BY <1>2 DEF SpendInv
<1>10. tokensUsed + EstimateOf(Work) <= 2 * TokenBudget + offBatch
  BY DEF SpendInv
<1>11. tokensUsed' + EstimateOf(Work') <= 2 * TokenBudget + offBatch'
  <2> DEFINE extra == IF HasSub(r) THEN cost[r] ELSE 0
  <2>1. extra \in {0, cost[r]} /\ (extra = 0 => cost[r] <= Estimate[r])
    BY <1>8, <1>9
  <2>2. tokensUsed' = tokensUsed + cost[r] + t /\ offBatch' = offBatch + t + extra
    BY <1>4
  <2>3. 2 * TokenBudget \in Nat /\ EstimateOf(Work) \in Nat
    BY <1>7, <1>8
  <2> HIDE DEF extra
  <2> QED
    BY <1>7, <1>8, <1>10, <2>1, <2>2, <2>3, PaidAndReserved
<1>12. \A s \in StepIds : ~HasSub(s) => cost'[s] <= Estimate[s]
  <2>1. \A s \in StepIds : cost'[s] = IF s = r THEN 0 ELSE cost[s]
    BY <1>1, <1>4 DEF TypeOK
  <2>2. \A s \in StepIds : Estimate[s] \in Nat
    BY AttributesAssumption
  <2> QED
    BY <2>1, <2>2 DEF SpendInv
<1> QED
  BY <1>3, <1>4, <1>11, <1>12 DEF SpendInv, EstimateOf, HasSub

LEMMA NextSpend == Modest /\ IInv /\ SpendInv /\ [Next]_vars => SpendInv'
<1> USE DEF planVars, batchVars, countVars
<1> SUFFICES ASSUME Modest, IInv, SpendInv, [Next]_vars
             PROVE  SpendInv'
  OBVIOUS
<1>0. TypeOK /\ BatchInv /\ 0 \notin StepIds
  BY BoundsAssumption DEF IInv, StepIds
<1>1. ASSUME UNCHANGED <<todo, running, outcome, sub, cost, tokensUsed, offBatch>>
      PROVE  SpendInv'
  <2>1. Work' = Work
    BY <1>1 DEF Work, InFlight, Arrived
  <2> QED
    BY <1>1, <2>1, SpendKept DEF SpendInv
<1>2. CASE \/ Halt \/ Join \/ PanicSubStep \/ EndResults \/ AskPlanner \/ PlannerFails
           \/ PlannerAnswers \/ Cancel \/ Terminating \/ UNCHANGED vars
  BY <1>1, <1>2 DEF Halt, Join, PanicSubStep, EndResults, AskPlanner, PlannerFails,
     PlannerAnswers, Cancel, Terminating, vars
<1>3. CASE StartBatch
  <2>1. /\ pc = "loop" /\ tokensUsed < TokenBudget /\ todo' = Batch
        /\ UNCHANGED <<running, outcome, sub, cost, tokensUsed, offBatch>>
    BY <1>3 DEF StartBatch, GoesOn
  <2>2. Work' = Batch
    BY <1>0, <2>1 DEF Work, InFlight, Arrived, BatchInv
  <2>3. EstimateOf(Batch) <= Remaining * 2 /\ EstimateOf(Batch) \in Nat
    BY <1>0, BatchFits, EstimateUnfolds
  <2>4. tokensUsed + EstimateOf(Batch) <= 2 * TokenBudget + offBatch
    BY <1>0, <2>1, <2>3, BoundsAssumption DEF Remaining, TypeOK
  <2>5. EstimateOf(Work)' = EstimateOf(Batch)
    BY <2>2 DEF EstimateOf
  <2> QED
    BY <2>1, <2>4, <2>5 DEF SpendInv, HasSub
<1>4. CASE SpawnTask
  <2> DEFINE s == First(todo)
  <2>1. /\ s \in todo /\ todo' = todo \ {s} /\ running' = running \cup {s}
        /\ UNCHANGED <<outcome, sub, cost, tokensUsed, offBatch>>
    BY <1>0, <1>4, FirstToDo DEF SpawnTask
  <2> HIDE DEF s
  <2>2. Work' = Work
    BY <2>1 DEF Work, InFlight, Arrived
  <2> QED
    BY <2>1, <2>2, SpendKept DEF SpendInv
<1>5. CASE StartSubPlan
  <2> DEFINE s == First(todo)
  <2>1. /\ s \in todo /\ s \in StepIds /\ todo' = todo \ {s} /\ sub'.step = s /\ HasSub(s)
        /\ pc = "spawn" /\ UNCHANGED <<running, outcome, cost, tokensUsed, offBatch>>
    BY <1>0, <1>5, FirstToDo DEF StartSubPlan, NoSub
  <2> HIDE DEF s
  <2>2. sub.step = 0
    BY <1>0, <2>1 DEF BatchInv
  <2>3. Work' = Work
    BY <1>0, <2>1, <2>2 DEF Work, InFlight, Arrived
  <2> QED
    BY <2>1, <2>3, SpendKept DEF SpendInv
<1>6. CASE StartWave \/ RunSubStep
  <2>1. UNCHANGED <<todo, running, outcome, cost, tokensUsed, offBatch>>
    BY <1>6 DEF StartWave, RunSubStep
  <2>2. sub'.step = sub.step
    BY <1>0, <1>6 DEF StartWave, RunSubStep, TypeOK
  <2>3. Work' = Work
    BY <2>1, <2>2 DEF Work, InFlight, Arrived
  <2> QED
    BY <2>1, <2>2, <2>3, SpendKept DEF SpendInv
<1>7. ASSUME NEW s \in StepIds, FinishTask(s) \/ PanicTask(s)
      PROVE  SpendInv'
  <2>1. s \in running /\ UNCHANGED <<todo, sub, tokensUsed, offBatch>>
    BY <1>7 DEF FinishTask, PanicTask
  <2>2. CASE UNCHANGED <<running, outcome, cost>>
    BY <1>1, <2>1, <2>2
  <2>3. CASE /\ running' = running \ {s}
             /\ \E o \in Outcomes \ {"none"} : outcome' = [outcome EXCEPT ![s] = o]
             /\ \E c \in Nat : c <= Estimate[s] /\ cost' = [cost EXCEPT ![s] = c]
    <3>1. Arrived' = Arrived \cup {s}
      BY <1>0, <2>3 DEF Arrived, TypeOK
    <3>2. Work' = Work
      BY <2>1, <2>3, <3>1 DEF Work, InFlight
    <3>3. \A q \in StepIds : ~HasSub(q) => cost'[q] <= Estimate[q]
      BY <1>0, <2>3 DEF SpendInv, TypeOK
    <3> QED
      BY <2>1, <3>2, <3>3, SpendKept DEF SpendInv
  <2>4. CASE FinishTask(s)
    <3>1. /\ running' = running \ {s}
          /\ \E o \in Outcomes \ {"none"} : outcome' = [outcome EXCEPT ![s] = o]
      BY <2>4 DEF FinishTask, Outcomes
    <3>2. \E c \in Cost[s] \cup {0} : cost' = [cost EXCEPT ![s] = c]
      BY <2>4 DEF FinishTask
    <3>3. \A c \in Cost[s] \cup {0} : c \in Nat /\ c <= Estimate[s]
      BY AttributesAssumption DEF Modest
    <3> QED
      BY <2>3, <3>1, <3>2, <3>3
  <2>5. CASE PanicTask(s)
    <3>1. CASE solo
      BY <2>2, <2>5, <3>1 DEF PanicTask
    <3>2. CASE ~solo
      <4>1. /\ running' = running \ {s}
            /\ outcome' = [outcome EXCEPT ![s] = "error"] /\ "error" \in Outcomes \ {"none"}
            /\ cost' = [cost EXCEPT ![s] = 0] /\ 0 <= Estimate[s] /\ 0 \in Nat
        BY <2>5, <3>2, AttributesAssumption DEF PanicTask, Outcomes
      <4> QED
        BY <2>3, <4>1
    <3> QED
      BY <3>1, <3>2
  <2> QED
    BY <1>7, <2>4, <2>5
<1>8. CASE EndSubPlan
  <2>1. /\ UNCHANGED <<todo, running, tokensUsed, offBatch>> /\ sub'.step = 0
        /\ cost' = [cost EXCEPT ![sub.step] = sub.tokens]
    BY <1>8 DEF EndSubPlan, NoSub
  <2>2. PICK o \in Outcomes \ {"none"} : outcome' = [outcome EXCEPT ![sub.step] = o]
    BY <1>8 DEF EndSubPlan
  <2>3. Arrived' = Arrived \cup ({sub.step} \cap StepIds)
    BY <1>0, <2>2 DEF Arrived, TypeOK
  <2>4. Work' = Work
    BY <1>0, <2>1, <2>3 DEF Work, InFlight
  <2>5. \A q \in StepIds : ~HasSub(q) => cost'[q] = cost[q]
    BY <1>0, <2>1 DEF SpendInv, TypeOK
  <2> QED
    BY <2>1, <2>4, <2>5, SpendKept DEF SpendInv
<1>9. CASE RejectResult \/ AcceptResult \/ VerifyGate
  <2>1. \E st \in {"completed", "failed"}, t \in Nat : Settle(NextResult, st, t)
    BY <1>9, AttributesAssumption DEF RejectResult, AcceptResult, VerifyGate
  <2>2. pc = "process" /\ Arrived # {}
    BY <1>9 DEF RejectResult, AcceptResult, VerifyGate
  <2> QED
    BY <2>1, <2>2, SettlePays
<1> QED
  BY <1>2, <1>3, <1>4, <1>5, <1>6, <1>7, <1>8, <1>9 DEF Next, Progress

(* Twice the budget bounds what a run pays for its batches: the overshoot   *)
(* is at most one reservation, whatever the plans, trims and replans were.  *)
THEOREM OvershootIsBounded == Spec => []OvershootBounded
<1>1. CASE Modest
  <2>1. Modest' <=> Modest
    BY DEF Modest
  <2>2. IInv /\ SpendInv => OvershootBounded
    <3> SUFFICES ASSUME IInv, SpendInv
                 PROVE  tokensUsed <= 2 * TokenBudget + offBatch
      BY DEF OvershootBounded
    <3>1. Work \in SUBSET StepIds
      BY DEF Work, InFlight, Arrived, IInv, TypeOK
    <3>2. EstimateOf(Work) \in Nat
      BY <3>1, EstimateUnfolds
    <3> QED
      BY <3>2, BoundsAssumption DEF SpendInv, IInv, TypeOK
  <2>3. IInv /\ SpendInv /\ [Next]_vars => SpendInv'
    BY <1>1, NextSpend
  <2> QED
    BY <2>2, <2>3, InitSpend, InductiveInvariant, PTL DEF Spec
<1>2. CASE ~Modest
  <2>1. OvershootBounded
    BY <1>2 DEF OvershootBounded, Modest
  <2> QED
    BY <2>1, PTL
<1> QED
  BY <1>1, <1>2
=============================================================================
