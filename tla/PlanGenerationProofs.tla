------------------------- MODULE PlanGenerationProofs -------------------------
(***************************************************************************)
(* Proofs about PlanGeneration for any answers, any budget and any number  *)
(* of tokens a field can hold.                                             *)
(*                                                                         *)
(* The lemmas are of four kinds: recursive functions exist and are what    *)
(* their rounds make them (Iterated, DepthsInRounds); a plan has no circle *)
(* if and only if it can be ranked (AcyclicIsRanked, RankedIsAcyclic);     *)
(* merging a step into the one it waits for keeps tasks, order and ranks   *)
(* (MergedIsKept), so that however many merges do (CollapsedKeeps); and    *)
(* what an answer asks for is what its steps are built with (BuiltIsKept). *)
(***************************************************************************)
EXTENDS PlanGeneration, PreparationProofs

-----------------------------------------------------------------------------
(* A value changed again and again. *)
Iterates(h, V, v, F, N) ==
  /\ h \in [0 .. N -> V] /\ h[0] = v
  /\ \A n \in 0 .. N : n # 0 => h[n] = F[<<h[n - 1], n - 1>>]

LEMMA Iterated ==
  ASSUME NEW V, NEW v \in V, NEW F \in [V \X Nat -> V], NEW N \in Nat
  PROVE  \E h : Iterates(h, V, v, F, N)
<1> DEFINE Goes(m, h) == \A n \in 0 .. m : h[n] = IF n = 0 THEN v ELSE F[<<h[n - 1], n - 1>>]
           Reached == {m \in Nat : \E h \in [Nat -> V] : Goes(m, h)}
<1>1. 0 \in Reached
  <2> DEFINE h == [n \in Nat |-> v]
  <2>1. h \in [Nat -> V] /\ Goes(0, h)
    OBVIOUS
  <2> QED
    BY <2>1
<1>2. ASSUME NEW m \in Reached
      PROVE  m + 1 \in Reached
  <2>1. PICK h \in [Nat -> V] : Goes(m, h)
    OBVIOUS
  <2> DEFINE g == [n \in Nat |-> IF n = m + 1 THEN F[<<h[m], m>>] ELSE h[n]]
  <2>2. m \in Nat /\ F[<<h[m], m>>] \in V
    OBVIOUS
  <2>3. g \in [Nat -> V]
    BY <2>2
  <2>4. ASSUME NEW n \in 0 .. m + 1
        PROVE  g[n] = IF n = 0 THEN v ELSE F[<<g[n - 1], n - 1>>]
    <3>1. CASE n = m + 1
      <4>1. g[n] = F[<<h[m], m>>] /\ n # 0 /\ n - 1 = m /\ n - 1 \in Nat /\ n - 1 # m + 1
        BY <2>2, <3>1
      <4>2. g[n - 1] = h[m]
        BY <4>1
      <4> QED
        BY <4>1, <4>2
    <3>2. CASE n # m + 1
      <4>1. n \in 0 .. m
        BY <2>2, <3>2
      <4>2. g[n] = h[n]
        BY <3>2
      <4>3. CASE n = 0
        BY <2>1, <4>1, <4>2, <4>3
      <4>4. CASE n # 0
        <5>1. n - 1 \in Nat /\ n - 1 # m + 1
          BY <2>2, <4>1, <4>4
        <5>2. g[n - 1] = h[n - 1]
          BY <5>1
        <5> QED
          BY <2>1, <4>1, <4>2, <4>4, <5>2
      <4> QED
        BY <4>3, <4>4
    <3> QED
      BY <3>1, <3>2
  <2> HIDE DEF g
  <2> QED
    BY <2>2, <2>3, <2>4
<1>3. N \in Reached
  <2>1. Reached \in SUBSET Nat
    OBVIOUS
  <2> HIDE DEF Reached
  <2> QED
    BY <1>1, <1>2, <2>1, CountingUp
<1>4. PICK h \in [Nat -> V] : Goes(N, h)
  BY <1>3
<1> DEFINE g == [n \in 0 .. N |-> h[n]]
<1>5. \A n \in 0 .. N : n # 0 => n - 1 \in 0 .. N
  OBVIOUS
<1>6. \A n \in 0 .. N : g[n] = IF n = 0 THEN v ELSE F[<<g[n - 1], n - 1>>]
  BY <1>4, <1>5
<1>7. g \in [0 .. N -> V]
  OBVIOUS
<1> HIDE DEF g
<1>8. 0 \in 0 .. N
  OBVIOUS
<1>9. g[0] = v /\ \A n \in 0 .. N : n # 0 => g[n] = F[<<g[n - 1], n - 1>>]
  BY <1>6, <1>8
<1> QED
  BY <1>7, <1>9 DEF Iterates

(* A selection has what is at the places selected, and nothing else. *)
LEMMA TakenAreThose ==
  ASSUME NEW S, NEW s \in Seq(S), NEW P \in SUBSET DOMAIN s
  PROVE  /\ Arranged(s, P, AsTheyCome(P)) \in Seq(S)
         /\ ToSet(Arranged(s, P, AsTheyCome(P))) = {s[i] : i \in P}
<1> DEFINE R == AsTheyCome(P)
           n == Cardinality(P)
           at(k) == CHOOSE i \in P : Cardinality({j \in P : <<j, i>> \in R}) = k - 1
           D == 1 .. n
           f == [k \in D |-> at(k)]
<1>1. P \in SUBSET Nat /\ IsFiniteSet(P) /\ n \in Nat
  <2>1. DOMAIN s = 1 .. Len(s) /\ Len(s) \in Nat
    OBVIOUS
  <2>2. IsFiniteSet(1 .. Len(s))
    BY <2>1, FS_Interval
  <2>3. IsFiniteSet(P)
    BY <2>1, <2>2, FS_Subset
  <2>4. n \in Nat
    BY <2>3, FS_CardinalityType
  <2> QED
    BY <2>1, <2>3, <2>4
<1>2. StrictOrder(P, R)
  BY <1>1, InPlaceIsOrder
<1>3. \A k \in D : at(k) \in P /\ Cardinality(Ahead(P, R, at(k))) = k - 1
  <2> SUFFICES ASSUME NEW k \in D
               PROVE  at(k) \in P /\ Cardinality(Ahead(P, R, at(k))) = k - 1
    OBVIOUS
  <2>0. \E i \in P : Cardinality(Ahead(P, R, i)) = k - 1
    <3> HIDE DEF R
    <3> QED
      BY <1>1, <1>2, Ranks
  <2>1. \E i \in P : Cardinality({j \in P : <<j, i>> \in R}) = k - 1
    BY <2>0 DEF Ahead
  <2>2. at(k) \in P /\ Cardinality({j \in P : <<j, at(k)>> \in R}) = k - 1
    BY <2>1
  <2> QED
    BY <2>2 DEF Ahead
<1>4. Arranged(s, P, R) = [k \in D |-> s[at(k)]]
  BY DEF Arranged
<1> HIDE DEF at, n, R
<1>5. f \in [D -> P]
  BY <1>3
<1>6. \A k, l \in D : f[k] = f[l] => k = l
  BY <1>1, <1>3
<1>7. \A i \in P : \E k \in D : f[k] = i
  <2>1. f \in Injection(D, P)
    BY <1>5, <1>6 DEF Injection, IsInjective
  <2>2. IsFiniteSet(D) /\ Cardinality(D) = n
    BY <1>1, FS_Interval
  <2>3. f \in Surjection(D, P)
    BY <1>1, <2>1, <2>2, FS_Injection DEF n
  <2> QED
    BY <2>3 DEF Surjection
<1>8. \A k \in D : Arranged(s, P, R)[k] = s[f[k]] /\ f[k] \in P
  BY <1>3, <1>4
<1>9. DOMAIN Arranged(s, P, R) = D
  BY <1>4
<1>10. Arranged(s, P, R) \in Seq(S)
  <2>1. \A k \in D : s[at(k)] \in S
    BY <1>3
  <2> QED
    BY <1>1, <1>4, <2>1
<1>11. ToSet(Arranged(s, P, R)) = {s[i] : i \in P}
  BY <1>7, <1>8, <1>9 DEF ToSet
<1> QED
  BY <1>10, <1>11 DEF R

-----------------------------------------------------------------------------
(* Circles. *)

StepType ==
  [id : Nat, tasks : Seq(Nat), role : STRING, readOnly : BOOLEAN, inline : BOOLEAN,
   verify : BOOLEAN, tokens : Nat, dependsOn : Seq(Nat), nested : Nat]

IdsApart(f) == \A i, j \in DOMAIN f : f[i].id = f[j].id => i = j

(* Ranks that go up along the dependencies. *)
Ranked(f, r) ==
  /\ r \in [Nat -> Nat]
  /\ \A i \in DOMAIN f : \A d \in ToSet(f[i].dependsOn) : d \in Ids(f) /\ r[d] < r[f[i].id]

IsPlan(plan) == plan \in Seq(StepType) /\ IdsApart(plan)

LEMMA PlacesOfPlan ==
  ASSUME NEW plan, IsPlan(plan)
  PROVE  /\ DOMAIN plan = 1 .. Len(plan) /\ Len(plan) \in Nat
         /\ \A i \in DOMAIN plan : plan[i] \in StepType /\ StepOf(plan, plan[i].id) = plan[i]
         /\ Ids(plan) \subseteq Nat /\ IsFiniteSet(Ids(plan)) /\ Cardinality(Ids(plan)) <= Len(plan)
<1>1. DOMAIN plan = 1 .. Len(plan) /\ Len(plan) \in Nat /\ \A i \in DOMAIN plan : plan[i] \in StepType
  BY DEF IsPlan
<1>2. ASSUME NEW i \in DOMAIN plan
      PROVE  StepOf(plan, plan[i].id) = plan[i]
  <2> DEFINE j == CHOOSE j \in DOMAIN plan : plan[j].id = plan[i].id
  <2>1. j \in DOMAIN plan /\ plan[j].id = plan[i].id
    OBVIOUS
  <2>2. j = i
    BY <2>1 DEF IsPlan, IdsApart
  <2> QED
    BY <2>2 DEF StepOf
<1>3. Ids(plan) \subseteq Nat
  BY <1>1 DEF Ids, StepType
<1> DEFINE g == [i \in DOMAIN plan |-> plan[i].id]
<1>4. g \in Surjection(DOMAIN plan, Ids(plan))
  BY DEF Surjection, Ids
<1>5. IsFiniteSet(1 .. Len(plan)) /\ Cardinality(1 .. Len(plan)) = Len(plan)
  BY <1>1, FS_Interval
<1>6. IsFiniteSet(Ids(plan)) /\ Cardinality(Ids(plan)) <= Len(plan)
  BY <1>1, <1>4, <1>5, FS_Surjection
<1> QED
  BY <1>1, <1>2, <1>3, <1>6

PartialDepths(plan) == UNION {[S -> Nat] : S \in SUBSET Ids(plan)}

LEMMA ReachIsPartial ==
  ASSUME NEW plan, NEW d \in PartialDepths(plan), NEW n \in Nat
  PROVE  Reach(plan, d, n) \in PartialDepths(plan)
<1>1. PICK S \in SUBSET Ids(plan) : d \in [S -> Nat]
  BY DEF PartialDepths
<1>2. DOMAIN d \cup Free(plan, d) \in SUBSET Ids(plan)
  BY <1>1 DEF Free
<1>3. Reach(plan, d, n) \in [DOMAIN d \cup Free(plan, d) -> Nat]
  BY <1>1 DEF Reach
<1> QED
  BY <1>2, <1>3 DEF PartialDepths

(* Kahn's rounds, one after the other. *)
Rounds(plan, h) ==
  /\ h \in [0 .. Len(plan) -> PartialDepths(plan)]
  /\ h[0] = <<>>
  /\ \A n \in 0 .. Len(plan) - 1 : h[n + 1] = Reach(plan, h[n], n)
  /\ Depths(plan) = h[Len(plan)]

LEMMA DepthsInRounds ==
  ASSUME NEW plan, IsPlan(plan)
  PROVE  \E h : Rounds(plan, h)
<1> DEFINE V == PartialDepths(plan)
           F == [p \in V \X Nat |-> Reach(plan, p[1], p[2])]
           N == Len(plan)
           h == CHOOSE h : h = [n \in 0 .. N |-> IF n = 0 THEN <<>> ELSE Reach(plan, h[n - 1], n - 1)]
<1>1. N \in Nat
  BY PlacesOfPlan
<1>2. <<>> \in V
  BY DEF PartialDepths
<1>3. \A x \in V : \A n \in Nat : F[<<x, n>>] = Reach(plan, x, n) /\ F[<<x, n>>] \in V
  BY ReachIsPartial
<1>9. Depths(plan) = h[N]
  BY DEF Depths
<1> HIDE DEF V, F, N
<1>4. PICK g \in [0 .. N -> V] :
         g[0] = <<>> /\ \A n \in 0 .. N : n # 0 => g[n] = F[<<g[n - 1], n - 1>>]
  <2>1. F \in [V \X Nat -> V]
    BY <1>3 DEF F
  <2> DEFINE none == <<>>
  <2>2. none \in V
    BY <1>2
  <2> HIDE DEF none
  <2>3. \E g : Iterates(g, V, none, F, N)
    BY <1>1, <2>1, <2>2, Iterated
  <2> QED
    BY <2>3 DEF none, Iterates
<1>5. \A n \in 0 .. N : n # 0 => n - 1 \in 0 .. N /\ n - 1 \in Nat
  BY <1>1
<1>6. \A n \in 0 .. N : g[n] = IF n = 0 THEN <<>> ELSE Reach(plan, g[n - 1], n - 1)
  <2> SUFFICES ASSUME NEW n \in 0 .. N, n # 0
               PROVE  F[<<g[n - 1], n - 1>>] = Reach(plan, g[n - 1], n - 1)
    BY <1>4
  <2>1. g[n - 1] \in V /\ n - 1 \in Nat
    BY <1>5
  <2> QED
    BY <1>3, <2>1
<1>7. g = [n \in 0 .. N |-> IF n = 0 THEN <<>> ELSE Reach(plan, g[n - 1], n - 1)]
  BY <1>6
<1>8. h = [n \in 0 .. N |-> IF n = 0 THEN <<>> ELSE Reach(plan, h[n - 1], n - 1)]
  BY <1>7
<1> HIDE DEF h
<1>10. \A n \in 0 .. N : h[n] \in V
  <2> DEFINE T == {n \in Nat : n <= N => h[n] \in V}
  <2>1. 0 \in T
    BY <1>1, <1>2, <1>8
  <2>2. ASSUME NEW n \in T
        PROVE  n + 1 \in T
    <3> SUFFICES ASSUME n + 1 <= N PROVE h[n + 1] \in V
      OBVIOUS
    <3>1. n \in Nat /\ n <= N /\ n + 1 \in 0 .. N /\ n + 1 # 0 /\ (n + 1) - 1 = n
      BY <1>1
    <3>2. h[n] \in V /\ h[n + 1] = Reach(plan, h[n], n)
      BY <1>8, <3>1
    <3> QED
      BY <3>1, <3>2, ReachIsPartial DEF V
  <2>3. T \in SUBSET Nat
    OBVIOUS
  <2> HIDE DEF T
  <2>4. T = Nat
    BY <2>1, <2>2, <2>3, CountingUp
  <2> QED
    BY <1>1, <2>4 DEF T
<1>11. h \in [0 .. N -> V] /\ h[0] = <<>>
  BY <1>1, <1>8, <1>10
<1>12. \A n \in 0 .. N - 1 : h[n + 1] = Reach(plan, h[n], n)
  <2> SUFFICES ASSUME NEW n \in 0 .. N - 1 PROVE h[n + 1] = Reach(plan, h[n], n)
    OBVIOUS
  <2>1. n + 1 \in 0 .. N /\ n + 1 # 0 /\ (n + 1) - 1 = n
    BY <1>1
  <2> QED
    BY <1>8, <2>1
<1>13. Rounds(plan, h)
  BY <1>9, <1>11, <1>12 DEF Rounds, V, N
<1> QED
  BY <1>13

(* A depth is above those of the dependencies, which are all reached. *)
Sound(plan, d, n) ==
  /\ d \in PartialDepths(plan)
  /\ \A id \in DOMAIN d :
       /\ d[id] < n
       /\ \A x \in ToSet(StepOf(plan, id).dependsOn) : x \in DOMAIN d /\ d[x] < d[id]

LEMMA PartialIsFunction ==
  ASSUME NEW plan, NEW d \in PartialDepths(plan)
  PROVE  DOMAIN d \subseteq Ids(plan) /\ d \in [DOMAIN d -> Nat]
BY DEF PartialDepths

LEMMA ReachIsSound ==
  ASSUME NEW plan, NEW n \in Nat, NEW d, Sound(plan, d, n)
  PROVE  Sound(plan, Reach(plan, d, n), n + 1)
<1> DEFINE e == Reach(plan, d, n)
           D == DOMAIN d
           E == D \cup Free(plan, d)
<1>1. d \in PartialDepths(plan) /\ d \in [D -> Nat]
  BY PartialIsFunction DEF Sound
<1>2. e = [id \in E |-> IF id \in D THEN d[id] ELSE n]
  BY DEF Reach
<1>3. e \in PartialDepths(plan)
  BY <1>1, ReachIsPartial
<1> HIDE DEF e
<1>4. ASSUME NEW id \in E
      PROVE  /\ e[id] < n + 1
             /\ \A x \in ToSet(StepOf(plan, id).dependsOn) : x \in E /\ e[x] < e[id]
  <2>1. CASE id \in D
    <3>1. /\ d[id] < n
          /\ \A x \in ToSet(StepOf(plan, id).dependsOn) : x \in D /\ d[x] < d[id]
      BY <2>1 DEF Sound
    <3>2. e[id] = d[id] /\ \A x \in D : e[x] = d[x]
      BY <1>2, <2>1
    <3>3. d[id] \in Nat
      BY <1>1, <2>1
    <3> QED
      BY <3>1, <3>2, <3>3
  <2>2. CASE id \notin D
    <3>1. e[id] = n
      BY <1>2, <2>2
    <3>2. ToSet(StepOf(plan, id).dependsOn) \subseteq D
      BY <2>2 DEF Free
    <3>3. \A x \in D : e[x] = d[x] /\ d[x] < n
      BY <1>2 DEF Sound
    <3> QED
      BY <3>1, <3>2, <3>3
  <2> QED
    BY <2>1, <2>2
<1>5. DOMAIN e = E
  BY <1>2
<1> HIDE DEF E
<1>6. Sound(plan, e, n + 1)
  BY <1>3, <1>4, <1>5 DEF Sound
<1> QED
  BY <1>6 DEF e

LEMMA RoundsAreSound ==
  ASSUME NEW plan, IsPlan(plan), NEW h, Rounds(plan, h)
  PROVE  \A n \in 0 .. Len(plan) : Sound(plan, h[n], n)
<1> DEFINE T == {n \in Nat : n <= Len(plan) => Sound(plan, h[n], n)}
<1>0. Len(plan) \in Nat
  BY PlacesOfPlan
<1>1. 0 \in T
  BY <1>0 DEF Rounds, Sound
<1>2. ASSUME NEW n \in T
      PROVE  n + 1 \in T
  <2> SUFFICES ASSUME n + 1 <= Len(plan) PROVE Sound(plan, h[n + 1], n + 1)
    OBVIOUS
  <2>1. n \in Nat /\ n <= Len(plan) /\ n \in 0 .. Len(plan) - 1
    BY <1>0
  <2>2. Sound(plan, h[n], n) /\ h[n + 1] = Reach(plan, h[n], n)
    BY <2>1 DEF Rounds
  <2> QED
    BY <2>1, <2>2, ReachIsSound
<1>3. T \in SUBSET Nat
  OBVIOUS
<1> HIDE DEF T
<1>4. T = Nat
  BY <1>1, <1>2, <1>3, CountingUp
<1> QED
  BY <1>0, <1>4 DEF T

LEMMA DepthsAreSound ==
  ASSUME NEW plan, IsPlan(plan)
  PROVE  Sound(plan, Depths(plan), Len(plan))
<1>1. PICK h : Rounds(plan, h)
  BY DepthsInRounds
<1>2. Len(plan) \in Nat /\ Len(plan) \in 0 .. Len(plan)
  BY PlacesOfPlan
<1> QED
  BY <1>1, <1>2, RoundsAreSound DEF Rounds

(* A plan has no circles if and only if it can be ranked. *)
LEMMA AcyclicIsRanked ==
  ASSUME NEW plan, IsPlan(plan), ~HasCycle(plan)
  PROVE  \E r : Ranked(plan, r)
<1> DEFINE d == Depths(plan)
           r == [x \in Nat |-> IF x \in Ids(plan) THEN d[x] ELSE 0]
<1>1. Sound(plan, d, Len(plan)) /\ DOMAIN d = Ids(plan)
  BY DepthsAreSound DEF HasCycle
<1>2. d \in [Ids(plan) -> Nat]
  BY <1>1, PartialIsFunction DEF Sound
<1> HIDE DEF d
<1>3. r \in [Nat -> Nat]
  BY <1>2
<1>4. ASSUME NEW i \in DOMAIN plan, NEW x \in ToSet(plan[i].dependsOn)
      PROVE  x \in Ids(plan) /\ r[x] < r[plan[i].id]
  <2>1. plan[i].id \in Ids(plan) /\ Ids(plan) \subseteq Nat /\ StepOf(plan, plan[i].id) = plan[i]
    BY PlacesOfPlan DEF Ids
  <2>2. x \in Ids(plan) /\ d[x] < d[plan[i].id]
    BY <1>1, <2>1 DEF Sound
  <2> QED
    BY <2>1, <2>2
<1>5. Ranked(plan, r)
  BY <1>3, <1>4 DEF Ranked
<1> QED
  BY <1>5

LEMMA RankedIsAcyclic ==
  ASSUME NEW plan, IsPlan(plan), NEW r, Ranked(plan, r)
  PROVE  ~HasCycle(plan)
<1>1. PICK h : Rounds(plan, h)
  BY DepthsInRounds
<1> DEFINE I == Ids(plan)
           Far(n) == DOMAIN h[n] = I \/ Cardinality(DOMAIN h[n]) >= n
           T == {n \in Nat : n <= Len(plan) => Far(n)}
<1>2. /\ Len(plan) \in Nat /\ I \subseteq Nat /\ IsFiniteSet(I)
      /\ Cardinality(I) \in Nat /\ Cardinality(I) <= Len(plan)
  BY PlacesOfPlan, FS_CardinalityType
<1>3. \A n \in 0 .. Len(plan) : h[n] \in PartialDepths(plan) /\ DOMAIN h[n] \subseteq I
  BY <1>1, PartialIsFunction DEF Rounds
<1>4. \A n \in 0 .. Len(plan) : /\ IsFiniteSet(DOMAIN h[n]) /\ Cardinality(DOMAIN h[n]) \in Nat
                                /\ Cardinality(DOMAIN h[n]) <= Cardinality(I)
                                /\ Cardinality(DOMAIN h[n]) = Cardinality(I) => DOMAIN h[n] = I
  BY <1>2, <1>3, FS_Subset, FS_CardinalityType
<1>5. 0 \in T
  BY <1>2, <1>4
<1>6. ASSUME NEW n \in Nat, n + 1 <= Len(plan), Far(n)
      PROVE  Far(n + 1)
  <2>1. n \in 0 .. Len(plan) - 1 /\ n \in 0 .. Len(plan) /\ n + 1 \in 0 .. Len(plan)
    BY <1>2, <1>6
  <2> DEFINE d == h[n]
  <2>2. h[n + 1] = Reach(plan, d, n)
    BY <1>1, <2>1 DEF Rounds
  <2>3. DOMAIN h[n + 1] = DOMAIN d \cup Free(plan, d) /\ Free(plan, d) \subseteq I
    BY <2>2 DEF Reach, Free
  <2>4. CASE DOMAIN d = I
    BY <2>3, <2>4
  <2>5. CASE DOMAIN d # I
    <3> DEFINE left == I \ DOMAIN d
               ranks == {r[x] : x \in left}
    <3>1. ranks \in SUBSET Nat /\ ranks # {}
      BY <1>2, <1>3, <2>1, <2>5 DEF Ranked
    <3>2. Min(ranks) \in ranks /\ \A y \in ranks : Min(ranks) <= y
      BY <3>1, MinOfSome
    <3>3. PICK x \in left : r[x] = Min(ranks)
      BY <3>2
    <3>4. \A y \in left : r[x] <= r[y]
      BY <3>2, <3>3
    <3>5. PICK i \in DOMAIN plan : plan[i].id = x
      BY <3>3 DEF Ids
    <3>6. StepOf(plan, x) = plan[i]
      BY <3>5, PlacesOfPlan
    <3>7. ASSUME NEW y \in ToSet(plan[i].dependsOn)
          PROVE  y \in DOMAIN d
      <4>1. y \in I /\ r[y] < r[x]
        BY <3>5 DEF Ranked
      <4>2. r[y] \in Nat /\ r[x] \in Nat
        BY <1>2, <4>1 DEF Ranked
      <4>3. y \notin left
        BY <3>4, <4>1, <4>2
      <4> QED
        BY <4>1, <4>3
    <3>8. x \in Free(plan, d)
      BY <3>6, <3>7 DEF Free
    <3>9. DOMAIN d \cup {x} \subseteq DOMAIN h[n + 1] /\ x \notin DOMAIN d
      BY <2>3, <3>8
    <3>10. Cardinality(DOMAIN d \cup {x}) = Cardinality(DOMAIN d) + 1
      BY <1>4, <2>1, <3>9, FS_AddElement
    <3>11. Cardinality(DOMAIN d \cup {x}) <= Cardinality(DOMAIN h[n + 1])
      BY <1>4, <2>1, <3>9, FS_Subset
    <3>12. Cardinality(DOMAIN d) >= n
      BY <1>6, <2>5
    <3>13. Cardinality(DOMAIN d) \in Nat /\ Cardinality(DOMAIN h[n + 1]) \in Nat
      BY <1>4, <2>1
    <3> HIDE DEF d
    <3> QED
      BY <3>10, <3>11, <3>12, <3>13
  <2> QED
    BY <2>4, <2>5
<1>7. T = Nat
  <2>1. \A n \in T : n + 1 \in T
    <3> SUFFICES ASSUME NEW n \in T, n + 1 <= Len(plan) PROVE Far(n + 1)
      OBVIOUS
    <3>1. n \in Nat /\ n <= Len(plan)
      BY <1>2
    <3>2. Far(n)
      BY <3>1
    <3> HIDE DEF Far
    <3> QED
      BY <1>6, <3>1, <3>2
  <2>2. T \in SUBSET Nat
    OBVIOUS
  <2> HIDE DEF T
  <2> QED
    BY <1>5, <2>1, <2>2, CountingUp
<1>8. Far(Len(plan)) /\ Len(plan) \in 0 .. Len(plan)
  BY <1>2, <1>7
<1>9. DOMAIN h[Len(plan)] = I
  BY <1>2, <1>4, <1>8
<1> QED
  BY <1>1, <1>9 DEF HasCycle, Rounds

-----------------------------------------------------------------------------
(* Merging.  What a plan keeps does not depend on the places of its steps,  *)
(* so it is said of families of steps.                                      *)

Deps(s) == ToSet(s.dependsOn)

TaskPlaces(f) == {p \in (DOMAIN f) \X Nat : p[2] \in DOMAIN f[p[1]].tasks}

TaskAt(f, p) == f[p[1]].tasks[p[2]]

TasksOnce(f, T) ==
  /\ \A p, q \in TaskPlaces(f) : TaskAt(f, p) = TaskAt(f, q) => p = q
  /\ \A t \in T : \E p \in TaskPlaces(f) : TaskAt(f, p) = t

After(f, q, p) ==
  \/ p[1] = q[1] /\ p[2] < q[2]
  \/ p[1] # q[1] /\ f[p[1]].id \in Deps(f[q[1]])

(* W: pairs of tasks, the first after the second. *)
OrderedBy(f, W) ==
  \A p, q \in TaskPlaces(f) : <<TaskAt(f, q), TaskAt(f, p)>> \in W => After(f, q, p)

Kept(f, T, W) ==
  /\ \A i \in DOMAIN f : f[i] \in StepType
  /\ IdsApart(f) /\ (\E r : Ranked(f, r))
  /\ TasksOnce(f, T) /\ OrderedBy(f, W)

(* Step y, which waits for x alone, has gone into x. *)
MergedInto(f, g, x, y) ==
  /\ x \in DOMAIN f /\ y \in DOMAIN f /\ x # y
  /\ Deps(f[y]) = {f[x].id}
  /\ DOMAIN g = DOMAIN f \ {y}
  /\ \A i \in DOMAIN g :
       /\ g[i] \in StepType /\ g[i].id = f[i].id
       /\ g[i].tasks = IF i = x THEN f[x].tasks \o f[y].tasks ELSE f[i].tasks
       /\ Deps(g[i]) = IF f[y].id \in Deps(f[i]) THEN (Deps(f[i]) \ {f[y].id}) \cup {f[x].id}
                       ELSE Deps(f[i])

LEMMA MergedIsRanked ==
  ASSUME NEW f, NEW g, NEW x, NEW y, MergedInto(f, g, x, y), IdsApart(f),
         \A i \in DOMAIN f : f[i] \in StepType, NEW r, Ranked(f, r)
  PROVE  Ranked(g, r) /\ IdsApart(g) /\ f[y].id \notin Deps(f[x])
<1> DEFINE a == f[x].id
           b == f[y].id
<1>1. IdsApart(g)
  BY DEF MergedInto, IdsApart
<1>2. \A i \in DOMAIN f : \A d \in Deps(f[i]) : d \in Ids(f) /\ r[d] < r[f[i].id]
  BY DEF Ranked, Deps
<1>3. a \in Nat /\ b \in Nat /\ r[a] \in Nat /\ r[b] \in Nat /\ r[a] < r[b]
  <2>1. x \in DOMAIN f /\ y \in DOMAIN f /\ a \in Deps(f[y])
    BY DEF MergedInto
  <2>2. a \in Nat /\ b \in Nat
    BY <2>1 DEF StepType
  <2> QED
    BY <1>2, <2>1, <2>2 DEF Ranked
<1>4. b \notin Deps(f[x])
  BY <1>2, <1>3 DEF MergedInto
<1>5. \A d \in Ids(f) : d # b => d \in Ids(g)
  BY DEF MergedInto, Ids
<1>6. a # b
  BY DEF MergedInto, IdsApart
<1>7. ASSUME NEW i \in DOMAIN g, NEW d \in Deps(g[i])
      PROVE  d \in Ids(g) /\ r[d] < r[g[i].id]
  <2>1. i \in DOMAIN f /\ g[i].id = f[i].id /\ f[i].id \in Nat /\ a \in Ids(f)
    BY DEF MergedInto, StepType, Ids
  <2>2. r[f[i].id] \in Nat
    BY <2>1 DEF Ranked
  <2>3. CASE b \in Deps(f[i])
    <3>1. d = a \/ (d \in Deps(f[i]) /\ d # b)
      BY <2>3 DEF MergedInto
    <3>2. r[b] < r[f[i].id]
      BY <1>2, <2>1, <2>3
    <3>3. CASE d = a
      BY <1>3, <1>5, <1>6, <2>1, <2>2, <3>2, <3>3
    <3>4. CASE d # a
      BY <1>2, <1>5, <2>1, <3>1, <3>4
    <3> QED
      BY <3>3, <3>4
  <2>4. CASE b \notin Deps(f[i])
    <3>1. d \in Deps(f[i]) /\ d # b
      BY <2>4 DEF MergedInto
    <3> QED
      BY <1>2, <1>5, <2>1, <3>1
  <2> QED
    BY <2>3, <2>4
<1>8. Ranked(g, r)
  BY <1>7 DEF Ranked, Deps
<1> QED
  BY <1>1, <1>4, <1>8

(* Where the task of a place was before. *)
Origin(f, x, y, p) ==
  IF p[1] = x /\ p[2] > Len(f[x].tasks) THEN <<y, p[2] - Len(f[x].tasks)>> ELSE p

LEMMA TasksComeFrom ==
  ASSUME NEW f, NEW g, NEW x, NEW y, MergedInto(f, g, x, y),
         \A i \in DOMAIN f : f[i] \in StepType
  PROVE  /\ \A p \in TaskPlaces(g) : /\ Origin(f, x, y, p) \in TaskPlaces(f)
                                     /\ TaskAt(g, p) = TaskAt(f, Origin(f, x, y, p))
         /\ \A q \in TaskPlaces(f) : \E p \in TaskPlaces(g) : Origin(f, x, y, p) = q
<1> DEFINE s == f[x].tasks
           t == f[y].tasks
           m == Len(s)
<1>1. /\ s \in Seq(Nat) /\ t \in Seq(Nat) /\ m \in Nat /\ Len(t) \in Nat
      /\ DOMAIN s = 1 .. m /\ DOMAIN t = 1 .. Len(t)
  BY DEF MergedInto, StepType
<1>2. /\ DOMAIN (s \o t) = 1 .. m + Len(t)
      /\ \A k \in 1 .. m : (s \o t)[k] = s[k]
      /\ \A k \in 1 .. m + Len(t) : k > m => (s \o t)[k] = t[k - m]
  <2> HIDE DEF s, t
  <2>1. s \o t \in Seq(Nat) /\ Len(s \o t) = m + Len(t)
    BY <1>1, ConcatProperties
  <2>2. \A k \in 1 .. m + Len(t) : (s \o t)[k] = IF k <= m THEN s[k] ELSE t[k - m]
    BY <1>1, ConcatProperties
  <2>3. DOMAIN (s \o t) = 1 .. m + Len(t)
    BY <2>1
  <2> HIDE DEF m
  <2> QED
    BY <1>1, <2>2, <2>3
<1>3. x \in DOMAIN g /\ g[x].tasks = s \o t /\ x \in DOMAIN f /\ y \in DOMAIN f /\ x # y
  BY DEF MergedInto
<1>4. \A i \in DOMAIN g : i # x => i \in DOMAIN f /\ i # y /\ g[i].tasks = f[i].tasks
  BY DEF MergedInto
<1> HIDE DEF s, t, m
<1>5. ASSUME NEW p \in TaskPlaces(g)
      PROVE  /\ Origin(f, x, y, p) \in TaskPlaces(f)
             /\ TaskAt(g, p) = TaskAt(f, Origin(f, x, y, p))
  <2>1. p = <<p[1], p[2]>> /\ p[1] \in DOMAIN g /\ p[2] \in Nat /\ p[2] \in DOMAIN g[p[1]].tasks
    BY DEF TaskPlaces
  <2>2. CASE p[1] # x
    <3>1. Origin(f, x, y, p) = p
      BY <2>2 DEF Origin
    <3> QED
      BY <1>4, <2>1, <2>2, <3>1 DEF TaskPlaces, TaskAt
  <2>3. CASE p[1] = x /\ p[2] <= m
    <3>1. Origin(f, x, y, p) = p /\ p[2] \in 1 .. m
      BY <1>1, <1>2, <1>3, <2>1, <2>3 DEF Origin, m, s
    <3>2. g[p[1]].tasks[p[2]] = f[p[1]].tasks[p[2]]
      BY <1>2, <1>3, <2>3, <3>1 DEF s
    <3>3. p \in TaskPlaces(f)
      BY <1>1, <1>3, <2>1, <2>3, <3>1 DEF TaskPlaces, s
    <3> QED
      BY <3>1, <3>2, <3>3 DEF TaskAt
  <2>4. CASE p[1] = x /\ ~(p[2] <= m)
    <3>1. p[2] \in 1 .. m + Len(t) /\ p[2] > m
      BY <1>1, <1>2, <1>3, <2>1, <2>4
    <3>2. Origin(f, x, y, p) = <<y, p[2] - m>>
      BY <2>4, <3>1 DEF Origin, m, s
    <3>3. p[2] - m \in 1 .. Len(t) /\ p[2] - m \in Nat
      BY <1>1, <3>1
    <3>4. (s \o t)[p[2]] = t[p[2] - m]
      BY <1>2, <3>1
    <3>5. <<y, p[2] - m>> \in TaskPlaces(f)
      BY <1>1, <1>3, <3>3 DEF TaskPlaces, t
    <3>6. TaskAt(g, p) = (s \o t)[p[2]]
      BY <1>3, <2>4 DEF TaskAt
    <3>7. TaskAt(f, <<y, p[2] - m>>) = t[p[2] - m]
      BY DEF TaskAt, t
    <3> QED
      BY <3>2, <3>4, <3>5, <3>6, <3>7
  <2> QED
    BY <2>2, <2>3, <2>4
<1>6. ASSUME NEW q \in TaskPlaces(f)
      PROVE  \E p \in TaskPlaces(g) : Origin(f, x, y, p) = q
  <2>1. q = <<q[1], q[2]>> /\ q[1] \in DOMAIN f /\ q[2] \in Nat /\ q[2] \in DOMAIN f[q[1]].tasks
    BY DEF TaskPlaces
  <2>2. CASE q[1] # x /\ q[1] # y
    <3>1. Origin(f, x, y, q) = q
      BY <2>2 DEF Origin
    <3>2. q[1] \in DOMAIN g
      BY <2>1, <2>2 DEF MergedInto
    <3>3. q \in TaskPlaces(g)
      BY <1>4, <2>1, <2>2, <3>2 DEF TaskPlaces
    <3> QED
      BY <3>1, <3>3
  <2>3. CASE q[1] = x
    <3>1. q[2] \in 1 .. m
      BY <1>1, <2>1, <2>3 DEF s
    <3>2. q[2] \in 1 .. m + Len(t) /\ ~(q[2] > m)
      BY <1>1, <3>1
    <3>3. Origin(f, x, y, q) = q
      BY <3>2 DEF Origin, m, s
    <3>4. q \in TaskPlaces(g)
      BY <1>2, <1>3, <2>1, <2>3, <3>2 DEF TaskPlaces
    <3> QED
      BY <3>3, <3>4
  <2>4. CASE q[1] = y
    <3>1. q[2] \in 1 .. Len(t)
      BY <1>1, <2>1, <2>4 DEF t
    <3>2. q[2] + m \in 1 .. m + Len(t) /\ q[2] + m > m /\ (q[2] + m) - m = q[2] /\ q[2] + m \in Nat
      BY <1>1, <3>1
    <3> DEFINE p == <<x, q[2] + m>>
    <3>3. Origin(f, x, y, p) = <<y, q[2]>>
      BY <3>2 DEF Origin, m, s
    <3>4. p \in TaskPlaces(g)
      BY <1>2, <1>3, <3>2 DEF TaskPlaces
    <3>5. Origin(f, x, y, p) = q
      BY <2>1, <2>4, <3>3
    <3> QED
      BY <3>4, <3>5
  <2> QED
    BY <2>2, <2>3, <2>4
<1> QED
  BY <1>5, <1>6

LEMMA MergedIsKept ==
  ASSUME NEW f, NEW g, NEW x, NEW y, MergedInto(f, g, x, y), NEW T, NEW W, Kept(f, T, W)
  PROVE  Kept(g, T, W)
<1> DEFINE o(p) == Origin(f, x, y, p)
           b == f[y].id
           m == Len(f[x].tasks)
<1>1. \A i \in DOMAIN f : f[i] \in StepType
  BY DEF Kept
<1>2. PICK r : Ranked(f, r)
  BY DEF Kept
<1>3. Ranked(g, r) /\ IdsApart(g) /\ b \notin Deps(f[x])
  BY <1>1, <1>2, MergedIsRanked DEF Kept
<1>4. \A p \in TaskPlaces(g) : o(p) \in TaskPlaces(f) /\ TaskAt(g, p) = TaskAt(f, o(p))
  BY <1>1, TasksComeFrom
<1>5. \A q \in TaskPlaces(f) : \E p \in TaskPlaces(g) : o(p) = q
  BY <1>1, TasksComeFrom
<1>m. x \in DOMAIN f /\ y \in DOMAIN f /\ x # y /\ m \in Nat
  <2>1. x \in DOMAIN f /\ y \in DOMAIN f /\ x # y
    BY DEF MergedInto
  <2>2. f[x].tasks \in Seq(Nat)
    BY <1>1, <2>1 DEF StepType
  <2> QED
    BY <2>1, <2>2
<1>6. \A p \in TaskPlaces(g) :
        /\ p = <<p[1], p[2]>> /\ p[1] \in DOMAIN f /\ p[1] # y /\ p[2] \in Nat
        /\ o(p) = IF p[1] = x /\ p[2] > m THEN <<y, p[2] - m>> ELSE p
  BY DEF TaskPlaces, MergedInto, Origin
<1>o. \A p \in TaskPlaces(g) : p[1] = x /\ p[2] > m => o(p)[1] = y /\ o(p)[2] = p[2] - m
  <2> SUFFICES ASSUME NEW p \in TaskPlaces(g), p[1] = x, p[2] > m
               PROVE  o(p)[1] = y /\ o(p)[2] = p[2] - m
    OBVIOUS
  <2>1. o(p) = <<y, p[2] - m>>
    BY DEF Origin
  <2> HIDE DEF o, m
  <2> QED
    BY <2>1
<1> HIDE DEF o, m, b
<1>e. \A p \in TaskPlaces(g) : p = <<p[1], p[2]>> /\ p[1] # y /\ p[2] \in Nat
  BY <1>6
<1>n. \A p \in TaskPlaces(g) : ~(p[1] = x /\ p[2] > m) => o(p) = p
  BY <1>6
<1>7. ASSUME NEW p \in TaskPlaces(g), NEW q \in TaskPlaces(g), o(p) = o(q)
      PROVE  p = q
  <2>1. CASE p[1] = x /\ p[2] > m
    <3>1. o(p)[1] = y /\ o(p)[2] = p[2] - m
      BY <1>o, <2>1
    <3>2. q[1] = x /\ q[2] > m
      <4> SUFFICES ASSUME ~(q[1] = x /\ q[2] > m) PROVE FALSE
        OBVIOUS
      <4>1. o(q) = q /\ q[1] # y
        BY <1>n, <1>e
      <4> QED
        BY <1>7, <3>1, <4>1
    <3>3. o(q)[2] = q[2] - m
      BY <1>o, <3>2
    <3>4. p[2] - m = q[2] - m /\ p[2] \in Nat /\ q[2] \in Nat
      BY <1>e, <1>7, <3>1, <3>3
    <3>5. p[2] = q[2]
      BY <1>m, <3>4
    <3> QED
      BY <1>e, <2>1, <3>2, <3>5
  <2>2. CASE ~(p[1] = x /\ p[2] > m)
    <3>1. o(p) = p
      BY <1>6, <2>2
    <3>2. ~(q[1] = x /\ q[2] > m)
      BY <1>6, <1>7, <3>1
    <3>3. o(q) = q
      BY <1>6, <3>2
    <3> QED
      BY <1>7, <3>1, <3>3
  <2> QED
    BY <2>1, <2>2
<1>8. TasksOnce(g, T)
  <2>1. ASSUME NEW p \in TaskPlaces(g), NEW q \in TaskPlaces(g), TaskAt(g, p) = TaskAt(g, q)
        PROVE  p = q
    <3>1. o(p) \in TaskPlaces(f) /\ o(q) \in TaskPlaces(f) /\ TaskAt(f, o(p)) = TaskAt(f, o(q))
      BY <1>4, <2>1
    <3>2. o(p) = o(q)
      BY <3>1 DEF Kept, TasksOnce
    <3> QED
      BY <1>7, <3>2
  <2>2. ASSUME NEW t \in T
        PROVE  \E p \in TaskPlaces(g) : TaskAt(g, p) = t
    <3>1. PICK q \in TaskPlaces(f) : TaskAt(f, q) = t
      BY DEF Kept, TasksOnce
    <3>2. PICK p \in TaskPlaces(g) : o(p) = q
      BY <1>5
    <3> QED
      BY <1>4, <3>1, <3>2
  <2> QED
    BY <2>1, <2>2 DEF TasksOnce
<1>9. ASSUME NEW p \in TaskPlaces(g), NEW q \in TaskPlaces(g), After(f, o(q), o(p))
      PROVE  After(g, q, p)
  <2>1. CASE o(p)[1] = o(q)[1] /\ o(p)[2] < o(q)[2]
    <3>1. p[1] = q[1] /\ p[2] < q[2]
      <4>1. CASE o(p)[1] = y
        <5>1. (p[1] = x /\ p[2] > m) /\ (q[1] = x /\ q[2] > m)
          BY <1>n, <1>e, <2>1, <4>1
        <5>2. o(p)[2] = p[2] - m /\ o(q)[2] = q[2] - m
          BY <1>o, <5>1
        <5>3. p[2] \in Nat /\ q[2] \in Nat
          BY <1>e
        <5> QED
          BY <1>m, <2>1, <5>1, <5>2, <5>3
      <4>2. CASE o(p)[1] # y
        BY <1>6, <2>1, <4>2
      <4> QED
        BY <4>1, <4>2
    <3> QED
      BY <3>1 DEF After
  <2>2. CASE o(p)[1] # o(q)[1] /\ f[o(p)[1]].id \in Deps(f[o(q)[1]])
    <3>0. o(p)[1] \in DOMAIN f /\ o(q)[1] \in DOMAIN f
      BY <1>4 DEF TaskPlaces
    <3>1. CASE o(q)[1] = y
      <4>1. f[o(p)[1]].id = f[x].id
        BY <2>2, <3>1 DEF MergedInto
      <4>2. o(p)[1] = x
        BY <1>m, <3>0, <4>1 DEF Kept, IdsApart
      <4>3. q[1] = x /\ q[2] > m
        BY <1>6, <3>1
      <4>4. p[1] = x /\ ~(p[2] > m)
        BY <1>6, <1>m, <4>2
      <4> QED
        BY <1>6, <1>m, <4>3, <4>4 DEF After
    <3>2. CASE o(q)[1] # y
      <4>1. q[1] = o(q)[1] /\ q[1] \in DOMAIN g /\ p[1] \in DOMAIN g
        BY <1>6, <3>2 DEF TaskPlaces
      <4>2. CASE o(p)[1] = y
        <5>1. p[1] = x /\ b \in Deps(f[q[1]])
          BY <1>6, <2>2, <4>1, <4>2 DEF b
        <5>2. q[1] # x
          BY <1>3, <5>1
        <5>3. f[x].id \in Deps(g[q[1]]) /\ g[x].id = f[x].id
          BY <4>1, <5>1 DEF MergedInto, b
        <5> QED
          BY <5>1, <5>2, <5>3 DEF After
      <4>3. CASE o(p)[1] # y
        <5>1. p[1] = o(p)[1]
          BY <1>6, <4>3
        <5>2. f[p[1]].id # b
          BY <1>m, <3>0, <4>3, <5>1 DEF Kept, IdsApart, b
        <5>3. g[p[1]].id = f[p[1]].id /\ f[p[1]].id \in Deps(g[q[1]])
          BY <2>2, <4>1, <5>1, <5>2 DEF MergedInto, b
        <5> QED
          BY <2>2, <4>1, <5>1, <5>3 DEF After
      <4> QED
        BY <4>2, <4>3
    <3> QED
      BY <3>1, <3>2
  <2> QED
    BY <1>9, <2>1, <2>2 DEF After
<1>10. OrderedBy(g, W)
  <2> SUFFICES ASSUME NEW p \in TaskPlaces(g), NEW q \in TaskPlaces(g),
                      <<TaskAt(g, q), TaskAt(g, p)>> \in W
               PROVE  After(g, q, p)
    BY DEF OrderedBy
  <2>1. o(p) \in TaskPlaces(f) /\ o(q) \in TaskPlaces(f)
    BY <1>4
  <2>2. <<TaskAt(f, o(q)), TaskAt(f, o(p))>> \in W
    BY <1>4
  <2>3. After(f, o(q), o(p))
    BY <2>1, <2>2 DEF Kept, OrderedBy
  <2> QED
    BY <1>9, <2>3
<1>11. \A i \in DOMAIN g : g[i] \in StepType
  BY DEF MergedInto
<1> QED
  BY <1>3, <1>8, <1>10, <1>11 DEF Kept

LEMMA RenumberedIsKept ==
  ASSUME NEW g, NEW T, NEW W, Kept(g, T, W), NEW D, NEW to \in Bijection(D, DOMAIN g),
         NEW f, DOMAIN f = D, \A i \in D : f[i] = g[to[i]]
  PROVE  Kept(f, T, W)
<1>1. /\ \A i \in D : to[i] \in DOMAIN g
      /\ \A i, j \in D : to[i] = to[j] => i = j
      /\ \A k \in DOMAIN g : \E i \in D : to[i] = k
  BY DEF Bijection, Injection, Surjection, IsInjective
<1>2. \A i \in DOMAIN f : f[i] \in StepType
  BY <1>1 DEF Kept
<1>3. IdsApart(f)
  BY <1>1 DEF Kept, IdsApart
<1>4. Ids(f) = Ids(g)
  <2>1. ASSUME NEW d \in Ids(g)
        PROVE  d \in Ids(f)
    <3>1. PICK k \in DOMAIN g : d = g[k].id
      BY DEF Ids
    <3>2. PICK i \in D : to[i] = k
      BY <1>1
    <3> QED
      BY <3>1, <3>2 DEF Ids
  <2>2. Ids(f) \subseteq Ids(g)
    BY <1>1 DEF Ids
  <2> QED
    BY <2>1, <2>2
<1>5. \E r : Ranked(f, r)
  <2>1. PICK r : Ranked(g, r)
    BY DEF Kept
  <2>2. Ranked(f, r)
    BY <1>1, <1>4, <2>1 DEF Ranked
  <2> QED
    BY <2>2
<1> DEFINE o(p) == <<to[p[1]], p[2]>>
<1>6. \A p \in TaskPlaces(f) : /\ o(p) \in TaskPlaces(g) /\ TaskAt(f, p) = TaskAt(g, o(p))
                               /\ p = <<p[1], p[2]>> /\ p[1] \in D /\ p[2] \in Nat
  BY <1>1 DEF TaskPlaces, TaskAt
<1>7. TasksOnce(f, T)
  <2>1. ASSUME NEW p \in TaskPlaces(f), NEW q \in TaskPlaces(f), TaskAt(f, p) = TaskAt(f, q)
        PROVE  p = q
    <3>1. o(p) \in TaskPlaces(g) /\ o(q) \in TaskPlaces(g) /\ TaskAt(g, o(p)) = TaskAt(g, o(q))
      BY <1>6, <2>1
    <3>2. o(p) = o(q)
      <4> HIDE DEF o
      <4> QED
        BY <3>1 DEF Kept, TasksOnce
    <3>3. to[p[1]] = to[q[1]] /\ p[2] = q[2]
      BY <3>2
    <3>4. p = <<p[1], p[2]>> /\ q = <<q[1], q[2]>> /\ p[1] \in D /\ q[1] \in D
      BY <1>6
    <3>5. p[1] = q[1]
      BY <1>1, <3>3, <3>4
    <3> QED
      BY <3>3, <3>4, <3>5
  <2>2. ASSUME NEW t \in T
        PROVE  \E p \in TaskPlaces(f) : TaskAt(f, p) = t
    <3>1. PICK q \in TaskPlaces(g) : TaskAt(g, q) = t
      BY DEF Kept, TasksOnce
    <3>2. PICK i \in D : to[i] = q[1]
      BY <1>1, <3>1 DEF TaskPlaces
    <3>3. <<i, q[2]>> \in TaskPlaces(f) /\ TaskAt(f, <<i, q[2]>>) = t
      BY <3>1, <3>2 DEF TaskPlaces, TaskAt
    <3> QED
      BY <3>3
  <2> QED
    BY <2>1, <2>2 DEF TasksOnce
<1>8. OrderedBy(f, W)
  <2> SUFFICES ASSUME NEW p \in TaskPlaces(f), NEW q \in TaskPlaces(f),
                      <<TaskAt(f, q), TaskAt(f, p)>> \in W
               PROVE  After(f, q, p)
    BY DEF OrderedBy
  <2>1. After(g, o(q), o(p))
    <3>1. o(p) \in TaskPlaces(g) /\ o(q) \in TaskPlaces(g) /\ <<TaskAt(g, o(q)), TaskAt(g, o(p))>> \in W
      BY <1>6
    <3> HIDE DEF o
    <3> QED
      BY <3>1 DEF Kept, OrderedBy
  <2>2. \/ to[p[1]] = to[q[1]] /\ p[2] < q[2]
        \/ to[p[1]] # to[q[1]] /\ g[to[p[1]]].id \in Deps(g[to[q[1]]])
    BY <2>1 DEF After
  <2> QED
    BY <1>1, <1>6, <2>2 DEF After
<1> QED
  BY <1>2, <1>3, <1>5, <1>7, <1>8 DEF Kept

LEMMA RepointedIsStep ==
  ASSUME NEW s \in StepType, NEW from \in Nat, NEW to \in Nat
  PROVE  LET r == Repointed(s, from, to)
         IN  /\ r \in StepType /\ r.id = s.id /\ r.tasks = s.tasks
             /\ Deps(r) = IF from \in Deps(s) THEN (Deps(s) \ {from}) \cup {to} ELSE Deps(s)
<1> DEFINE w == s.dependsOn
           P == {i \in DOMAIN w : w[i] # from}
           others == Arranged(w, P, AsTheyCome(P))
           r == Repointed(s, from, to)
<1>1. w \in Seq(Nat) /\ DOMAIN w = 1 .. Len(w)
  BY DEF StepType
<1>2. others \in Seq(Nat) /\ ToSet(others) = {w[i] : i \in P}
  BY <1>1, TakenAreThose
<1>3. ToSet(others) = Deps(s) \ {from}
  BY <1>2 DEF Deps, ToSet
<1>4. Contains(w, from) <=> from \in Deps(s)
  BY <1>1 DEF Contains, Deps, ToSet
<1>5. r = IF ~Contains(w, from) THEN s
          ELSE [s EXCEPT !.dependsOn = IF Contains(others, to) THEN others ELSE Append(others, to)]
  BY DEF Repointed, Selected
<1> HIDE DEF others, r
<1>6. CASE ~Contains(w, from)
  BY <1>4, <1>5, <1>6 DEF r
<1>7. CASE Contains(w, from)
  <2> DEFINE v == IF Contains(others, to) THEN others ELSE Append(others, to)
  <2>1. v \in Seq(Nat) /\ ToSet(v) = ToSet(others) \cup {to}
    <3>1. CASE Contains(others, to)
      BY <1>2, <3>1 DEF Contains, ToSet
    <3>2. CASE ~Contains(others, to)
      <4>1. Append(others, to) \in Seq(Nat) /\ Len(Append(others, to)) = Len(others) + 1
        BY <1>2
      <4>2. /\ DOMAIN others = 1 .. Len(others) /\ Len(others) \in Nat
            /\ DOMAIN Append(others, to) = 1 .. Len(others) + 1
        BY <1>2, <4>1
      <4>3. /\ \A i \in 1 .. Len(others) : Append(others, to)[i] = others[i]
            /\ Append(others, to)[Len(others) + 1] = to
        BY <1>2
      <4>4. 1 .. Len(others) + 1 = (1 .. Len(others)) \cup {Len(others) + 1}
        BY <4>2
      <4>5. ToSet(Append(others, to)) = ToSet(others) \cup {to}
        <5>1. \A d \in ToSet(Append(others, to)) : d \in ToSet(others) \cup {to}
          BY <4>2, <4>3, <4>4 DEF ToSet
        <5>2. \A d \in ToSet(others) : d \in ToSet(Append(others, to))
          BY <4>2, <4>3, <4>4 DEF ToSet
        <5>3. to \in ToSet(Append(others, to))
          BY <4>2, <4>3, <4>4 DEF ToSet
        <5> QED
          BY <5>1, <5>2, <5>3
      <4> QED
        BY <3>2, <4>1, <4>5
    <3> QED
      BY <3>1, <3>2
  <2>2. r = [s EXCEPT !.dependsOn = v]
    BY <1>5, <1>7
  <2> HIDE DEF v
  <2>3. r \in StepType /\ r.id = s.id /\ r.tasks = s.tasks /\ r.dependsOn = v
    BY <2>1, <2>2 DEF StepType
  <2>4. Deps(r) = (Deps(s) \ {from}) \cup {to}
    BY <1>3, <2>1, <2>3 DEF Deps
  <2> QED
    BY <1>4, <1>7, <2>3, <2>4 DEF r
<1> QED
  BY <1>6, <1>7

LEMMA RemovedAt ==
  ASSUME NEW S, NEW G \in Seq(S), NEW k \in 1 .. Len(G)
  PROVE  /\ RemoveAt(G, k) \in Seq(S) /\ DOMAIN RemoveAt(G, k) = 1 .. Len(G) - 1
         /\ \A i \in 1 .. Len(G) - 1 : RemoveAt(G, k)[i] = IF i < k THEN G[i] ELSE G[i + 1]
<1> DEFINE n == Len(G)
           front == SubSeq(G, 1, k - 1)
           back == SubSeq(G, k + 1, n)
<1>1. n \in Nat /\ k \in Nat /\ 1 <= k /\ k <= n
  OBVIOUS
<1>2. /\ front \in Seq(S) /\ Len(front) = k - 1
      /\ \A i \in 1 .. k - 1 : front[i] = G[i]
  <2>1. front = [i \in 1 .. k - 1 |-> G[i]]
    BY <1>1
  <2>2. \A i \in 1 .. k - 1 : G[i] \in S
    BY <1>1
  <2> QED
    BY <1>1, <2>1, <2>2
<1>3. /\ back \in Seq(S) /\ Len(back) = n - k
      /\ \A i \in 1 .. n - k : back[i] = G[k + i]
  <2>1. back = [i \in 1 .. n - k |-> G[(k + 1) + i - 1]]
    BY <1>1
  <2>2. \A i \in 1 .. n - k : k + i \in 1 .. n /\ (k + 1) + i - 1 = k + i
    BY <1>1
  <2>3. \A i \in 1 .. n - k : G[k + i] \in S
    BY <1>1, <2>2
  <2> QED
    BY <1>1, <2>1, <2>2, <2>3
<1>4. RemoveAt(G, k) = front \o back
  BY DEF RemoveAt
<1> HIDE DEF front, back, n
<1>5. /\ front \o back \in Seq(S) /\ Len(front \o back) = Len(front) + Len(back)
      /\ \A i \in 1 .. Len(front) + Len(back) :
           (front \o back)[i] = IF i <= Len(front) THEN front[i] ELSE back[i - Len(front)]
  BY <1>2, <1>3, ConcatProperties
<1>6. Len(front) + Len(back) = n - 1
  BY <1>1, <1>2, <1>3
<1>7. DOMAIN (front \o back) = 1 .. n - 1
  BY <1>5, <1>6
<1>8. ASSUME NEW i \in 1 .. n - 1
      PROVE  (front \o back)[i] = IF i < k THEN G[i] ELSE G[i + 1]
  <2>1. CASE i < k
    <3>1. i \in 1 .. k - 1 /\ i <= Len(front)
      BY <1>1, <1>2, <2>1
    <3> QED
      BY <1>2, <1>5, <1>6, <2>1, <3>1
  <2>2. CASE ~(i < k)
    <3>1. i - (k - 1) \in 1 .. n - k /\ k + (i - (k - 1)) = i + 1 /\ ~(i <= Len(front))
      BY <1>1, <1>2, <2>2
    <3>2. (front \o back)[i] = back[i - (k - 1)]
      BY <1>2, <1>5, <1>6, <3>1
    <3> QED
      BY <1>3, <2>2, <3>1, <3>2
  <2> QED
    BY <2>1, <2>2
<1> QED
  BY <1>4, <1>5, <1>7, <1>8 DEF n

(* The pair found first is one of them. *)
LEMMA FirstOfPairs ==
  ASSUME NEW pairs \in SUBSET (Nat \X Nat), pairs # {}
  PROVE  FirstOf(pairs) \in pairs
<1> DEFINE A == {p[1] : p \in pairs}
           a == Min(A)
           B == {p[2] : p \in {q \in pairs : q[1] = a}}
           b == Min(B)
<1>1. a \in A /\ \A x \in A : a <= x
  <2>1. A \in SUBSET Nat /\ A # {}
    OBVIOUS
  <2> QED
    BY <2>1, MinOfSome
<1>2. b \in B /\ \A x \in B : b <= x
  <2>1. B \in SUBSET Nat /\ B # {}
    BY <1>1
  <2> HIDE DEF a
  <2> QED
    BY <2>1, MinOfSome
<1>3. PICK p \in pairs : p[1] = a /\ p[2] = b
  BY <1>2
<1>4. \A q \in pairs : p[1] < q[1] \/ (p[1] = q[1] /\ p[2] <= q[2])
  <2> SUFFICES ASSUME NEW q \in pairs PROVE p[1] < q[1] \/ (p[1] = q[1] /\ p[2] <= q[2])
    OBVIOUS
  <2>1. p[1] \in Nat /\ q[1] \in Nat /\ p[1] <= q[1]
    BY <1>1, <1>3
  <2>2. q[1] = a => p[2] <= q[2]
    BY <1>2, <1>3
  <2> QED
    BY <1>3, <2>1, <2>2
<1> QED
  BY <1>4 DEF FirstOf

LEMMA CollapsiblePairs ==
  ASSUME NEW plan \in Seq(StepType)
  PROVE  /\ Collapsible(plan) \in SUBSET (Nat \X Nat)
         /\ \A p \in Collapsible(plan) :
              /\ p[1] \in DOMAIN plan /\ p[2] \in DOMAIN plan /\ p[1] # p[2]
              /\ OnlyAfter(plan[p[2]], plan[p[1]])
<1>1. DOMAIN plan \in SUBSET Nat
  OBVIOUS
<1> QED
  BY <1>1 DEF Collapsible

LEMMA MergeKeeps ==
  ASSUME NEW plan \in Seq(StepType), NEW T, NEW W, Kept(plan, T, W),
         NEW x \in DOMAIN plan, NEW y \in DOMAIN plan, x # y, OnlyAfter(plan[y], plan[x])
  PROVE  Merge(plan, x, y) \in Seq(StepType) \ {<<>>} /\ Kept(Merge(plan, x, y), T, W)
<1> DEFINE a == plan[x]
           b == plan[y]
           merged == [plan EXCEPT ![x].tasks = @ \o b.tasks, ![x].tokens = SumOfTokens(a, b)]
           G == [i \in DOMAIN plan |-> Repointed(merged[i], b.id, a.id)]
           n == Len(plan)
           g == [i \in DOMAIN plan \ {y} |-> G[i]]
           to == [i \in 1 .. n - 1 |-> IF i < y THEN i ELSE i + 1]
           f == RemoveAt(G, y)
<1>1. /\ n \in Nat /\ DOMAIN plan = 1 .. n /\ x \in 1 .. n /\ y \in 1 .. n
      /\ a \in StepType /\ b \in StepType /\ a.id \in Nat /\ b.id \in Nat
      /\ \A i \in DOMAIN plan : plan[i] \in StepType
  <2>1. /\ n \in Nat /\ DOMAIN plan = 1 .. n /\ x \in 1 .. n /\ y \in 1 .. n
        /\ a \in StepType /\ b \in StepType
        /\ \A i \in DOMAIN plan : plan[i] \in StepType
    OBVIOUS
  <2> HIDE DEF a, b, n
  <2>2. a.id \in Nat /\ b.id \in Nat
    BY <2>1 DEF StepType
  <2> QED
    BY <2>1, <2>2
<1>2. Merge(plan, x, y) = f
  BY DEF Merge
<1>3. /\ \A i \in DOMAIN plan : i # x => merged[i] = plan[i]
      /\ merged[x] = [a EXCEPT !.tasks = a.tasks \o b.tasks, !.tokens = SumOfTokens(a, b)]
  OBVIOUS
<1>4. /\ merged[x] \in StepType /\ merged[x].id = a.id /\ merged[x].tasks = a.tasks \o b.tasks
      /\ merged[x].dependsOn = a.dependsOn
  <2>1. a.tasks \o b.tasks \in Seq(Nat)
    BY <1>1, ConcatProperties DEF StepType
  <2>2. SumOfTokens(a, b) \in Nat
    <3>1. a.tokens \in Nat /\ b.tokens \in Nat
      <4> HIDE DEF a, b
      <4> QED
        BY <1>1 DEF StepType
    <3> QED
      BY <3>1, BudgetAssumption DEF SumOfTokens
  <2> DEFINE u == a.tasks \o b.tasks
             t == SumOfTokens(a, b)
  <2>3. merged[x] = [a EXCEPT !.tasks = u, !.tokens = t]
    BY <1>3
  <2> HIDE DEF u, t, merged, a
  <2>4. a \in StepType /\ u \in Seq(Nat) /\ t \in Nat
    BY <1>1, <2>1, <2>2 DEF u, t
  <2>5. /\ merged[x] \in StepType /\ merged[x].id = a.id /\ merged[x].tasks = u
        /\ merged[x].dependsOn = a.dependsOn
    BY <2>3, <2>4 DEF StepType
  <2> QED
    BY <2>5 DEF u
<1> HIDE DEF merged
<1>5. \A i \in DOMAIN plan :
        /\ merged[i] \in StepType /\ merged[i].id = plan[i].id /\ Deps(merged[i]) = Deps(plan[i])
        /\ merged[i].tasks = IF i = x THEN a.tasks \o b.tasks ELSE plan[i].tasks
  BY <1>1, <1>3, <1>4 DEF Deps
<1>6. \A i \in DOMAIN plan :
        /\ G[i] \in StepType /\ G[i].id = plan[i].id
        /\ G[i].tasks = IF i = x THEN a.tasks \o b.tasks ELSE plan[i].tasks
        /\ Deps(G[i]) = IF b.id \in Deps(plan[i]) THEN (Deps(plan[i]) \ {b.id}) \cup {a.id}
                        ELSE Deps(plan[i])
  <2> SUFFICES ASSUME NEW i \in DOMAIN plan
               PROVE  /\ G[i] \in StepType /\ G[i].id = plan[i].id
                      /\ G[i].tasks = IF i = x THEN a.tasks \o b.tasks ELSE plan[i].tasks
                      /\ Deps(G[i]) = IF b.id \in Deps(plan[i])
                                      THEN (Deps(plan[i]) \ {b.id}) \cup {a.id}
                                      ELSE Deps(plan[i])
    OBVIOUS
  <2>1. G[i] = Repointed(merged[i], b.id, a.id)
    OBVIOUS
  <2> HIDE DEF G, a, b
  <2>2. /\ G[i] \in StepType /\ G[i].id = merged[i].id /\ G[i].tasks = merged[i].tasks
        /\ Deps(G[i]) = IF b.id \in Deps(merged[i]) THEN (Deps(merged[i]) \ {b.id}) \cup {a.id}
                        ELSE Deps(merged[i])
    <3> DEFINE s == merged[i]
               from == b.id
               into == a.id
               r == Repointed(s, from, into)
    <3>1. s \in StepType /\ from \in Nat /\ into \in Nat
      BY <1>1, <1>5
    <3>2. G[i] = r
      BY <2>1
    <3> HIDE DEF s, from, into
    <3>3. /\ r \in StepType /\ r.id = s.id /\ r.tasks = s.tasks
          /\ Deps(r) = IF from \in Deps(s) THEN (Deps(s) \ {from}) \cup {into} ELSE Deps(s)
      BY <3>1, RepointedIsStep
    <3> HIDE DEF r
    <3> QED
      BY <3>2, <3>3 DEF s, from, into
  <2> QED
    BY <1>5, <2>2
<1>7. DOMAIN G = 1 .. n
  BY <1>1
<1>8. G \in Seq(StepType) /\ Len(G) = n
  <2> HIDE DEF G
  <2>1. \A i \in 1 .. n : G[i] \in StepType
    BY <1>1, <1>6
  <2>2. G = [i \in 1 .. n |-> G[i]]
    BY <1>7 DEF G
  <2> QED
    BY <1>1, <2>1, <2>2
<1> HIDE DEF G
<1>9. Deps(b) = {a.id}
  BY DEF Deps, OnlyAfter, ToSet
<1>10. MergedInto(plan, g, x, y)
  BY <1>1, <1>6, <1>9 DEF MergedInto
<1>11. Kept(g, T, W)
  BY <1>10, MergedIsKept
<1>12. /\ f \in Seq(StepType) /\ DOMAIN f = 1 .. n - 1
       /\ \A i \in 1 .. n - 1 : f[i] = IF i < y THEN G[i] ELSE G[i + 1]
  BY <1>1, <1>8, RemovedAt
<1> HIDE DEF f
<1>13. to \in Bijection(1 .. n - 1, DOMAIN g)
  <2>1. DOMAIN g = 1 .. n \ {y}
    BY <1>1
  <2>2. \A i \in 1 .. n - 1 : to[i] \in DOMAIN g
    BY <1>1, <2>1
  <2>3. \A i, j \in 1 .. n - 1 : to[i] = to[j] => i = j
    BY <1>1
  <2>4. ASSUME NEW k \in DOMAIN g
        PROVE  \E i \in 1 .. n - 1 : to[i] = k
    <3>1. CASE k < y
      <4>1. k \in 1 .. n - 1 /\ to[k] = k
        BY <1>1, <2>1, <3>1
      <4> QED
        BY <4>1
    <3>2. CASE ~(k < y)
      <4>1. k - 1 \in 1 .. n - 1 /\ to[k - 1] = k
        BY <1>1, <2>1, <3>2
      <4> QED
        BY <4>1
    <3> QED
      BY <3>1, <3>2
  <2>5. DOMAIN to = 1 .. n - 1
    OBVIOUS
  <2> HIDE DEF to, g
  <2>6. to = [i \in 1 .. n - 1 |-> to[i]]
    BY DEF to
  <2>7. to \in [1 .. n - 1 -> DOMAIN g]
    BY <2>2, <2>6
  <2> QED
    BY <2>3, <2>4, <2>7 DEF Bijection, Injection, Surjection, IsInjective
<1>14. \A i \in 1 .. n - 1 : f[i] = g[to[i]]
  BY <1>1, <1>12
<1>15. Kept(f, T, W)
  <2> HIDE DEF to, g
  <2> QED
    BY <1>11, <1>12, <1>13, <1>14, RenumberedIsKept
<1>16. f # <<>>
  <2>1. 1 \in DOMAIN f
    BY <1>1, <1>12
  <2> QED
    BY <2>1
<1> QED
  BY <1>2, <1>12, <1>15, <1>16

PlansOf(T, W) == {p \in Seq(StepType) : p # <<>> /\ Kept(p, T, W)}

LEMMA MergeOnceKeeps ==
  ASSUME NEW T, NEW W, NEW plan \in PlansOf(T, W)
  PROVE  MergeOnce(plan) \in PlansOf(T, W)
<1> DEFINE pairs == Collapsible(plan)
           p == FirstOf(pairs)
<1>1. CASE pairs = {}
  BY <1>1 DEF MergeOnce
<1>2. CASE pairs # {}
  <2>1. plan \in Seq(StepType) /\ Kept(plan, T, W)
    BY DEF PlansOf
  <2>2. p \in pairs
    BY <1>2, <2>1, FirstOfPairs, CollapsiblePairs
  <2>3. /\ p[1] \in DOMAIN plan /\ p[2] \in DOMAIN plan /\ p[1] # p[2]
        /\ OnlyAfter(plan[p[2]], plan[p[1]])
    BY <2>1, <2>2, CollapsiblePairs
  <2>4. MergeOnce(plan) = Merge(plan, p[1], p[2])
    BY <1>2 DEF MergeOnce
  <2> HIDE DEF p
  <2>5. /\ Merge(plan, p[1], p[2]) \in Seq(StepType) \ {<<>>}
        /\ Kept(Merge(plan, p[1], p[2]), T, W)
    BY <2>1, <2>3, MergeKeeps
  <2> QED
    BY <2>4, <2>5 DEF PlansOf
<1> QED
  BY <1>1, <1>2

(* However often steps are merged, the plan keeps its tasks and their order. *)
LEMMA CollapsedKeeps ==
  ASSUME NEW T, NEW W, NEW plan \in PlansOf(T, W)
  PROVE  Collapsed(plan) \in PlansOf(T, W)
<1> DEFINE V == PlansOf(T, W)
           F == [p \in V \X Nat |-> MergeOnce(p[1])]
           N == Len(plan)
           h == CHOOSE h : h = [n \in 0 .. N |-> IF n = 0 THEN plan ELSE MergeOnce(h[n - 1])]
<1>1. N \in Nat
  BY DEF PlansOf
<1>2. plan \in V
  OBVIOUS
<1>3. \A x \in V : \A n \in Nat : F[<<x, n>>] = MergeOnce(x) /\ F[<<x, n>>] \in V
  BY MergeOnceKeeps
<1>4. \A x \in V : MergeOnce(x) \in V
  BY MergeOnceKeeps
<1>5. Collapsed(plan) = h[N]
  BY DEF Collapsed
<1> HIDE DEF V, F, N
<1>6. PICK g \in [0 .. N -> V] :
         g[0] = plan /\ \A n \in 0 .. N : n # 0 => g[n] = F[<<g[n - 1], n - 1>>]
  <2>1. F \in [V \X Nat -> V]
    BY <1>3 DEF F
  <2>2. \E g : Iterates(g, V, plan, F, N)
    BY <1>1, <1>2, <2>1, Iterated
  <2> QED
    BY <2>2 DEF Iterates
<1>7. \A n \in 0 .. N : n # 0 => n - 1 \in 0 .. N /\ n - 1 \in Nat
  BY <1>1
<1>8. \A n \in 0 .. N : g[n] = IF n = 0 THEN plan ELSE MergeOnce(g[n - 1])
  <2> SUFFICES ASSUME NEW n \in 0 .. N, n # 0
               PROVE  F[<<g[n - 1], n - 1>>] = MergeOnce(g[n - 1])
    BY <1>6
  <2>1. g[n - 1] \in V /\ n - 1 \in Nat
    BY <1>7
  <2> QED
    BY <1>3, <2>1
<1>9. g = [n \in 0 .. N |-> IF n = 0 THEN plan ELSE MergeOnce(g[n - 1])]
  BY <1>8
<1>10. h = [n \in 0 .. N |-> IF n = 0 THEN plan ELSE MergeOnce(h[n - 1])]
  BY <1>9
<1> HIDE DEF h
<1> DEFINE R == {n \in Nat : n <= N => h[n] \in V}
<1>11. 0 \in R
  BY <1>1, <1>2, <1>10
<1>12. ASSUME NEW n \in R
       PROVE  n + 1 \in R
  <2> SUFFICES ASSUME n + 1 <= N PROVE h[n + 1] \in V
    OBVIOUS
  <2>1. n \in Nat /\ n <= N /\ n + 1 \in 0 .. N /\ n + 1 # 0 /\ (n + 1) - 1 = n
    BY <1>1
  <2>2. h[n] \in V /\ h[n + 1] = MergeOnce(h[n])
    BY <1>10, <2>1
  <2> QED
    BY <1>4, <2>2
<1>13. R \in SUBSET Nat
  OBVIOUS
<1> HIDE DEF R
<1>14. R = Nat
  BY <1>11, <1>12, <1>13, CountingUp
<1>15. h[N] \in V
  BY <1>1, <1>14 DEF R
<1> QED
  BY <1>5, <1>15 DEF V

-----------------------------------------------------------------------------
(* From an answer to a plan. *)

LEMMA PlacesOfAnswer ==
  ASSUME NEW answer \in Seq(RawStep)
  PROVE  /\ Len(answer) \in Nat /\ Positions(answer) = 1 .. Len(answer)
         /\ \A i \in Positions(answer) :
              /\ answer[i].name \in Seq(STRING) /\ answer[i].needs \in Seq(Seq(STRING))
              /\ answer[i].role \in STRING /\ answer[i].readOnly \in BOOLEAN
              /\ answer[i].inline \in BOOLEAN /\ answer[i].verify \in BOOLEAN
              /\ answer[i].tokens \in Nat /\ answer[i].nested \in Nat
<1>1. Len(answer) \in Nat /\ DOMAIN answer = 1 .. Len(answer)
  OBVIOUS
<1>2. \A i \in DOMAIN answer : answer[i] \in RawStep
  OBVIOUS
<1> QED
  BY <1>1, <1>2 DEF RawStep, Positions

(* The step that a name of a dependency stands for. *)
Meant(answer, name) == CHOOSE j \in Resolved(answer, name) : TRUE

LEMMA MeantIsStep ==
  ASSUME NEW answer \in Seq(RawStep), NEW name
  PROVE  /\ Resolved(answer, name) \in SUBSET Positions(answer)
         /\ Resolved(answer, name) # {} => Meant(answer, name) \in Resolved(answer, name)
<1> DEFINE S == Bearers(answer, name)
<1>1. S \in SUBSET (1 .. Len(answer)) /\ Len(answer) \in Nat
  BY PlacesOfAnswer DEF Bearers
<1>2. S # {} => Max(S) \in S
  BY <1>1, MaxOfSome
<1>3. Resolved(answer, name) \in SUBSET Positions(answer)
  <2>1. CASE S # {}
    BY <1>1, <1>2, <2>1, PlacesOfAnswer DEF Resolved
  <2>2. CASE S = {}
    BY <2>2 DEF Resolved, AtIndex
  <2> QED
    BY <2>1, <2>2
<1> QED
  BY <1>3 DEF Meant

LEMMA DependenciesOf ==
  ASSUME NEW answer \in Seq(RawStep), NEW i \in Positions(answer)
  PROVE  /\ Dependencies(answer, i) \in Seq(Nat)
         /\ \A k \in DOMAIN answer[i].needs :
              Resolved(answer, answer[i].needs[k]) # {} =>
                Meant(answer, answer[i].needs[k]) \in ToSet(Dependencies(answer, i))
<1> DEFINE needs == answer[i].needs
           P == {k \in DOMAIN needs : Resolved(answer, needs[k]) # {}}
           known == Arranged(needs, P, AsTheyCome(P))
           deps == [k \in DOMAIN known |-> Meant(answer, known[k])]
<1>1. needs \in Seq(Seq(STRING))
  BY PlacesOfAnswer
<1>2. known \in Seq(Seq(STRING)) /\ ToSet(known) = {needs[k] : k \in P}
  <2> HIDE DEF needs
  <2>1. P \in SUBSET DOMAIN needs
    OBVIOUS
  <2> HIDE DEF P
  <2> QED
    BY <1>1, <2>1, TakenAreThose
<1>3. Dependencies(answer, i) = deps
  BY DEF Dependencies, Selected, Meant
<1> HIDE DEF known, needs
<1>4. \A k \in DOMAIN known : \E l \in P : known[k] = needs[l]
  BY <1>2 DEF ToSet
<1>5. \A l \in P : \E k \in DOMAIN known : known[k] = needs[l]
  BY <1>2 DEF ToSet
<1>6. \A k \in DOMAIN known : Meant(answer, known[k]) \in Nat
  <2> SUFFICES ASSUME NEW k \in DOMAIN known PROVE Meant(answer, known[k]) \in Nat
    OBVIOUS
  <2>1. Resolved(answer, known[k]) # {}
    BY <1>4
  <2>2. Meant(answer, known[k]) \in Positions(answer)
    BY <2>1, MeantIsStep
  <2> QED
    BY <2>2, PlacesOfAnswer
<1>7. deps \in Seq(Nat)
  <2>1. DOMAIN known = 1 .. Len(known) /\ Len(known) \in Nat
    BY <1>2
  <2> QED
    BY <1>6, <2>1
<1>8. ASSUME NEW l \in P
      PROVE  Meant(answer, needs[l]) \in ToSet(deps)
  <2>1. PICK k \in DOMAIN known : known[k] = needs[l]
    BY <1>5
  <2>2. deps[k] = Meant(answer, needs[l]) /\ k \in DOMAIN deps
    BY <2>1
  <2> QED
    BY <2>2 DEF ToSet
<1> QED
  BY <1>3, <1>7, <1>8 DEF needs

LEMMA BuiltIsPlan ==
  ASSUME NEW answer \in Seq(RawStep)
  PROVE  /\ BuildSteps(answer) \in Seq(StepType)
         /\ DOMAIN BuildSteps(answer) = Positions(answer)
         /\ \A i \in Positions(answer) :
              /\ BuildSteps(answer)[i].id = i /\ BuildSteps(answer)[i].tasks = <<i>>
              /\ BuildSteps(answer)[i].dependsOn = Dependencies(answer, i)
         /\ IsPlan(BuildSteps(answer))
<1> DEFINE f == BuildSteps(answer)
<1>1. \A i \in Positions(answer) :
        f[i] = [id |-> i, tasks |-> <<i>>, role |-> answer[i].role,
                readOnly |-> answer[i].readOnly, inline |-> answer[i].inline,
                verify |-> answer[i].verify, tokens |-> answer[i].tokens,
                dependsOn |-> Dependencies(answer, i), nested |-> answer[i].nested]
  BY DEF BuildSteps, Step
<1>2. DOMAIN f = Positions(answer) /\ Positions(answer) = 1 .. Len(answer) /\ Len(answer) \in Nat
  BY PlacesOfAnswer DEF BuildSteps
<1>3. f = [i \in 1 .. Len(answer) |-> f[i]]
  BY <1>2 DEF BuildSteps
<1> HIDE DEF f
<1>4. \A i \in Positions(answer) :
        /\ f[i] \in StepType /\ f[i].id = i /\ f[i].tasks = <<i>>
        /\ f[i].dependsOn = Dependencies(answer, i)
  <2> SUFFICES ASSUME NEW i \in Positions(answer)
               PROVE  /\ f[i] \in StepType /\ f[i].id = i /\ f[i].tasks = <<i>>
                      /\ f[i].dependsOn = Dependencies(answer, i)
    OBVIOUS
  <2> DEFINE own == <<i>>
             deps == Dependencies(answer, i)
             raw == answer[i]
  <2>1. own \in Seq(Nat) /\ i \in Nat
    BY <1>2
  <2>2. deps \in Seq(Nat)
    BY DependenciesOf
  <2>3. /\ raw.role \in STRING /\ raw.readOnly \in BOOLEAN /\ raw.inline \in BOOLEAN
        /\ raw.verify \in BOOLEAN /\ raw.tokens \in Nat /\ raw.nested \in Nat
    BY PlacesOfAnswer
  <2>4. f[i] = [id |-> i, tasks |-> own, role |-> raw.role, readOnly |-> raw.readOnly,
                inline |-> raw.inline, verify |-> raw.verify, tokens |-> raw.tokens,
                dependsOn |-> deps, nested |-> raw.nested]
    BY <1>1
  <2> HIDE DEF own, deps, raw
  <2>5. f[i] \in StepType
    BY <2>1, <2>2, <2>3, <2>4 DEF StepType
  <2>6. f[i].id = i /\ f[i].tasks = own /\ f[i].dependsOn = deps
    BY <2>4
  <2> QED
    BY <2>5, <2>6 DEF own, deps
<1>5. f \in Seq(StepType)
  BY <1>2, <1>3, <1>4
<1>6. IsPlan(f)
  BY <1>2, <1>4, <1>5 DEF IsPlan, IdsApart
<1> QED
  BY <1>2, <1>4, <1>5, <1>6 DEF f

(* A name that no suffix imitates stands for the first step that bears it.  *)
LEMMA FirstIsMeant ==
  ASSUME NEW answer \in Seq(RawStep), Unambiguous(answer), NEW name,
         NEW j \in FirstNamed(answer, name)
  PROVE  Resolved(answer, name) # {} /\ Meant(answer, name) = j
<1> DEFINE before(i) == {k \in 1 .. i - 1 : answer[k].name = answer[i].name}
<1>1. /\ j \in Positions(answer) /\ answer[j].name = name
      /\ \A k \in 1 .. j - 1 : answer[k].name # name
  BY DEF FirstNamed
<1>2. \A i \in Positions(answer) :
        /\ UniqueName(answer, i) = IF Cardinality(before(i)) = 0 THEN answer[i].name
                                   ELSE Append(answer[i].name, ToString(Cardinality(before(i))))
        /\ IsFiniteSet(before(i))
        /\ answer[i].name \in Seq(STRING) /\ i \in Nat
  <2> SUFFICES ASSUME NEW i \in Positions(answer)
               PROVE  /\ UniqueName(answer, i) =
                           IF Cardinality(before(i)) = 0 THEN answer[i].name
                           ELSE Append(answer[i].name, ToString(Cardinality(before(i))))
                      /\ IsFiniteSet(before(i))
                      /\ answer[i].name \in Seq(STRING) /\ i \in Nat
    OBVIOUS
  <2>1. answer[i].name \in Seq(STRING) /\ i \in Nat
    BY PlacesOfAnswer
  <2>2. IsFiniteSet(1 .. i - 1)
    BY <2>1, FS_Interval
  <2>3. IsFiniteSet(before(i))
    <3>1. before(i) \in SUBSET (1 .. i - 1)
      OBVIOUS
    <3> HIDE DEF before
    <3> QED
      BY <2>2, <3>1, FS_Subset
  <2> QED
    BY <2>1, <2>3 DEF UniqueName
<1>3. UniqueName(answer, j) = name
  <2>1. before(j) = {}
    BY <1>1
  <2>2. Cardinality(before(j)) = 0
    BY <2>1, FS_EmptySet
  <2> HIDE DEF before
  <2> QED
    BY <1>1, <1>2, <2>2
<1>4. ASSUME NEW b \in Bearers(answer, name)
      PROVE  b = j
  <2>1. b \in Positions(answer) /\ UniqueName(answer, b) = name
    BY DEF Bearers
  <2>2. UniqueName(answer, b) = answer[b].name
    BY <1>1, <2>1 DEF Unambiguous
  <2>3. Cardinality(before(b)) = 0
    <3> SUFFICES ASSUME Cardinality(before(b)) # 0 PROVE FALSE
      OBVIOUS
    <3> DEFINE s == answer[b].name
               e == ToString(Cardinality(before(b)))
    <3>1. s = Append(s, e) /\ s \in Seq(STRING)
      BY <1>2, <2>1, <2>2
    <3> HIDE DEF s, e
    <3>2. Append(s, e) \in Seq(STRING \cup {e}) /\ Len(Append(s, e)) = Len(s) + 1 /\ Len(s) \in Nat
      BY <3>1
    <3> QED
      BY <3>1, <3>2
  <2>4. before(b) = {}
    BY <1>2, <2>1, <2>3, FS_EmptySet
  <2>5. answer[b].name = name /\ \A k \in 1 .. b - 1 : answer[k].name # name
    BY <2>1, <2>2, <2>4
  <2>6. b \in Nat /\ j \in Nat /\ b >= 1 /\ j >= 1
    BY <1>1, <2>1, PlacesOfAnswer
  <2> QED
    BY <1>1, <2>5, <2>6
<1>5. Bearers(answer, name) = {j}
  BY <1>1, <1>3, <1>4 DEF Bearers
<1>6. Max({j}) = j
  <2>1. {j} \in SUBSET (1 .. Len(answer)) /\ Len(answer) \in Nat
    BY <1>1, PlacesOfAnswer
  <2>2. Max({j}) \in {j}
    BY <2>1, MaxOfSome
  <2> QED
    BY <2>2
<1>7. Resolved(answer, name) = {j}
  BY <1>5, <1>6 DEF Resolved
<1> QED
  BY <1>7 DEF Meant

(* What an answer asks for: pairs of tasks, the first after the second. *)
Asks(answer) ==
  IF Unambiguous(answer)
  THEN {p \in Nat \X Nat : p[1] \in Positions(answer) /\ p[2] \in MustFollow(answer, p[1])}
  ELSE {}

(* The steps of an answer, when they have no circle, carry its tasks in the *)
(* order it asks for.                                                       *)
LEMMA BuiltIsKept ==
  ASSUME NEW answer \in Seq(RawStep), answer # <<>>, ~HasCycle(BuildSteps(answer))
  PROVE  BuildSteps(answer) \in PlansOf(Positions(answer), Asks(answer))
<1> DEFINE f == BuildSteps(answer)
           T == Positions(answer)
           W == Asks(answer)
<1>1. /\ f \in Seq(StepType) /\ DOMAIN f = T /\ IsPlan(f)
      /\ \A i \in T : f[i].id = i /\ f[i].tasks = <<i>> /\ f[i].dependsOn = Dependencies(answer, i)
  BY BuiltIsPlan
<1>2. \A i \in DOMAIN f : f[i] \in StepType
  BY <1>1
<1>3. f # <<>>
  <2>1. Len(answer) # 0 /\ Len(answer) \in Nat
    OBVIOUS
  <2>2. 1 \in DOMAIN f
    BY <1>1, <2>1, PlacesOfAnswer
  <2> HIDE DEF f
  <2> QED
    BY <2>2
<1>4. PICK r : Ranked(f, r)
  BY <1>1, AcyclicIsRanked
<1>5. T \in SUBSET Nat
  BY PlacesOfAnswer
<1> HIDE DEF f, T, W
<1>6. \A p \in TaskPlaces(f) : p = <<p[1], 1>> /\ p[1] \in T /\ TaskAt(f, p) = p[1]
  <2> SUFFICES ASSUME NEW p \in TaskPlaces(f)
               PROVE  p = <<p[1], 1>> /\ p[1] \in T /\ TaskAt(f, p) = p[1]
    OBVIOUS
  <2>1. p = <<p[1], p[2]>> /\ p[1] \in T /\ p[2] \in DOMAIN f[p[1]].tasks
    BY <1>1 DEF TaskPlaces
  <2>2. f[p[1]].tasks = <<p[1]>>
    BY <1>1, <2>1
  <2>3. p[2] = 1
    BY <2>1, <2>2
  <2> QED
    BY <2>1, <2>2, <2>3 DEF TaskAt
<1>7. \A i \in T : \E p \in TaskPlaces(f) : TaskAt(f, p) = i
  <2> SUFFICES ASSUME NEW i \in T
               PROVE  \E p \in TaskPlaces(f) : TaskAt(f, p) = i
    OBVIOUS
  <2> DEFINE own == <<i>>
  <2>1. 1 \in DOMAIN own /\ own[1] = i
    OBVIOUS
  <2>2. f[i].tasks = own /\ i \in DOMAIN f
    BY <1>1
  <2> DEFINE p == <<i, 1>>
  <2>3. p \in (DOMAIN f) \X Nat /\ p[1] = i /\ p[2] = 1
    BY <2>2
  <2> HIDE DEF own, p
  <2>4. p[2] \in DOMAIN f[p[1]].tasks /\ f[p[1]].tasks[p[2]] = i
    BY <2>1, <2>2, <2>3
  <2>5. p \in TaskPlaces(f) /\ TaskAt(f, p) = i
    BY <2>3, <2>4 DEF TaskPlaces, TaskAt
  <2> QED
    BY <2>5
<1>8. TasksOnce(f, T)
  BY <1>6, <1>7 DEF TasksOnce
<1>9. OrderedBy(f, W)
  <2> SUFFICES ASSUME NEW p \in TaskPlaces(f), NEW q \in TaskPlaces(f),
                      <<TaskAt(f, q), TaskAt(f, p)>> \in W
               PROVE  After(f, q, p)
    BY DEF OrderedBy
  <2> DEFINE i == q[1]
             j == p[1]
  <2>1. i \in T /\ j \in T /\ <<i, j>> \in W
    BY <1>6
  <2>2. Unambiguous(answer) /\ j \in MustFollow(answer, i)
    BY <2>1 DEF W, Asks
  <2>3. PICK k \in DOMAIN answer[i].needs : j \in FirstNamed(answer, answer[i].needs[k])
    BY <2>2 DEF MustFollow
  <2>4. Resolved(answer, answer[i].needs[k]) # {} /\ Meant(answer, answer[i].needs[k]) = j
    BY <2>2, <2>3, FirstIsMeant
  <2>5. j \in Deps(f[i])
    <3>1. j \in ToSet(Dependencies(answer, i))
      BY <2>1, <2>4, DependenciesOf DEF T
    <3> QED
      BY <1>1, <2>1, <3>1 DEF Deps
  <2>6. j # i
    <3>1. r[j] < r[f[i].id] /\ f[i].id = i
      BY <1>1, <1>4, <2>1, <2>5 DEF Ranked, Deps
    <3>2. r[j] \in Nat
      BY <1>4, <1>5, <2>1 DEF Ranked
    <3> QED
      BY <3>1, <3>2
  <2>7. f[j].id = j
    BY <1>1, <2>1
  <2> QED
    BY <2>5, <2>6, <2>7 DEF After
<1>10. Kept(f, T, W)
  BY <1>1, <1>2, <1>4, <1>8, <1>9 DEF Kept, IsPlan
<1> QED
  BY <1>1, <1>3, <1>10 DEF PlansOf, f, T, W

(* The step that carries a task is the one at its place. *)
LEMMA HolderIsThere ==
  ASSUME NEW T, NEW W, NEW steps \in PlansOf(T, W), NEW p \in TaskPlaces(steps),
         NEW task, task = TaskAt(steps, p)
  PROVE  /\ {s \in ToSet(steps) : Contains(s.tasks, task)} = {steps[p[1]]}
         /\ Holder(steps, task) = steps[p[1]]
         /\ PositionIn(steps[p[1]], task) = p[2]
<1>1. /\ steps \in Seq(StepType) /\ \A i \in DOMAIN steps : steps[i].tasks \in Seq(Nat)
      /\ TasksOnce(steps, T)
  BY DEF PlansOf, Kept, StepType
<1>2. /\ p = <<p[1], p[2]>> /\ p[1] \in DOMAIN steps /\ p[2] \in DOMAIN steps[p[1]].tasks
      /\ steps[p[1]].tasks[p[2]] = task
  BY DEF TaskPlaces, TaskAt
<1>3. \A i \in DOMAIN steps : \A k \in DOMAIN steps[i].tasks :
        steps[i].tasks[k] = task => i = p[1] /\ k = p[2]
  <2> SUFFICES ASSUME NEW i \in DOMAIN steps, NEW k \in DOMAIN steps[i].tasks,
                      steps[i].tasks[k] = task
               PROVE  i = p[1] /\ k = p[2]
    OBVIOUS
  <2> DEFINE q == <<i, k>>
  <2>0. k \in Nat
    <3>1. DOMAIN steps[i].tasks \subseteq Nat
      BY <1>1
    <3> QED
      BY <3>1
  <2>1. q \in TaskPlaces(steps) /\ TaskAt(steps, q) = task
    BY <2>0 DEF TaskPlaces, TaskAt
  <2>2. q = p
    <3> HIDE DEF q
    <3> QED
      BY <1>1, <2>1 DEF TasksOnce
  <2> QED
    BY <2>2
<1>4. \A i \in DOMAIN steps : Contains(steps[i].tasks, task) <=> i = p[1]
  <2> SUFFICES ASSUME NEW i \in DOMAIN steps
               PROVE  Contains(steps[i].tasks, task) <=> i = p[1]
    OBVIOUS
  <2>1. DOMAIN steps[i].tasks = 1 .. Len(steps[i].tasks)
    BY <1>1
  <2> QED
    BY <1>2, <1>3, <2>1 DEF Contains
<1>5. {s \in ToSet(steps) : Contains(s.tasks, task)} = {steps[p[1]]}
  BY <1>2, <1>4 DEF ToSet
<1>6. Holder(steps, task) = steps[p[1]]
  BY <1>5 DEF Holder
<1>7. PositionIn(steps[p[1]], task) = p[2]
  BY <1>2, <1>3 DEF PositionIn
<1> QED
  BY <1>5, <1>6, <1>7

LEMMA KeptMeansOrder ==
  ASSUME NEW T, NEW W, NEW steps \in PlansOf(T, W)
  PROVE  /\ ~HasCycle(steps)
         /\ \A i \in T : Cardinality({s \in ToSet(steps) : Contains(s.tasks, i)}) = 1
         /\ \A i, j \in T : <<i, j>> \in W => Follows(steps, i, j)
<1>1. steps \in Seq(StepType) /\ Kept(steps, T, W)
  BY DEF PlansOf
<1>2. ~HasCycle(steps)
  BY <1>1, RankedIsAcyclic DEF Kept, IsPlan
<1>3. \A i \in T : \E p \in TaskPlaces(steps) : TaskAt(steps, p) = i
  BY <1>1 DEF Kept, TasksOnce
<1>4. \A i \in T : Cardinality({s \in ToSet(steps) : Contains(s.tasks, i)}) = 1
  <2> SUFFICES ASSUME NEW i \in T
               PROVE  Cardinality({s \in ToSet(steps) : Contains(s.tasks, i)}) = 1
    OBVIOUS
  <2>1. PICK p \in TaskPlaces(steps) : TaskAt(steps, p) = i
    BY <1>3
  <2>2. {s \in ToSet(steps) : Contains(s.tasks, i)} = {steps[p[1]]}
    BY <2>1, HolderIsThere
  <2> QED
    BY <2>2, FS_Singleton
<1>5. ASSUME NEW i \in T, NEW j \in T, <<i, j>> \in W
      PROVE  Follows(steps, i, j)
  <2>1. PICK p \in TaskPlaces(steps) : TaskAt(steps, p) = j
    BY <1>3
  <2>2. PICK q \in TaskPlaces(steps) : TaskAt(steps, q) = i
    BY <1>3
  <2> DEFINE a == steps[p[1]]
             b == steps[q[1]]
  <2>3. After(steps, q, p)
    BY <1>1, <1>5, <2>1, <2>2 DEF Kept, OrderedBy
  <2>4. Holder(steps, j) = a /\ PositionIn(a, j) = p[2]
    BY <2>1, HolderIsThere
  <2>5. Holder(steps, i) = b /\ PositionIn(b, i) = q[2]
    BY <2>2, HolderIsThere
  <2>6. p[1] \in DOMAIN steps /\ q[1] \in DOMAIN steps
    BY DEF TaskPlaces
  <2>7. CASE p[1] = q[1] /\ p[2] < q[2]
    BY <2>4, <2>5, <2>7 DEF Follows
  <2>8. CASE p[1] # q[1] /\ a.id \in Deps(b)
    <3>1. a # b
      BY <1>1, <2>6, <2>8 DEF Kept, IdsApart
    <3>2. b.dependsOn \in Seq(Nat)
      BY <1>1, <2>6 DEF Kept, StepType
    <3>3. Contains(b.dependsOn, a.id)
      <4> HIDE DEF a, b
      <4> QED
        BY <2>8, <3>2 DEF Deps, Contains, ToSet
    <3> QED
      BY <2>4, <2>5, <3>1, <3>3 DEF Follows
  <2> QED
    BY <2>3, <2>7, <2>8 DEF After
<1> QED
  BY <1>2, <1>4, <1>5

-----------------------------------------------------------------------------
(* The team and the score of a plan. *)

(* The members that share out the steps of a plan, if any. *)
SharedOut(steps, members) ==
  members = {} \/ members = {Member(steps, steps[i].role) : i \in DOMAIN steps}

LEMMA TeamSharesOut ==
  ASSUME NEW plan
  PROVE  Finished(plan).steps = Collapsed(plan)
         /\ SharedOut(Finished(plan).steps, Finished(plan).team.members)
BY DEF Finished, TeamFor, NoTeam, SharedOut

LEMMA EachToOne ==
  ASSUME NEW steps, IdsApart(steps), NEW members, SharedOut(steps, members), members # {}
  PROVE  /\ UNION {m.steps : m \in members} = Ids(steps)
         /\ \A m, n \in members : m # n => m.steps \cap n.steps = {}
<1>1. members = {Member(steps, steps[i].role) : i \in DOMAIN steps}
  BY DEF SharedOut
<1>2. \A role : /\ Member(steps, role).role = role
                /\ Member(steps, role).steps =
                     {steps[i].id : i \in {j \in DOMAIN steps : steps[j].role = role}}
  BY DEF Member
<1>3. \A m \in members : /\ m = Member(steps, m.role)
                         /\ \A id \in m.steps :
                              \E i \in DOMAIN steps : steps[i].id = id /\ steps[i].role = m.role
  BY <1>1, <1>2
<1>4. \A i \in DOMAIN steps : \E m \in members : steps[i].id \in m.steps
  <2> SUFFICES ASSUME NEW i \in DOMAIN steps
               PROVE  \E m \in members : steps[i].id \in m.steps
    OBVIOUS
  <2>1. Member(steps, steps[i].role) \in members
    BY <1>1
  <2>2. steps[i].id \in Member(steps, steps[i].role).steps
    BY <1>2
  <2> QED
    BY <2>1, <2>2
<1>5. UNION {m.steps : m \in members} = Ids(steps)
  <2>1. \A id \in UNION {m.steps : m \in members} : id \in Ids(steps)
    BY <1>3 DEF Ids
  <2>2. \A id \in Ids(steps) : id \in UNION {m.steps : m \in members}
    BY <1>4 DEF Ids
  <2> QED
    BY <2>1, <2>2
<1>6. ASSUME NEW m \in members, NEW n \in members, m # n, NEW id \in m.steps \cap n.steps
      PROVE  FALSE
  <2>1. PICK i \in DOMAIN steps : steps[i].id = id /\ steps[i].role = m.role
    BY <1>3, <1>6
  <2>2. PICK j \in DOMAIN steps : steps[j].id = id /\ steps[j].role = n.role
    BY <1>3, <1>6
  <2>3. i = j
    BY <2>1, <2>2 DEF IdsApart
  <2>4. m.role = n.role
    BY <2>1, <2>2, <2>3
  <2> QED
    BY <1>3, <1>6, <2>4
<1> QED
  BY <1>5, <1>6

LEMMA DepthsAreFinite ==
  ASSUME NEW T, NEW W, NEW plan \in PlansOf(T, W)
  PROVE  Cardinality(ParallelGroups(plan)) \in Nat /\ CriticalPath(plan) \in Nat
<1> DEFINE d == Depths(plan)
           D == {d[id] : id \in Ids(plan)}
           G == [n \in D |-> {id \in Ids(plan) : d[id] = n}]
<1>1. plan \in Seq(StepType) /\ plan # <<>> /\ IsPlan(plan) /\ ~HasCycle(plan)
  BY KeptMeansOrder DEF PlansOf, Kept, IsPlan
<1>2. d \in [Ids(plan) -> Nat]
  <2>1. Sound(plan, d, Len(plan)) /\ DOMAIN d = Ids(plan)
    BY <1>1, DepthsAreSound DEF HasCycle
  <2> QED
    BY <2>1, PartialIsFunction DEF Sound
<1>3. IsFiniteSet(Ids(plan))
  BY <1>1, PlacesOfPlan
<1>4. Ids(plan) # {}
  <2>1. 1 \in DOMAIN plan
    BY <1>1
  <2> QED
    BY <2>1 DEF Ids
<1>5. ParallelGroups(plan) = {G[n] : n \in D}
  BY DEF ParallelGroups
<1>6. CriticalPath(plan) = 1 + Max(D)
  BY DEF CriticalPath
<1> HIDE DEF d
<1>7. IsFiniteSet(D) /\ D \in SUBSET Nat /\ D # {}
  BY <1>2, <1>3, <1>4, ImageIsFinite
<1> HIDE DEF D, G
<1>8. IsFiniteSet({G[n] : n \in D})
  BY <1>7, ImageIsFinite
<1>9. Max(D) \in Nat
  BY <1>7, GreatestOfSome
<1> QED
  BY <1>5, <1>6, <1>8, <1>9, FS_CardinalityType

LEMMA TokensAreSummed ==
  ASSUME NEW plan \in Seq(StepType)
  PROVE  TotalTokens(plan) \in Nat
<1> DEFINE f == [i \in DOMAIN plan |-> plan[i].tokens]
           D == DOMAIN plan
<1>1. D = 1 .. Len(plan) /\ Len(plan) \in Nat
  OBVIOUS
<1>2. Amounts(f, D)
  <2>1. IsFiniteSet(D)
    BY <1>1, FS_Interval
  <2>2. \A i \in D : plan[i] \in StepType
    OBVIOUS
  <2>3. \A i \in D : plan[i].tokens \in Nat
    BY <2>2 DEF StepType
  <2> QED
    BY <2>1, <2>3 DEF Amounts
<1>3. SumOf(f, D) \in Nat
  <2> HIDE DEF f, D
  <2> QED
    BY <1>2, SumIsNatural
<1>4. TotalTokens(plan) = SumOf(f, D)
  BY DEF TotalTokens, SumOf, SumFunction
<1> QED
  BY <1>3, <1>4

LEMMA ScoreIsFraction ==
  ASSUME NEW T, NEW W, NEW plan \in PlansOf(T, W)
  PROVE  PlanScore(plan).num \in Int /\ PlanScore(plan).den \in Int
<1> DEFINE n == Len(plan)
           verified == Cardinality({i \in DOMAIN plan : plan[i].verify})
           least == Min({TotalTokens(plan), PlanTokens})
           spared == PlanTokens - least
           groups == IF n > 1 THEN n - Cardinality(ParallelGroups(plan)) ELSE 0
           path == CriticalPath(plan)
           parts == 35 * verified + 20 * groups + 15 * (n - path) + 5
<1>1. plan \in Seq(StepType) /\ n \in Nat /\ DOMAIN plan = 1 .. n
  BY DEF PlansOf
<1>2. verified \in Nat
  <2>1. IsFiniteSet(1 .. n)
    BY <1>1, FS_Interval
  <2>2. IsFiniteSet({i \in DOMAIN plan : plan[i].verify})
    BY <1>1, <2>1, FS_Subset
  <2> QED
    BY <2>2, FS_CardinalityType
<1>3. least \in Nat
  <2>1. {TotalTokens(plan), PlanTokens} \in SUBSET Nat /\ {TotalTokens(plan), PlanTokens} # {}
    BY <1>1, TokensAreSummed, BudgetAssumption
  <2>2. least \in {TotalTokens(plan), PlanTokens}
    BY <2>1, MinOfSome
  <2> QED
    BY <2>1, <2>2
<1>4. path \in Nat /\ groups \in Int
  BY <1>1, DepthsAreFinite
<1>5. PlanScore(plan) = [num |-> PlanTokens * parts + 25 * n * spared, den |-> n * PlanTokens]
  BY DEF PlanScore
<1> HIDE DEF n, verified, least, groups, path
<1>6. parts \in Int /\ spared \in Int /\ PlanTokens \in Int /\ n \in Int
  BY <1>1, <1>2, <1>3, <1>4, BudgetAssumption
<1> HIDE DEF parts, spared
<1>7. PlanTokens * parts + 25 * n * spared \in Int /\ n * PlanTokens \in Int
  BY <1>6
<1> QED
  BY <1>5, <1>7

-----------------------------------------------------------------------------
(* The competition. *)

(* A candidate that is planned, is planned as its answer asks for. *)
PlannedOn(candidate) ==
  LET answer == candidate.answer
      plan   == candidate.plan
  IN  /\ answer \in Seq(RawStep)
      /\ plan.steps \in PlansOf(Positions(answer), Asks(answer))
      /\ SharedOut(plan.steps, plan.team.members)

PlanInv ==
  /\ candidates = [c \in {1, 2} |-> candidates[c]]
  /\ \A c \in Planned : PlannedOn(candidates[c])
  /\ OnePlanIsEnough

LEMMA JudgedIsPlanned ==
  ASSUME NEW c \in {1, 2}, NEW answer \in Answers[c], Judged(answer).at = "planned"
  PROVE  PlannedOn(Judged(answer))
<1> DEFINE steps == BuildSteps(answer)
<1>1. answer \in Seq(RawStep) /\ answer # <<>>
  BY AnswersAssumption
<1>2. /\ Judged(answer) = [at |-> "planned", answer |-> answer, plan |-> Finished(steps)]
      /\ Valid(steps)
  BY DEF Judged, GivenUp
<1>3. ~HasCycle(steps)
  BY <1>2 DEF Valid
<1>4. steps \in PlansOf(Positions(answer), Asks(answer))
  BY <1>1, <1>3, BuiltIsKept
<1> HIDE DEF steps
<1>5. Collapsed(steps) \in PlansOf(Positions(answer), Asks(answer))
  BY <1>4, CollapsedKeeps
<1>6. Finished(steps).steps = Collapsed(steps)
      /\ SharedOut(Finished(steps).steps, Finished(steps).team.members)
  BY TeamSharesOut
<1>7. Judged(answer).answer = answer /\ Judged(answer).plan = Finished(steps)
  BY <1>2
<1> QED
  BY <1>1, <1>5, <1>6, <1>7 DEF PlannedOn

(* One of the contenders wins. *)
LEMMA WinnerIsPlanned ==
  ASSUME PlanInv, Planned # {}
  PROVE  Winner \in Planned
<1> DEFINE score(c) == PlanScore(candidates[c].plan.steps)
           best == {c \in Planned : \A d \in Planned : AtLeast(score(c), score(d))}
<1>1. Planned \in SUBSET {1, 2}
  BY DEF PlanInv, Planned
<1>2. \A c \in Planned : score(c).num \in Int /\ score(c).den \in Int
  BY ScoreIsFraction DEF PlanInv, PlannedOn
<1> HIDE DEF score
<1>3. \A c, d \in Planned : AtLeast(score(c), score(d)) \/ AtLeast(score(d), score(c))
  <2> SUFFICES ASSUME NEW c \in Planned, NEW d \in Planned
               PROVE  AtLeast(score(c), score(d)) \/ AtLeast(score(d), score(c))
    OBVIOUS
  <2> DEFINE x == score(c).num * score(d).den
             y == score(d).num * score(c).den
  <2>1. x \in Int /\ y \in Int
    BY <1>2
  <2>2. /\ AtLeast(score(c), score(d)) <=> x >= y
        /\ AtLeast(score(d), score(c)) <=> y >= x
    BY DEF AtLeast
  <2> HIDE DEF x, y
  <2> QED
    BY <2>1, <2>2
<1>4. best # {}
  <2>1. CASE Planned = {1, 2}
    BY <1>3, <2>1
  <2>2. CASE Planned # {1, 2}
    <3>1. PICK c \in Planned : Planned = {c}
      BY <1>1, <2>2
    <3>2. AtLeast(score(c), score(c))
      BY <1>3
    <3> QED
      BY <3>1, <3>2
  <2> QED
    BY <2>1, <2>2
<1>5. best \in SUBSET (1 .. 2) /\ best \subseteq Planned
  <2>1. {1, 2} = 1 .. 2
    OBVIOUS
  <2>2. best \subseteq Planned
    OBVIOUS
  <2> HIDE DEF best
  <2> QED
    BY <1>1, <2>1, <2>2
<1>6. Winner = Max(best)
  BY DEF Winner, Contenders, score
<1> HIDE DEF best
<1>7. Max(best) \in best
  BY <1>4, <1>5, MaxOfSome
<1> QED
  BY <1>5, <1>6, <1>7

LEMMA PlanningStarts == PlanningInit => PlanInv
BY DEF PlanningInit, PlanInv, Planned, Asked, OnePlanIsEnough

(* One candidate changes at a time, and only before the choice. *)
LEMMA CandidateKeeps ==
  ASSUME PlanInv, NEW c \in {1, 2}, NEW new, Candidate(c, new),
         new.at = "planned" => PlannedOn(new)
  PROVE  PlanInv'
<1>1. /\ course = "planning" /\ course' = course
      /\ candidates' = [candidates EXCEPT ![c] = new]
  BY DEF Candidate
<1>2. candidates' = [d \in {1, 2} |-> candidates'[d]]
      /\ \A d \in {1, 2} : candidates'[d] = IF d = c THEN new ELSE candidates[d]
  BY <1>1 DEF PlanInv
<1>3. Planned' = {d \in {1, 2} : candidates'[d].at = "planned"}
  BY <1>2 DEF Planned
<1>4. Planned = {d \in {1, 2} : candidates[d].at = "planned"}
  BY DEF Planned, PlanInv
<1>5. \A d \in Planned' : PlannedOn(candidates'[d])
  BY <1>2, <1>3, <1>4 DEF PlanInv
<1>6. \A d \in Planned' : PlannedOn(candidates[d])'
  BY <1>5 DEF PlannedOn, PlansOf, Kept, Asks, SharedOut
<1>7. OnePlanIsEnough'
  BY <1>1 DEF OnePlanIsEnough
<1> QED
  BY <1>2, <1>6, <1>7 DEF PlanInv

LEMMA AnswerKeeps ==
  ASSUME PlanInv, NEW c \in {1, 2}, LlmError(c) \/ DoesNotParse(c) \/ Answer(c)
  PROVE  PlanInv'
<1>1. CASE LlmError(c)
  BY <1>1, CandidateKeeps DEF LlmError, GivenUp
<1>2. CASE DoesNotParse(c)
  <2> DEFINE new == IF candidates[c].at = "asked" THEN [Asked EXCEPT !.at = "asked again"]
                    ELSE GivenUp
  <2>1. Candidate(c, new) /\ new.at # "planned"
    BY <1>2 DEF DoesNotParse, Asked, GivenUp
  <2> HIDE DEF new
  <2> QED
    BY <2>1, CandidateKeeps
<1>3. CASE Answer(c)
  <2>1. PICK answer \in Answers[c] : Candidate(c, Judged(answer))
    BY <1>3 DEF Answer
  <2>2. Judged(answer).at = "planned" => PlannedOn(Judged(answer))
    BY JudgedIsPlanned
  <2> QED
    BY <2>1, <2>2, CandidateKeeps
<1> QED
  BY <1>1, <1>2, <1>3

(* What is kept when the candidates are. *)
LEMMA CandidatesRest ==
  ASSUME PlanInv, UNCHANGED candidates
  PROVE  /\ candidates' = [c \in {1, 2} |-> candidates'[c]]
         /\ \A c \in Planned' : PlannedOn(candidates[c])'
         /\ Planned' = Planned
BY DEF PlanInv, Planned

LEMMA ChooseKeeps == PlanInv /\ Choose => PlanInv'
<1> SUFFICES ASSUME PlanInv, Choose PROVE PlanInv'
  OBVIOUS
<1>1. UNCHANGED candidates
  BY DEF Choose, Route
<1>2. /\ candidates' = [c \in {1, 2} |-> candidates'[c]]
      /\ \A c \in Planned' : PlannedOn(candidates[c])'
      /\ Planned' = Planned
  BY <1>1, CandidatesRest
<1>3. Planned # {} => chosen' = candidates[Winner].plan /\ Winner \in Planned
  BY WinnerIsPlanned DEF Choose, Contenders, Route
<1>4. OnePlanIsEnough'
  BY <1>1, <1>2, <1>3 DEF OnePlanIsEnough
<1> QED
  BY <1>2, <1>4 DEF PlanInv

LEMMA CarryingKeeps ==
  PlanInv /\ (CarryOut \/ CarryOutFails \/ UNCHANGED planningVars) => PlanInv'
<1> SUFFICES ASSUME PlanInv, CarryOut \/ CarryOutFails \/ UNCHANGED planningVars
             PROVE  PlanInv'
  OBVIOUS
<1>1. UNCHANGED <<candidates, chosen>> /\ (course' # "planning" => course # "planning")
  BY DEF CarryOut, CarryOutFails, planningVars
<1>2. /\ candidates' = [c \in {1, 2} |-> candidates'[c]]
      /\ \A c \in Planned' : PlannedOn(candidates[c])'
      /\ Planned' = Planned
  BY <1>1, CandidatesRest
<1>3. OnePlanIsEnough'
  BY <1>1, <1>2 DEF OnePlanIsEnough, PlanInv
<1> QED
  BY <1>2, <1>3 DEF PlanInv

LEMMA PlansHold == PlanInv => PlannedAsAnswered
<1> SUFFICES ASSUME PlanInv PROVE PlannedAsAnswered
  OBVIOUS
<1>1. ASSUME NEW c \in Planned
      PROVE  LET steps  == candidates[c].plan.steps
                 answer == candidates[c].answer
             IN  /\ ~HasCycle(steps)
                 /\ \A i \in Positions(answer) :
                      Cardinality({s \in ToSet(steps) : Contains(s.tasks, i)}) = 1
                 /\ Unambiguous(answer) =>
                      \A i \in Positions(answer) : \A j \in MustFollow(answer, i) :
                        Follows(steps, i, j)
  <2> DEFINE steps  == candidates[c].plan.steps
             answer == candidates[c].answer
             T == Positions(answer)
             W == Asks(answer)
  <2>1. answer \in Seq(RawStep) /\ steps \in PlansOf(T, W)
    BY DEF PlanInv, PlannedOn
  <2> HIDE DEF steps, answer
  <2>2. /\ ~HasCycle(steps)
        /\ \A i \in T : Cardinality({s \in ToSet(steps) : Contains(s.tasks, i)}) = 1
        /\ \A i, j \in T : <<i, j>> \in W => Follows(steps, i, j)
    <3> HIDE DEF T, W
    <3> QED
      BY <2>1, KeptMeansOrder
  <2>3. ASSUME Unambiguous(answer), NEW i \in T, NEW j \in MustFollow(answer, i)
        PROVE  Follows(steps, i, j)
    <3>1. j \in T
      BY <2>3 DEF MustFollow, FirstNamed
    <3>2. <<i, j>> \in W
      <4>1. i \in Nat /\ j \in Nat
        BY <2>1, <3>1, PlacesOfAnswer
      <4> QED
        BY <2>3, <4>1 DEF Asks
    <3> QED
      BY <2>2, <3>1, <3>2
  <2>4. /\ ~HasCycle(steps)
        /\ \A i \in T : Cardinality({s \in ToSet(steps) : Contains(s.tasks, i)}) = 1
        /\ Unambiguous(answer) =>
             \A i \in T : \A j \in MustFollow(answer, i) : Follows(steps, i, j)
    BY <2>2, <2>3
  <2> QED
    BY <2>4 DEF steps, answer
<1>2. OrderKept
  BY <1>1 DEF OrderKept
<1>3. TeamOfThePlan
  <2> SUFFICES ASSUME NEW c \in Planned, candidates[c].plan.team.members # {}
               PROVE  LET steps   == candidates[c].plan.steps
                          members == candidates[c].plan.team.members
                      IN  /\ UNION {m.steps : m \in members} = Ids(steps)
                          /\ \A m, n \in members : m # n => m.steps \cap n.steps = {}
    BY DEF TeamOfThePlan
  <2> DEFINE steps == candidates[c].plan.steps
             members == candidates[c].plan.team.members
  <2>1. SharedOut(steps, members) /\ IdsApart(steps)
    BY DEF PlanInv, PlannedOn, PlansOf, Kept
  <2> HIDE DEF steps, members
  <2>2. members # {} => /\ UNION {m.steps : m \in members} = Ids(steps)
                        /\ \A m, n \in members : m # n => m.steps \cap n.steps = {}
    BY <2>1, EachToOne
  <2> QED
    BY <2>2 DEF steps, members
<1> QED
  BY <1>2, <1>3 DEF PlannedAsAnswered, PlanInv

(* Whatever is answered, and however often steps are merged: a plan carries *)
(* every task of its answer once and in the order it asks for, its team     *)
(* shares out its steps, and one plan is enough (PlannedAsAnswered).        *)
THEOREM PlansAsAnswered == PlanningSpec => []PlannedAsAnswered
<1>1. PlanInv /\ [PlanningNext]_planningVars => PlanInv'
  BY AnswerKeeps, ChooseKeeps, CarryingKeeps DEF PlanningNext
<1> QED
  BY <1>1, PlanningStarts, PlansHold, PTL DEF PlanningSpec
===============================================================================
