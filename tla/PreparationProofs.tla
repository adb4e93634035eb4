--------------------------- MODULE PreparationProofs ---------------------------
(***************************************************************************)
(* Proofs about what is prepared before the model is called: the context   *)
(* window (ContextAssembly) and the schedule of actions (ActionSchedule).  *)
(*                                                                         *)
(* The lemmas about orders say that a sequence put in order is one, and    *)
(* those about sums free the library's folds from the order in which they  *)
(* take the elements: a sum grows with its set, and by the amount of what  *)
(* is added.  Those about levels are the inductions along a graph without  *)
(* circles, up and down.  All of them stand on CountingUp.                 *)
(***************************************************************************)
EXTENDS ContextAssembly, ActionSchedule, Integers, TLAPS, FiniteSetTheorems, FunctionTheorems,
        NaturalsInduction, WellFoundedInduction, SequenceTheorems

-----------------------------------------------------------------------------
(* Numbers. *)

(* Induction over the natural numbers, as a fact about sets. *)
LEMMA CountingUp ==
  ASSUME NEW T \in SUBSET Nat, 0 \in T, \A n \in T : n + 1 \in T
  PROVE  T = Nat
<1> SUFFICES ASSUME Nat \ T # {} PROVE FALSE
  OBVIOUS
<1>1. PICK x \in Nat \ T : \A y \in Nat \ T : ~(<<y, x>> \in OpToRel(<, Nat))
  BY NatLessThanWellFounded, WFMin, Nat \ T \subseteq Nat
<1>2. x # 0 /\ x - 1 \in Nat /\ x - 1 < x
  OBVIOUS
<1>3. x - 1 \in T
  BY <1>1, <1>2 DEF OpToRel
<1> QED
  BY <1>2, <1>3

LEMMA MinOfSome ==
  ASSUME NEW S \in SUBSET Nat, S # {}
  PROVE  Min(S) \in S /\ \A y \in S : Min(S) <= y
<1>1. PICK x \in S : \A y \in S : ~(<<y, x>> \in OpToRel(<, Nat))
  BY NatLessThanWellFounded, WFMin
<1>2. ASSUME NEW y \in S PROVE x <= y
  <2>1. ~(y < x)
    BY <1>1 DEF OpToRel
  <2>2. x \in Nat /\ y \in Nat
    OBVIOUS
  <2> QED
    BY <2>1, <2>2
<1> QED
  BY <1>2 DEF Min

LEMMA MaxOfSome ==
  ASSUME NEW n \in Nat, NEW S \in SUBSET (1 .. n), S # {}
  PROVE  Max(S) \in S /\ \A y \in S : y <= Max(S)
<1> DEFINE left == {n - x : x \in S}
<1>1. left \in SUBSET Nat /\ left # {}
  <2>1. \A x \in S : n - x \in Nat
    OBVIOUS
  <2> QED
    BY <2>1
<1>2. PICK m \in left : \A y \in left : m <= y
  BY <1>1, MinOfSome
<1>3. PICK x \in S : m = n - x
  BY <1>2
<1>4. \A y \in S : y <= x
  <2> SUFFICES ASSUME NEW y \in S PROVE y <= x
    OBVIOUS
  <2>1. n - y \in left
    OBVIOUS
  <2> QED
    BY <1>2, <1>3, <2>1
<1> QED
  BY <1>4 DEF Max

-----------------------------------------------------------------------------
(* Orders. *)

StrictOrder(P, R) ==
  /\ \A i, j \in P : i # j => <<i, j>> \in R \/ <<j, i>> \in R
  /\ \A i \in P : <<i, i>> \notin R
  /\ \A i, j, k \in P : <<i, j>> \in R /\ <<j, k>> \in R => <<i, k>> \in R

Ahead(P, R, i) == {j \in P : <<j, i>> \in R}

(* In a finite order every number of elements ahead is that of one element, *)
(* and grows along the order.                                               *)
LEMMA Ranks ==
  ASSUME NEW P, IsFiniteSet(P), NEW R, StrictOrder(P, R)
  PROVE  /\ \A i, j \in P :
              <<i, j>> \in R => Cardinality(Ahead(P, R, i)) < Cardinality(Ahead(P, R, j))
         /\ \A k \in 1 .. Cardinality(P) : \E i \in P : Cardinality(Ahead(P, R, i)) = k - 1
<1> DEFINE n == Cardinality(P)
           rank(i) == Cardinality(Ahead(P, R, i))
<1>1. n \in Nat
  BY FS_CardinalityType
<1>2. \A i \in P : IsFiniteSet(Ahead(P, R, i)) /\ rank(i) \in Nat /\ rank(i) <= n - 1
  <2> SUFFICES ASSUME NEW i \in P
               PROVE  IsFiniteSet(Ahead(P, R, i)) /\ rank(i) \in Nat /\ rank(i) <= n - 1
    OBVIOUS
  <2>1. Ahead(P, R, i) \in SUBSET (P \ {i})
    BY DEF Ahead, StrictOrder
  <2>2. IsFiniteSet(P \ {i}) /\ Cardinality(P \ {i}) = n - 1
    BY FS_RemoveElement
  <2>3. IsFiniteSet(Ahead(P, R, i)) /\ rank(i) <= n - 1
    BY <2>1, <2>2, FS_Subset
  <2> QED
    BY <2>3, FS_CardinalityType
<1>3. ASSUME NEW i \in P, NEW j \in P, <<i, j>> \in R
      PROVE  rank(i) < rank(j)
  <2>1. i \notin Ahead(P, R, i) /\ Ahead(P, R, i) \cup {i} \in SUBSET Ahead(P, R, j)
    BY <1>3 DEF Ahead, StrictOrder
  <2>2. Cardinality(Ahead(P, R, i) \cup {i}) = rank(i) + 1
    BY <1>2, <2>1, FS_AddElement
  <2>3. Cardinality(Ahead(P, R, i) \cup {i}) <= rank(j)
    BY <1>2, <2>1, FS_Subset
  <2> QED
    BY <1>2, <2>2, <2>3
<1>4. ASSUME NEW k \in 1 .. n
      PROVE  \E i \in P : rank(i) = k - 1
  <2> DEFINE f == [i \in P |-> rank(i) + 1]
  <2>1. f \in [P -> 1 .. n]
    BY <1>1, <1>2
  <2>2. \A i, j \in P : f[i] = f[j] => i = j
    <3> SUFFICES ASSUME NEW i \in P, NEW j \in P, rank(i) + 1 = rank(j) + 1, i # j
                 PROVE  FALSE
      OBVIOUS
    <3>1. rank(i) < rank(j) \/ rank(j) < rank(i)
      BY <1>3 DEF StrictOrder
    <3> QED
      BY <1>2, <3>1
  <2>3. f \in Injection(P, 1 .. n)
    BY <2>1, <2>2 DEF Injection, IsInjective
  <2>4. IsFiniteSet(1 .. n) /\ Cardinality(1 .. n) = n
    BY <1>1, FS_Interval
  <2>5. f \in Surjection(P, 1 .. n)
    BY <2>3, <2>4, FS_Injection
  <2>6. PICK i \in P : f[i] = k
    BY <2>5 DEF Surjection
  <2> QED
    BY <1>2, <2>6
<1> QED
  BY <1>3, <1>4

ArrangedBy(q, s, P, R) ==
  \A k, l \in 1 .. Cardinality(P) : k < l =>
    \E i, j \in P : <<i, j>> \in R /\ q[k] = s[i] /\ q[l] = s[j]

(* A sequence put in order has its elements at the places, each before      *)
(* those that come after it.                                                *)
LEMMA InOrderArranged ==
  ASSUME NEW T, NEW s, NEW P, IsFiniteSet(P), \A i \in P : s[i] \in T,
         NEW R, StrictOrder(P, R)
  PROVE  /\ Arranged(s, P, R) \in Seq(T)
         /\ Len(Arranged(s, P, R)) = Cardinality(P)
         /\ ArrangedBy(Arranged(s, P, R), s, P, R)
<1> DEFINE n == Cardinality(P)
           at(k) == CHOOSE i \in P : Cardinality({j \in P : <<j, i>> \in R}) = k - 1
<1>1. n \in Nat
  BY FS_CardinalityType
<1>2. \A k \in 1 .. n : at(k) \in P /\ Cardinality(Ahead(P, R, at(k))) = k - 1
  <2> SUFFICES ASSUME NEW k \in 1 .. n
               PROVE  at(k) \in P /\ Cardinality(Ahead(P, R, at(k))) = k - 1
    OBVIOUS
  <2>1. \E i \in P : Cardinality({j \in P : <<j, i>> \in R}) = k - 1
    BY Ranks DEF Ahead
  <2>2. at(k) \in P /\ Cardinality({j \in P : <<j, at(k)>> \in R}) = k - 1
    BY <2>1
  <2> QED
    BY <2>2 DEF Ahead
<1>3. Arranged(s, P, R) = [k \in 1 .. n |-> s[at(k)]]
  BY DEF Arranged
<1> HIDE DEF at, n
<1>4. ASSUME NEW k \in 1 .. n, NEW l \in 1 .. n, k < l
      PROVE  <<at(k), at(l)>> \in R
  <2>1. at(k) # at(l)
    BY <1>1, <1>2, <1>4
  <2>2. ~(<<at(l), at(k)>> \in R)
    <3>1. \A i, j \in P :
            <<i, j>> \in R => Cardinality(Ahead(P, R, i)) < Cardinality(Ahead(P, R, j))
      BY Ranks
    <3>2. k \in Int /\ l \in Int
      BY <1>1
    <3> QED
      BY <1>2, <1>4, <3>1, <3>2
  <2> QED
    BY <1>2, <2>1, <2>2 DEF StrictOrder
<1>5. [k \in 1 .. n |-> s[at(k)]] \in Seq(T)
  BY <1>1, <1>2
<1>6. Len([k \in 1 .. n |-> s[at(k)]]) = n
  BY <1>1, <1>5
<1>7. \A k, l \in 1 .. n : k < l =>
        \E i, j \in P : /\ <<i, j>> \in R
                        /\ Arranged(s, P, R)[k] = s[i] /\ Arranged(s, P, R)[l] = s[j]
  BY <1>2, <1>3, <1>4
<1>8. ArrangedBy(Arranged(s, P, R), s, P, R)
  BY <1>7 DEF n, ArrangedBy
<1>9. Arranged(s, P, R) \in Seq(T) /\ Len(Arranged(s, P, R)) = n
  BY <1>3, <1>5, <1>6
<1> QED
  BY <1>8, <1>9 DEF n

LEMMA InPlaceIsOrder ==
  ASSUME NEW P \in SUBSET Nat
  PROVE  StrictOrder(P, AsTheyCome(P))
BY DEF StrictOrder, AsTheyCome
-----------------------------------------------------------------------------
(* Sums.  The library's sum is a fold over a chosen order; the lemmas free  *)
(* it from the order.                                                       *)

Amounts(f, T) == IsFiniteSet(T) /\ \A i \in T : f[i] \in Nat

SumOf(f, S) == SumFunctionOnSet(f, S)

Chosen(S) == CHOOSE i \in S : TRUE

(* What the fold makes of a set, given what it makes of the smaller ones. *)
Sum(f, g, S) == IF S = {} THEN 0 ELSE f[Chosen(S)] + g[S \ {Chosen(S)}]

IsFold(f, g, T) == g = [S \in SUBSET T |-> Sum(f, g, S)]

LEMMA SizesOfParts ==
  ASSUME NEW T, IsFiniteSet(T)
  PROVE  \A S \in SUBSET T :
           /\ IsFiniteSet(S) /\ Cardinality(S) \in Nat
           /\ Cardinality(S) <= Cardinality(T)
           /\ Cardinality(S) = 0 => S = {}
           /\ \A i \in S : /\ S \ {i} \in SUBSET T
                           /\ Cardinality(S \ {i}) = Cardinality(S) - 1
<1> SUFFICES ASSUME NEW S \in SUBSET T
             PROVE  /\ IsFiniteSet(S) /\ Cardinality(S) \in Nat
                    /\ Cardinality(S) <= Cardinality(T)
                    /\ Cardinality(S) = 0 => S = {}
                    /\ \A i \in S : /\ S \ {i} \in SUBSET T
                                    /\ Cardinality(S \ {i}) = Cardinality(S) - 1
  OBVIOUS
<1>1. IsFiniteSet(S) /\ Cardinality(S) <= Cardinality(T)
  BY FS_Subset
<1>2. Cardinality(S) \in Nat
  BY <1>1, FS_CardinalityType
<1>3. Cardinality(S) = 0 => S = {}
  BY <1>1, FS_EmptySet
<1>4. \A i \in S : Cardinality(S \ {i}) = Cardinality(S) - 1
  BY <1>1, FS_RemoveElement
<1> QED
  BY <1>1, <1>2, <1>3, <1>4

LEMMA ChosenIsOfIt ==
  ASSUME NEW f, NEW T, Amounts(f, T), NEW S \in SUBSET T, S # {}
  PROVE  /\ Chosen(S) \in S /\ f[Chosen(S)] \in Nat
         /\ S \ {Chosen(S)} \in SUBSET T
         /\ Cardinality(S \ {Chosen(S)}) = Cardinality(S) - 1
<1>1. Chosen(S) \in S
  BY DEF Chosen
<1> QED
  BY <1>1, SizesOfParts DEF Amounts

LEMMA FoldExists ==
  ASSUME NEW f, NEW T, Amounts(f, T)
  PROVE  \E g \in [SUBSET T -> Nat] : IsFold(f, g, T)
<1> DEFINE UpTo(n, g) == \A S \in SUBSET T : Cardinality(S) <= n => g[S] = Sum(f, g, S)
           Reached == {n \in Nat : \E g \in [SUBSET T -> Nat] : UpTo(n, g)}
<1>0. \A S \in SUBSET T :
        /\ Cardinality(S) \in Nat /\ Cardinality(S) <= Cardinality(T)
        /\ Cardinality(S) = 0 => S = {}
        /\ S # {} =>
             /\ Chosen(S) \in S /\ f[Chosen(S)] \in Nat /\ S \ {Chosen(S)} \in SUBSET T
             /\ Cardinality(S \ {Chosen(S)}) = Cardinality(S) - 1
  BY ChosenIsOfIt, SizesOfParts DEF Amounts
<1>1. 0 \in Reached
  <2> DEFINE g == [S \in SUBSET T |-> 0]
  <2>1. ASSUME NEW S \in SUBSET T, Cardinality(S) <= 0
        PROVE  S = {}
    <3>1. Cardinality(S) \in Nat
      BY <1>0
    <3>2. Cardinality(S) = 0
      BY <2>1, <3>1
    <3> QED
      BY <1>0, <3>2
  <2>2. g \in [SUBSET T -> Nat] /\ UpTo(0, g)
    BY <2>1 DEF Sum
  <2> QED
    BY <2>2
<1>2. ASSUME NEW n \in Reached
      PROVE  n + 1 \in Reached
  <2>1. PICK g \in [SUBSET T -> Nat] : UpTo(n, g)
    OBVIOUS
  <2> DEFINE h == [S \in SUBSET T |-> IF Cardinality(S) <= n THEN g[S] ELSE Sum(f, g, S)]
  <2>3. h \in [SUBSET T -> Nat]
    <3> SUFFICES ASSUME NEW S \in SUBSET T
                 PROVE  g[S] \in Nat /\ Sum(f, g, S) \in Nat
      OBVIOUS
    <3>1. CASE S = {}
      BY <3>1 DEF Sum
    <3>2. CASE S # {}
      <4>1. f[Chosen(S)] \in Nat /\ g[S \ {Chosen(S)}] \in Nat
        BY <1>0, <3>2
      <4> QED
        BY <3>2, <4>1 DEF Sum
    <3> QED
      BY <3>1, <3>2
  <2>4. \A S \in SUBSET T : Cardinality(S) <= n + 1 => Sum(f, h, S) = Sum(f, g, S)
    BY <1>0 DEF Sum
  <2>5. UpTo(n + 1, h)
    BY <2>1, <2>4
  <2> HIDE DEF h
  <2> QED
    BY <2>3, <2>5
<1>3. Cardinality(T) \in Reached
  <2> HIDE DEF Reached
  <2>1. Reached \subseteq Nat
    BY DEF Reached
  <2> QED
    BY <1>0, <1>1, <1>2, <2>1, CountingUp
<1>4. PICK g \in [SUBSET T -> Nat] : UpTo(Cardinality(T), g)
  BY <1>3
<1>5. \A S \in SUBSET T : g[S] = Sum(f, g, S)
  BY <1>0, <1>4
<1>6. IsFold(f, g, T)
  BY <1>5 DEF IsFold
<1> QED
  BY <1>6

(* Two folds of the same amounts give a set both know the same sum. *)
LEMMA FoldsAgree ==
  ASSUME NEW f, NEW e, NEW T, NEW U \in SUBSET T, Amounts(f, T),
         \A i \in U : e[i] = f[i],
         NEW g, NEW h, IsFold(f, g, T), IsFold(e, h, U)
  PROVE  \A S \in SUBSET U : g[S] = h[S]
<1> DEFINE Reached == {n \in Nat : \A S \in SUBSET U : Cardinality(S) = n => g[S] = h[S]}
<1>0. \A S \in SUBSET U : g[S] = Sum(f, g, S) /\ h[S] = Sum(e, h, S)
  BY DEF IsFold
<1>1. 0 \in Reached
  <2>1. \A S \in SUBSET U : Cardinality(S) = 0 => S = {}
    BY SizesOfParts DEF Amounts
  <2> QED
    BY <1>0, <2>1 DEF Sum
<1>2. ASSUME NEW n \in Reached
      PROVE  n + 1 \in Reached
  <2> SUFFICES ASSUME NEW S \in SUBSET U, Cardinality(S) = n + 1
               PROVE  g[S] = h[S]
    OBVIOUS
  <2>1. S # {}
    BY FS_EmptySet
  <2>2. /\ Cardinality(S \ {Chosen(S)}) = n /\ S \ {Chosen(S)} \in SUBSET U
        /\ e[Chosen(S)] = f[Chosen(S)]
    BY <2>1, ChosenIsOfIt
  <2>3. g[S \ {Chosen(S)}] = h[S \ {Chosen(S)}]
    BY <2>2
  <2> QED
    BY <1>0, <2>1, <2>2, <2>3 DEF Sum
<1>3. Reached = Nat
  <2> HIDE DEF Reached
  <2>1. Reached \subseteq Nat
    BY DEF Reached
  <2> QED
    BY <1>1, <1>2, <2>1, CountingUp
<1> QED
  BY <1>3, SizesOfParts DEF Amounts

(* The sum of the library is a fold. *)
LEMMA SumIsFold ==
  ASSUME NEW f, NEW S, Amounts(f, S)
  PROVE  \E g : IsFold(f, g, S) /\ SumOf(f, S) = g[S]
<1> DEFINE g == CHOOSE g : g = [R \in SUBSET S |->
                  IF R = {} THEN 0
                  ELSE f[CHOOSE i \in R : TRUE] + g[R \ {CHOOSE i \in R : TRUE}]]
<1>1. SumOf(f, S) = g[S]
  BY DEF SumOf, SumFunctionOnSet, FoldFunctionOnSet, MapThenFoldSet
<1>2. PICK h : IsFold(f, h, S)
  BY FoldExists
<1>3. h = [R \in SUBSET S |->
             IF R = {} THEN 0
             ELSE f[CHOOSE i \in R : TRUE] + h[R \ {CHOOSE i \in R : TRUE}]]
  BY <1>2 DEF IsFold, Sum, Chosen
<1>4. g = [R \in SUBSET S |->
             IF R = {} THEN 0
             ELSE f[CHOOSE i \in R : TRUE] + g[R \ {CHOOSE i \in R : TRUE}]]
  BY <1>3
<1>5. IsFold(f, g, S)
  <2> HIDE DEF g
  <2> QED
    BY <1>4 DEF IsFold, Sum, Chosen
<1> QED
  BY <1>1, <1>5

GivesSums(f, g, T) ==
  \A S \in SUBSET T : \A e : (\A i \in S : e[i] = f[i]) => SumOf(e, S) = g[S]

(* One fold gives every set its sum, whatever the amounts of others.        *)
LEMMA OneFold ==
  ASSUME NEW f, NEW T, Amounts(f, T)
  PROVE  \E g \in [SUBSET T -> Nat] : IsFold(f, g, T) /\ GivesSums(f, g, T)
<1>1. PICK g \in [SUBSET T -> Nat] : IsFold(f, g, T)
  BY FoldExists
<1>2. ASSUME NEW S \in SUBSET T, NEW e, \A i \in S : e[i] = f[i]
      PROVE  SumOf(e, S) = g[S]
  <2>1. Amounts(e, S)
    BY <1>2, SizesOfParts DEF Amounts
  <2>2. PICK h : IsFold(e, h, S) /\ SumOf(e, S) = h[S]
    BY <2>1, SumIsFold
  <2> QED
    BY <1>1, <1>2, <2>2, FoldsAgree
<1>3. GivesSums(f, g, T)
  BY <1>2 DEF GivesSums
<1> QED
  BY <1>1, <1>3

LEMMA SumUnfolds ==
  ASSUME NEW f, NEW T, Amounts(f, T)
  PROVE  /\ SumOf(f, {}) = 0
         /\ \A S \in SUBSET T :
              /\ SumOf(f, S) \in Nat
              /\ \A e : (\A i \in S : e[i] = f[i]) => SumOf(e, S) = SumOf(f, S)
              /\ S # {} => SumOf(f, S) = f[Chosen(S)] + SumOf(f, S \ {Chosen(S)})
<1>1. PICK g \in [SUBSET T -> Nat] : IsFold(f, g, T) /\ GivesSums(f, g, T)
  BY OneFold
<1>2. \A S \in SUBSET T :
        /\ SumOf(f, S) = g[S]
        /\ \A e : (\A i \in S : e[i] = f[i]) => SumOf(e, S) = g[S]
  BY <1>1 DEF GivesSums
<1>3. \A S \in SUBSET T : g[S] = Sum(f, g, S) /\ S \ {Chosen(S)} \in SUBSET T
  BY <1>1 DEF IsFold
<1> QED
  BY <1>1, <1>2, <1>3 DEF Sum

LEMMA SumIsNatural ==
  ASSUME NEW f, NEW T, Amounts(f, T), NEW S \in SUBSET T
  PROVE  SumOf(f, S) \in Nat
BY SumUnfolds

LEMMA SumOfSome ==
  ASSUME NEW f, NEW T, Amounts(f, T), NEW S \in SUBSET T, NEW c, c = Chosen(S), S # {}
  PROVE  SumOf(f, S) = f[c] + SumOf(f, S \ {c})
<1>1. S # {} => SumOf(f, S) = f[Chosen(S)] + SumOf(f, S \ {Chosen(S)})
  BY SumUnfolds
<1> QED
  BY <1>1

(* A further element adds its amount, wherever the fold takes it. *)
LEMMA SumAdds ==
  ASSUME NEW f, NEW T, Amounts(f, T), NEW S \in SUBSET T, NEW s \in T \ S
  PROVE  SumOf(f, S \cup {s}) = SumOf(f, S) + f[s]
<1> DEFINE Adds(R, r) == SumOf(f, R \cup {r}) = SumOf(f, R) + f[r]
           Reached == {n \in Nat : \A R \in SUBSET T : Cardinality(R) = n =>
                                     \A r \in T \ R : Adds(R, r)}
<1>0. \A R \in SUBSET T : SumOf(f, R) \in Nat
  BY SumIsNatural
<1>1. 0 \in Reached
  <2> SUFFICES ASSUME NEW R \in SUBSET T, Cardinality(R) = 0, NEW r \in T
               PROVE  Adds(R, r)
    OBVIOUS
  <2>1. R = {}
    BY SizesOfParts DEF Amounts
  <2> DEFINE one == {r}
  <2>2. /\ one \in SUBSET T /\ one # {} /\ one \ {r} = {} /\ R \cup {r} = one
        /\ f[r] \in Nat /\ Chosen(one) = r
    BY <2>1 DEF Chosen, Amounts
  <2> HIDE DEF one
  <2>3. SumOf(f, R) = 0
    BY <2>1, SumUnfolds
  <2>4. SumOf(f, one) = f[r] + SumOf(f, one \ {r})
    BY <2>2, SumOfSome
  <2>5. SumOf(f, one) = f[r] + 0
    BY <2>1, <2>2, <2>3, <2>4
  <2>6. f[r] + 0 = 0 + f[r]
    BY <2>2
  <2>7. SumOf(f, one) = SumOf(f, R) + f[r]
    BY <2>3, <2>5, <2>6
  <2> QED
    BY <2>2, <2>7
<1>2. ASSUME NEW n \in Reached
      PROVE  n + 1 \in Reached
  <2> SUFFICES ASSUME NEW R \in SUBSET T, Cardinality(R) = n + 1, NEW r \in T \ R
               PROVE  Adds(R, r)
    OBVIOUS
  <2> DEFINE all == R \cup {r}
             c == Chosen(all)
  <2>1. all \in SUBSET T /\ all # {} /\ c \in all /\ f[r] \in Nat
    BY DEF Chosen, Amounts
  <2> HIDE DEF all
  <2>2. SumOf(f, all) = f[c] + SumOf(f, all \ {c})
    BY <2>1, SumOfSome
  <2> USE DEF all
  <2>3. CASE c = r
    <3>1. all \ {c} = R
      BY <2>3
    <3> HIDE DEF all
    <3> QED
      BY <1>0, <2>1, <2>2, <2>3, <3>1 DEF all
  <2>4. CASE c # r
    <3>1. c \in R /\ f[c] \in Nat
      BY <2>1, <2>4 DEF Amounts
    <3>2. Cardinality(R \ {c}) = n /\ R \ {c} \in SUBSET T
      <4> HIDE DEF c
      <4>1. Cardinality(R \ {c}) = Cardinality(R) - 1
        BY <3>1, SizesOfParts DEF Amounts
      <4> QED
        BY <4>1
    <3>3. r \in T \ (R \ {c}) /\ c \in T \ (R \ {c})
      BY <3>1
    <3>4. Adds(R \ {c}, r) /\ Adds(R \ {c}, c)
      BY <3>2, <3>3
    <3>5. (R \ {c}) \cup {c} = R /\ (R \ {c}) \cup {r} = all \ {c}
      BY <2>4, <3>1
    <3>6. SumOf(f, R) = SumOf(f, R \ {c}) + f[c]
      BY <3>4, <3>5
    <3>7. SumOf(f, all \ {c}) = SumOf(f, R \ {c}) + f[r]
      BY <3>4, <3>5
    <3>8. SumOf(f, R \ {c}) \in Nat
      BY <1>0, <3>2
    <3> HIDE DEF all, c
    <3> QED
      BY <2>1, <2>2, <3>1, <3>6, <3>7, <3>8 DEF all
  <2> QED
    BY <2>3, <2>4
<1>3. Reached = Nat
  <2> HIDE DEF Reached
  <2>1. Reached \subseteq Nat
    BY DEF Reached
  <2> QED
    BY <1>1, <1>2, <2>1, CountingUp
<1> QED
  BY <1>3, SizesOfParts DEF Amounts

LEMMA SumGrows ==
  ASSUME NEW f, NEW T, Amounts(f, T), NEW S \in SUBSET T, NEW U \in SUBSET T, S \subseteq U
  PROVE  SumOf(f, S) <= SumOf(f, U)
<1> DEFINE Grows(R) == S \subseteq R => SumOf(f, S) <= SumOf(f, R)
           Reached == {n \in Nat : \A R \in SUBSET T : Cardinality(R) = n => Grows(R)}
<1>0. \A R \in SUBSET T : SumOf(f, R) \in Nat
  BY SumIsNatural
<1>1. 0 \in Reached
  <2> SUFFICES ASSUME NEW R \in SUBSET T, Cardinality(R) = 0, S \subseteq R
               PROVE  SumOf(f, S) <= SumOf(f, R)
    OBVIOUS
  <2>1. R = {}
    BY SizesOfParts DEF Amounts
  <2>2. S = R
    BY <2>1
  <2> QED
    BY <1>0, <2>2
<1>2. ASSUME NEW n \in Reached
      PROVE  n + 1 \in Reached
  <2> SUFFICES ASSUME NEW R \in SUBSET T, Cardinality(R) = n + 1, S \subseteq R
               PROVE  SumOf(f, S) <= SumOf(f, R)
    OBVIOUS
  <2>1. CASE S = R
    BY <1>0, <2>1
  <2>2. CASE S # R
    <3>1. PICK r \in R : r \notin S
      BY <2>2
    <3> DEFINE rest == R \ {r}
    <3>2. rest \in SUBSET T /\ S \subseteq rest /\ r \in T \ rest /\ rest \cup {r} = R
      BY <3>1
    <3>3. Cardinality(rest) = n
      <4>1. Cardinality(rest) = Cardinality(R) - 1
        BY <3>1, SizesOfParts DEF Amounts
      <4> QED
        BY <4>1
    <3> HIDE DEF rest
    <3>4. SumOf(f, S) <= SumOf(f, rest)
      BY <3>2, <3>3
    <3>5. SumOf(f, rest \cup {r}) = SumOf(f, rest) + f[r]
      BY <3>2, SumAdds
    <3>6. f[r] \in Nat
      BY <3>2 DEF Amounts
    <3>7. SumOf(f, R) = SumOf(f, rest) + f[r]
      BY <3>2, <3>5
    <3>8. SumOf(f, rest) \in Nat /\ SumOf(f, S) \in Nat /\ SumOf(f, R) \in Nat
      BY <1>0, <3>2
    <3> QED
      BY <3>4, <3>6, <3>7, <3>8
  <2> QED
    BY <2>1, <2>2
<1>3. Reached = Nat
  <2> HIDE DEF Reached
  <2>1. Reached \subseteq Nat
    BY DEF Reached
  <2> QED
    BY <1>1, <1>2, <2>1, CountingUp
<1> QED
  BY <1>3, SizesOfParts DEF Amounts

-----------------------------------------------------------------------------
(* The items of a window. *)

Keys    == {"system", "request", "first", "second", "note", "one", "two"}
Sources == {"user_request", "search_results", "tool_outputs", "pinned_by_user", "file"}

ItemType == [key : Keys, priority : Nat, source : Sources, pinned : BOOLEAN,
             relevance : Nat, age : Ages \cup {0}, estimate : Nat, lines : Seq(Nat)]

Gathered == Seq(ItemType)

LEMMA PlacesOfSequence ==
  ASSUME NEW s \in Gathered
  PROVE  /\ DOMAIN s = 1 .. Len(s) /\ Len(s) \in Nat
         /\ IsFiniteSet(DOMAIN s) /\ Cardinality(DOMAIN s) = Len(s)
         /\ DOMAIN s \subseteq Nat
         /\ \A i \in DOMAIN s : s[i] \in ItemType
<1> USE DEF Gathered
<1>1. DOMAIN s = 1 .. Len(s) /\ Len(s) \in Nat
  OBVIOUS
<1>2. IsFiniteSet(1 .. Len(s)) /\ Cardinality(1 .. Len(s)) = Len(s)
  BY <1>1, FS_Interval
<1>3. \A i \in DOMAIN s : s[i] \in ItemType
  OBVIOUS
<1> QED
  BY <1>1, <1>2, <1>3

LEMMA TokensAreNatural ==
  ASSUME NEW x \in ItemType
  PROVE  Tokens(x) \in Nat
BY DEF ItemType, Tokens

LEMMA DecayedIsNatural ==
  ASSUME NEW x \in ItemType
  PROVE  Decayed(x) \in Int
<1>1. x.relevance \in Nat /\ x.age \in Ages \cup {0}
  BY DEF ItemType
<1>2. \A age \in Ages \cup {0} : HalfLives(age) \in Nat \ {0}
  BY AgesAssumption
<1>3. \A n \in Nat, d \in Nat \ {0} : n \div d \in Int
  OBVIOUS
<1>4. HalfLives(x.age) \in Nat \ {0}
  BY <1>1, <1>2
<1> QED
  BY <1>1, <1>3, <1>4 DEF Decayed

(* The rank is an order with ties. *)
LEMMA OutranksIsOrder ==
  /\ \A x, y \in ItemType : ~(Outranks(x, y) /\ Outranks(y, x))
  /\ \A x, y, z \in ItemType : Outranks(x, y) /\ Outranks(y, z) => Outranks(x, z)
  /\ \A x, y, z \in ItemType : ~Outranks(x, y) /\ ~Outranks(y, z) => ~Outranks(x, z)
<1>1. \A x \in ItemType : x.pinned \in BOOLEAN /\ x.priority \in Int /\ Decayed(x) \in Int
  <2> SUFFICES ASSUME NEW x \in ItemType
               PROVE  x.pinned \in BOOLEAN /\ x.priority \in Int /\ Decayed(x) \in Int
    OBVIOUS
  <2>1. x.pinned \in BOOLEAN /\ x.priority \in Int
    BY DEF ItemType
  <2>2. Decayed(x) \in Int
    BY DecayedIsNatural
  <2> QED
    BY <2>1, <2>2
<1>2. \A x, y \in ItemType :
        Outranks(x, y) <=> IF x.pinned = y.pinned THEN RanksBefore(x, y) ELSE x.pinned
  BY Zenon DEF Outranks
<1>3. \A x, y \in ItemType :
        Outranks(x, y) <=> \/ x.pinned /\ ~y.pinned
                           \/ (x.pinned <=> y.pinned) /\ RanksBefore(x, y)
  BY <1>1, <1>2, Zenon
<1>4. ASSUME NEW x \in ItemType, NEW y \in ItemType
      PROVE  ~(RanksBefore(x, y) /\ RanksBefore(y, x))
  BY <1>1 DEF RanksBefore
<1>5. ASSUME NEW x \in ItemType, NEW y \in ItemType, NEW z \in ItemType
      PROVE  /\ RanksBefore(x, y) /\ RanksBefore(y, z) => RanksBefore(x, z)
             /\ ~RanksBefore(x, y) /\ ~RanksBefore(y, z) => ~RanksBefore(x, z)
  BY <1>1 DEF RanksBefore
<1>6. ASSUME NEW x \in ItemType, NEW y \in ItemType
      PROVE  ~(Outranks(x, y) /\ Outranks(y, x))
  BY <1>3, <1>4, Zenon
<1>7. ASSUME NEW x \in ItemType, NEW y \in ItemType, NEW z \in ItemType
      PROVE  /\ Outranks(x, y) /\ Outranks(y, z) => Outranks(x, z)
             /\ ~Outranks(x, y) /\ ~Outranks(y, z) => ~Outranks(x, z)
  BY <1>3, <1>5, Zenon
<1> QED
  BY <1>6, <1>7

(* What a stable sort orders by: the ties in the order they come. *)
Stably(P, B) == {p \in P \X P : p \in B \/ (<<p[2], p[1]>> \notin B /\ p[1] < p[2])}

LEMMA StableIsOrder ==
  ASSUME NEW P \in SUBSET Nat, NEW B,
         \A i, j \in P : ~(<<i, j>> \in B /\ <<j, i>> \in B),
         \A i, j, k \in P : <<i, j>> \notin B /\ <<j, k>> \notin B => <<i, k>> \notin B
  PROVE  StrictOrder(P, Stably(P, B))
<1>1. \A i, j \in P : <<i, j>> \in Stably(P, B) <=>
        <<i, j>> \in B \/ (<<j, i>> \notin B /\ i < j)
  BY DEF Stably
<1>2. ASSUME NEW i \in P, NEW j \in P, i # j
      PROVE  <<i, j>> \in Stably(P, B) \/ <<j, i>> \in Stably(P, B)
  <2>1. i < j \/ j < i
    BY <1>2
  <2> QED
    BY <1>1, <2>1
<1>3. ASSUME NEW i \in P
      PROVE  <<i, i>> \notin Stably(P, B)
  BY <1>1
<1>4. ASSUME NEW i \in P, NEW j \in P, NEW k \in P,
             <<i, j>> \in Stably(P, B), <<j, k>> \in Stably(P, B)
      PROVE  <<i, k>> \in Stably(P, B)
  <2>1. <<j, i>> \notin B /\ <<k, j>> \notin B
    BY <1>1, <1>4
  <2>2. <<k, i>> \notin B
    BY <2>1
  <2>3. CASE <<i, k>> \in B
    BY <1>1, <2>3
  <2>4. CASE <<i, k>> \notin B
    <3>1. <<i, j>> \notin B /\ <<j, k>> \notin B
      BY <2>1, <2>4
    <3>2. i < j /\ j < k
      BY <1>1, <1>4, <3>1
    <3>3. i < k
      BY <3>2
    <3> QED
      BY <1>1, <2>2, <3>3
  <2> QED
    BY <2>3, <2>4
<1> QED
  BY <1>2, <1>3, <1>4 DEF StrictOrder

(* The queue is in the order of the rank. *)
LEMMA PackedInOrder ==
  ASSUME NEW s \in Gathered
  PROVE  /\ PackingOrder(s) \in Gathered
         /\ \A k, l \in DOMAIN PackingOrder(s) :
              k < l => ~Outranks(PackingOrder(s)[l], PackingOrder(s)[k])
<1> DEFINE P == DOMAIN s
           B == {p \in P \X P : Outranks(s[p[1]], s[p[2]])}
           q == PackingOrder(s)
<1>1. P \in SUBSET Nat /\ IsFiniteSet(P) /\ \A i \in P : s[i] \in ItemType
  BY PlacesOfSequence
<1>2. \A i, j \in P : <<i, j>> \in B <=> Outranks(s[i], s[j])
  OBVIOUS
<1>3. q = Arranged(s, P, Stably(P, B))
  <2>1. Stably(P, B) = {p \in P \X P : \/ Outranks(s[p[1]], s[p[2]])
                                       \/ ~Outranks(s[p[2]], s[p[1]]) /\ p[1] < p[2]}
    BY <1>2 DEF Stably
  <2> QED
    BY <2>1 DEF PackingOrder, SortStable
<1> HIDE DEF B, q
<1>4. StrictOrder(P, Stably(P, B))
  BY <1>1, <1>2, OutranksIsOrder, StableIsOrder
<1>5. /\ q \in Seq(ItemType) /\ Len(q) = Cardinality(P)
      /\ \A k, l \in 1 .. Cardinality(P) : k < l =>
           \E i, j \in P : <<i, j>> \in Stably(P, B) /\ q[k] = s[i] /\ q[l] = s[j]
  <2> DEFINE R == Stably(P, B)
  <2>1. StrictOrder(P, R) /\ q = Arranged(s, P, R)
    BY <1>3, <1>4
  <2> HIDE DEF R, P
  <2>2. /\ Arranged(s, P, R) \in Seq(ItemType)
        /\ Len(Arranged(s, P, R)) = Cardinality(P)
        /\ ArrangedBy(Arranged(s, P, R), s, P, R)
    BY <1>1, <2>1, InOrderArranged
  <2> QED
    BY <2>1, <2>2 DEF R, ArrangedBy
<1>6. DOMAIN q = 1 .. Cardinality(P)
  BY <1>5
<1>7. ASSUME NEW k \in DOMAIN q, NEW l \in DOMAIN q, k < l
      PROVE  ~Outranks(q[l], q[k])
  <2>1. PICK i, j \in P : <<i, j>> \in Stably(P, B) /\ q[k] = s[i] /\ q[l] = s[j]
    <3>1. k \in 1 .. Cardinality(P) /\ l \in 1 .. Cardinality(P)
      BY <1>6
    <3> QED
      BY <1>5, <1>7, <3>1
  <2>2. Outranks(s[i], s[j]) \/ ~Outranks(s[j], s[i])
    BY <1>2, <2>1 DEF Stably
  <2> QED
    BY <1>1, <2>1, <2>2, OutranksIsOrder
<1> QED
  BY <1>5, <1>7 DEF q, Gathered

(* The longer snippets come first. *)
LEMMA SortedByLength ==
  ASSUME NEW s \in Gathered
  PROVE  LET IsLonger(x, y) == Len(x.lines) > Len(y.lines)
         IN  SortStable(s, IsLonger) \in Gathered
<1> DEFINE P == DOMAIN s
           B == {p \in P \X P : Len(s[p[1]].lines) > Len(s[p[2]].lines)}
           q == Arranged(s, P, Stably(P, B))
<1>1. P \in SUBSET Nat /\ IsFiniteSet(P) /\ \A i \in P : s[i] \in ItemType
  BY PlacesOfSequence
<1>2. \A i, j \in P : <<i, j>> \in B <=> Len(s[i].lines) > Len(s[j].lines)
  OBVIOUS
<1>3. \A i \in P : Len(s[i].lines) \in Int
  BY <1>1 DEF ItemType
<1>4. Stably(P, B) = {p \in P \X P : \/ Len(s[p[1]].lines) > Len(s[p[2]].lines)
                                     \/ /\ ~(Len(s[p[2]].lines) > Len(s[p[1]].lines))
                                        /\ p[1] < p[2]}
  BY <1>2 DEF Stably
<1>5. SortStable(s, LAMBDA x, y : Len(x.lines) > Len(y.lines)) = q
  BY <1>4 DEF SortStable
<1> HIDE DEF B
<1>6. StrictOrder(P, Stably(P, B))
  BY <1>1, <1>2, <1>3, StableIsOrder
<1>7. q \in Gathered
  BY <1>1, <1>6, InOrderArranged DEF Gathered
<1> QED
  BY <1>5, <1>7

LEMMA TakenInPlace ==
  ASSUME NEW s, NEW P \in SUBSET Nat, IsFiniteSet(P), \A i \in P : s[i] \in ItemType
  PROVE  Arranged(s, P, AsTheyCome(P)) \in Gathered
<1>1. StrictOrder(P, AsTheyCome(P))
  BY InPlaceIsOrder
<1> QED
  BY <1>1, InOrderArranged DEF Gathered

(* Of the items with one key one is the best. *)
LEMMA BestIsOneOfThem ==
  ASSUME NEW s \in Gathered, NEW k \in DOMAIN s
  PROVE  BestWithKey(s, s[k].key) \in ItemType
<1> DEFINE same == {i \in DOMAIN s : s[i].key = s[k].key}
           B == {p \in same \X same : s[p[1]].relevance > s[p[2]].relevance}
           R == Stably(same, B)
           best(i) == \A j \in same : \/ s[i].relevance > s[j].relevance
                                      \/ s[i].relevance = s[j].relevance /\ i <= j
<1>1. same \in SUBSET Nat /\ same \in SUBSET DOMAIN s /\ k \in same
  BY PlacesOfSequence
<1>2. IsFiniteSet(same) /\ Cardinality(same) \in Nat /\ Cardinality(same) > 0
  <2>1. IsFiniteSet(same)
    BY <1>1, PlacesOfSequence, FS_Subset
  <2>2. Cardinality(same) \in Nat /\ Cardinality(same) # 0
    BY <1>1, <2>1, FS_CardinalityType, FS_EmptySet
  <2> QED
    BY <2>1, <2>2
<1>3. \A i \in same : s[i] \in ItemType /\ s[i].relevance \in Int
  BY <1>1, PlacesOfSequence DEF ItemType
<1>4. \A i, j \in same : <<i, j>> \in B <=> s[i].relevance > s[j].relevance
  OBVIOUS
<1> HIDE DEF same, B
<1>5. StrictOrder(same, R)
  BY <1>1, <1>3, <1>4, StableIsOrder
<1>6. PICK i \in same : Cardinality(Ahead(same, R, i)) = 0
  <2> HIDE DEF R
  <2>1. 1 \in 1 .. Cardinality(same)
    BY <1>2
  <2>2. \A n \in 1 .. Cardinality(same) : \E i \in same : Cardinality(Ahead(same, R, i)) = n - 1
    BY <1>2, <1>5, Ranks
  <2>3. \E i \in same : Cardinality(Ahead(same, R, i)) = 1 - 1
    BY <2>1, <2>2
  <2> QED
    BY <2>3
<1>7. Ahead(same, R, i) = {}
  BY <1>2, <1>6, FS_Subset, FS_EmptySet DEF Ahead
<1>8. best(i)
  <2> SUFFICES ASSUME NEW j \in same
               PROVE  \/ s[i].relevance > s[j].relevance
                      \/ s[i].relevance = s[j].relevance /\ i <= j
    OBVIOUS
  <2>1. <<j, i>> \notin R
    BY <1>7 DEF Ahead
  <2>2. CASE j = i
    BY <1>1, <2>2
  <2>3. CASE j # i
    <3>1. <<i, j>> \in R
      BY <1>5, <2>1, <2>3 DEF StrictOrder
    <3>2. <<i, j>> \in B \/ (<<j, i>> \notin B /\ i < j)
      BY <3>1 DEF Stably
    <3>3. i \in Int /\ j \in Int
      BY <1>1
    <3> QED
      BY <1>3, <1>4, <3>2, <3>3
  <2> QED
    BY <2>2, <2>3
<1>9. BestWithKey(s, s[k].key) = s[CHOOSE x \in same : best(x)]
  BY DEF BestWithKey, same
<1>10. (CHOOSE x \in same : best(x)) \in same
  <2> HIDE DEF best
  <2> QED
    BY <1>8
<1> QED
  BY <1>3, <1>9, <1>10

LEMMA NoDuplicates ==
  ASSUME NEW s \in Gathered
  PROVE  DedupByKey(s) \in Gathered
<1> DEFINE firsts == {i \in DOMAIN s : \A j \in 1 .. i - 1 : s[j].key # s[i].key}
           best   == [i \in DOMAIN s |-> BestWithKey(s, s[i].key)]
<1>1. firsts \in SUBSET Nat /\ IsFiniteSet(firsts) /\ firsts \subseteq DOMAIN s
  BY PlacesOfSequence, FS_Subset
<1>2. \A i \in firsts : best[i] \in ItemType
  BY <1>1, BestIsOneOfThem
<1>3. DedupByKey(s) = Arranged(best, firsts, AsTheyCome(firsts))
  BY DEF DedupByKey
<1> HIDE DEF firsts, best
<1> QED
  BY <1>1, <1>2, <1>3, TakenInPlace

(* Merged lines are lines. *)
LEMMA JoinedAreLines ==
  ASSUME NEW a \in Seq(Nat), NEW b \in Seq(Nat), Overlaps(a, b)
  PROVE  JoinAt(a, b) \in Seq(Nat)
<1> DEFINE starts == {i \in DOMAIN a : OverlapsAt(a, i, b)}
<1>1. starts # {} /\ starts \in SUBSET Nat /\ starts \subseteq 1 .. Len(a)
  BY DEF Overlaps
<1>2. Min(starts) \in 1 .. Len(a)
  BY <1>1, MinOfSome
<1>3. SubSeq(a, 1, Min(starts) - 1) \in Seq(Nat)
  <2> DEFINE n == Min(starts) - 1
  <2>1. n \in Int /\ n <= Len(a)
    BY <1>2
  <2> HIDE DEF n
  <2>2. \A i \in 1 .. n : a[i] \in Nat
    BY <2>1
  <2>3. SubSeq(a, 1, n) \in Seq(Nat)
    BY <2>1, <2>2, SubSeqProperties
  <2> QED
    BY <2>3 DEF n
<1> QED
  BY <1>3 DEF JoinAt

LEMMA MergedAreLines ==
  ASSUME NEW a \in Seq(Nat), NEW b \in Seq(Nat)
  PROVE  TryMergeLines(a, b) \in Seq(Nat)
<1>1. CASE Overlaps(a, b)
  BY <1>1, JoinedAreLines DEF TryMergeLines
<1>2. CASE ~Overlaps(a, b) /\ Overlaps(b, a)
  BY <1>2, JoinedAreLines DEF TryMergeLines
<1>3. CASE ~Overlaps(a, b) /\ ~Overlaps(b, a)
  BY <1>3 DEF TryMergeLines
<1> QED
  BY <1>1, <1>2, <1>3

LEMMA SnippetIsAdded ==
  ASSUME NEW result \in Gathered, NEW x \in ItemType
  PROVE  AddSnippet(result, x) \in Gathered
<1> DEFINE partners == {i \in DOMAIN result : Joinable(result[i].lines, x.lines)}
<1>1. CASE partners = {}
  <2>1. Append(result, x) \in Gathered
    BY DEF Gathered
  <2> QED
    BY <1>1, <2>1 DEF AddSnippet
<1>2. CASE partners # {}
  <2>1. partners \in SUBSET Nat /\ partners \subseteq DOMAIN result
    BY PlacesOfSequence
  <2>2. Min(partners) \in DOMAIN result
    BY <1>2, <2>1, MinOfSome
  <2> DEFINE i == Min(partners)
             y == MergeInto(result[i], x)
  <2>3. result[i] \in ItemType
    BY <2>2, PlacesOfSequence
  <2>4. AddSnippet(result, x) = [result EXCEPT ![i] = y]
    BY <1>2 DEF AddSnippet
  <2> HIDE DEF i
  <2>5. y \in ItemType
    <3>1. TryMergeLines(result[i].lines, x.lines) \in Seq(Nat)
      BY <2>3, MergedAreLines DEF ItemType
    <3> DEFINE r == result[i]
    <3> HIDE DEF r
    <3> QED
      BY <2>3, <3>1 DEF MergeInto, ItemType, r
  <2> HIDE DEF y
  <2> QED
    BY <2>2, <2>4, <2>5 DEF Gathered, i
<1> QED
  BY <1>1, <1>2

-----------------------------------------------------------------------------
(* Snippets merged one after the other. *)

Added(s, g, R) == IF R = {} THEN <<>> ELSE AddSnippet(g[R \ {Max(R)}], s[Max(R)])

LEMMA LastOfPlaces ==
  ASSUME NEW s \in Gathered, NEW R \in SUBSET DOMAIN s, R # {}
  PROVE  /\ Max(R) \in R /\ s[Max(R)] \in ItemType
         /\ R \ {Max(R)} \in SUBSET DOMAIN s
         /\ Cardinality(R \ {Max(R)}) = Cardinality(R) - 1
<1>1. DOMAIN s = 1 .. Len(s) /\ Len(s) \in Nat /\ IsFiniteSet(DOMAIN s)
  BY PlacesOfSequence
<1>2. Max(R) \in R
  BY <1>1, MaxOfSome
<1>3. s[Max(R)] \in ItemType
  BY <1>2, PlacesOfSequence
<1>4. Cardinality(R \ {Max(R)}) = Cardinality(R) - 1
  BY <1>1, <1>2, SizesOfParts
<1> QED
  BY <1>2, <1>3, <1>4

LEMMA MergingExists ==
  ASSUME NEW s \in Gathered
  PROVE  \E g \in [SUBSET DOMAIN s -> Gathered] : g = [R \in SUBSET DOMAIN s |-> Added(s, g, R)]
<1> DEFINE T == DOMAIN s
           UpTo(n, g) == \A R \in SUBSET T : Cardinality(R) <= n => g[R] = Added(s, g, R)
           Reached == {n \in Nat : \E g \in [SUBSET T -> Gathered] : UpTo(n, g)}
<1>0. \A R \in SUBSET T :
        /\ Cardinality(R) \in Nat /\ Cardinality(R) <= Cardinality(T)
        /\ Cardinality(R) = 0 => R = {}
        /\ R # {} =>
             /\ Max(R) \in R /\ s[Max(R)] \in ItemType /\ R \ {Max(R)} \in SUBSET T
             /\ Cardinality(R \ {Max(R)}) = Cardinality(R) - 1
  BY LastOfPlaces, PlacesOfSequence, SizesOfParts
<1>e. <<>> \in Gathered
  BY DEF Gathered
<1>1. 0 \in Reached
  <2> DEFINE g == [R \in SUBSET T |-> <<>>]
  <2>1. ASSUME NEW R \in SUBSET T, Cardinality(R) <= 0
        PROVE  R = {}
    <3>1. Cardinality(R) \in Nat
      BY <1>0
    <3>2. Cardinality(R) = 0
      BY <2>1, <3>1
    <3> QED
      BY <1>0, <3>2
  <2>2. g \in [SUBSET T -> Gathered] /\ UpTo(0, g)
    BY <1>e, <2>1 DEF Added
  <2> QED
    BY <2>2
<1>2. ASSUME NEW n \in Reached
      PROVE  n + 1 \in Reached
  <2>1. PICK g \in [SUBSET T -> Gathered] : UpTo(n, g)
    OBVIOUS
  <2> DEFINE h == [R \in SUBSET T |-> IF Cardinality(R) <= n THEN g[R] ELSE Added(s, g, R)]
  <2>3. h \in [SUBSET T -> Gathered]
    <3> SUFFICES ASSUME NEW R \in SUBSET T
                 PROVE  g[R] \in Gathered /\ Added(s, g, R) \in Gathered
      OBVIOUS
    <3>1. CASE R = {}
      BY <1>e, <3>1 DEF Added
    <3>2. CASE R # {}
      <4>1. s[Max(R)] \in ItemType /\ g[R \ {Max(R)}] \in Gathered
        BY <1>0, <3>2
      <4>2. AddSnippet(g[R \ {Max(R)}], s[Max(R)]) \in Gathered
        BY <4>1, SnippetIsAdded
      <4> QED
        BY <3>2, <4>2 DEF Added
    <3> QED
      BY <3>1, <3>2
  <2>4. \A R \in SUBSET T : Cardinality(R) <= n + 1 => Added(s, h, R) = Added(s, g, R)
    <3> SUFFICES ASSUME NEW R \in SUBSET T, Cardinality(R) <= n + 1, R # {}
                 PROVE  h[R \ {Max(R)}] = g[R \ {Max(R)}]
      BY DEF Added
    <3>1. R \ {Max(R)} \in SUBSET T /\ Cardinality(R \ {Max(R)}) <= n
      BY <1>0
    <3> QED
      BY <3>1
  <2>5. UpTo(n + 1, h)
    BY <2>1, <2>4
  <2> HIDE DEF h
  <2> QED
    BY <2>3, <2>5
<1>3. Cardinality(T) \in Reached
  <2> HIDE DEF Reached
  <2>1. Reached \subseteq Nat
    BY DEF Reached
  <2>2. Reached = Nat
    BY <1>1, <1>2, <2>1, CountingUp
  <2>3. Cardinality(T) \in Nat
    BY <1>0
  <2> QED
    BY <2>2, <2>3
<1>4. PICK g \in [SUBSET T -> Gathered] : UpTo(Cardinality(T), g)
  BY <1>3
<1>5. \A R \in SUBSET T : g[R] = Added(s, g, R)
  BY <1>0, <1>4
<1>6. g = [R \in SUBSET T |-> Added(s, g, R)]
  BY <1>5
<1> QED
  BY <1>6

(* The fold is one of these functions; that it is a sequence of items needs *)
(* the induction once more.                                                 *)
LEMMA MergingIsOfItems ==
  ASSUME NEW s \in Gathered, NEW g, g = [R \in SUBSET DOMAIN s |-> Added(s, g, R)]
  PROVE  \A R \in SUBSET DOMAIN s : g[R] \in Gathered
<1> DEFINE T == DOMAIN s
           Done(n)  == \A R \in SUBSET T : Cardinality(R) = n => g[R] \in Gathered
           Reached  == {n \in Nat : Done(n)}
<1>0. \A R \in SUBSET T : g[R] = Added(s, g, R)
  OBVIOUS
<1>s. \A R \in SUBSET T : Cardinality(R) \in Nat /\ (Cardinality(R) = 0 => R = {})
  BY PlacesOfSequence, SizesOfParts
<1>l. \A R \in SUBSET T : R # {} =>
        /\ s[Max(R)] \in ItemType /\ R \ {Max(R)} \in SUBSET T
        /\ Cardinality(R \ {Max(R)}) = Cardinality(R) - 1
  BY LastOfPlaces
<1> HIDE DEF T
<1>1. Done(0)
  BY <1>0, <1>s DEF Added, Gathered
<1>2. ASSUME NEW n \in Nat, Done(n)
      PROVE  Done(n + 1)
  <2> SUFFICES ASSUME NEW R \in SUBSET T, Cardinality(R) = n + 1
               PROVE  g[R] \in Gathered
    OBVIOUS
  <2>1. R # {}
    <3>1. Cardinality({}) = 0
      BY FS_EmptySet
    <3>2. n + 1 # 0
      BY <1>2
    <3> QED
      BY <3>1, <3>2
  <2>2. /\ R \ {Max(R)} \in SUBSET T /\ Cardinality(R \ {Max(R)}) = n
        /\ s[Max(R)] \in ItemType
    BY <1>l, <2>1
  <2>3. g[R \ {Max(R)}] \in Gathered
    BY <1>2, <2>2
  <2> QED
    BY <1>0, <2>1, <2>2, <2>3, SnippetIsAdded DEF Added
<1>3. Reached = Nat
  <2> HIDE DEF Done
  <2>1. 0 \in Reached /\ \A n \in Reached : n + 1 \in Reached
    BY <1>1, <1>2
  <2> HIDE DEF Reached
  <2>2. Reached \in SUBSET Nat
    BY DEF Reached
  <2> QED
    BY <2>1, <2>2, CountingUp
<1> QED
  BY <1>3, <1>s DEF T

LEMMA SnippetsMerged ==
  ASSUME NEW s \in Gathered
  PROVE  FoldLeft(AddSnippet, <<>>, s) \in Gathered
<1> DEFINE g == CHOOSE g : g = [R \in SUBSET DOMAIN s |->
                  IF R = {} THEN <<>> ELSE AddSnippet(g[R \ {Max(R)}], s[Max(R)])]
<1>1. FoldLeft(AddSnippet, <<>>, s) = g[DOMAIN s]
  BY DEF FoldLeft, MapThenFoldSet
<1>2. PICK h : h = [R \in SUBSET DOMAIN s |-> Added(s, h, R)]
  BY MergingExists
<1>3. h = [R \in SUBSET DOMAIN s |->
             IF R = {} THEN <<>> ELSE AddSnippet(h[R \ {Max(R)}], s[Max(R)])]
  BY <1>2 DEF Added
<1>4. g = [R \in SUBSET DOMAIN s |->
             IF R = {} THEN <<>> ELSE AddSnippet(g[R \ {Max(R)}], s[Max(R)])]
  BY <1>3
<1> HIDE DEF g
<1>5. g = [R \in SUBSET DOMAIN s |-> Added(s, g, R)]
  BY <1>4 DEF Added
<1>6. g[DOMAIN s] \in Gathered
  BY <1>5, MergingIsOfItems
<1> QED
  BY <1>1, <1>6

LEMMA Deduplicated ==
  ASSUME NEW s \in Gathered
  PROVE  Deduplicate(s) \in Gathered
<1> DEFINE d == DedupByKey(s)
           others == {i \in DOMAIN d : ~(d[i].source = "file")}
           files  == {i \in DOMAIN d : d[i].source = "file"}
           x == Arranged(d, others, AsTheyCome(others))
           y == Arranged(d, files, AsTheyCome(files))
           z == SortStable(y, LAMBDA a, b : Len(a.lines) > Len(b.lines))
<1>1. d \in Gathered
  BY NoDuplicates
<1>2. Deduplicate(s) = x \o FoldLeft(AddSnippet, <<>>, z)
  BY DEF Deduplicate, Selected, MergeSnippets
<1> HIDE DEF d
<1>3. /\ others \in SUBSET Nat /\ IsFiniteSet(others) /\ \A i \in others : d[i] \in ItemType
      /\ files \in SUBSET Nat /\ IsFiniteSet(files) /\ \A i \in files : d[i] \in ItemType
  BY <1>1, PlacesOfSequence, FS_Subset
<1> HIDE DEF others, files
<1>4. x \in Gathered /\ y \in Gathered
  BY <1>3, TakenInPlace
<1> HIDE DEF x, y
<1>5. z \in Gathered
  BY <1>4, SortedByLength
<1> HIDE DEF z
<1>6. FoldLeft(AddSnippet, <<>>, z) \in Gathered
  BY <1>5, SnippetsMerged
<1> QED
  BY <1>2, <1>4, <1>6 DEF Gathered

(* What the callers gather are items. *)
LEMMA ItemsAreItems ==
  ASSUME NEW key \in Keys, NEW priority \in Nat, NEW source \in Sources, NEW pinned \in BOOLEAN,
         NEW relevance \in Nat, NEW age \in Ages \cup {0}, NEW estimate \in Nat,
         NEW lines \in Seq(Nat)
  PROVE  Item(key, priority, source, pinned, relevance, age, estimate, lines) \in ItemType
BY DEF Item, ItemType

LEMMA ObservationsAreItems ==
  ASSUME NEW key \in Keys, NEW age \in Ages, NEW x \in Observation(key, age)
  PROVE  x \in ItemType
<1>1. Sizes \subseteq Nat /\ Relevances \subseteq Nat /\ <<>> \in Seq(Nat)
  BY AmountsAssumption
<1>2. ASSUME NEW r \in Relevances, NEW n \in Sizes, x = Retrieved(key, r, age, n)
      PROVE  x \in ItemType
  <2>1. r \in Nat /\ n \in Nat /\ 70 \in Nat
    BY <1>1
  <2> QED
    BY <1>1, <1>2, <2>1, ItemsAreItems DEF Retrieved, Sources
<1>3. ASSUME NEW n \in Sizes, x = ToolOutput(key, age, n)
      PROVE  x \in ItemType
  <2>1. n \in Nat /\ 50 \in Nat /\ 24 \in Nat
    BY <1>1
  <2> QED
    BY <1>1, <1>3, <2>1, ItemsAreItems DEF ToolOutput, Sources
<1> QED
  BY <1>2, <1>3 DEF Observation

LEMMA ContextIsGathered ==
  ASSUME NEW now \in Ages, NEW old \in Ages, NEW recent \in Ages, NEW size \in Sizes,
         NEW older \in Observation("first", old), NEW newer \in Observation("second", recent),
         NEW notes \in {<<>>} \cup {<<n>> : n \in Sizes}
  PROVE  BuildContext(now, 1, size, older, newer, notes) \in Gathered
<1>1. Sizes \subseteq Nat /\ <<>> \in Seq(Nat) /\ size \in Nat
  BY AmountsAssumption
<1>2. older \in ItemType /\ newer \in ItemType
  BY ObservationsAreItems DEF Keys
<1>3. InOrder(older, newer) \in Seq(ItemType)
  <2>1. <<older, newer>> \in Seq(ItemType) /\ <<newer, older>> \in Seq(ItemType)
    BY <1>2
  <2> QED
    BY <2>1 DEF InOrder
<1>4. SystemPrompt(now, 1) \in ItemType /\ UserRequest(now, size) \in ItemType
  <2>1. SystemPrompt(now, 1) \in ItemType
    BY <1>1, ItemsAreItems DEF SystemPrompt, Keys, Sources
  <2>2. UserRequest(now, size) \in ItemType
    BY <1>1, ItemsAreItems DEF UserRequest, Keys, Sources
  <2> QED
    BY <2>1, <2>2
<1>5. [i \in 1 .. Len(notes) |-> PinnedNote(notes[i])] \in Seq(ItemType)
  <2>1. Len(notes) \in Nat /\ \A i \in 1 .. Len(notes) : notes[i] \in Nat
    <3>1. CASE notes = <<>>
      BY <3>1
    <3>2. CASE notes # <<>>
      <4>1. PICK n \in Sizes : notes = <<n>>
        BY <3>2
      <4> QED
        BY <1>1, <4>1
    <3> QED
      BY <3>1, <3>2
  <2>2. \A i \in 1 .. Len(notes) : PinnedNote(notes[i]) \in ItemType
    BY <1>1, <2>1, ItemsAreItems DEF PinnedNote, Keys, Sources
  <2> QED
    BY <2>1, <2>2
<1>6. <<SystemPrompt(now, 1), UserRequest(now, size)>> \in Seq(ItemType)
  BY <1>4
<1> QED
  BY <1>3, <1>5, <1>6 DEF BuildContext, Gathered

LEMMA SnippetsAreGathered ==
  ASSUME NEW a \in 1 .. FileLines, NEW b \in 1 .. FileLines,
         NEW c \in 1 .. FileLines, NEW d \in 1 .. FileLines, a <= b, c <= d
  PROVE  <<Snippet("one", a, b), Snippet("two", c, d)>> \in Gathered
<1>1. ASSUME NEW key \in Keys, NEW first \in 1 .. FileLines,
             NEW last \in 1 .. FileLines, first <= last
      PROVE  Snippet(key, first, last) \in ItemType
  <2>1. first \in Nat /\ last \in Nat
    BY AmountsAssumption
  <2>2. [i \in 1 .. last - first + 1 |-> first + i - 1] \in Seq(Nat)
    <3>1. last - first + 1 \in Nat
      BY <1>1, <2>1
    <3>2. \A i \in 1 .. last - first + 1 : first + i - 1 \in Nat
      BY <2>1
    <3> QED
      BY <3>1, <3>2
  <2> QED
    BY <2>2, ItemsAreItems DEF Snippet, Sources
<1>2. Snippet("one", a, b) \in ItemType /\ Snippet("two", c, d) \in ItemType
  BY <1>1 DEF Keys
<1> QED
  BY <1>2 DEF Gathered

-----------------------------------------------------------------------------
(* What items cost. *)

TokensAt(s) == [i \in DOMAIN s |-> Tokens(s[i])]

LEMMA CostIsSum ==
  ASSUME NEW s \in Gathered
  PROVE  /\ Amounts(TokensAt(s), DOMAIN s)
         /\ \A P : Cost(s, P) = SumOf(TokensAt(s), P)
<1>1. IsFiniteSet(DOMAIN s) /\ \A i \in DOMAIN s : Tokens(s[i]) \in Nat
  BY PlacesOfSequence, TokensAreNatural
<1> QED
  BY <1>1 DEF Amounts, TokensAt, Cost, SumOf

LEMMA CostGrows ==
  ASSUME NEW s \in Gathered, NEW P \in SUBSET DOMAIN s, NEW Q \in SUBSET DOMAIN s, P \subseteq Q
  PROVE  Cost(s, P) \in Nat /\ Cost(s, Q) \in Nat /\ Cost(s, P) <= Cost(s, Q)
<1> DEFINE f == TokensAt(s)
<1>1. Amounts(f, DOMAIN s) /\ Cost(s, P) = SumOf(f, P) /\ Cost(s, Q) = SumOf(f, Q)
  BY CostIsSum
<1> HIDE DEF f
<1>2. SumOf(f, P) \in Nat /\ SumOf(f, Q) \in Nat
  BY <1>1, SumUnfolds
<1>3. SumOf(f, P) <= SumOf(f, Q)
  BY <1>1, SumGrows
<1> QED
  BY <1>1, <1>2, <1>3

(* One item more, and what its tokens add. *)
LEMMA CostAppends ==
  ASSUME NEW s \in Gathered, NEW x \in ItemType, NEW P \in SUBSET DOMAIN s
  PROVE  /\ Cost(Append(s, x), P) = Cost(s, P)
         /\ Cost(Append(s, x), P \cup {Len(s) + 1}) = Cost(s, P) + Tokens(x)
<1> DEFINE t == Append(s, x)
           f == TokensAt(t)
           n == Len(s) + 1
<1>1. /\ t \in Gathered /\ DOMAIN s = 1 .. Len(s) /\ Len(s) \in Nat
      /\ DOMAIN t = 1 .. n /\ t[n] = x /\ \A i \in DOMAIN s : t[i] = s[i]
  BY PlacesOfSequence DEF Gathered
<1>2. P \in SUBSET DOMAIN t /\ n \in DOMAIN t \ P
  BY <1>1
<1>3. f[n] = Tokens(x) /\ \A i \in P : TokensAt(s)[i] = f[i]
  BY <1>1, <1>2 DEF TokensAt
<1> HIDE DEF t, n, f
<1>4. Amounts(f, DOMAIN t) /\ Cost(t, P) = SumOf(f, P) /\ Cost(t, P \cup {n}) = SumOf(f, P \cup {n})
  BY <1>1, CostIsSum DEF f
<1>5. SumOf(TokensAt(s), P) = SumOf(f, P)
  BY <1>2, <1>3, <1>4, SumUnfolds
<1>6. SumOf(f, P \cup {n}) = SumOf(f, P) + f[n]
  BY <1>2, <1>4, SumAdds
<1> QED
  BY <1>3, <1>4, <1>5, <1>6, CostIsSum DEF t, n

-----------------------------------------------------------------------------
(* The packing. *)

WindowTypes ==
  /\ items \in Gathered /\ queue \in Gathered
  /\ included \in Gathered /\ excluded \in Gathered
  /\ budget \in Nat
  /\ DOMAIN caps \subseteq Categories /\ \A c \in DOMAIN caps : caps[c] \in Nat
  /\ total \in Nat /\ usage \in [Categories -> Nat]

(* What is still queued is in order, and outranks nothing that is packed. *)
InTurn ==
  /\ phase = "gathered" => included = <<>>
  /\ \A k, l \in DOMAIN queue : k < l => ~Outranks(queue[l], queue[k])
  /\ \A i \in DOMAIN included, k \in DOMAIN queue : ~Outranks(queue[k], included[i])

(* The counters are the cost of what is packed, and within the budgets. *)
Counted ==
  /\ total = Cost(included, DOMAIN included)
  /\ \A c \in DOMAIN caps : usage[c] = Cost(included, Of(included, c))
  /\ total <= budget
  /\ \A c \in DOMAIN caps : usage[c] <= caps[c]

(* LeftOutForBetter of one item. *)
LeftOut(s, item) ==
  LET ahead == {i \in DOMAIN s : ~Outranks(item, s[i])}
  IN  \/ Cost(s, ahead) + Tokens(item) > budget
      \/ /\ Capped(item)
         /\ Cost(s, ahead \cap Of(s, item.source)) + Tokens(item) > caps[item.source]

AllLeftOut == \A n \in DOMAIN excluded : LeftOut(included, excluded[n])

WindowInv == WindowTypes /\ InTurn /\ Counted /\ AllLeftOut

LEMMA NothingCosts ==
  Cost(<<>>, {}) = 0 /\ Of(<<>>, "file") = {} /\ DOMAIN <<>> = {}
<1>1. <<>> \in Gathered /\ DOMAIN <<>> = {}
  BY DEF Gathered
<1>2. Amounts(TokensAt(<<>>), {}) /\ Cost(<<>>, {}) = SumOf(TokensAt(<<>>), {})
  BY <1>1, CostIsSum
<1>3. SumOf(TokensAt(<<>>), {}) = 0
  BY <1>2, SumUnfolds
<1> QED
  BY <1>1, <1>2, <1>3 DEF Of

LEMMA QueueTaken ==
  ASSUME NEW q \in Gathered, q # <<>>
  PROVE  /\ Head(q) = q[1] /\ Head(q) \in ItemType /\ 1 \in DOMAIN q
         /\ Tail(q) \in Gathered
         /\ \A k \in DOMAIN Tail(q) : /\ k \in Nat /\ k + 1 \in DOMAIN q /\ 1 < k + 1
                                      /\ Tail(q)[k] = q[k + 1]
<1> USE DEF Gathered
<1>1. Len(q) \in Nat /\ Len(q) > 0 /\ DOMAIN q = 1 .. Len(q)
  OBVIOUS
<1>2. Head(q) = q[1] /\ Head(q) \in ItemType
  BY <1>1
<1>3. Tail(q) \in Gathered /\ Len(Tail(q)) = Len(q) - 1 /\ DOMAIN Tail(q) = 1 .. Len(q) - 1
  BY <1>1
<1>4. \A k \in 1 .. Len(q) - 1 : k \in Nat /\ Tail(q)[k] = q[k + 1]
  BY <1>1
<1> QED
  BY <1>1, <1>2, <1>3, <1>4

LEMMA WindowStarts == ContextInit \/ SnippetInit => WindowInv
<1> SUFFICES ASSUME ContextInit \/ SnippetInit PROVE WindowInv
  OBVIOUS
<1>1. NothingPacked /\ budget \in Nat
  BY AmountsAssumption DEF ContextInit, SnippetInit
<1>2. items \in Gathered
  <2>1. CASE ContextInit
    <3>1. PICK now \in Ages, size \in Sizes, notes \in {<<>>} \cup {<<n>> : n \in Sizes} :
            \E old \in {a \in Ages : a <= now} : \E recent \in {a \in Ages : a <= old} :
            \E older \in Observation("first", old), newer \in Observation("second", recent) :
              items = BuildContext(now, 1, size, older, newer, notes)
      BY <2>1 DEF ContextInit
    <3>2. PICK old \in Ages, recent \in Ages :
            \E older \in Observation("first", old), newer \in Observation("second", recent) :
              items = BuildContext(now, 1, size, older, newer, notes)
      BY <3>1
    <3> QED
      BY <3>2, ContextIsGathered
  <2>2. CASE SnippetInit
    BY <2>2, SnippetsAreGathered DEF SnippetInit
  <2> QED
    BY <2>1, <2>2
<1>3. DOMAIN caps \subseteq Categories /\ \A c \in DOMAIN caps : caps[c] \in Nat
  <2>1. CASE caps \in Caps
    BY <2>1, CapsAssumption
  <2>2. CASE caps = [c \in {} |-> 0]
    BY <2>2
  <2> QED
    BY <2>1, <2>2 DEF ContextInit, SnippetInit
<1>4. WindowTypes
  BY <1>1, <1>2, <1>3 DEF WindowTypes, NothingPacked, Gathered
<1>5. InTurn
  BY <1>1 DEF InTurn, NothingPacked
<1>6. Counted
  <2>1. \A c : Of(<<>>, c) = {}
    BY DEF Of
  <2>2. \A c \in DOMAIN caps : usage[c] = 0 /\ caps[c] >= 0
    BY <1>1, <1>3 DEF NothingPacked
  <2> QED
    BY <1>1, <2>1, <2>2, NothingCosts DEF Counted, NothingPacked
<1>7. AllLeftOut
  BY <1>1 DEF AllLeftOut, NothingPacked
<1> QED
  BY <1>4, <1>5, <1>6, <1>7 DEF WindowInv

(* Packing another item leaves what was left out no more room. *)
LEMMA NoMoreRoom ==
  ASSUME NEW s \in Gathered, NEW x \in ItemType, NEW item \in ItemType, LeftOut(s, item),
         budget \in Nat, DOMAIN caps \subseteq Categories, \A c \in DOMAIN caps : caps[c] \in Nat
  PROVE  LeftOut(Append(s, x), item)
<1> DEFINE t == Append(s, x)
           ahead(u) == {i \in DOMAIN u : ~Outranks(item, u[i])}
<1>1. t \in Gathered /\ DOMAIN s \subseteq DOMAIN t /\ \A i \in DOMAIN s : t[i] = s[i]
  BY PlacesOfSequence DEF Gathered
<1> HIDE DEF t
<1>2. /\ ahead(s) \in SUBSET DOMAIN s /\ ahead(s) \subseteq ahead(t)
      /\ ahead(t) \in SUBSET DOMAIN t /\ ahead(s) \in SUBSET DOMAIN t
  BY <1>1
<1>3. \A c : /\ ahead(s) \cap Of(s, c) \subseteq ahead(t) \cap Of(t, c)
             /\ ahead(t) \cap Of(t, c) \in SUBSET DOMAIN t
             /\ ahead(s) \cap Of(s, c) \in SUBSET DOMAIN s
             /\ ahead(s) \cap Of(s, c) \in SUBSET DOMAIN t
  BY <1>1, <1>2 DEF Of
<1> HIDE DEF ahead
<1>4. ASSUME NEW P \in SUBSET DOMAIN s, NEW Q \in SUBSET DOMAIN t, P \subseteq Q
      PROVE  Cost(s, P) \in Nat /\ Cost(t, Q) \in Nat /\ Cost(s, P) <= Cost(t, Q)
  <2>1. Cost(t, P) = Cost(s, P)
    BY CostAppends DEF t
  <2>2. P \in SUBSET DOMAIN t
    BY <1>1
  <2>3. Cost(t, P) \in Nat /\ Cost(t, Q) \in Nat /\ Cost(t, P) <= Cost(t, Q)
    BY <1>1, <1>4, <2>2, CostGrows
  <2> QED
    BY <2>1, <2>3
<1>5. /\ Cost(s, ahead(s)) \in Nat /\ Cost(t, ahead(t)) \in Nat
      /\ Cost(s, ahead(s)) <= Cost(t, ahead(t))
  BY <1>2, <1>4
<1>6. LET c == item.source IN
      /\ Cost(s, ahead(s) \cap Of(s, c)) \in Nat /\ Cost(t, ahead(t) \cap Of(t, c)) \in Nat
      /\ Cost(s, ahead(s) \cap Of(s, c)) <= Cost(t, ahead(t) \cap Of(t, c))
  BY <1>3, <1>4
<1>7. Tokens(item) \in Nat
  BY TokensAreNatural
<1>8. CASE Cost(s, ahead(s)) + Tokens(item) > budget
  <2>1. Cost(t, ahead(t)) + Tokens(item) > budget
    BY <1>5, <1>7, <1>8
  <2> QED
    BY <2>1 DEF LeftOut, ahead, t
<1>9. CASE Capped(item) /\ Cost(s, ahead(s) \cap Of(s, item.source)) + Tokens(item) > caps[item.source]
  <2>1. caps[item.source] \in Nat
    BY <1>9 DEF Capped
  <2>2. Cost(t, ahead(t) \cap Of(t, item.source)) + Tokens(item) > caps[item.source]
    BY <1>6, <1>7, <1>9, <2>1
  <2> QED
    BY <1>9, <2>2 DEF LeftOut, ahead, t
<1> QED
  BY <1>8, <1>9 DEF LeftOut, ahead

LEMMA BuildQueueKeeps == WindowInv /\ BuildQueue => WindowInv'
<1> SUFFICES ASSUME WindowInv, BuildQueue PROVE WindowInv'
  OBVIOUS
<1> USE DEF WindowInv
<1>1. /\ queue' = PackingOrder(Deduplicate(items)) /\ phase' = "packing"
      /\ included = <<>>
      /\ UNCHANGED <<items, budget, caps, included, excluded, total, usage>>
  BY DEF BuildQueue, InTurn
<1>2. /\ queue' \in Gathered
      /\ \A k, l \in DOMAIN queue' : k < l => ~Outranks(queue'[l], queue'[k])
  BY <1>1, Deduplicated, PackedInOrder DEF WindowTypes
<1>3. WindowTypes'
  BY <1>1, <1>2 DEF WindowTypes
<1>4. InTurn'
  BY <1>1, <1>2 DEF InTurn
<1>5. Counted' /\ AllLeftOut'
  BY <1>1 DEF Counted, AllLeftOut, Cost, Of, LeftOut, Capped
<1> QED
  BY <1>3, <1>4, <1>5

LEMMA IncludeKeeps == WindowInv /\ Include => WindowInv'
<1> SUFFICES ASSUME WindowInv, Include PROVE WindowInv'
  OBVIOUS
<1> USE DEF WindowInv
<1> DEFINE x == Head(queue)
           n == Len(included) + 1
<1>1. /\ queue # <<>> /\ phase = "packing" /\ Fits(x)
      /\ included' = Append(included, x) /\ queue' = Tail(queue)
      /\ total' = total + Tokens(x)
      /\ usage' = [c \in Categories |-> usage[c] + IF x.source = c THEN Tokens(x) ELSE 0]
      /\ UNCHANGED <<items, budget, caps, phase, excluded>>
  BY DEF Include
<1>2. /\ x \in ItemType /\ x = queue[1] /\ 1 \in DOMAIN queue
      /\ Tail(queue) \in Gathered
      /\ \A k \in DOMAIN Tail(queue) : /\ k \in Nat /\ k + 1 \in DOMAIN queue /\ 1 < k + 1
                                       /\ Tail(queue)[k] = queue[k + 1]
  BY <1>1, QueueTaken DEF WindowTypes
<1>3. Tokens(x) \in Nat
  BY <1>2, TokensAreNatural
<1>4. /\ included' \in Gathered
      /\ DOMAIN included' = DOMAIN included \cup {n} /\ n \notin DOMAIN included
      /\ included'[n] = x /\ \A i \in DOMAIN included : included'[i] = included[i]
  BY <1>1, <1>2 DEF WindowTypes, Gathered
<1> HIDE DEF x, n
<1>5. WindowTypes'
  <2>1. usage' \in [Categories -> Nat]
    BY <1>1, <1>3 DEF WindowTypes
  <2> QED
    BY <1>1, <1>2, <1>3, <1>4, <2>1 DEF WindowTypes
<1>6. InTurn'
  <2>1. ASSUME NEW k \in DOMAIN queue', NEW l \in DOMAIN queue', k < l
        PROVE  ~Outranks(queue'[l], queue'[k])
    <3>1. k + 1 < l + 1 /\ k + 1 \in DOMAIN queue /\ l + 1 \in DOMAIN queue
      BY <1>1, <1>2, <2>1
    <3> QED
      BY <1>1, <1>2, <3>1 DEF InTurn
  <2>2. ASSUME NEW i \in DOMAIN included', NEW k \in DOMAIN queue'
        PROVE  ~Outranks(queue'[k], included'[i])
    <3>1. k + 1 \in DOMAIN queue /\ 1 < k + 1 /\ queue'[k] = queue[k + 1]
      BY <1>1, <1>2
    <3>2. CASE i = n
      BY <1>2, <1>4, <3>1, <3>2 DEF InTurn
    <3>3. CASE i \in DOMAIN included
      BY <1>4, <3>1, <3>3 DEF InTurn
    <3> QED
      BY <1>4, <3>2, <3>3
  <2>3. phase' # "gathered"
    BY <1>1
  <2> QED
    BY <2>1, <2>2, <2>3 DEF InTurn
<1>7. Counted'
  <2>0. \A P \in SUBSET DOMAIN included :
          /\ Cost(included', P) = Cost(included, P)
          /\ Cost(included', P \cup {n}) = Cost(included, P) + Tokens(x)
    BY <1>1, <1>2, CostAppends DEF WindowTypes, n
  <2>1. total' = Cost(included', DOMAIN included')
    BY <1>1, <1>4, <2>0 DEF Counted
  <2>2. total' <= budget'
    BY <1>1 DEF Fits
  <2>3. ASSUME NEW c \in DOMAIN caps'
        PROVE  usage'[c] = Cost(included', Of(included', c)) /\ usage'[c] <= caps'[c]
    <3>1. c \in DOMAIN caps /\ c \in Categories /\ caps[c] \in Nat /\ usage[c] \in Nat
      BY <1>1, <2>3 DEF WindowTypes
    <3>2. usage[c] = Cost(included, Of(included, c)) /\ usage[c] <= caps[c]
      BY <3>1 DEF Counted
    <3>3. Of(included, c) \in SUBSET DOMAIN included
      BY DEF Of
    <3>4. CASE x.source = c
      <4>1. Of(included', c) = Of(included, c) \cup {n}
        BY <1>4, <3>4 DEF Of
      <4>2. usage'[c] = usage[c] + Tokens(x)
        BY <1>1, <3>1, <3>4
      <4>3. usage[c] + Tokens(x) <= caps[c]
        BY <1>1, <3>1, <3>4 DEF Fits, Capped
      <4> QED
        BY <1>1, <2>0, <3>2, <3>3, <4>1, <4>2, <4>3
    <3>5. CASE x.source # c
      <4>1. Of(included', c) = Of(included, c)
        BY <1>4, <3>5 DEF Of
      <4>2. usage'[c] = usage[c]
        BY <1>1, <3>1, <3>5
      <4> QED
        BY <1>1, <2>0, <3>2, <3>3, <4>1, <4>2
    <3> QED
      BY <3>4, <3>5
  <2> QED
    BY <2>1, <2>2, <2>3 DEF Counted
<1>8. AllLeftOut'
  <2> SUFFICES ASSUME NEW m \in DOMAIN excluded
               PROVE  LeftOut(included, excluded[m])'
    BY <1>1 DEF AllLeftOut
  <2>1. excluded[m] \in ItemType /\ LeftOut(included, excluded[m])
    BY PlacesOfSequence DEF WindowTypes, AllLeftOut
  <2>2. LeftOut(Append(included, x), excluded[m])
    BY <1>2, <2>1, NoMoreRoom DEF WindowTypes
  <2> QED
    BY <1>1, <2>2 DEF LeftOut, Capped, Cost, Of
<1> QED
  BY <1>5, <1>6, <1>7, <1>8

LEMMA ExcludeKeeps == WindowInv /\ Exclude => WindowInv'
<1> SUFFICES ASSUME WindowInv, Exclude PROVE WindowInv'
  OBVIOUS
<1> USE DEF WindowInv
<1> DEFINE x == Head(queue)
<1>1. /\ queue # <<>> /\ phase = "packing" /\ ~Fits(x)
      /\ excluded' = Append(excluded, x) /\ queue' = Tail(queue)
      /\ UNCHANGED <<items, budget, caps, phase, included, total, usage>>
  BY DEF Exclude
<1>2. /\ x \in ItemType /\ x = queue[1] /\ 1 \in DOMAIN queue
      /\ Tail(queue) \in Gathered
      /\ \A k \in DOMAIN Tail(queue) : /\ k \in Nat /\ k + 1 \in DOMAIN queue /\ 1 < k + 1
                                       /\ Tail(queue)[k] = queue[k + 1]
  BY <1>1, QueueTaken DEF WindowTypes
<1>3. /\ excluded' \in Gathered
      /\ DOMAIN excluded' = DOMAIN excluded \cup {Len(excluded) + 1}
      /\ excluded'[Len(excluded) + 1] = x
      /\ \A i \in DOMAIN excluded : excluded'[i] = excluded[i]
  BY <1>1, <1>2 DEF WindowTypes, Gathered
<1> HIDE DEF x
<1>4. WindowTypes'
  BY <1>1, <1>2, <1>3 DEF WindowTypes
<1>5. InTurn'
  <2>1. ASSUME NEW k \in DOMAIN queue', NEW l \in DOMAIN queue', k < l
        PROVE  ~Outranks(queue'[l], queue'[k])
    <3>1. k + 1 < l + 1 /\ k + 1 \in DOMAIN queue /\ l + 1 \in DOMAIN queue
      BY <1>1, <1>2, <2>1
    <3> QED
      BY <1>1, <1>2, <3>1 DEF InTurn
  <2>2. ASSUME NEW i \in DOMAIN included', NEW k \in DOMAIN queue'
        PROVE  ~Outranks(queue'[k], included'[i])
    <3>1. k + 1 \in DOMAIN queue /\ queue'[k] = queue[k + 1] /\ i \in DOMAIN included
      BY <1>1, <1>2
    <3> QED
      BY <1>1, <3>1 DEF InTurn
  <2>3. phase' # "gathered"
    BY <1>1
  <2> QED
    BY <2>1, <2>2, <2>3 DEF InTurn
<1>6. Counted'
  BY <1>1 DEF Counted, Cost, Of
<1>7. LeftOut(included, x)
  <2> DEFINE ahead == {i \in DOMAIN included : ~Outranks(x, included[i])}
  <2>1. ahead = DOMAIN included
    BY <1>2 DEF InTurn
  <2>2. \A c : ahead \cap Of(included, c) = Of(included, c)
    BY <2>1 DEF Of
  <2>3. \/ total + Tokens(x) > budget
        \/ Capped(x) /\ usage[x.source] + Tokens(x) > caps[x.source]
    <3>1. Tokens(x) \in Nat /\ total \in Nat /\ budget \in Nat
      BY <1>2, TokensAreNatural DEF WindowTypes
    <3>2. CASE ~Capped(x)
      BY <1>1, <3>1, <3>2 DEF Fits
    <3>3. CASE Capped(x)
      <4>1. usage[x.source] \in Nat /\ caps[x.source] \in Nat
        BY <3>3 DEF Capped, WindowTypes
      <4> QED
        BY <1>1, <3>1, <3>3, <4>1 DEF Fits
    <3> QED
      BY <3>2, <3>3
  <2>4. total = Cost(included, ahead)
    BY <2>1 DEF Counted
  <2>5. Capped(x) => usage[x.source] = Cost(included, ahead \cap Of(included, x.source))
    BY <2>2 DEF Counted, Capped
  <2> QED
    BY <2>3, <2>4, <2>5 DEF LeftOut
<1>8. AllLeftOut'
  <2> SUFFICES ASSUME NEW m \in DOMAIN excluded'
               PROVE  LeftOut(included, excluded'[m])
    BY <1>1 DEF AllLeftOut, LeftOut, Capped, Cost, Of
  <2> QED
    BY <1>3, <1>7 DEF AllLeftOut
<1> QED
  BY <1>4, <1>5, <1>6, <1>8

LEMMA WindowRests == WindowInv /\ (FinishWindow \/ UNCHANGED contextVars) => WindowInv'
<1> SUFFICES ASSUME WindowInv, FinishWindow \/ UNCHANGED contextVars PROVE WindowInv'
  OBVIOUS
<1>1. /\ UNCHANGED <<items, budget, caps, queue, included, excluded, total, usage>>
      /\ phase' = phase \/ phase' = "built"
  BY DEF FinishWindow, contextVars
<1>2. WindowTypes' /\ InTurn'
  BY <1>1 DEF WindowInv, WindowTypes, InTurn
<1>3. Counted'
  BY <1>1 DEF WindowInv, Counted, Cost, Of
<1>4. AllLeftOut'
  BY <1>1 DEF WindowInv, AllLeftOut, LeftOut, Capped, Cost, Of
<1> QED
  BY <1>2, <1>3, <1>4 DEF WindowInv

(* Whatever is gathered, and whatever the budgets: the window is the best   *)
(* they have room for, at every step of its packing (BestThatFits).         *)
THEOREM WindowIsBest == ContextSpec => []BestThatFits
<1>1. ContextInit \/ SnippetInit => WindowInv
  BY WindowStarts
<1>2. WindowInv /\ [ContextNext]_contextVars => WindowInv'
  BY BuildQueueKeeps, IncludeKeeps, ExcludeKeeps, WindowRests DEF ContextNext
<1>3. WindowInv => BestThatFits
  <2> SUFFICES ASSUME WindowInv PROVE BestThatFits
    OBVIOUS
  <2>1. WithinBudgets
    BY DEF WindowInv, Counted, WithinBudgets
  <2>2. LeftOutForBetter
    BY DEF WindowInv, AllLeftOut, LeftOut, LeftOutForBetter
  <2> QED
    BY <2>1, <2>2 DEF BestThatFits
<1> QED
  BY <1>1, <1>2, <1>3, PTL DEF ContextSpec

-----------------------------------------------------------------------------
(* Greatest and least of finite sets of numbers. *)

LEMMA ImageIsFinite ==
  ASSUME NEW S, IsFiniteSet(S), NEW f
  PROVE  IsFiniteSet({f[x] : x \in S})
<1> DEFINE T == {f[x] : x \in S}
           g == [x \in S |-> f[x]]
<1>1. g \in [S -> T] /\ \A y \in T : \E x \in S : g[x] = y
  OBVIOUS
<1>2. g \in Surjection(S, T)
  BY <1>1 DEF Surjection
<1> QED
  BY <1>2, FS_Surjection

LEMMA GreatestOfSome ==
  ASSUME NEW S \in SUBSET Nat, IsFiniteSet(S), S # {}
  PROVE  Max(S) \in S /\ \A y \in S : y <= Max(S)
<1> DEFINE R == {p \in S \X S : p[1] > p[2]}
<1>1. \A i, j \in S : <<i, j>> \in R <=> i > j
  OBVIOUS
<1> HIDE DEF R
<1>2. StrictOrder(S, R)
  BY <1>1 DEF StrictOrder
<1>3. Cardinality(S) \in Nat /\ Cardinality(S) # 0
  BY FS_CardinalityType, FS_EmptySet
<1>4. PICK x \in S : Cardinality(Ahead(S, R, x)) = 0
  <2>1. 1 \in 1 .. Cardinality(S)
    BY <1>3
  <2>2. \A n \in 1 .. Cardinality(S) : \E x \in S : Cardinality(Ahead(S, R, x)) = n - 1
    BY <1>2, Ranks
  <2>3. \E x \in S : Cardinality(Ahead(S, R, x)) = 1 - 1
    BY <2>1, <2>2
  <2> QED
    BY <2>3
<1>5. Ahead(S, R, x) = {}
  BY <1>4, FS_Subset, FS_EmptySet DEF Ahead
<1>6. ASSUME NEW y \in S
      PROVE  y <= x
  <2>1. <<y, x>> \notin R
    BY <1>5 DEF Ahead
  <2>2. ~(y > x) /\ y \in Nat /\ x \in Nat
    BY <1>1, <2>1
  <2> QED
    BY <2>2
<1> QED
  BY <1>6 DEF Max

-----------------------------------------------------------------------------
(* The graph of a schedule. *)

(* The actions are known: what is not was refused. *)
Sorted == stage \in {"sorting", "cyclic", "scheduled"}

Wave(f, a) == IF dependsOn[a] = {} THEN 0 ELSE 1 + Max({f[b] : b \in dependsOn[a]})

Awaited(a) == dependsOn[a] \ DOMAIN levels

GraphInv ==
  /\ stage \in {"given", "duplicate", "unknown", "sorting", "cyclic", "scheduled"}
  /\ \A a \in Actions : dependsOn[a] \subseteq Actions \cup {Unlisted} /\ duration[a] \in Nat
  /\ Sorted => \A a \in Actions : dependsOn[a] \subseteq Actions
  /\ ~Sorted => levels = <<>>

(* A wave is taken of what all the dependencies of are taken. *)
LevelsInv ==
  /\ DOMAIN levels \subseteq Actions
  /\ \A a \in DOMAIN levels :
       dependsOn[a] \subseteq DOMAIN levels /\ levels[a] \in Nat /\ levels[a] = Wave(levels, a)

(* The queue has each of those once whose dependencies are all taken. *)
ReadyInv ==
  /\ ready \in Seq(Actions)
  /\ \A i \in DOMAIN ready : ready[i] \notin DOMAIN levels /\ Awaited(ready[i]) = {}
  /\ \A i, j \in DOMAIN ready : ready[i] = ready[j] => i = j
  /\ \A a \in Actions \ DOMAIN levels : Awaited(a) = {} => \E i \in DOMAIN ready : ready[i] = a

(* The counters of an action tell what it waits for, and the level it has   *)
(* when it waits for nothing.                                               *)
CountersInv ==
  \A a \in Actions :
    /\ inDegree[a] = Cardinality(Awaited(a))
    /\ predLevel[a] \in Nat
    /\ \A b \in dependsOn[a] \cap DOMAIN levels : levels[b] + 1 <= predLevel[a]
    /\ \/ predLevel[a] = 0 /\ dependsOn[a] \cap DOMAIN levels = {}
       \/ \E b \in dependsOn[a] \cap DOMAIN levels : predLevel[a] = levels[b] + 1

SortInv ==
  /\ GraphInv
  /\ Sorted => LevelsInv /\ ReadyInv /\ CountersInv
  /\ stage = "cyclic" => ready = <<>> /\ Unsorted # {}
  /\ stage = "scheduled" => Unsorted = {}

LEMMA GraphIsFinite ==
  ASSUME GraphInv, Sorted, NEW a \in Actions
  PROVE  /\ IsFiniteSet(dependsOn[a]) /\ IsFiniteSet(Awaited(a))
         /\ Awaited(a) \subseteq Actions /\ a \in Nat
BY ActionsAssumption, FS_Subset DEF GraphInv, Awaited

(* Each of S once. *)
Lists(f, S) ==
  /\ f \in Seq(S) /\ DOMAIN f = 1 .. Len(f) /\ Len(f) \in Nat
  /\ \A i, j \in DOMAIN f : f[i] = f[j] => i = j
  /\ \A x \in S : \E i \in DOMAIN f : f[i] = x

LEMMA AllOfThemInSequence ==
  ASSUME NEW S, IsFiniteSet(S), NEW f \in SetToSeqs(S)
  PROVE  Lists(f, S)
<1> DEFINE D == 1 .. Cardinality(S)
<1>1. Cardinality(S) \in Nat /\ f \in [D -> S] /\ \A i, j \in D : i # j => f[i] # f[j]
  BY FS_CardinalityType DEF SetToSeqs
<1>2. f \in Injection(D, S) /\ Cardinality(D) = Cardinality(S)
  <2>1. \A i, j \in D : f[i] = f[j] => i = j
    BY <1>1
  <2>2. f \in Injection(D, S)
    BY <1>1, <2>1 DEF Injection, IsInjective
  <2>3. Cardinality(D) = Cardinality(S)
    BY <1>1, FS_Interval
  <2> QED
    BY <2>2, <2>3
<1>3. f \in Surjection(D, S)
  BY <1>2, FS_Injection
<1>4. \A x \in S : \E i \in D : f[i] = x
  BY <1>3 DEF Surjection
<1>5. f \in Seq(S) /\ DOMAIN f = D /\ Len(f) = Cardinality(S)
  BY <1>1
<1> QED
  BY <1>1, <1>4, <1>5 DEF Lists

LEMMA SortStarts == ScheduleInit => SortInv
<1> SUFFICES ASSUME ScheduleInit PROVE SortInv
  OBVIOUS
<1>1. \A a \in Actions : dependsOn[a] \subseteq Actions \cup {Unlisted} /\ duration[a] \in Nat
  BY ActionsAssumption, GraphsAssumption DEF ScheduleInit
<1> QED
  BY <1>1 DEF ScheduleInit, NothingScheduled, SortInv, GraphInv, Sorted

LEMMA RejectKeeps == SortInv /\ Reject => SortInv'
BY DEF SortInv, GraphInv, Sorted, Reject, given

LEMMA PrepareKeeps == SortInv /\ Prepare => SortInv'
<1> SUFFICES ASSUME SortInv, Prepare PROVE SortInv'
  OBVIOUS
<1> DEFINE roots == {a \in Actions : dependsOn[a] = {}}
<1>1. /\ levels = <<>> /\ levels' = <<>> /\ DOMAIN levels' = {}
      /\ dependsOn' = dependsOn /\ duration' = duration /\ stage' = "sorting"
      /\ \A a \in Actions : dependsOn[a] \subseteq Actions /\ duration[a] \in Nat
      /\ inDegree' = [a \in Actions |-> Cardinality(dependsOn[a])]
      /\ predLevel' = [a \in Actions |-> 0] /\ ready' \in SetToSeqs(roots)
  BY DEF SortInv, GraphInv, Sorted, Prepare, given
<1>2. \A a : Awaited(a)' = dependsOn[a]
  BY <1>1 DEF Awaited
<1>3. GraphInv'
  BY <1>1 DEF GraphInv, Sorted
<1>4. LevelsInv'
  BY <1>1 DEF LevelsInv
<1>5. ReadyInv'
  <2>1. IsFiniteSet(roots) /\ roots \subseteq Actions
    BY ActionsAssumption, FS_Subset
  <2>2. /\ ready' \in Seq(roots) /\ DOMAIN ready' = 1 .. Len(ready')
        /\ \A i, j \in DOMAIN ready' : ready'[i] = ready'[j] => i = j
        /\ \A x \in roots : \E i \in DOMAIN ready' : ready'[i] = x
    <3>1. Lists(ready', roots)
      BY <1>1, <2>1, AllOfThemInSequence
    <3> HIDE DEF roots
    <3> QED
      BY <3>1 DEF Lists
  <2>3. \A i \in DOMAIN ready' : ready'[i] \in roots
    BY <2>2
  <2>4. ready' \in Seq(Actions)
    BY <2>1, <2>2
  <2>5. \A i \in DOMAIN ready' : ready'[i] \notin DOMAIN levels' /\ Awaited(ready[i])' = {}
    BY <1>1, <1>2, <2>3
  <2> QED
    BY <1>2, <2>2, <2>4, <2>5 DEF ReadyInv
<1>6. CountersInv'
  BY <1>1, <1>2 DEF CountersInv
<1> QED
  BY <1>1, <1>3, <1>4, <1>5, <1>6 DEF SortInv

LEMMA PopKeepsLevels ==
  ASSUME SortInv, Pop
  PROVE  /\ LevelsInv' /\ Head(ready) \in Actions \ DOMAIN levels
         /\ DOMAIN levels' = DOMAIN levels \cup {Head(ready)}
         /\ levels'[Head(ready)] = predLevel[Head(ready)]
         /\ \A x \in DOMAIN levels : levels'[x] = levels[x]
<1> DEFINE a == Head(ready)
<1>1. LevelsInv /\ ReadyInv /\ CountersInv /\ GraphInv /\ Sorted
  BY DEF SortInv, Sorted, Pop
<1>2. /\ a \in Actions /\ a \notin DOMAIN levels /\ dependsOn[a] \subseteq DOMAIN levels
  <2>1. a = ready[1] /\ 1 \in DOMAIN ready /\ a \in Actions
    BY <1>1 DEF Pop, ReadyInv
  <2> QED
    BY <1>1, <2>1 DEF ReadyInv, Awaited
<1>3. levels' = With(levels, a, predLevel[a]) /\ dependsOn' = dependsOn
  BY DEF Pop, given
<1> HIDE DEF a
<1>4. /\ DOMAIN levels' = DOMAIN levels \cup {a} /\ levels'[a] = predLevel[a]
      /\ \A x \in DOMAIN levels : levels'[x] = levels[x]
  BY <1>2, <1>3 DEF With
<1>5. \A x \in Actions : dependsOn[x] \subseteq DOMAIN levels => Wave(levels, x)' = Wave(levels, x)
  <2> SUFFICES ASSUME NEW x \in Actions, dependsOn[x] \subseteq DOMAIN levels
               PROVE  Wave(levels, x)' = Wave(levels, x)
    OBVIOUS
  <2>1. {levels'[b] : b \in dependsOn[x]} = {levels[b] : b \in dependsOn[x]}
    BY <1>4
  <2> QED
    BY <1>3, <2>1 DEF Wave
<1>6. predLevel[a] \in Nat /\ predLevel[a] = Wave(levels, a)
  <2>1. /\ predLevel[a] \in Nat
        /\ \A b \in dependsOn[a] : levels[b] \in Nat /\ levels[b] + 1 <= predLevel[a]
        /\ \/ predLevel[a] = 0 /\ dependsOn[a] = {}
           \/ \E b \in dependsOn[a] : predLevel[a] = levels[b] + 1
    <3>1. dependsOn[a] \cap DOMAIN levels = dependsOn[a]
      BY <1>2
    <3> QED
      BY <1>1, <1>2, <3>1 DEF CountersInv, LevelsInv
  <2>2. CASE dependsOn[a] = {}
    BY <2>1, <2>2 DEF Wave
  <2>3. CASE dependsOn[a] # {}
    <3> DEFINE S == {levels[b] : b \in dependsOn[a]}
    <3>1. S \in SUBSET Nat /\ S # {} /\ IsFiniteSet(S)
      BY <1>1, <1>2, <2>1, <2>3, ImageIsFinite, GraphIsFinite
    <3>2. \A y \in S : y + 1 <= predLevel[a]
      BY <2>1
    <3>3. \E y \in S : predLevel[a] = y + 1
      BY <2>1, <2>3
    <3> HIDE DEF S
    <3>4. Max(S) \in S /\ \A y \in S : y <= Max(S)
      BY <3>1, GreatestOfSome
    <3>5. predLevel[a] = 1 + Max(S)
      <4>1. PICK y \in S : predLevel[a] = y + 1
        BY <3>3
      <4>2. Max(S) + 1 <= predLevel[a] /\ y <= Max(S) /\ y \in Nat /\ Max(S) \in Nat
        BY <3>1, <3>2, <3>4
      <4> QED
        BY <4>1, <4>2
    <3> QED
      BY <2>1, <2>3, <3>5 DEF Wave, S
  <2> QED
    BY <2>2, <2>3
<1>7. LevelsInv'
  <2>1. DOMAIN levels' \subseteq Actions
    BY <1>1, <1>2, <1>4 DEF LevelsInv
  <2>2. ASSUME NEW x \in DOMAIN levels'
        PROVE  /\ dependsOn'[x] \subseteq DOMAIN levels' /\ levels'[x] \in Nat
               /\ levels'[x] = Wave(levels, x)'
    <3>1. CASE x = a
      BY <1>2, <1>3, <1>4, <1>5, <1>6, <3>1
    <3>2. CASE x \in DOMAIN levels
      <4>1. /\ x \in Actions /\ dependsOn[x] \subseteq DOMAIN levels /\ levels[x] \in Nat
            /\ levels[x] = Wave(levels, x)
        BY <1>1, <3>2 DEF LevelsInv
      <4> QED
        BY <1>3, <1>4, <1>5, <3>2, <4>1
    <3> QED
      BY <1>4, <2>2, <3>1, <3>2
  <2> QED
    BY <2>1, <2>2 DEF LevelsInv
<1> QED
  BY <1>2, <1>4, <1>7 DEF a

(* Those freed waited for this action only. *)
LEMMA FreedAwaitNoOther ==
  ASSUME SortInv, Sorted, NEW a \in Actions \ DOMAIN levels
  PROVE  /\ Freed(a) \subseteq Actions /\ IsFiniteSet(Freed(a))
         /\ \A b \in Actions : b \in Freed(a) <=> Awaited(b) = {a}
<1>1. LevelsInv /\ CountersInv /\ GraphInv
  BY DEF SortInv
<1>2. Freed(a) \subseteq Actions /\ IsFiniteSet(Freed(a))
  BY ActionsAssumption, FS_Subset DEF Freed, Successors
<1>3. ASSUME NEW b \in Actions
      PROVE  b \in Freed(a) <=> Awaited(b) = {a}
  <2>1. IsFiniteSet(Awaited(b)) /\ inDegree[b] = Cardinality(Awaited(b))
    BY <1>1, GraphIsFinite DEF CountersInv
  <2>2. b \in Freed(a) <=> a \in Awaited(b) /\ Cardinality(Awaited(b)) = 1
    BY <2>1 DEF Freed, Successors, Awaited
  <2>3. ASSUME a \in Awaited(b)
        PROVE  Cardinality(Awaited(b)) = 1 <=> Awaited(b) \ {a} = {}
    <3>1. IsFiniteSet(Awaited(b) \ {a}) /\ Cardinality(Awaited(b) \ {a}) = Cardinality(Awaited(b)) - 1
      BY <2>1, <2>3, FS_RemoveElement
    <3>2. Cardinality(Awaited(b) \ {a}) = 0 <=> Awaited(b) \ {a} = {}
      BY <3>1, FS_EmptySet
    <3>3. Cardinality(Awaited(b)) \in Nat
      BY <2>1, FS_CardinalityType
    <3> QED
      BY <3>1, <3>2, <3>3
  <2> QED
    BY <2>2, <2>3
<1> QED
  BY <1>2, <1>3

LEMMA PopKeepsReady ==
  ASSUME SortInv, Pop
  PROVE  ReadyInv'
<1> DEFINE a == Head(ready)
<1>1. LevelsInv /\ ReadyInv /\ Sorted
  BY DEF SortInv, Sorted, Pop
<1>2. /\ a \in Actions \ DOMAIN levels /\ DOMAIN levels' = DOMAIN levels \cup {a}
      /\ a = ready[1] /\ 1 \in DOMAIN ready /\ Len(ready) \in Nat /\ DOMAIN ready = 1 .. Len(ready)
  BY <1>1, PopKeepsLevels DEF ReadyInv, Pop
<1>3. PICK freed \in SetToSeqs(Freed(a)) : ready' = Tail(ready) \o freed
  BY DEF Pop
<1> HIDE DEF a
<1>4. \A b : Awaited(b)' = Awaited(b) \ {a}
  BY <1>2 DEF Awaited, Pop, given
<1>5. Freed(a) \subseteq Actions /\ \A b \in Actions : b \in Freed(a) <=> Awaited(b) = {a}
  BY <1>1, <1>2, FreedAwaitNoOther
<1>6. Lists(freed, Freed(a))
  BY <1>1, <1>2, <1>3, FreedAwaitNoOther, AllOfThemInSequence
<1> DEFINE m == Len(ready) - 1
           n == Len(freed)
<1>7. /\ m \in Nat /\ n \in Nat /\ ready' \in Seq(Actions) /\ DOMAIN ready' = 1 .. m + n
      /\ \A i \in 1 .. m : ready'[i] = ready[i + 1]
      /\ \A i \in m + 1 .. m + n : ready'[i] = freed[i - m]
  <2>1. Tail(ready) \in Seq(Actions) /\ Len(Tail(ready)) = m /\ m \in Nat
    BY <1>1, <1>2 DEF ReadyInv
  <2>2. freed \in Seq(Actions) /\ n \in Nat
    BY <1>5, <1>6 DEF Lists
  <2>3. \A i \in 1 .. m : Tail(ready)[i] = ready[i + 1]
    BY <1>1, <1>2 DEF ReadyInv
  <2>4. /\ ready' \in Seq(Actions) /\ Len(ready') = m + n
        /\ \A i \in 1 .. m : ready'[i] = Tail(ready)[i]
        /\ \A i \in m + 1 .. m + n : ready'[i] = freed[i - m]
    BY <1>3, <2>1, <2>2
  <2> QED
    BY <2>1, <2>2, <2>3, <2>4
<1>8. \A i \in 1 .. n : /\ freed[i] \in Freed(a) /\ freed[i] \in Actions
                        /\ Awaited(freed[i]) = {a}
  BY <1>5, <1>6 DEF Lists
<1>9. \A i \in 1 .. m : i + 1 \in DOMAIN ready /\ ready[i + 1] # a /\ Awaited(ready[i + 1]) = {}
                         /\ ready[i + 1] \notin DOMAIN levels
  BY <1>1, <1>2, <1>7 DEF ReadyInv
<1>10. \A i \in 1 .. n : freed[i] # a /\ freed[i] \notin DOMAIN levels
  BY <1>1, <1>2, <1>8 DEF LevelsInv, Awaited, ReadyInv
<1> HIDE DEF m, n
<1>11. ASSUME NEW i \in DOMAIN ready'
       PROVE  ready'[i] \notin DOMAIN levels' /\ Awaited(ready[i])' = {}
  <2>1. CASE i \in 1 .. m
    BY <1>2, <1>4, <1>7, <1>9, <2>1
  <2>2. CASE i \in m + 1 .. m + n
    <3>1. i - m \in 1 .. n
      BY <1>7, <2>2
    <3> QED
      BY <1>2, <1>4, <1>7, <1>8, <1>10, <2>2, <3>1
  <2> QED
    BY <1>7, <2>1, <2>2
<1>12. ASSUME NEW i \in DOMAIN ready', NEW j \in DOMAIN ready', ready'[i] = ready'[j]
       PROVE  i = j
  <2>1. CASE i \in 1 .. m /\ j \in 1 .. m
    <3>1. ready[i + 1] = ready[j + 1]
      BY <1>7, <1>12, <2>1
    <3>2. i + 1 = j + 1
      BY <1>1, <1>9, <2>1, <3>1 DEF ReadyInv
    <3> QED
      BY <1>7, <2>1, <3>2
  <2>2. CASE i \in m + 1 .. m + n /\ j \in m + 1 .. m + n
    <3>1. freed[i - m] = freed[j - m] /\ i - m \in 1 .. n /\ j - m \in 1 .. n
      BY <1>7, <1>12, <2>2
    <3>2. i - m = j - m
      BY <1>6, <3>1 DEF Lists, n
    <3> QED
      BY <1>7, <2>2, <3>2
  <2>3. CASE i \in 1 .. m /\ j \in m + 1 .. m + n
    <3>1. j - m \in 1 .. n
      BY <1>7, <2>3
    <3> QED
      BY <1>7, <1>8, <1>9, <1>12, <2>3, <3>1
  <2>4. CASE j \in 1 .. m /\ i \in m + 1 .. m + n
    <3>1. i - m \in 1 .. n
      BY <1>7, <2>4
    <3> QED
      BY <1>7, <1>8, <1>9, <1>12, <2>4, <3>1
  <2> QED
    BY <1>7, <2>1, <2>2, <2>3, <2>4
<1>13. ASSUME NEW b \in Actions \ DOMAIN levels', Awaited(b)' = {}
       PROVE  \E i \in DOMAIN ready' : ready'[i] = b
  <2>1. b \in Actions \ DOMAIN levels /\ b # a /\ (Awaited(b) = {} \/ Awaited(b) = {a})
    BY <1>2, <1>4, <1>13
  <2>2. CASE Awaited(b) = {}
    <3>1. PICK j \in DOMAIN ready : ready[j] = b
      BY <1>1, <2>1, <2>2 DEF ReadyInv
    <3>2. j - 1 \in 1 .. m /\ (j - 1) + 1 = j
      BY <1>2, <2>1, <3>1 DEF m
    <3>3. j - 1 \in DOMAIN ready' /\ ready'[j - 1] = b
      BY <1>7, <3>1, <3>2
    <3> QED
      BY <3>3
  <2>3. CASE Awaited(b) = {a}
    <3>1. PICK j \in 1 .. n : freed[j] = b
      BY <1>5, <1>6, <2>1, <2>3 DEF Lists, n
    <3>2. j + m \in m + 1 .. m + n /\ (j + m) - m = j
      BY <1>7
    <3>3. j + m \in DOMAIN ready' /\ ready'[j + m] = b
      BY <1>7, <3>1, <3>2
    <3> QED
      BY <3>3
  <2> QED
    BY <2>1, <2>2, <2>3
<1> QED
  BY <1>7, <1>11, <1>12, <1>13 DEF ReadyInv

LEMMA PopKeepsCounters ==
  ASSUME SortInv, Pop
  PROVE  CountersInv'
<1> DEFINE a == Head(ready)
<1>1. LevelsInv /\ CountersInv /\ GraphInv /\ Sorted
  BY DEF SortInv, Sorted, Pop
<1>2. /\ a \in Actions \ DOMAIN levels /\ DOMAIN levels' = DOMAIN levels \cup {a}
      /\ levels'[a] = predLevel[a] /\ \A x \in DOMAIN levels : levels'[x] = levels[x]
  BY PopKeepsLevels
<1>3. /\ dependsOn' = dependsOn
      /\ predLevel' = [b \in Actions |->
            IF b \in Successors(a) /\ predLevel[a] + 1 > predLevel[b]
            THEN predLevel[a] + 1 ELSE predLevel[b]]
      /\ inDegree' = [b \in Actions |->
            IF b \in Successors(a) THEN inDegree[b] - 1 ELSE inDegree[b]]
  BY DEF Pop, given
<1> HIDE DEF a
<1>4. \A b : Awaited(b)' = Awaited(b) \ {a}
  BY <1>2, <1>3 DEF Awaited
<1>5. predLevel[a] \in Nat
  BY <1>1, <1>2 DEF CountersInv
<1>6. ASSUME NEW b \in Actions
      PROVE  inDegree'[b] = Cardinality(Awaited(b)')
  <2>1. IsFiniteSet(Awaited(b)) /\ inDegree[b] = Cardinality(Awaited(b))
    BY <1>1, GraphIsFinite DEF CountersInv
  <2>2. b \in Successors(a) <=> a \in Awaited(b)
    BY <1>2 DEF Successors, Awaited
  <2>3. CASE a \in Awaited(b)
    <3>1. Cardinality(Awaited(b) \ {a}) = Cardinality(Awaited(b)) - 1
      BY <2>1, <2>3, FS_RemoveElement
    <3> QED
      BY <1>3, <1>4, <2>1, <2>2, <2>3, <3>1
  <2>4. CASE a \notin Awaited(b)
    <3>1. Awaited(b) \ {a} = Awaited(b)
      BY <2>4
    <3> QED
      BY <1>3, <1>4, <2>1, <2>2, <2>4, <3>1
  <2> QED
    BY <2>3, <2>4
<1>7. ASSUME NEW b \in Actions
      PROVE  /\ predLevel'[b] \in Nat
             /\ \A x \in dependsOn[b] \cap DOMAIN levels' : levels'[x] + 1 <= predLevel'[b]
             /\ \/ predLevel'[b] = 0 /\ dependsOn[b] \cap DOMAIN levels' = {}
                \/ \E x \in dependsOn[b] \cap DOMAIN levels' : predLevel'[b] = levels'[x] + 1
  <2>0. /\ predLevel[b] \in Nat
        /\ \A x \in dependsOn[b] \cap DOMAIN levels :
             levels[x] + 1 <= predLevel[b] /\ levels[x] \in Nat
        /\ \/ predLevel[b] = 0 /\ dependsOn[b] \cap DOMAIN levels = {}
           \/ \E x \in dependsOn[b] \cap DOMAIN levels : predLevel[b] = levels[x] + 1
    BY <1>1 DEF CountersInv, LevelsInv
  <2>1. CASE a \notin dependsOn[b]
    <3>1. dependsOn[b] \cap DOMAIN levels' = dependsOn[b] \cap DOMAIN levels
      BY <1>2, <2>1
    <3>2. predLevel'[b] = predLevel[b]
      BY <1>3, <2>1 DEF Successors
    <3> QED
      BY <1>2, <2>0, <3>1, <3>2
  <2>2. CASE a \in dependsOn[b]
    <3>1. dependsOn[b] \cap DOMAIN levels' = (dependsOn[b] \cap DOMAIN levels) \cup {a}
      BY <1>2, <2>2
    <3>2. predLevel'[b] = IF predLevel[a] + 1 > predLevel[b] THEN predLevel[a] + 1 ELSE predLevel[b]
      BY <1>3, <2>2 DEF Successors
    <3>3. CASE predLevel[a] + 1 > predLevel[b]
      <4>1. predLevel'[b] = levels'[a] + 1
        BY <1>2, <3>2, <3>3
      <4>2. \A x \in dependsOn[b] \cap DOMAIN levels : levels'[x] + 1 <= predLevel'[b]
        BY <1>2, <1>5, <2>0, <3>2, <3>3
      <4> QED
        BY <1>2, <1>5, <3>1, <4>1, <4>2
    <3>4. CASE ~(predLevel[a] + 1 > predLevel[b])
      <4>1. predLevel'[b] = predLevel[b] /\ levels'[a] + 1 <= predLevel[b]
        BY <1>2, <1>5, <2>0, <3>2, <3>4
      <4>2. \A x \in dependsOn[b] \cap DOMAIN levels : levels'[x] + 1 <= predLevel'[b]
        BY <1>2, <2>0, <4>1
      <4>3. predLevel[b] # 0
        BY <1>5, <2>0, <3>4
      <4>4. \E x \in dependsOn[b] \cap DOMAIN levels : predLevel[b] = levels'[x] + 1
        BY <1>2, <2>0, <4>3
      <4> QED
        BY <2>0, <3>1, <4>1, <4>2, <4>4
    <3> QED
      BY <3>3, <3>4
  <2> QED
    BY <2>1, <2>2
<1> QED
  BY <1>3, <1>6, <1>7 DEF CountersInv

LEMMA SortKept == SortInv /\ [ScheduleNext]_scheduleVars => SortInv'
<1> SUFFICES ASSUME SortInv, [ScheduleNext]_scheduleVars PROVE SortInv'
  OBVIOUS
<1>1. CASE Reject
  BY <1>1, RejectKeeps
<1>2. CASE Prepare
  BY <1>2, PrepareKeeps
<1>3. CASE Pop
  <2>1. LevelsInv' /\ ReadyInv' /\ CountersInv'
    BY <1>3, PopKeepsLevels, PopKeepsReady, PopKeepsCounters
  <2>2. stage' = "sorting" /\ UNCHANGED given /\ Sorted
    BY <1>3 DEF Pop, Sorted
  <2>3. GraphInv'
    BY <2>2 DEF SortInv, GraphInv, Sorted, given
  <2> QED
    BY <2>1, <2>2, <2>3 DEF SortInv
<1>4. CASE Cycle \/ Analyse \/ UNCHANGED scheduleVars
  <2>1. /\ UNCHANGED <<given, ready, inDegree, predLevel, levels>>
        /\ \/ stage' = stage
           \/ Sorted /\ stage' = "cyclic" /\ ready = <<>> /\ Unsorted # {}
           \/ Sorted /\ stage' = "scheduled" /\ Unsorted = {}
    BY <1>4 DEF Cycle, Analyse, scheduleVars, given, Sorted
  <2>2. GraphInv'
    BY <2>1 DEF SortInv, GraphInv, Sorted, given
  <2>3. Sorted' => Sorted
    BY <2>1 DEF Sorted
  <2>4. ASSUME Sorted'
        PROVE  LevelsInv' /\ ReadyInv' /\ CountersInv'
    <3>1. LevelsInv /\ ReadyInv /\ CountersInv
      BY <2>3, <2>4 DEF SortInv
    <3>2. LevelsInv'
      BY <2>1, <3>1 DEF LevelsInv, Wave, given
    <3>3. ReadyInv'
      BY <2>1, <3>1 DEF ReadyInv, Awaited, given
    <3>4. CountersInv'
      BY <2>1, <3>1 DEF CountersInv, Awaited, given
    <3> QED
      BY <3>2, <3>3, <3>4
  <2> QED
    BY <2>1, <2>2, <2>4 DEF SortInv, Unsorted
<1> QED
  BY <1>1, <1>2, <1>3, <1>4 DEF ScheduleNext

-----------------------------------------------------------------------------
(* Waves. *)

(* The levels go up along the dependencies. *)
Layered ==
  /\ \A a \in Actions :
       /\ dependsOn[a] \subseteq Actions /\ duration[a] \in Nat /\ levels[a] \in Nat
       /\ \A b \in dependsOn[a] : levels[b] < levels[a]

LEMMA UpTheLevels ==
  ASSUME Layered, NEW S \in SUBSET Actions, \A a \in Actions : dependsOn[a] \subseteq S => a \in S
  PROVE  S = Actions
<1> SUFFICES ASSUME Actions \ S # {} PROVE FALSE
  OBVIOUS
<1> DEFINE L == {levels[a] : a \in Actions \ S}
<1>1. L \in SUBSET Nat /\ L # {}
  BY DEF Layered
<1>2. Min(L) \in L /\ \A y \in L : Min(L) <= y
  BY <1>1, MinOfSome
<1>3. PICK a \in Actions \ S : levels[a] = Min(L)
  BY <1>2
<1>4. PICK b \in dependsOn[a] : b \in Actions \ S
  BY DEF Layered
<1>5. levels[b] \in L /\ levels[b] < levels[a] /\ levels[a] \in Nat /\ levels[b] \in Nat
  BY <1>4 DEF Layered
<1> HIDE DEF L
<1>6. levels[a] <= levels[b]
  BY <1>2, <1>3, <1>5
<1> QED
  BY <1>5, <1>6

LEMMA DownTheLevels ==
  ASSUME Layered, NEW S \in SUBSET Actions, \A a \in Actions : Successors(a) \subseteq S => a \in S
  PROVE  S = Actions
<1> SUFFICES ASSUME Actions \ S # {} PROVE FALSE
  OBVIOUS
<1> DEFINE L == {levels[a] : a \in Actions \ S}
<1>1. L \in SUBSET Nat /\ L # {} /\ IsFiniteSet(L)
  <2>1. IsFiniteSet(Actions \ S)
    BY ActionsAssumption, FS_Subset
  <2>2. L \in SUBSET Nat /\ L # {}
    BY DEF Layered
  <2> QED
    BY <2>1, <2>2, ImageIsFinite
<1>2. Max(L) \in L /\ \A y \in L : y <= Max(L)
  BY <1>1, GreatestOfSome
<1>3. PICK a \in Actions \ S : levels[a] = Max(L)
  BY <1>2
<1>4. PICK b \in Successors(a) : b \in Actions \ S
  BY DEF Successors
<1>5. levels[b] \in L /\ levels[a] < levels[b] /\ levels[a] \in Nat /\ levels[b] \in Nat
  BY <1>4 DEF Layered, Successors
<1> QED
  BY <1>2, <1>3, <1>5

LEMMA SortedIsLayered ==
  ASSUME SortInv, Sorted, Unsorted = {}
  PROVE  Layered /\ \A a \in Actions : levels[a] = Wave(levels, a)
<1>1. GraphInv /\ LevelsInv /\ DOMAIN levels = Actions
  BY DEF SortInv, Unsorted, LevelsInv
<1>2. \A a \in Actions : /\ dependsOn[a] \subseteq Actions /\ duration[a] \in Nat
                         /\ levels[a] \in Nat /\ levels[a] = Wave(levels, a)
  BY <1>1 DEF GraphInv, LevelsInv
<1>3. ASSUME NEW a \in Actions, NEW b \in dependsOn[a]
      PROVE  levels[b] < levels[a]
  <2> DEFINE S == {levels[x] : x \in dependsOn[a]}
  <2>1. S \in SUBSET Nat /\ S # {} /\ IsFiniteSet(S) /\ levels[b] \in S
    BY <1>1, <1>2, <1>3, ImageIsFinite, GraphIsFinite
  <2>2. levels[a] = 1 + Max(S)
    BY <1>2, <1>3 DEF Wave
  <2> HIDE DEF S
  <2>3. Max(S) \in Nat /\ levels[b] <= Max(S) /\ levels[b] \in Nat
    BY <2>1, GreatestOfSome
  <2> QED
    BY <2>2, <2>3
<1> QED
  BY <1>2, <1>3 DEF Layered

LEMMA ScheduledIsNotCyclic ==
  ASSUME Layered
  PROVE  ~Cyclic
<1> SUFFICES ASSUME NEW loop \in SUBSET Actions, loop # {},
                    \A a \in loop : dependsOn[a] \cap loop # {}
             PROVE  FALSE
  BY DEF Cyclic
<1>1. \A a \in Actions : dependsOn[a] \subseteq Actions \ loop => a \in Actions \ loop
  OBVIOUS
<1>2. Actions \ loop = Actions
  BY <1>1, UpTheLevels
<1> QED
  BY <1>2

LEMMA DepthIsWave ==
  ASSUME Layered, \A a \in Actions : levels[a] = Wave(levels, a)
  PROVE  \A a \in Actions : levels[a] = Depth[a]
<1> DEFINE l == [a \in Actions |-> levels[a]]
           d == CHOOSE d : d = [a \in Actions |->
                  IF dependsOn[a] = {} THEN 0 ELSE 1 + Max({d[b] : b \in dependsOn[a]})]
<1>1. l = [a \in Actions |-> IF dependsOn[a] = {} THEN 0 ELSE 1 + Max({l[b] : b \in dependsOn[a]})]
  <2>1. \A a \in Actions : {l[b] : b \in dependsOn[a]} = {levels[b] : b \in dependsOn[a]}
    BY DEF Layered
  <2> QED
    BY <2>1 DEF Wave
<1>2. d = [a \in Actions |-> IF dependsOn[a] = {} THEN 0 ELSE 1 + Max({d[b] : b \in dependsOn[a]})]
  BY <1>1
<1>3. Depth = d
  BY DEF Depth
<1> HIDE DEF d
<1> DEFINE S == {a \in Actions : d[a] = levels[a]}
<1>4. ASSUME NEW a \in Actions, dependsOn[a] \subseteq S
      PROVE  a \in S
  <2>1. {d[b] : b \in dependsOn[a]} = {levels[b] : b \in dependsOn[a]}
    BY <1>4
  <2>2. d[a] = Wave(levels, a)
    BY <1>2, <2>1 DEF Wave
  <2> QED
    BY <2>2
<1>5. S = Actions
  <2> HIDE DEF S
  <2>1. S \in SUBSET Actions
    BY DEF S
  <2> QED
    BY <1>4, <2>1, UpTheLevels
<1> QED
  BY <1>3, <1>5

LEMMA WavesHold == SortInv => WavesAreChains
<1> SUFFICES ASSUME SortInv PROVE WavesAreChains
  OBVIOUS
<1>1. ASSUME stage = "cyclic"
      PROVE  Cyclic
  <2>1. ReadyInv /\ LevelsInv /\ GraphInv /\ Sorted /\ ready = <<>> /\ Unsorted # {}
    BY <1>1 DEF SortInv, Sorted
  <2>2. \A a \in Unsorted : dependsOn[a] \cap Unsorted # {}
    <3> SUFFICES ASSUME NEW a \in Unsorted PROVE dependsOn[a] \cap Unsorted # {}
      OBVIOUS
    <3>1. a \in Actions \ DOMAIN levels /\ DOMAIN ready = {}
      BY <2>1 DEF Unsorted
    <3>2. Awaited(a) # {}
      BY <2>1, <3>1 DEF ReadyInv
    <3> QED
      BY <2>1, <3>1, <3>2 DEF Awaited, Unsorted, GraphInv
  <2>3. Unsorted \in (SUBSET Actions) \ {{}}
    BY <2>1 DEF Unsorted
  <2> QED
    BY <2>2, <2>3 DEF Cyclic
<1>2. ASSUME stage = "scheduled"
      PROVE  ~Cyclic /\ \A a \in Actions : levels[a] = Depth[a]
  <2>1. Sorted /\ Unsorted = {}
    BY <1>2 DEF SortInv, Sorted
  <2> QED
    BY <2>1, SortedIsLayered, ScheduledIsNotCyclic, DepthIsWave
<1> QED
  BY <1>1, <1>2 DEF WavesAreChains

-----------------------------------------------------------------------------
(* Starts. *)

(* The first and the last moments are bounds, and no better ones.           *)
LEMMA FirstMomentBounds ==
  ASSUME Layered, NEW s \in [Actions -> Nat], NEW a \in Actions
  PROVE  /\ FirstMoment(s, a) \in Nat
         /\ \A b \in dependsOn[a] : s[b] + duration[b] <= FirstMoment(s, a)
         /\ \/ FirstMoment(s, a) = 0
            \/ \E b \in dependsOn[a] : FirstMoment(s, a) = s[b] + duration[b]
<1> DEFINE f == [b \in Actions |-> s[b] + duration[b]]
           S == {f[b] : b \in dependsOn[a]}
<1>1. dependsOn[a] \subseteq Actions /\ IsFiniteSet(dependsOn[a])
  BY ActionsAssumption, FS_Subset DEF Layered
<1>2. \A b \in Actions : f[b] = s[b] + duration[b] /\ f[b] \in Nat
  BY DEF Layered
<1> HIDE DEF f
<1>3. {s[b] + duration[b] : b \in dependsOn[a]} = S
  BY <1>1, <1>2
<1>4. IsFiniteSet(S)
  BY <1>1, ImageIsFinite
<1>5. IsFiniteSet({0} \cup S) /\ {0} \cup S \in SUBSET Nat /\ {0} \cup S # {}
  <2>1. IsFiniteSet({0} \cup S)
    BY <1>4, FS_Singleton, FS_Union
  <2>2. \A b \in dependsOn[a] : f[b] \in Nat
    BY <1>1, <1>2
  <2>3. S \in SUBSET Nat
    BY <2>2
  <2> HIDE DEF S
  <2> QED
    BY <2>1, <2>3
<1>6. FirstMoment(s, a) = Max({0} \cup S)
  BY <1>3 DEF FirstMoment
<1>7. Max({0} \cup S) \in {0} \cup S /\ \A y \in {0} \cup S : y <= Max({0} \cup S)
  BY <1>5, GreatestOfSome
<1>8. \A b \in dependsOn[a] : s[b] + duration[b] \in S
  BY <1>1, <1>2
<1>9. \A y \in S : \E b \in dependsOn[a] : y = s[b] + duration[b]
  BY <1>1, <1>2
<1> HIDE DEF S
<1> QED
  BY <1>5, <1>6, <1>7, <1>8, <1>9

LEMMA LastMomentBounds ==
  ASSUME Layered, NEW s \in [Actions -> Nat], NEW a \in Actions, NEW end \in Nat
  PROVE  /\ LastMoment(s, a, end) \in Nat
         /\ Successors(a) = {} => LastMoment(s, a, end) = end
         /\ \A b \in Successors(a) : LastMoment(s, a, end) <= s[b]
         /\ Successors(a) # {} => \E b \in Successors(a) : LastMoment(s, a, end) = s[b]
<1> DEFINE S == {s[b] : b \in Successors(a)}
<1>1. CASE Successors(a) = {}
  BY <1>1 DEF LastMoment
<1>2. CASE Successors(a) # {}
  <2>1. S \in SUBSET Nat /\ S # {}
    BY <1>2 DEF Successors
  <2>2. Min(S) \in S /\ \A y \in S : Min(S) <= y
    BY <2>1, MinOfSome
  <2>3. LastMoment(s, a, end) = Min(S)
    BY <1>2 DEF LastMoment
  <2>4. \A b \in Successors(a) : s[b] \in S
    OBVIOUS
  <2>5. \A y \in S : \E b \in Successors(a) : y = s[b]
    OBVIOUS
  <2> HIDE DEF S
  <2> QED
    BY <1>2, <2>1, <2>2, <2>3, <2>4, <2>5
<1> QED
  BY <1>1, <1>2

LEMMA MakespanBounds ==
  ASSUME Layered, NEW s \in [Actions -> Nat]
  PROVE  /\ Makespan(s) \in Nat
         /\ \A a \in Actions : s[a] + duration[a] <= Makespan(s)
         /\ \E a \in Actions : Makespan(s) = s[a] + duration[a]
<1> DEFINE f == [a \in Actions |-> s[a] + duration[a]]
           S == {f[a] : a \in Actions}
<1>1. \A b \in Actions : f[b] = s[b] + duration[b] /\ f[b] \in Nat
  BY DEF Layered
<1> HIDE DEF f
<1>2. {s[a] + duration[a] : a \in Actions} = S
  BY <1>1
<1>3. IsFiniteSet(S) /\ S \in SUBSET Nat /\ S # {}
  BY <1>1, ActionsAssumption, ImageIsFinite
<1>4. Makespan(s) = Max(S)
  BY <1>2 DEF Makespan
<1>5. Max(S) \in S /\ \A y \in S : y <= Max(S)
  BY <1>3, GreatestOfSome
<1>6. (\A a \in Actions : f[a] \in S) /\ \A y \in S : \E a \in Actions : y = f[a]
  OBVIOUS
<1> HIDE DEF S
<1> QED
  BY <1>1, <1>3, <1>4, <1>5, <1>6

(* Starts of everything as early as it can, with one action that much later. *)
Delayed(s, late, delay) ==
  /\ s \in [Actions -> Nat]
  /\ \A a \in Actions : s[a] = FirstMoment(s, a) + (IF a = late THEN delay ELSE 0)

Latest(s, end) ==
  /\ s \in [Actions -> Nat]
  /\ \A a \in Actions : s[a] = SaturatingSub(LastMoment(s, a, end), duration[a])

LEMMA BoundOfSome ==
  ASSUME NEW P, IsFiniteSet(P), P # {}, NEW r \in [P -> Nat]
  PROVE  \E n \in Nat : \A a \in P : r[a] < n
<1> DEFINE S == {r[a] : a \in P}
<1>1. IsFiniteSet(S)
  BY ImageIsFinite
<1>2. S \in SUBSET Nat /\ S # {} /\ \A a \in P : r[a] \in S
  OBVIOUS
<1> HIDE DEF S
<1>3. Max(S) \in S /\ \A y \in S : y <= Max(S)
  BY <1>1, <1>2, GreatestOfSome
<1>4. Max(S) \in Nat /\ \A a \in P : r[a] \in Nat /\ r[a] <= Max(S)
  BY <1>2, <1>3
<1>5. Max(S) + 1 \in Nat /\ \A a \in P : r[a] < Max(S) + 1
  BY <1>4
<1> QED
  BY <1>5

(* What of each action is told by that of others, and in no circle, there is *)
(* (F tells it, and reads only the others N of an action).                   *)
LEMMA OneOfTheOthers ==
  ASSUME NEW r \in [Actions -> Nat], NEW N \in [Actions -> SUBSET Actions],
         \A a \in Actions : \A b \in N[a] : r[b] < r[a],
         NEW F \in [[Actions -> Nat] -> [Actions -> Nat]],
         \A g, h \in [Actions -> Nat] : \A a \in Actions :
            (\A b \in N[a] : g[b] = h[b]) => F[g][a] = F[h][a]
  PROVE  \E g \in [Actions -> Nat] : g = F[g]
<1> DEFINE V == [Actions -> Nat]
           UpTo(n, g) == \A a \in Actions : r[a] < n => g[a] = F[g][a]
           Reached == {n \in Nat : \E g \in V : UpTo(n, g)}
<1>1. 0 \in Reached
  <2> DEFINE g == [a \in Actions |-> 0]
  <2>1. g \in V /\ UpTo(0, g)
    OBVIOUS
  <2> QED
    BY <2>1
<1>2. ASSUME NEW n \in Reached
      PROVE  n + 1 \in Reached
  <2>1. PICK g \in V : UpTo(n, g)
    OBVIOUS
  <2>2. F[g] \in V
    OBVIOUS
  <2>3. \A a \in Actions : r[a] < n + 1 => \A b \in N[a] : F[g][b] = g[b]
    <3> SUFFICES ASSUME NEW a \in Actions, r[a] < n + 1, NEW b \in N[a]
                 PROVE  F[g][b] = g[b]
      OBVIOUS
    <3>1. b \in Actions /\ r[b] < r[a] /\ r[b] \in Nat /\ r[a] \in Nat /\ n \in Nat
      OBVIOUS
    <3>2. r[b] < n
      BY <3>1
    <3> QED
      BY <2>1, <3>1, <3>2
  <2>4. UpTo(n + 1, F[g])
    BY <2>1, <2>2, <2>3
  <2> QED
    BY <2>2, <2>4
<1>3. Reached = Nat
  <2>1. Reached \in SUBSET Nat
    OBVIOUS
  <2> HIDE DEF Reached
  <2> QED
    BY <1>1, <1>2, <2>1, CountingUp
<1>4. PICK n \in Nat : \A a \in Actions : r[a] < n
  BY ActionsAssumption, BoundOfSome
<1>5. PICK g \in V : UpTo(n, g)
  BY <1>3
<1>6. \A a \in Actions : g[a] = F[g][a]
  BY <1>4, <1>5
<1>7. F[g] \in V
  OBVIOUS
<1>8. g = F[g]
  BY <1>6, <1>7
<1> QED
  BY <1>8

(* The moments are told by the starts of the neighbours. *)
LEMMA MomentsAreLocal ==
  ASSUME NEW g, NEW h, NEW a \in Actions, NEW end
  PROVE  /\ (\A b \in dependsOn[a] : g[b] = h[b]) => FirstMoment(g, a) = FirstMoment(h, a)
         /\ (\A b \in Successors(a) : g[b] = h[b]) => LastMoment(g, a, end) = LastMoment(h, a, end)
<1>1. ASSUME \A b \in dependsOn[a] : g[b] = h[b]
      PROVE  FirstMoment(g, a) = FirstMoment(h, a)
  <2>1. {g[b] + duration[b] : b \in dependsOn[a]} = {h[b] + duration[b] : b \in dependsOn[a]}
    BY <1>1
  <2> QED
    BY <2>1 DEF FirstMoment
<1>2. ASSUME \A b \in Successors(a) : g[b] = h[b]
      PROVE  LastMoment(g, a, end) = LastMoment(h, a, end)
  <2>1. {g[b] : b \in Successors(a)} = {h[b] : b \in Successors(a)}
    BY <1>2
  <2> QED
    BY <2>1 DEF LastMoment
<1> QED
  BY <1>1, <1>2

LEMMA DelayedExists ==
  ASSUME Layered, NEW late, NEW delay \in Nat
  PROVE  \E s : Delayed(s, late, delay)
<1> DEFINE F == [g \in [Actions -> Nat] |->
                   [a \in Actions |-> FirstMoment(g, a) + (IF a = late THEN delay ELSE 0)]]
           r == [a \in Actions |-> levels[a]]
           N == [a \in Actions |-> dependsOn[a]]
<1>1. r \in [Actions -> Nat] /\ N \in [Actions -> SUBSET Actions]
  BY DEF Layered
<1>2. \A a \in Actions : \A b \in N[a] : r[b] < r[a]
  BY DEF Layered
<1>3. F \in [[Actions -> Nat] -> [Actions -> Nat]]
  <2> SUFFICES ASSUME NEW g \in [Actions -> Nat], NEW a \in Actions
               PROVE  FirstMoment(g, a) + (IF a = late THEN delay ELSE 0) \in Nat
    OBVIOUS
  <2>1. FirstMoment(g, a) \in Nat
    BY FirstMomentBounds
  <2> QED
    BY <2>1
<1>4. \A g, h \in [Actions -> Nat] : \A a \in Actions :
        (\A b \in N[a] : g[b] = h[b]) => F[g][a] = F[h][a]
  <2> SUFFICES ASSUME NEW g \in [Actions -> Nat], NEW h \in [Actions -> Nat], NEW a \in Actions,
                      \A b \in dependsOn[a] : g[b] = h[b]
               PROVE  F[g][a] = F[h][a]
    OBVIOUS
  <2>1. FirstMoment(g, a) = FirstMoment(h, a)
    BY MomentsAreLocal
  <2> QED
    BY <2>1
<1>5. \A g \in [Actions -> Nat] : \A a \in Actions :
        F[g][a] = FirstMoment(g, a) + (IF a = late THEN delay ELSE 0)
  OBVIOUS
<1> HIDE DEF F, r, N
<1>6. PICK g \in [Actions -> Nat] : g = F[g]
  BY <1>1, <1>2, <1>3, <1>4, OneOfTheOthers
<1> QED
  BY <1>5, <1>6 DEF Delayed

LEMMA LatestExists ==
  ASSUME Layered, NEW end \in Nat
  PROVE  \E s : Latest(s, end)
<1> DEFINE top == Max({levels[a] : a \in Actions})
           F == [g \in [Actions -> Nat] |->
                   [a \in Actions |-> SaturatingSub(LastMoment(g, a, end), duration[a])]]
           r == [a \in Actions |-> top - levels[a]]
           N == [a \in Actions |-> Successors(a)]
<1>0. top \in Nat /\ \A a \in Actions : levels[a] \in Nat /\ levels[a] <= top
  <2> DEFINE S == {levels[a] : a \in Actions}
  <2>1. IsFiniteSet(S)
    BY ActionsAssumption, ImageIsFinite
  <2>2. S \in SUBSET Nat /\ S # {}
    BY ActionsAssumption DEF Layered
  <2>3. \A a \in Actions : levels[a] \in S
    OBVIOUS
  <2>4. Max(S) \in S /\ \A y \in S : y <= Max(S)
    BY <2>1, <2>2, GreatestOfSome
  <2> HIDE DEF S
  <2>5. Max(S) \in Nat /\ \A a \in Actions : levels[a] \in Nat /\ levels[a] <= Max(S)
    BY <2>2, <2>3, <2>4
  <2> QED
    BY <2>5 DEF S
<1> HIDE DEF top
<1>1. r \in [Actions -> Nat] /\ N \in [Actions -> SUBSET Actions]
  BY <1>0 DEF Successors
<1>2. \A a \in Actions : \A b \in N[a] : r[b] < r[a]
  <2> SUFFICES ASSUME NEW a \in Actions, NEW b \in Successors(a)
               PROVE  top - levels[b] < top - levels[a]
    BY DEF Successors
  <2>1. b \in Actions /\ levels[a] < levels[b] /\ levels[a] \in Nat /\ levels[b] \in Nat
    BY <1>0 DEF Successors, Layered
  <2> QED
    BY <1>0, <2>1
<1>3. F \in [[Actions -> Nat] -> [Actions -> Nat]]
  <2> SUFFICES ASSUME NEW g \in [Actions -> Nat], NEW a \in Actions
               PROVE  SaturatingSub(LastMoment(g, a, end), duration[a]) \in Nat
    OBVIOUS
  <2>1. LastMoment(g, a, end) \in Nat /\ duration[a] \in Nat
    BY LastMomentBounds DEF Layered
  <2> QED
    BY <2>1 DEF SaturatingSub
<1>4. \A g, h \in [Actions -> Nat] : \A a \in Actions :
        (\A b \in N[a] : g[b] = h[b]) => F[g][a] = F[h][a]
  <2> SUFFICES ASSUME NEW g \in [Actions -> Nat], NEW h \in [Actions -> Nat], NEW a \in Actions,
                      \A b \in Successors(a) : g[b] = h[b]
               PROVE  F[g][a] = F[h][a]
    OBVIOUS
  <2>1. LastMoment(g, a, end) = LastMoment(h, a, end)
    BY MomentsAreLocal
  <2> QED
    BY <2>1
<1>5. \A g \in [Actions -> Nat] : \A a \in Actions :
        F[g][a] = SaturatingSub(LastMoment(g, a, end), duration[a])
  OBVIOUS
<1> HIDE DEF F, r, N
<1>6. PICK g \in [Actions -> Nat] : g = F[g]
  BY <1>1, <1>2, <1>3, <1>4, OneOfTheOthers
<1> QED
  BY <1>5, <1>6 DEF Latest

(* What the property says of a delay is about the starts with that delay.    *)
LEMMA DelayIsOfStarts ==
  ASSUME Layered, NEW late \in Actions, NEW delay \in Nat
  PROVE  \E s : Delayed(s, late, delay) /\ EndsWithDelay(late, delay) = Makespan(s)
<1>1. PICK g : Delayed(g, late, delay)
  BY DelayedExists
<1> DEFINE d == CHOOSE d : d = [a \in Actions |->
                  Max({0} \cup {d[b] + duration[b] : b \in dependsOn[a]})
                    + (IF a = late THEN delay ELSE 0)]
<1>2. g = [a \in Actions |-> Max({0} \cup {g[b] + duration[b] : b \in dependsOn[a]})
                               + (IF a = late THEN delay ELSE 0)]
  BY <1>1 DEF Delayed, FirstMoment
<1>3. d = [a \in Actions |-> Max({0} \cup {d[b] + duration[b] : b \in dependsOn[a]})
                               + (IF a = late THEN delay ELSE 0)]
  BY <1>2
<1>4. EndsWithDelay(late, delay) = Makespan(d)
  BY DEF EndsWithDelay
<1> HIDE DEF d
<1>5. \A a \in Actions : d[a] = FirstMoment(d, a) + (IF a = late THEN delay ELSE 0)
  BY <1>3 DEF FirstMoment
<1> DEFINE S == {a \in Actions : d[a] = g[a]}
<1>6. ASSUME NEW a \in Actions, dependsOn[a] \subseteq S
      PROVE  a \in S
  <2>1. FirstMoment(d, a) = FirstMoment(g, a)
    BY <1>6, MomentsAreLocal
  <2> QED
    BY <1>1, <1>5, <2>1 DEF Delayed
<1>7. S = Actions
  <2> HIDE DEF S
  <2>1. S \in SUBSET Actions
    BY DEF S
  <2> QED
    BY <1>6, <2>1, UpTheLevels
<1>8. d = g
  BY <1>1, <1>3, <1>7 DEF Delayed
<1> QED
  BY <1>1, <1>4, <1>8

-----------------------------------------------------------------------------
(* Slack. *)

Timed(E, M, L) == Delayed(E, Unlisted, 0) /\ M = Makespan(E) /\ Latest(L, M)

(* Nothing is cut off at zero: there is room from the earliest to the latest *)
(* start of each, and from its latest end to the latest start of those after. *)
LEMMA LatestBounds ==
  ASSUME Layered, NEW E, NEW M, NEW L, Timed(E, M, L)
  PROVE  \A a \in Actions : E[a] <= L[a] /\ L[a] + duration[a] = LastMoment(L, a, M)
<1> DEFINE Good(a) == E[a] <= L[a] /\ L[a] + duration[a] = LastMoment(L, a, M)
           S == {a \in Actions : Good(a)}
<1>1. /\ E \in [Actions -> Nat] /\ L \in [Actions -> Nat] /\ M \in Nat
      /\ \A a \in Actions : E[a] = FirstMoment(E, a)
      /\ \A a \in Actions : E[a] + duration[a] <= M
  <2>1. E \in [Actions -> Nat] /\ L \in [Actions -> Nat] /\ M = Makespan(E)
    BY DEF Timed, Delayed, Latest
  <2>2. \A a \in Actions : E[a] = FirstMoment(E, a)
    <3> SUFFICES ASSUME NEW a \in Actions PROVE E[a] = FirstMoment(E, a)
      OBVIOUS
    <3>1. a # Unlisted /\ FirstMoment(E, a) \in Nat
      BY <2>1, ActionsAssumption, FirstMomentBounds
    <3>2. E[a] = FirstMoment(E, a) + 0
      BY <3>1 DEF Timed, Delayed
    <3> QED
      BY <3>1, <3>2
  <2> QED
    BY <2>1, <2>2, MakespanBounds
<1>2. \A a \in Actions : L[a] = SaturatingSub(LastMoment(L, a, M), duration[a])
  BY DEF Timed, Latest
<1>3. \A a \in Actions : E[a] \in Nat /\ L[a] \in Nat /\ duration[a] \in Nat
  BY <1>1 DEF Layered
<1>4. ASSUME NEW a \in Actions, Successors(a) \subseteq S
      PROVE  Good(a)
  <2> DEFINE m == LastMoment(L, a, M)
  <2>1. m \in Nat /\ E[a] + duration[a] <= m
    <3>1. CASE Successors(a) = {}
      BY <1>1, <3>1, LastMomentBounds
    <3>2. CASE Successors(a) # {}
      <4>1. PICK b \in Successors(a) : m = L[b]
        BY <1>1, <3>2, LastMomentBounds
      <4>2. b \in Actions /\ a \in dependsOn[b] /\ E[b] <= L[b]
        BY <1>4 DEF Successors
      <4>3. E[a] + duration[a] <= E[b]
        BY <1>1, <4>2, FirstMomentBounds
      <4> HIDE DEF m
      <4> QED
        BY <1>3, <4>1, <4>2, <4>3
    <3> QED
      BY <3>1, <3>2
  <2> HIDE DEF m
  <2>2. L[a] = SaturatingSub(m, duration[a])
    BY <1>2 DEF m
  <2>3. L[a] + duration[a] = m /\ E[a] <= L[a]
    BY <1>3, <2>1, <2>2 DEF SaturatingSub
  <2> QED
    BY <2>3 DEF m
<1>5. S = Actions
  <2> HIDE DEF Good
  <2>1. S \in SUBSET Actions /\ \A a \in Actions : Successors(a) \subseteq S => a \in S
    BY <1>4
  <2> HIDE DEF S
  <2> QED
    BY <2>1, DownTheLevels
<1> QED
  BY <1>5

(* What a delay does to the others: nothing is sooner, nothing changes      *)
(* before the delayed one, which is late by what it is delayed.             *)
LEMMA DelayedBounds ==
  ASSUME Layered, NEW E, Delayed(E, Unlisted, 0),
         NEW late \in Actions, NEW delay \in Nat, NEW s, Delayed(s, late, delay)
  PROVE  /\ \A a \in Actions : E[a] <= s[a]
         /\ s[late] = E[late] + delay
<1>1. E \in [Actions -> Nat] /\ s \in [Actions -> Nat]
  BY DEF Delayed
<1>2. \A a \in Actions : /\ E[a] = FirstMoment(E, a) /\ s[a] \in Nat
                         /\ s[a] = FirstMoment(s, a) + (IF a = late THEN delay ELSE 0)
                         /\ FirstMoment(s, a) \in Nat
  <2> SUFFICES ASSUME NEW a \in Actions PROVE E[a] = FirstMoment(E, a) /\ FirstMoment(s, a) \in Nat
    BY <1>1 DEF Delayed
  <2>1. a # Unlisted /\ FirstMoment(E, a) \in Nat /\ FirstMoment(s, a) \in Nat
    BY <1>1, ActionsAssumption, FirstMomentBounds
  <2>2. E[a] = FirstMoment(E, a) + 0
    BY <2>1 DEF Delayed
  <2> QED
    BY <2>1, <2>2
<1> DEFINE Later == {a \in Actions : E[a] <= s[a]}
           Same  == {a \in Actions : levels[a] < levels[late] => s[a] = E[a]}
<1>3. ASSUME NEW a \in Actions, dependsOn[a] \subseteq Later
      PROVE  a \in Later
  <2>1. E[a] <= FirstMoment(s, a)
    <3>1. CASE FirstMoment(E, a) = 0
      BY <1>2, <3>1
    <3>2. CASE FirstMoment(E, a) # 0
      <4>1. PICK b \in dependsOn[a] : FirstMoment(E, a) = E[b] + duration[b]
        BY <1>1, <3>2, FirstMomentBounds
      <4>2. s[b] + duration[b] <= FirstMoment(s, a)
        BY <1>1, FirstMomentBounds
      <4>3. b \in Actions /\ E[b] <= s[b] /\ E[b] \in Nat /\ s[b] \in Nat /\ duration[b] \in Nat
        BY <1>1, <1>3 DEF Layered
      <4> QED
        BY <1>2, <4>1, <4>2, <4>3
    <3> QED
      BY <3>1, <3>2
  <2>2. E[a] \in Nat
    BY <1>1
  <2> QED
    BY <1>2, <2>1, <2>2
<1>4. ASSUME NEW a \in Actions, dependsOn[a] \subseteq Same, levels[a] <= levels[late]
      PROVE  FirstMoment(s, a) = E[a]
  <2>1. \A b \in dependsOn[a] : s[b] = E[b]
    <3> SUFFICES ASSUME NEW b \in dependsOn[a] PROVE levels[b] < levels[late]
      BY <1>4
    <3>1. levels[b] < levels[a] /\ levels[a] \in Nat /\ levels[b] \in Nat /\ levels[late] \in Nat
      BY DEF Layered
    <3> QED
      BY <1>4, <3>1
  <2> QED
    BY <1>2, <2>1, MomentsAreLocal
<1>5. ASSUME NEW a \in Actions, dependsOn[a] \subseteq Same
      PROVE  a \in Same
  <2> SUFFICES ASSUME levels[a] < levels[late] PROVE s[a] = E[a]
    OBVIOUS
  <2>1. levels[a] \in Nat /\ levels[late] \in Nat
    BY DEF Layered
  <2>2. a # late /\ levels[a] <= levels[late]
    BY <2>1
  <2>3. FirstMoment(s, a) = E[a]
    BY <1>4, <1>5, <2>2
  <2> QED
    BY <1>2, <2>2, <2>3
<1>6. Later = Actions /\ Same = Actions
  <2>1. Later \in SUBSET Actions /\ Same \in SUBSET Actions
    OBVIOUS
  <2>2. /\ \A a \in Actions : dependsOn[a] \subseteq Later => a \in Later
        /\ \A a \in Actions : dependsOn[a] \subseteq Same => a \in Same
    <3> HIDE DEF Later, Same
    <3> QED
      BY <1>3, <1>5
  <2> HIDE DEF Later, Same
  <2> QED
    BY <2>1, <2>2, UpTheLevels
<1>7. s[late] = E[late] + delay
  <2>1. dependsOn[late] \subseteq Same /\ levels[late] <= levels[late]
    BY <1>6 DEF Layered
  <2>2. FirstMoment(s, late) = E[late]
    BY <1>4, <2>1
  <2> QED
    BY <1>2, <2>2
<1> QED
  BY <1>6, <1>7

(* With its slack an action is where it is latest, and all are by then or    *)
(* sooner; a moment more, and one without successors ends too late.          *)
LEMMA SlackIsSpareOf ==
  ASSUME Layered, NEW E, NEW M, NEW L, Timed(E, M, L), NEW late \in Actions
  PROVE  LET slack == SaturatingSub(L[late], E[late])
         IN  EndsWithDelay(late, slack) = M /\ EndsWithDelay(late, slack + 1) > M
<1> DEFINE slack == SaturatingSub(L[late], E[late])
<1>1. /\ Delayed(E, Unlisted, 0) /\ M = Makespan(E)
      /\ E \in [Actions -> Nat] /\ L \in [Actions -> Nat] /\ M \in Nat
  <2>1. Delayed(E, Unlisted, 0) /\ M = Makespan(E) /\ Latest(L, M)
    BY DEF Timed
  <2>2. E \in [Actions -> Nat] /\ L \in [Actions -> Nat]
    BY <2>1 DEF Delayed, Latest
  <2> QED
    BY <2>1, <2>2, MakespanBounds
<1>2. \A a \in Actions : /\ E[a] \in Nat /\ L[a] \in Nat /\ duration[a] \in Nat
                         /\ E[a] <= L[a] /\ L[a] + duration[a] = LastMoment(L, a, M)
  BY <1>1, LatestBounds DEF Layered
<1>3. slack \in Nat /\ E[late] + slack = L[late]
  BY <1>2 DEF SaturatingSub
<1> HIDE DEF slack
<1>4. \A a \in Actions : \A b \in dependsOn[a] : b \in Actions /\ L[b] + duration[b] <= L[a]
  <2> SUFFICES ASSUME NEW a \in Actions, NEW b \in dependsOn[a]
               PROVE  b \in Actions /\ L[b] + duration[b] <= L[a]
    OBVIOUS
  <2>1. b \in Actions /\ a \in Successors(b)
    BY DEF Successors, Layered
  <2>2. LastMoment(L, b, M) <= L[a]
    BY <1>1, <2>1, LastMomentBounds
  <2> QED
    BY <1>2, <2>1, <2>2
<1> DEFINE InTime == {a \in Actions : L[a] + duration[a] <= M}
<1>5. ASSUME NEW a \in Actions, Successors(a) \subseteq InTime
      PROVE  a \in InTime
  <2>1. CASE Successors(a) = {}
    <3>1. LastMoment(L, a, M) = M
      BY <1>1, <2>1, LastMomentBounds
    <3> QED
      BY <1>1, <1>2, <3>1
  <2>2. CASE Successors(a) # {}
    <3>1. PICK b \in Successors(a) : LastMoment(L, a, M) = L[b]
      BY <1>1, <2>2, LastMomentBounds
    <3>2. b \in Actions /\ L[b] + duration[b] <= M
      BY <1>5 DEF Successors
    <3>3. L[b] \in Nat /\ duration[b] \in Nat
      BY <1>2, <3>2
    <3>4. L[a] + duration[a] <= M
      BY <1>1, <1>2, <3>1, <3>2, <3>3
    <3> QED
      BY <3>4
  <2> QED
    BY <2>1, <2>2
<1>6. \A a \in Actions : L[a] + duration[a] <= M
  <2>1. InTime \in SUBSET Actions
    OBVIOUS
  <2>2. InTime = Actions
    <3> HIDE DEF InTime
    <3> QED
      BY <1>5, <2>1, DownTheLevels
  <2> QED
    BY <2>2
<1> HIDE DEF InTime
<1>7. EndsWithDelay(late, slack) = M
  <2>1. PICK s : Delayed(s, late, slack) /\ EndsWithDelay(late, slack) = Makespan(s)
    BY <1>3, DelayIsOfStarts
  <2>2. s \in [Actions -> Nat] /\ \A a \in Actions : E[a] <= s[a]
    BY <1>1, <1>3, <2>1, DelayedBounds DEF Delayed
  <2>3. s[late] = L[late]
    BY <1>1, <1>3, <2>1, DelayedBounds
  <2> DEFINE S == {a \in Actions : s[a] <= L[a]}
  <2>4. ASSUME NEW a \in Actions, dependsOn[a] \subseteq S
        PROVE  a \in S
    <3>1. CASE a = late
      BY <1>2, <2>3, <3>1
    <3>2. CASE a # late
      <4>1. s[a] = FirstMoment(s, a) + 0 /\ FirstMoment(s, a) \in Nat
        BY <2>1, <2>2, <3>2, FirstMomentBounds DEF Delayed
      <4>2. FirstMoment(s, a) <= L[a]
        <5>1. CASE FirstMoment(s, a) = 0
          BY <1>2, <5>1
        <5>2. CASE FirstMoment(s, a) # 0
          <6>1. PICK b \in dependsOn[a] : FirstMoment(s, a) = s[b] + duration[b]
            BY <2>2, <5>2, FirstMomentBounds
          <6>2. b \in Actions /\ L[b] + duration[b] <= L[a] /\ s[b] <= L[b]
            BY <1>4, <2>4
          <6>3. s[b] \in Nat /\ L[b] \in Nat /\ L[a] \in Nat /\ duration[b] \in Nat
            BY <1>2, <2>2, <6>2
          <6> QED
            BY <6>1, <6>2, <6>3
        <5> QED
          BY <5>1, <5>2
      <4> QED
        BY <4>1, <4>2
    <3> QED
      BY <3>1, <3>2
  <2>5. S = Actions
    <3>1. S \in SUBSET Actions
      OBVIOUS
    <3> HIDE DEF S
    <3> QED
      BY <2>4, <3>1, UpTheLevels
  <2>6. Makespan(s) <= M
    <3>1. PICK a \in Actions : Makespan(s) = s[a] + duration[a]
      BY <2>2, MakespanBounds
    <3>2. s[a] \in Nat /\ s[a] <= L[a]
      BY <2>2, <2>5
    <3> QED
      BY <1>1, <1>2, <1>6, <3>1, <3>2
  <2>7. M <= Makespan(s)
    <3>1. PICK a \in Actions : M = E[a] + duration[a]
      BY <1>1, MakespanBounds
    <3>2. s[a] + duration[a] <= Makespan(s) /\ Makespan(s) \in Nat
      BY <2>2, MakespanBounds
    <3>3. E[a] <= s[a] /\ s[a] \in Nat
      BY <2>2
    <3> QED
      BY <1>2, <3>1, <3>2, <3>3
  <2>8. Makespan(s) \in Nat
    BY <2>2, MakespanBounds
  <2> QED
    BY <1>1, <2>1, <2>6, <2>7, <2>8
<1>8. EndsWithDelay(late, slack + 1) > M
  <2>1. PICK s : /\ Delayed(s, late, slack + 1)
                 /\ EndsWithDelay(late, slack + 1) = Makespan(s)
    BY <1>3, DelayIsOfStarts
  <2>2. s \in [Actions -> Nat] /\ s[late] = L[late] + 1
    <3>1. s[late] = E[late] + (slack + 1)
      BY <1>1, <1>3, <2>1, DelayedBounds
    <3> QED
      BY <1>2, <1>3, <2>1, <3>1 DEF Delayed
  <2>3. \A a \in Actions : s[a] \in Nat /\ FirstMoment(s, a) \in Nat /\ FirstMoment(s, a) <= s[a]
    <3> SUFFICES ASSUME NEW a \in Actions
                 PROVE  s[a] \in Nat /\ FirstMoment(s, a) \in Nat /\ FirstMoment(s, a) <= s[a]
      OBVIOUS
    <3>1. FirstMoment(s, a) \in Nat
      BY <2>2, FirstMomentBounds
    <3>2. s[a] = FirstMoment(s, a) + (IF a = late THEN slack + 1 ELSE 0)
      BY <2>1 DEF Delayed
    <3> QED
      BY <1>3, <2>2, <3>1, <3>2
  <2> SUFFICES ASSUME Makespan(s) <= M PROVE FALSE
    BY <1>1, <2>1, <2>2, MakespanBounds
  <2> DEFINE S == {a \in Actions : s[a] <= L[a]}
  <2>4. ASSUME NEW a \in Actions, Successors(a) \subseteq S
        PROVE  a \in S
    <3>1. s[a] + duration[a] <= L[a] + duration[a]
      <4>1. CASE Successors(a) = {}
        <5>1. L[a] + duration[a] = M
          BY <1>1, <1>2, <4>1, LastMomentBounds
        <5>2. s[a] + duration[a] <= Makespan(s) /\ Makespan(s) \in Nat
          BY <2>2, MakespanBounds
        <5> QED
          BY <1>1, <1>2, <2>3, <5>1, <5>2
      <4>2. CASE Successors(a) # {}
        <5>1. PICK b \in Successors(a) : LastMoment(L, a, M) = L[b]
          BY <1>1, <4>2, LastMomentBounds
        <5>2. b \in Actions /\ a \in dependsOn[b] /\ s[b] <= L[b]
          BY <2>4 DEF Successors
        <5>3. s[a] + duration[a] <= FirstMoment(s, b)
          BY <2>2, <5>2, FirstMomentBounds
        <5> QED
          BY <1>2, <2>3, <5>1, <5>2, <5>3
      <4> QED
        BY <4>1, <4>2
    <3> QED
      BY <1>2, <2>3, <3>1
  <2>5. S = Actions
    <3>1. S \in SUBSET Actions
      OBVIOUS
    <3> HIDE DEF S
    <3> QED
      BY <2>4, <3>1, DownTheLevels
  <2> QED
    BY <1>2, <2>2, <2>5
<1> QED
  BY <1>7, <1>8 DEF slack

-----------------------------------------------------------------------------
(* The passes. *)

(* All the actions, each after those it depends on (or, backwards, before). *)
Covering(q) ==
  /\ q \in Seq(Actions) /\ Len(q) \in Nat /\ DOMAIN q = 1 .. Len(q)
  /\ \A a \in Actions : \E n \in 1 .. Len(q) : q[n] = a

LEMMA WavesInOrder ==
  ASSUME Layered
  PROVE  /\ Covering(InWaves)
         /\ \A m, n \in 1 .. Len(InWaves) : InWaves[m] \in dependsOn[InWaves[n]] => m < n
<1> DEFINE R == {p \in Actions \X Actions :
                   levels[p[1]] < levels[p[2]] \/ (levels[p[1]] = levels[p[2]] /\ p[1] < p[2])}
           id == [a \in Actions |-> a]
           q == InWaves
           D == 1 .. Cardinality(Actions)
<1>1. \A a, b \in Actions :
        <<a, b>> \in R <=> levels[a] < levels[b] \/ (levels[a] = levels[b] /\ a < b)
  OBVIOUS
<1>2. q = Arranged(id, Actions, R)
  BY DEF InWaves
<1> HIDE DEF R, q
<1>3. \A a \in Actions : a \in Nat /\ levels[a] \in Nat
  BY ActionsAssumption DEF Layered
<1>4. StrictOrder(Actions, R)
  <2>1. \A a, b \in Actions : a # b => <<a, b>> \in R \/ <<b, a>> \in R
    BY <1>1, <1>3
  <2>2. \A a \in Actions : <<a, a>> \notin R
    BY <1>1, <1>3
  <2>3. \A a, b, c \in Actions : <<a, b>> \in R /\ <<b, c>> \in R => <<a, c>> \in R
    BY <1>1, <1>3
  <2> QED
    BY <2>1, <2>2, <2>3 DEF StrictOrder
<1>5. IsFiniteSet(Actions) /\ Cardinality(Actions) \in Nat /\ \A a \in Actions : id[a] \in Actions
  BY ActionsAssumption, FS_CardinalityType
<1>6. q \in Seq(Actions) /\ Len(q) = Cardinality(Actions) /\ ArrangedBy(q, id, Actions, R)
  BY <1>2, <1>4, <1>5, InOrderArranged
<1>7. \A k, l \in D : k < l => <<q[k], q[l]>> \in R
  BY <1>6 DEF ArrangedBy
<1>8. DOMAIN q = D /\ q \in [D -> Actions]
  BY <1>6
<1>9. \A k, l \in D : q[k] = q[l] => k = l
  <2> SUFFICES ASSUME NEW k \in D, NEW l \in D, q[k] = q[l], k # l PROVE FALSE
    OBVIOUS
  <2>1. <<q[k], q[l]>> \in R \/ <<q[l], q[k]>> \in R
    BY <1>5, <1>7
  <2> QED
    BY <1>4, <1>8, <2>1 DEF StrictOrder
<1>10. \A a \in Actions : \E n \in D : q[n] = a
  <2>1. q \in Injection(D, Actions)
    BY <1>8, <1>9 DEF Injection, IsInjective
  <2>2. IsFiniteSet(D) /\ Cardinality(D) = Cardinality(Actions)
    BY <1>5, FS_Interval
  <2>3. q \in Surjection(D, Actions)
    BY <1>5, <2>1, <2>2, FS_Injection
  <2> QED
    BY <2>3 DEF Surjection
<1>11. ASSUME NEW m \in D, NEW n \in D, q[m] \in dependsOn[q[n]]
       PROVE  m < n
  <2>1. q[m] \in Actions /\ q[n] \in Actions /\ levels[q[m]] < levels[q[n]]
    BY <1>8, <1>11 DEF Layered
  <2>2. <<q[m], q[n]>> \in R /\ m # n
    BY <1>1, <1>3, <2>1
  <2>3. ~(n < m)
    BY <1>4, <1>7, <2>1, <2>2 DEF StrictOrder
  <2> QED
    BY <1>5, <2>2, <2>3
<1>12. Covering(q)
  BY <1>5, <1>6, <1>8, <1>10 DEF Covering
<1> QED
  BY <1>6, <1>11, <1>12 DEF q

Part(E, q, n) == [a \in {q[i] : i \in 1 .. n} |-> E[a]]

LEMMA PartGrows ==
  ASSUME NEW q, Covering(q), NEW E, NEW n \in 1 .. Len(q)
  PROVE  With(Part(E, q, n - 1), q[n], E[q[n]]) = Part(E, q, n)
<1>1. n \in Nat /\ n - 1 \in Nat
  BY DEF Covering
<1>2. 1 .. n = (1 .. n - 1) \cup {n}
  BY <1>1
<1>3. {q[i] : i \in 1 .. n} = {q[i] : i \in 1 .. n - 1} \cup {q[n]}
  BY <1>2
<1> QED
  BY <1>3 DEF With, Part

(* A pass that writes what E says each time has written E in the end.       *)
LEMMA PassWrites ==
  ASSUME NEW q, Covering(q), NEW E \in [Actions -> Nat], NEW h, h[0] = <<>>,
         \A n \in 1 .. Len(q) :
            h[n - 1] = Part(E, q, n - 1) => h[n] = With(h[n - 1], q[n], E[q[n]])
  PROVE  h[Len(q)] = E
<1> DEFINE Written == {n \in Nat : n <= Len(q) => h[n] = Part(E, q, n)}
<1>1. 0 \in Written
  <2>1. Part(E, q, 0) = <<>>
    BY DEF Part
  <2> QED
    BY <2>1
<1>2. ASSUME NEW n \in Written
      PROVE  n + 1 \in Written
  <2> SUFFICES ASSUME n + 1 <= Len(q) PROVE h[n + 1] = Part(E, q, n + 1)
    OBVIOUS
  <2>1. n \in Nat /\ n + 1 \in 1 .. Len(q) /\ (n + 1) - 1 = n /\ n <= Len(q)
    BY DEF Covering
  <2>2. h[n] = Part(E, q, n)
    BY <2>1
  <2>3. h[n + 1] = With(h[n], q[n + 1], E[q[n + 1]])
    BY <2>1, <2>2
  <2>4. With(Part(E, q, n), q[n + 1], E[q[n + 1]]) = Part(E, q, n + 1)
    BY <2>1, PartGrows
  <2> QED
    BY <2>2, <2>3, <2>4
<1>3. Len(q) \in Written
  <2>1. Written \in SUBSET Nat
    OBVIOUS
  <2> HIDE DEF Written
  <2>2. Written = Nat
    BY <1>1, <1>2, <2>1, CountingUp
  <2> QED
    BY <2>2 DEF Covering
<1>4. h[Len(q)] = Part(E, q, Len(q))
  BY <1>3 DEF Covering
<1>5. {q[i] : i \in 1 .. Len(q)} = Actions
  BY DEF Covering
<1> QED
  BY <1>4, <1>5 DEF Part

LEMMA PartOfPart ==
  ASSUME NEW q, NEW E, NEW n \in Nat, NEW i \in 1 .. n
  PROVE  Part(E, q, n)[q[i]] = E[q[i]]
BY DEF Part

LEMMA ForwardIsFirst ==
  ASSUME Layered, NEW q, Covering(q),
         \A m, n \in 1 .. Len(q) : q[m] \in dependsOn[q[n]] => m < n,
         NEW E \in [Actions -> Nat], \A a \in Actions : E[a] = FirstMoment(E, a)
  PROVE  Forward(q) = E
<1> DEFINE Step(f, n) == IF n = 0 THEN <<>>
                         ELSE With(f[n - 1], q[n], FirstMoment(f[n - 1], q[n]))
           h == CHOOSE h : h = [n \in 0 .. Len(q) |-> Step(h, n)]
           G == [n \in 0 .. Len(q) |-> Part(E, q, n)]
<1>1. ASSUME NEW n \in 1 .. Len(q)
      PROVE  FirstMoment(Part(E, q, n - 1), q[n]) = E[q[n]]
  <2>1. q[n] \in Actions /\ n - 1 \in Nat
    BY DEF Covering
  <2>2. ASSUME NEW b \in dependsOn[q[n]]
        PROVE  Part(E, q, n - 1)[b] = E[b]
    <3>1. b \in Actions
      BY <2>1 DEF Layered
    <3>2. PICK m \in 1 .. Len(q) : q[m] = b
      BY <3>1 DEF Covering
    <3>3. m < n /\ m \in 1 .. n - 1
      <4>1. m < n
        BY <2>2, <3>2
      <4> QED
        BY <2>1, <4>1
    <3> QED
      BY <2>1, <3>2, <3>3, PartOfPart
  <2>3. FirstMoment(Part(E, q, n - 1), q[n]) = FirstMoment(E, q[n])
    BY <2>1, <2>2, MomentsAreLocal
  <2> QED
    BY <2>1, <2>3
<1>2. G = [n \in 0 .. Len(q) |-> Step(G, n)]
  <2> SUFFICES ASSUME NEW n \in 0 .. Len(q) PROVE Part(E, q, n) = Step(G, n)
    OBVIOUS
  <2>1. CASE n = 0
    BY <2>1 DEF Part
  <2>2. CASE n # 0
    <3>1. n \in 1 .. Len(q) /\ n - 1 \in 0 .. Len(q)
      BY <2>2 DEF Covering
    <3>2. Step(G, n) = With(Part(E, q, n - 1), q[n], E[q[n]])
      BY <1>1, <2>2, <3>1
    <3> QED
      BY <3>1, <3>2, PartGrows
  <2> QED
    BY <2>1, <2>2
<1> HIDE DEF Step, G
<1>3. h = [n \in 0 .. Len(q) |-> Step(h, n)]
  BY <1>2
<1>4. Forward(q) = h[Len(q)]
  BY DEF Forward, Pass, Step
<1> HIDE DEF h
<1>5. h[0] = <<>>
  BY <1>3 DEF Covering, Step
<1>6. ASSUME NEW n \in 1 .. Len(q), h[n - 1] = Part(E, q, n - 1)
      PROVE  h[n] = With(h[n - 1], q[n], E[q[n]])
  <2>1. n \in 0 .. Len(q) /\ n # 0
    BY DEF Covering
  <2>2. h[n] = Step(h, n)
    BY <1>3, <2>1
  <2> QED
    BY <1>1, <1>6, <2>1, <2>2 DEF Step
<1> QED
  BY <1>4, <1>5, <1>6, PassWrites

LEMMA ReversedCovers ==
  ASSUME NEW q, Covering(q),
         \A m, n \in 1 .. Len(q) : q[m] \in dependsOn[q[n]] => m < n
  PROVE  /\ Covering(Reverse(q)) /\ Len(Reverse(q)) = Len(q)
         /\ \A m, n \in 1 .. Len(q) : Reverse(q)[m] \in Successors(Reverse(q)[n]) => m < n
<1> DEFINE l == Len(q)
           p == Reverse(q)
<1>1. l \in Nat /\ q \in Seq(Actions) /\ DOMAIN q = 1 .. l
  BY DEF Covering
<1>2. p = [i \in 1 .. l |-> q[(l - i) + 1]]
  BY DEF Reverse
<1>3. \A i \in 1 .. l : (l - i) + 1 \in 1 .. l /\ (l - ((l - i) + 1)) + 1 = i
  BY <1>1
<1> HIDE DEF l, p
<1>4. \A i \in 1 .. l : p[i] = q[(l - i) + 1] /\ p[i] \in Actions
  BY <1>1, <1>2, <1>3
<1>5. p \in Seq(Actions) /\ Len(p) = l /\ DOMAIN p = 1 .. l
  BY <1>1, <1>2, <1>4
<1>6. ASSUME NEW a \in Actions
      PROVE  \E n \in 1 .. l : p[n] = a
  <2>1. PICK i \in 1 .. l : q[i] = a
    BY DEF Covering, l
  <2>2. p[(l - i) + 1] = q[i]
    BY <1>3, <1>4
  <2> QED
    BY <1>3, <2>1, <2>2
<1>7. ASSUME NEW m \in 1 .. l, NEW n \in 1 .. l, p[m] \in Successors(p[n])
      PROVE  m < n
  <2>1. q[(l - n) + 1] \in dependsOn[q[(l - m) + 1]]
    BY <1>4, <1>7 DEF Successors
  <2>2. (l - n) + 1 < (l - m) + 1
    BY <1>3, <2>1 DEF l
  <2> QED
    BY <1>1, <2>2
<1>8. Covering(p)
  BY <1>1, <1>5, <1>6 DEF Covering
<1> QED
  BY <1>5, <1>7, <1>8 DEF l, p

LEMMA BackwardIsLast ==
  ASSUME Layered, NEW q, Covering(q),
         \A m, n \in 1 .. Len(q) : q[m] \in dependsOn[q[n]] => m < n,
         NEW end \in Nat, NEW L, Latest(L, end)
  PROVE  Backward(q, end) = L
<1> DEFINE p == Reverse(q)
           Start(s, a) == SaturatingSub(LastMoment(s, a, end), duration[a])
           Step(f, n) == IF n = 0 THEN <<>>
                         ELSE With(f[n - 1], p[n], Start(f[n - 1], p[n]))
           h == CHOOSE h : h = [n \in 0 .. Len(p) |-> Step(h, n)]
           G == [n \in 0 .. Len(p) |-> Part(L, p, n)]
<1>0. /\ Covering(p) /\ Len(p) \in Nat
      /\ \A m, n \in 1 .. Len(p) : p[m] \in Successors(p[n]) => m < n
      /\ L \in [Actions -> Nat] /\ \A a \in Actions : L[a] = Start(L, a)
  <2>1. Covering(p) /\ \A m, n \in 1 .. Len(p) : p[m] \in Successors(p[n]) => m < n
    BY ReversedCovers
  <2> QED
    BY <2>1 DEF Latest, Covering
<1>4. Backward(q, end) = h[Len(p)]
  BY DEF Backward, Pass
<1> HIDE DEF p
<1>1. ASSUME NEW n \in 1 .. Len(p)
      PROVE  Start(Part(L, p, n - 1), p[n]) = L[p[n]]
  <2>1. p[n] \in Actions /\ n - 1 \in Nat
    BY <1>0 DEF Covering
  <2>2. ASSUME NEW b \in Successors(p[n])
        PROVE  Part(L, p, n - 1)[b] = L[b]
    <3>1. b \in Actions
      BY <2>1 DEF Successors
    <3>2. PICK m \in 1 .. Len(p) : p[m] = b
      BY <1>0, <3>1 DEF Covering
    <3>3. m < n /\ m \in 1 .. n - 1
      <4>1. m < n
        BY <1>0, <2>2, <3>2
      <4> QED
        BY <2>1, <4>1
    <3> QED
      BY <2>1, <3>2, <3>3, PartOfPart
  <2>3. LastMoment(Part(L, p, n - 1), p[n], end) = LastMoment(L, p[n], end)
    <3> DEFINE g == Part(L, p, n - 1)
               a == p[n]
    <3>1. a \in Actions /\ \A b \in Successors(a) : g[b] = L[b]
      BY <2>1, <2>2
    <3> HIDE DEF g, a
    <3>2. LastMoment(g, a, end) = LastMoment(L, a, end)
      BY <3>1, MomentsAreLocal
    <3> QED
      BY <3>2 DEF g, a
  <2> QED
    BY <1>0, <2>1, <2>3
<1> HIDE DEF Start
<1>2. G = [n \in 0 .. Len(p) |-> Step(G, n)]
  <2> SUFFICES ASSUME NEW n \in 0 .. Len(p) PROVE Part(L, p, n) = Step(G, n)
    OBVIOUS
  <2>1. CASE n = 0
    BY <2>1 DEF Part
  <2>2. CASE n # 0
    <3>1. n \in 1 .. Len(p) /\ n - 1 \in 0 .. Len(p)
      BY <1>0, <2>2
    <3>2. Step(G, n) = With(Part(L, p, n - 1), p[n], L[p[n]])
      BY <1>1, <2>2, <3>1
    <3> QED
      BY <1>0, <3>1, <3>2, PartGrows
  <2> QED
    BY <2>1, <2>2
<1> HIDE DEF Step, G
<1>3. h = [n \in 0 .. Len(p) |-> Step(h, n)]
  BY <1>2
<1> HIDE DEF h
<1>5. h[0] = <<>>
  BY <1>0, <1>3 DEF Step
<1>6. ASSUME NEW n \in 1 .. Len(p), h[n - 1] = Part(L, p, n - 1)
      PROVE  h[n] = With(h[n - 1], p[n], L[p[n]])
  <2>1. n \in 0 .. Len(p) /\ n # 0
    BY <1>0
  <2>2. h[n] = Step(h, n)
    BY <1>3, <2>1
  <2> QED
    BY <1>1, <1>6, <2>1, <2>2 DEF Step
<1> QED
  BY <1>0, <1>4, <1>5, <1>6, PassWrites

(* The schedule of an analysis is timed. *)
TimedInv == stage = "scheduled" => Timed(earliest, makespan, latest)

LEMMA AnalysisIsTimed ==
  ASSUME Layered
  PROVE  Timed(Forward(InWaves), Makespan(Forward(InWaves)),
               Backward(InWaves, Makespan(Forward(InWaves))))
<1> DEFINE q == InWaves
<1>1. Covering(q) /\ \A m, n \in 1 .. Len(q) : q[m] \in dependsOn[q[n]] => m < n
  BY WavesInOrder
<1> HIDE DEF q
<1>2. PICK E : Delayed(E, Unlisted, 0)
  BY DelayedExists
<1>3. E \in [Actions -> Nat] /\ \A a \in Actions : E[a] = FirstMoment(E, a)
  <2>1. E \in [Actions -> Nat]
    BY <1>2 DEF Delayed
  <2>2. ASSUME NEW a \in Actions
        PROVE  E[a] = FirstMoment(E, a)
    <3>1. a # Unlisted /\ FirstMoment(E, a) \in Nat
      BY <2>1, ActionsAssumption, FirstMomentBounds
    <3>2. E[a] = FirstMoment(E, a) + 0
      BY <1>2, <3>1 DEF Delayed
    <3> QED
      BY <3>1, <3>2
  <2> QED
    BY <2>1, <2>2
<1>4. Forward(q) = E
  BY <1>1, <1>3, ForwardIsFirst
<1>5. Makespan(E) \in Nat
  BY <1>3, MakespanBounds
<1>6. PICK L : Latest(L, Makespan(E))
  BY <1>5, LatestExists
<1>7. Backward(q, Makespan(E)) = L
  BY <1>1, <1>5, <1>6, BackwardIsLast
<1> QED
  BY <1>2, <1>4, <1>6, <1>7 DEF Timed, q

LEMMA TimedKept == SortInv /\ TimedInv /\ [ScheduleNext]_scheduleVars => TimedInv'
<1> SUFFICES ASSUME SortInv, TimedInv, [ScheduleNext]_scheduleVars, stage' = "scheduled"
             PROVE  Timed(earliest, makespan, latest)'
  BY DEF TimedInv
<1>1. UNCHANGED <<dependsOn, duration>> /\ Timed(earliest', makespan', latest')
  <2>1. CASE Analyse
    <3>1. Sorted /\ Unsorted = {}
      BY <2>1 DEF Analyse, Sorted
    <3>2. Layered
      BY <3>1, SortedIsLayered
    <3>3. /\ earliest' = Forward(InWaves) /\ makespan' = Makespan(earliest')
          /\ latest' = Backward(InWaves, makespan') /\ UNCHANGED given
      BY <2>1 DEF Analyse
    <3> QED
      BY <3>2, <3>3, AnalysisIsTimed DEF given
  <2>2. CASE UNCHANGED scheduleVars
    BY <2>2 DEF TimedInv, scheduleVars
  <2>3. CASE Reject \/ Prepare \/ Pop \/ Cycle
    BY <2>3 DEF Reject, Prepare, Pop, Cycle
  <2> QED
    BY <2>1, <2>2, <2>3 DEF ScheduleNext
<1>2. \A a \in Actions : /\ FirstMoment(earliest, a)' = FirstMoment(earliest', a)
                         /\ LastMoment(latest, a, makespan)' = LastMoment(latest', a, makespan')
  BY <1>1 DEF FirstMoment, LastMoment, Successors
<1>3. Makespan(earliest)' = Makespan(earliest')
  BY <1>1 DEF Makespan
<1>4. Delayed(earliest, Unlisted, 0)'
  BY <1>1, <1>2 DEF Timed, Delayed
<1>5. Latest(latest, makespan)'
  BY <1>1, <1>2 DEF Timed, Latest
<1>6. makespan' = Makespan(earliest')
  BY <1>1 DEF Timed
<1> QED
  BY <1>3, <1>4, <1>5, <1>6 DEF Timed

(* In whatever order the queue is filled, the waves of a schedule are the    *)
(* lengths of the chains of its graph, circles are refused, and the slack of *)
(* an action is what it can be late, and no more (schedule).                 *)
THEOREM ScheduleFitsGraph == ScheduleSpec => []ScheduleOfTheGraph
<1>1. ScheduleInit => SortInv /\ TimedInv
  <2>1. ScheduleInit => TimedInv
    BY DEF ScheduleInit, NothingScheduled, TimedInv
  <2> QED
    BY <2>1, SortStarts
<1>2. SortInv /\ TimedInv /\ [ScheduleNext]_scheduleVars => (SortInv /\ TimedInv)'
  BY SortKept, TimedKept
<1>3. SortInv /\ TimedInv => ScheduleOfTheGraph
  <2> SUFFICES ASSUME SortInv, TimedInv PROVE WavesAreChains /\ SlackIsSpare
    BY DEF ScheduleOfTheGraph
  <2>1. ASSUME stage = "scheduled", NEW a \in Actions
        PROVE  LET slack == SaturatingSub(latest[a], earliest[a])
               IN  EndsWithDelay(a, slack) = makespan /\ EndsWithDelay(a, slack + 1) > makespan
    <3>1. Sorted /\ Unsorted = {}
      BY <2>1 DEF SortInv, Sorted
    <3>2. Layered
      BY <3>1, SortedIsLayered
    <3>3. Timed(earliest, makespan, latest)
      BY <2>1 DEF TimedInv
    <3> QED
      BY <3>2, <3>3, SlackIsSpareOf
  <2> QED
    BY <2>1, WavesHold DEF SlackIsSpare
<1> QED
  BY <1>1, <1>2, <1>3, PTL DEF ScheduleSpec
=============================================================================
