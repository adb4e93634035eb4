----------------------------- MODULE Arrangements -----------------------------
(***************************************************************************)
(* Sequences put in order, as the stable sorts and filters of the source   *)
(* do: Vec::sort_by and Iterator::filter.                                  *)
(***************************************************************************)
EXTENDS Naturals, FiniteSets, Sequences

(* The elements of s at some places, as pairs of places tell which is before *)
(* which.                                                                   *)
Arranged(s, places, before) ==
  [k \in 1 .. Cardinality(places) |->
     s[CHOOSE i \in places : Cardinality({j \in places : <<j, i>> \in before}) = k - 1]]

AsTheyCome(places) == {p \in places \X places : p[1] < p[2]}

Selected(s, Test(_)) ==
  LET places == {i \in DOMAIN s : Test(s[i])} IN Arranged(s, places, AsTheyCome(places))

SortStable(s, Before(_, _)) ==
  LET Earlier(i, j) == Before(s[i], s[j]) \/ (~Before(s[j], s[i]) /\ i < j)
  IN  Arranged(s, DOMAIN s, {p \in (DOMAIN s) \X (DOMAIN s) : Earlier(p[1], p[2])})
===============================================================================
