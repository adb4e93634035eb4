---------------------------- MODULE ContextAssembly ----------------------------
(***************************************************************************)
(* The context window of an LLM call (crates/context-engine, and           *)
(* build_context_with_complexity in orchestrator-core/src/runtime.rs).     *)
(* What was gathered is freed of duplicates, snippets of one file that     *)
(* overlap are merged, and the items are packed greedily in the order of   *)
(* their rank: pinned ones first, then by priority, then by relevance,     *)
(* which halves with age.                                                  *)
(*                                                                         *)
(* An item's text is a sequence of lines, of one token each unless the     *)
(* item comes with an estimate; a line is never part of another.           *)
(* Relevance is an integer (40 for 1.0), ages are counted in half-lives.   *)
(***************************************************************************)
EXTENDS Arrangements, Naturals, FiniteSets, Sequences, Functions, FiniteSetsExt, SequencesExt

CONSTANTS Sizes,      \* estimates of an item in tokens
          Relevances, \* of what a retrieval returned
          Ages,       \* of the run and of its observations
          Budgets,    \* tokens of the whole window
          Caps,       \* tokens of the categories that have a cap
          FileLines   \* a file has this many lines

Categories == {"search_results", "tool_outputs", "verification"}

(* What is left of a relevance is divided by this: a power of two, positive *)
(* at every age (AgesAssumption; the provers know nothing of powers).       *)
HalfLives(age) == 2 ^ age

ASSUME AmountsAssumption ==
  Sizes \subseteq Nat /\ Relevances \subseteq Nat /\ Budgets \subseteq Nat /\ FileLines \in Nat
ASSUME AgesAssumption ==
  Ages \subseteq Nat /\ \A age \in Ages \cup {0} : HalfLives(age) \in Nat \ {0}
ASSUME CapsAssumption ==
  \A c \in Caps : DOMAIN c \subseteq Categories /\ \A kind \in DOMAIN c : c[kind] \in Nat

VARIABLES items,              \* gathered for the builder
          budget, caps,
          phase,              \* "gathered", "packing" or "built"
          queue,              \* still to be packed, in order
          included, excluded, \* packed and left out so far (the latter only counted)
          total, usage        \* tokens counted, in all and by category

contextVars == <<items, budget, caps, phase, queue, included, excluded, total, usage>>

-----------------------------------------------------------------------------
(* What a caller gathers. *)

Item(key, priority, source, pinned, relevance, age, estimate, lines) ==
  [key |-> key, priority |-> priority, source |-> source, pinned |-> pinned,
   relevance |-> relevance, age |-> age, estimate |-> estimate, lines |-> lines]

(* The prompt and the request were added at step 0: they are as old as the  *)
(* run.                                                                     *)
SystemPrompt(age, size) == Item("system", 100, "user_request", TRUE, 40, age, size, <<>>)
UserRequest(age, size)  == Item("request", 90, "user_request", TRUE, 40, age, size, <<>>)

Retrieved(key, relevance, age, size) ==
  Item(key, 70, "search_results", FALSE, relevance, age, size, <<>>)
ToolOutput(key, age, size) == Item(key, 50, "tool_outputs", FALSE, 24, age, size, <<>>)

(* The working memory's summary, or a note: always fresh. *)
PinnedNote(size) == Item("note", 90, "pinned_by_user", TRUE, 40, 0, size, <<>>)

(* Lines first .. last of the one file. *)
Snippet(key, first, last) ==
  Item(key, 50, "file", FALSE, 20, 0, 0, [i \in 1 .. last - first + 1 |-> first + i - 1])

Observation(key, age) ==
  {Retrieved(key, relevance, age, size) : relevance \in Relevances, size \in Sizes}
    \cup {ToolOutput(key, age, size) : size \in Sizes}

(* Retrieved content goes before the outputs of tools; the older            *)
(* observation is the first of each.                                        *)
InOrder(older, newer) ==
  IF older.source = "tool_outputs" /\ newer.source = "search_results"
  THEN <<newer, older>> ELSE <<older, newer>>

BuildContext(age, prompt, request, older, newer, notes) ==
  <<SystemPrompt(age, prompt), UserRequest(age, request)>>
    \o InOrder(older, newer) \o [i \in 1 .. Len(notes) |-> PinnedNote(notes[i])]

-----------------------------------------------------------------------------
(* Duplicates. *)

(* Of the items with one key the most relevant, in the place of the first.  *)
BestWithKey(s, key) ==
  LET same == {i \in DOMAIN s : s[i].key = key}
  IN  s[CHOOSE i \in same : \A j \in same :
          s[i].relevance > s[j].relevance \/ (s[i].relevance = s[j].relevance /\ i <= j)]

DedupByKey(s) ==
  LET firsts == {i \in DOMAIN s : \A j \in 1 .. i - 1 : s[j].key # s[i].key}
      best   == [i \in DOMAIN s |-> BestWithKey(s, s[i].key)]
  IN  Arranged(best, firsts, AsTheyCome(firsts))

(* b begins, with at least two lines, at line `start` of a.                 *)
OverlapsAt(a, start, b) ==
  /\ start < Len(a) /\ Len(b) >= 2
  /\ a[start] = b[1] /\ a[start + 1] = b[2]

Overlaps(a, b) == \E start \in DOMAIN a : OverlapsAt(a, start, b)

(* What a has before the overlap, and b.  What a has after it is not looked *)
(* at.                                                                      *)
JoinAt(a, b) ==
  LET start == Min({i \in DOMAIN a : OverlapsAt(a, i, b)})
  IN  SubSeq(a, 1, start - 1) \o b

IsPart(b, a) ==
  \E i \in 0 .. Len(a) : i + Len(b) <= Len(a) /\ SubSeq(a, i + 1, i + Len(b)) = b

Joinable(a, b) ==
  /\ a # <<>> /\ b # <<>>
  /\ Overlaps(a, b) \/ Overlaps(b, a) \/ IsPart(b, a) \/ IsPart(a, b)

TryMergeLines(a, b) ==
  CASE Overlaps(a, b) -> JoinAt(a, b)
    [] ~Overlaps(a, b) /\ Overlaps(b, a) -> JoinAt(b, a)
    [] OTHER -> IF IsPart(b, a) THEN a ELSE b

(* The pin of the shorter snippet is lost with it. *)
MergeInto(item, snippet) ==
  [item EXCEPT !.lines     = TryMergeLines(item.lines, snippet.lines),
               !.estimate  = 0,
               !.relevance = IF snippet.relevance > @ THEN snippet.relevance ELSE @,
               !.priority  = IF snippet.priority > @ THEN snippet.priority ELSE @]

AddSnippet(result, snippet) ==
  LET partners == {i \in DOMAIN result : Joinable(result[i].lines, snippet.lines)}
  IN  IF partners = {} THEN Append(result, snippet)
      ELSE LET i == Min(partners) IN [result EXCEPT ![i] = MergeInto(@, snippet)]

MergeSnippets(s) ==
  LET IsLonger(x, y) == Len(x.lines) > Len(y.lines)
  IN  FoldLeft(AddSnippet, <<>>, SortStable(s, IsLonger))

(* There is one file; of several the groups would follow in any order.      *)
Deduplicate(s) ==
  LET deduped   == DedupByKey(s)
      IsFile(i) == i.source = "file"
      Other(i)  == ~IsFile(i)
  IN  Selected(deduped, Other) \o MergeSnippets(Selected(deduped, IsFile))

-----------------------------------------------------------------------------
(* Packing. *)

Tokens(item) == IF item.estimate > 0 THEN item.estimate ELSE Len(item.lines)

Decayed(item) == item.relevance \div HalfLives(item.age)

RanksBefore(x, y) ==
  \/ x.priority > y.priority
  \/ x.priority = y.priority /\ Decayed(x) > Decayed(y)

(* Pinned items go before the others. *)
Outranks(x, y) == IF x.pinned = y.pinned THEN RanksBefore(x, y) ELSE x.pinned

(* Mutant of PackingOrder: the items as they came. *)
AsGathered(s) ==
  LET PinnedFirst(x, y) == x.pinned /\ ~y.pinned IN SortStable(s, PinnedFirst)

PackingOrder(s) == SortStable(s, Outranks)

Capped(item) == item.source \in DOMAIN caps

(* Mutant of Fits: the category is compared before the item is added.       *)
FitsSoFar(item) ==
  /\ total + Tokens(item) <= budget
  /\ Capped(item) => usage[item.source] <= caps[item.source]

Fits(item) ==
  /\ total + Tokens(item) <= budget
  /\ Capped(item) => usage[item.source] + Tokens(item) <= caps[item.source]

BuildQueue ==
  /\ phase = "gathered"
  /\ phase' = "packing"
  /\ queue' = PackingOrder(Deduplicate(items))
  /\ UNCHANGED <<items, budget, caps, included, excluded, total, usage>>

Include ==
  /\ phase = "packing" /\ queue # <<>>
  /\ Fits(Head(queue))
  /\ included' = Append(included, Head(queue))
  /\ total' = total + Tokens(Head(queue))
  /\ usage' = [c \in Categories |->
                 usage[c] + IF Head(queue).source = c THEN Tokens(Head(queue)) ELSE 0]
  /\ queue' = Tail(queue)
  /\ UNCHANGED <<items, budget, caps, phase, excluded>>

Exclude ==
  /\ phase = "packing" /\ queue # <<>>
  /\ ~Fits(Head(queue))
  /\ excluded' = Append(excluded, Head(queue))
  /\ queue' = Tail(queue)
  /\ UNCHANGED <<items, budget, caps, phase, included, total, usage>>

FinishWindow ==
  /\ phase = "packing" /\ queue = <<>>
  /\ phase' = "built"
  /\ UNCHANGED <<items, budget, caps, queue, included, excluded, total, usage>>

-----------------------------------------------------------------------------

NothingPacked ==
  /\ phase = "gathered"
  /\ queue = <<>> /\ included = <<>> /\ excluded = <<>>
  /\ total = 0 /\ usage = [c \in Categories |-> 0]

(* A run with two observations, and a note or none. *)
ContextInit ==
  /\ \E now \in Ages, size \in Sizes, notes \in {<<>>} \cup {<<n>> : n \in Sizes} :
     \E old \in {a \in Ages : a <= now} : \E recent \in {a \in Ages : a <= old} :
     \E older \in Observation("first", old), newer \in Observation("second", recent) :
       items = BuildContext(now, 1, size, older, newer, notes)
  /\ budget \in Budgets /\ caps \in Caps
  /\ NothingPacked

(* Two snippets of one file, from another caller of the builder: an agent's *)
(* own run gathers none.                                                    *)
SnippetInit ==
  /\ \E a, b, c, d \in 1 .. FileLines :
       /\ a <= b /\ c <= d
       /\ items = <<Snippet("one", a, b), Snippet("two", c, d)>>
  /\ budget \in Budgets /\ caps = [c \in {} |-> 0]
  /\ NothingPacked

ContextNext == BuildQueue \/ Include \/ Exclude \/ FinishWindow

ContextSpec == (ContextInit \/ SnippetInit) /\ [][ContextNext]_contextVars

-----------------------------------------------------------------------------
(* Properties. *)

(* The tokens of the items of s at some places. *)
Cost(s, places) == SumFunctionOnSet([i \in DOMAIN s |-> Tokens(s[i])], places)

Of(s, category) == {i \in DOMAIN s : s[i].source = category}

(* Neither the window nor a category of it is over its budget, whatever the *)
(* items merged, decayed and skipped on the way (ContextAssembler).         *)
WithinBudgets ==
  /\ Cost(included, DOMAIN included) <= budget
  /\ \A c \in DOMAIN caps : Cost(included, Of(included, c)) <= caps[c]

(* An item is left out only because what it does not outrank has taken the  *)
(* room it needs: no stale result, tool output or unpinned item costs a     *)
(* better one its place (ContextAssembler::assemble, ADR-003).              *)
LeftOutForBetter ==
  \A n \in DOMAIN excluded :
    LET item  == excluded[n]
        ahead == {i \in DOMAIN included : ~Outranks(item, included[i])}
    IN  \/ Cost(included, ahead) + Tokens(item) > budget
        \/ /\ Capped(item)
           /\ Cost(included, ahead \cap Of(included, item.source)) + Tokens(item)
                > caps[item.source]

(* The window is the best that its budgets have room for.                   *)
BestThatFits == WithinBudgets /\ LeftOutForBetter
=============================================================================
