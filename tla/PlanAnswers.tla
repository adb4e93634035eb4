------------------------------ MODULE PlanAnswers ------------------------------
(* Step lists that an LLM may answer, for PlanGeneration.                   *)
EXTENDS Integers, SequencesExt

Raw(name, needs) ==
  [name |-> name, needs |-> needs, role |-> "reader", readOnly |-> TRUE,
   inline |-> TRUE, verify |-> FALSE, tokens |-> 10, nested |-> 0]

Editor(raw) == [raw EXCEPT !.role = "editor", !.readOnly = FALSE]

Writer(raw) == [Editor(raw) EXCEPT !.verify = TRUE]

Letters == <<"a", "b", "c", "d">>

Named(steps) == {<<Letters[i]>> : i \in steps}

(* Three readers, or two editors and a reader, in any order and in circles. *)
AllGraphs ==
  {[i \in 1 .. 3 |->
      LET raw == Raw(<<Letters[i]>>, SetToSeq(Named(g[i])))
      IN  IF i \in e THEN Editor(raw) ELSE raw] :
     g \in [1 .. 3 -> SUBSET (1 .. 3)], e \in {{}, {1, 2}}}

(* Four steps, readers but for some writers, that wait for earlier ones. *)
Mixed ==
  {[i \in 1 .. 4 |->
      LET raw == Raw(<<Letters[i]>>, SetToSeq(Named(g[i])))
      IN  IF i \in w THEN Writer(raw) ELSE raw] :
     g \in {f \in [1 .. 4 -> SUBSET (1 .. 3)] : \A i \in 1 .. 4 : f[i] \subseteq 1 .. i - 1},
     w \in {{}, {2, 3}, {1, 4}}}

(* Repeated names, names that look like the suffixed ones or like numbers,  *)
(* and one step that waits for one of them, or for a name nobody has.       *)
Names == {<<"a">>, <<"a", "1">>, <<"1">>}

Confusing ==
  {[i \in 1 .. 3 |-> Raw(names[i], IF i = last THEN <<need>> ELSE <<>>)] :
     names \in [1 .. 3 -> Names], last \in 1 .. 3, need \in Names \cup {<<"2">>, <<"zz">>}}

(* Two readers in a row, estimates near the cap and near the range, more    *)
(* steps than allowed, and steps with plans of their own.                   *)
Row(t, u) ==
  <<[Raw(<<"a">>, <<>>) EXCEPT !.tokens = t], [Raw(<<"b">>, <<<<"a">>>>) EXCEPT !.tokens = u]>>

Special ==
  {Row(t, u) : t, u \in {20, 30, 50, 60}}
  \cup {[i \in 1 .. n |-> Raw(<<"a">>, <<>>)] : n \in {7, 8, 10, 11}}
  \cup {<<[Raw(<<"a">>, <<>>) EXCEPT !.inline = inline, !.nested = nested]>> :
          inline \in BOOLEAN, nested \in 1 .. 3}

Usual ==
  <<Raw(<<"look">>, <<>>), Writer(Raw(<<"change">>, <<<<"look">>>>))>>

(* The safe plan is one of two, the fast one any. *)
PlanAnswersOf ==
  [c \in {1, 2} |->
     IF c = 1 THEN AllGraphs \cup Mixed \cup Confusing \cup Special
     ELSE {Usual, <<Raw(<<"a">>, <<<<"a">>>>)>>}]
=============================================================================
