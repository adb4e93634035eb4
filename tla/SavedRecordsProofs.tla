-------------------------- MODULE SavedRecordsProofs --------------------------
(***************************************************************************)
(* Theorems about the records a repository keeps between runs, with their  *)
(* proofs: BaselineGovernance (the quality baseline, its backup and its    *)
(* audit trail) for every number of commands, stops and days, every kind   *)
(* of run, suite and configuration; MissionMemory (what is handed from run *)
(* to run) for any claims and files, and lines of runs of any length.      *)
(***************************************************************************)
EXTENDS BaselineGovernance, MissionMemory, TLAPS, FiniteSetTheorems,
        WellFoundedInduction

-----------------------------------------------------------------------------
(* The quality baseline: which files a command writes, in which order, and *)
(* where it may stop.                                                      *)

Promoting == {"gated", "backing up", "backed up", "writing", "written"}

(* The promotion under way, and the names it gives. *)
Shape ==
  /\ commands \in Nat
  /\ cmd.pc \in Promoting => DOMAIN cmd = {"pc", "force", "record", "new"}
  /\ cmd.pc \in Promoting => cmd.new.name = cmd.record.new

(* The copy is whole before the baseline is cut. *)
CopyInv ==
  /\ cmd.pc \in {"gated", "backing up"} => baseline \notin {Missing, Torn}
  /\ cmd.pc = "backed up" => baseline # Torn /\ (baseline = Missing \/ backup = baseline)
  /\ cmd.pc = "writing" => baseline = Torn
  /\ cmd.pc = "overwriting" => replaced.by = "save"
  /\ CopyKept

(* A trail that can be read, and what a command is about to write in place  *)
(* of one.                                                                  *)
IsTrail(h) ==
  /\ \E S : h \in Seq(S)
  /\ \A i \in 1 .. Len(h) : h[i].seq \in Nat
  /\ \A i \in 1 .. Len(h) - 1 : h[i + 1].seq = h[i].seq + 1

TrailInv ==
  /\ history # Torn => IsTrail(history)
  /\ cmd.pc \in {"appending", "pruning"} => IsTrail(cmd.entries)

RecordInv ==
  /\ ReportedIsRecorded
  /\ cmd.pc = "appending" =>
       promoted \ pruned \subseteq NamesIn(cmd.entries) /\ cmd.record.new \in NamesIn(cmd.entries)
  /\ cmd.pc = "pruning" => (promoted \ pruned) \ cmd.gone \subseteq NamesIn(cmd.entries)

(* A name is promised once: it is not among the reported ones before the    *)
(* promotion that gave it is.                                               *)
Tells(h) ==
  h # <<>> /\ IsBaseline(baseline) /\ baseline.name \in promoted
    => Last(h).promotion.new = baseline.name

TellInv ==
  /\ \A n \in promoted : n \in Nat /\ n < commands
  /\ cmd.pc \in Promoting \cup {"appending"} =>
       cmd.record.new \notin promoted /\ cmd.record.new \in Nat /\ cmd.record.new < commands
  /\ cmd.pc = "overwriting" => cmd.new.name \notin promoted
  /\ cmd.pc = "written" => baseline = cmd.new
  /\ cmd.pc = "appending" => baseline.name = cmd.record.new
  /\ cmd.pc = "appending" => Last(cmd.entries).promotion.new = cmd.record.new
  /\ cmd.pc = "pruning" => Tells(cmd.entries)
  /\ history # Torn => Tells(history)

IInv == Shape /\ CopyInv /\ TrailInv /\ RecordInv /\ TellInv

-----------------------------------------------------------------------------
(* Trails. *)

LEMMA EmptyTrail == IsTrail(<<>>)
<1>1. <<>> \in Seq({}) /\ Len(<<>>) = 0
  OBVIOUS
<1> QED
  BY <1>1 DEF IsTrail

(* A new entry takes the next number, and keeps the names.                  *)
LEMMA AppendedTrail ==
  ASSUME NEW h, IsTrail(h), NEW record
  PROVE  /\ IsTrail(Appended(h, record))
         /\ NamesIn(Appended(h, record)) = NamesIn(h) \cup {record.new}
         /\ Last(Appended(h, record)).promotion = record
<1> DEFINE entry == [seq |-> NextNumber(h), promotion |-> record]
           n == Len(h)
           g == Append(h, entry)
<1>1. PICK S : h \in Seq(S)
  BY DEF IsTrail
<1>2. n \in Nat /\ g \in Seq(S \cup {entry}) /\ Len(g) = n + 1 /\ g[n + 1] = entry
      /\ \A i \in 1 .. n : g[i] = h[i]
      /\ DOMAIN h = 1 .. n /\ DOMAIN g = 1 .. (n + 1)
  <2> HIDE DEF entry
  <2>1. h \in Seq(S \cup {entry}) /\ entry \in S \cup {entry}
    BY <1>1
  <2> QED
    BY <2>1
<1>3. entry.seq \in Nat /\ (n > 0 => entry.seq = h[n].seq + 1) /\ entry.promotion = record
  <2>1. h = <<>> <=> n = 0
    BY <1>1
  <2>2. n > 0 => h[n].seq \in Nat
    BY <1>2 DEF IsTrail
  <2> QED
    BY <1>2, <2>1, <2>2 DEF NextNumber, Last
<1> HIDE DEF entry
<1>4. IsTrail(g)
  <2>1. \A i \in 1 .. n + 1 : g[i].seq \in Nat
    <3> SUFFICES ASSUME NEW i \in 1 .. n + 1 PROVE g[i].seq \in Nat
      OBVIOUS
    <3>1. CASE i = n + 1
      BY <1>2, <1>3, <3>1
    <3>2. CASE i \in 1 .. n
      BY <1>2, <3>2 DEF IsTrail
    <3> QED
      BY <1>2, <3>1, <3>2
  <2>2. \A i \in 1 .. n : g[i + 1].seq = g[i].seq + 1
    <3> SUFFICES ASSUME NEW i \in 1 .. n PROVE g[i + 1].seq = g[i].seq + 1
      OBVIOUS
    <3>1. CASE i = n
      BY <1>2, <1>3, <3>1
    <3>2. CASE i \in 1 .. n - 1
      <4>1. g[i] = h[i] /\ g[i + 1] = h[i + 1]
        BY <1>2, <3>2
      <4> QED
        BY <3>2, <4>1 DEF IsTrail
    <3> QED
      BY <1>2, <3>1, <3>2
  <2>3. \E T : g \in Seq(T)
    BY <1>2
  <2>4. Len(g) = n + 1 /\ Len(g) - 1 = n
    BY <1>2
  <2> HIDE DEF g, n
  <2> QED
    BY <2>1, <2>2, <2>3, <2>4 DEF IsTrail
<1>5. NamesIn(g) = NamesIn(h) \cup {record.new}
  <2>1. NamesIn(g) = {g[i].promotion.new : i \in 1 .. (n + 1)}
    BY <1>2 DEF NamesIn
  <2>2. NamesIn(h) = {h[i].promotion.new : i \in 1 .. n}
    BY <1>2 DEF NamesIn
  <2>3. \A i \in 1 .. n : g[i].promotion.new = h[i].promotion.new
    BY <1>2
  <2>4. g[n + 1].promotion.new = record.new
    BY <1>2, <1>3
  <2>5. \A i : i \in 1 .. (n + 1) <=> i \in 1 .. n \/ i = n + 1
    BY <1>2
  <2> HIDE DEF g, n
  <2> QED
    BY <2>1, <2>2, <2>3, <2>4, <2>5
<1>6. Last(g).promotion = record
  BY <1>2, <1>3 DEF Last
<1> QED
  BY <1>4, <1>5, <1>6 DEF Appended, entry

(* Prune leaves the newest entries: numbered as they were, and the last one *)
(* is still the last.                                                       *)
LEMMA NewestTrail ==
  ASSUME NEW h, IsTrail(h), NEW keep \in Nat, ~(Len(h) <= keep)
  PROVE  /\ IsTrail(Newest(h, keep))
         /\ Newest(h, keep) # <<>> => h # <<>> /\ Last(Newest(h, keep)) = Last(h)
<1> DEFINE n == Len(h)
           m == n - keep
           g == Newest(h, keep)
<1>1. PICK S : h \in Seq(S)
  BY DEF IsTrail
<1>2. n \in Nat /\ m \in Nat /\ m > 0 /\ n = m + keep
  BY <1>1
<1>3. /\ g \in Seq(S) /\ Len(g) = keep
      /\ \A i \in 1 .. keep : g[i] = h[m + i]
  <2>1. g = SubSeq(h, m + 1, n)
    BY DEF Newest
  <2>2. \A i \in m + 1 .. n : h[i] \in S
    BY <1>1, <1>2
  <2>3. SubSeq(h, m + 1, n) \in Seq(S) /\ Len(SubSeq(h, m + 1, n)) = keep
    BY <1>1, <1>2, <2>2
  <2>4. \A i \in 1 .. keep : SubSeq(h, m + 1, n)[i] = h[m + i]
    BY <1>1, <1>2
  <2> QED
    BY <2>1, <2>3, <2>4
<1>4. IsTrail(g)
  <2>1. \A i \in 1 .. keep : g[i].seq \in Nat
    <3> SUFFICES ASSUME NEW i \in 1 .. keep PROVE g[i].seq \in Nat
      OBVIOUS
    <3>1. m + i \in 1 .. n
      BY <1>2
    <3> QED
      BY <1>3, <3>1 DEF IsTrail
  <2>2. \A i \in 1 .. keep - 1 : g[i + 1].seq = g[i].seq + 1
    <3> SUFFICES ASSUME NEW i \in 1 .. keep - 1 PROVE g[i + 1].seq = g[i].seq + 1
      OBVIOUS
    <3>1. m + i \in 1 .. n - 1 /\ i \in 1 .. keep /\ i + 1 \in 1 .. keep
          /\ m + (i + 1) = (m + i) + 1
      BY <1>2
    <3>2. g[i] = h[m + i] /\ g[i + 1] = h[(m + i) + 1]
      BY <1>3, <3>1
    <3> QED
      BY <3>1, <3>2 DEF IsTrail
  <2> HIDE DEF g
  <2> QED
    BY <1>3, <2>1, <2>2 DEF IsTrail
<1>5. g # <<>> => h # <<>> /\ Last(g) = Last(h)
  <2> SUFFICES ASSUME g # <<>> PROVE h # <<>> /\ Last(g) = Last(h)
    OBVIOUS
  <2>1. keep \in 1 .. keep
    <3> HIDE DEF g
    <3> QED
      BY <1>3
  <2>2. g[keep] = h[n]
    BY <1>2, <1>3, <2>1
  <2>3. h # <<>>
    BY <1>1, <1>2
  <2> HIDE DEF g
  <2> QED
    BY <1>3, <2>2, <2>3 DEF Last
<1> QED
  BY <1>4, <1>5

-----------------------------------------------------------------------------
(* The record of the command under way. *)

LEMMA NextPc ==
  ASSUME NEW p, DOMAIN cmd = {"pc", "force", "record", "new"},
         cmd' = [cmd EXCEPT !.pc = p]
  PROVE  /\ cmd'.pc = p /\ cmd'.record = cmd.record /\ cmd'.new = cmd.new
         /\ DOMAIN cmd' = {"pc", "force", "record", "new"}
  OBVIOUS

-----------------------------------------------------------------------------
(* The steps. *)

LEMMA InitIInv == BaselineInit => IInv
<1> SUFFICES ASSUME BaselineInit PROVE IInv
  OBVIOUS
<1>1. cmd.pc = "idle" /\ history = <<>> /\ promoted = {} /\ replaced.by = "nobody"
      /\ commands = 0
  BY DEF BaselineInit, Idle
<1>2. Shape
  BY <1>1 DEF Shape, Promoting
<1>3. CopyInv
  BY <1>1 DEF CopyInv, CopyKept
<1>4. TrailInv
  BY <1>1, EmptyTrail DEF TrailInv
<1>5. RecordInv
  BY <1>1 DEF RecordInv, ReportedIsRecorded
<1>6. TellInv
  BY <1>1 DEF TellInv, Tells, Promoting
<1> QED
  BY <1>2, <1>3, <1>4, <1>5, <1>6 DEF IInv

(* No file is touched, and no command is at work on one afterwards. *)
LEMMA Quiet ==
  ASSUME IInv, UNCHANGED <<baseline, backup, history, ghosts>>,
         cmd'.pc \in {"idle", "saving"}, commands' \in {commands, commands + 1}
  PROVE  IInv'
<1>0. /\ cmd'.pc \notin Promoting \cup {"appending", "pruning", "overwriting"}
      /\ commands \in Nat /\ commands' \in Nat /\ commands <= commands'
  <2>1. commands \in Nat
    BY DEF IInv, Shape
  <2>2. commands' = commands \/ commands' = commands + 1
    OBVIOUS
  <2>3. commands' \in Nat /\ commands <= commands'
    BY <2>1, <2>2
  <2>4. cmd'.pc = "idle" \/ cmd'.pc = "saving"
    OBVIOUS
  <2>5. cmd'.pc \notin Promoting \cup {"appending", "pruning", "overwriting"}
    BY <2>4 DEF Promoting
  <2> QED
    BY <2>1, <2>3, <2>5
<1>1. Shape'
  BY <1>0 DEF Shape
<1>2. CopyInv'
  BY DEF IInv, CopyInv, CopyKept, ghosts
<1>3. TrailInv'
  BY DEF IInv, TrailInv
<1>4. RecordInv'
  BY DEF IInv, RecordInv, ReportedIsRecorded, ghosts
<1>5. TellInv'
  <2>1. \A n \in promoted' : n \in Nat /\ n < commands'
    BY <1>0 DEF IInv, TellInv, ghosts
  <2>2. history' # Torn => Tells(history)'
    BY DEF IInv, TellInv, Tells, ghosts
  <2>3. cmd'.pc \notin {"written", "appending"}
    BY <1>0 DEF Promoting
  <2> QED
    BY <1>0, <2>1, <2>2, <2>3 DEF TellInv
<1> QED
  BY <1>1, <1>2, <1>3, <1>4, <1>5 DEF IInv

LEMMA Stutter == IInv /\ UNCHANGED baselineVars => IInv'
<1> SUFFICES ASSUME IInv, UNCHANGED baselineVars PROVE IInv'
  OBVIOUS
<1>1. UNCHANGED <<cmd, commands, baseline, backup, history, promoted, pruned, replaced>>
  BY DEF baselineVars, files, ghosts
<1>2. Shape' /\ TrailInv'
  BY <1>1 DEF IInv, Shape, TrailInv
<1>3. CopyInv'
  BY <1>1 DEF IInv, CopyInv, CopyKept
<1>4. RecordInv'
  BY <1>1 DEF IInv, RecordInv, ReportedIsRecorded
<1>5. TellInv'
  BY <1>1 DEF IInv, TellInv, Tells
<1> QED
  BY <1>2, <1>3, <1>4, <1>5 DEF IInv

LEMMA RefusedKeeps ==
  ASSUME IInv, NEW code, NEW verdict, Refused(code, verdict),
         commands' \in {commands, commands + 1}
  PROVE  IInv'
<1>1. cmd'.pc = "idle" /\ UNCHANGED <<baseline, backup, history, ghosts>>
  BY DEF Refused, Report, Idle, files
<1> QED
  BY <1>1, Quiet

LEMMA RunBeginKeeps == IInv /\ RunBegin => IInv'
<1> SUFFICES ASSUME IInv, RunBegin PROVE IInv'
  OBVIOUS
<1>1. /\ cmd'.pc = "saving" /\ commands' = commands + 1
      /\ UNCHANGED <<baseline, backup, history, ghosts>>
  BY DEF RunBegin, Starts, GoesOn
<1> QED
  BY <1>1, Quiet

LEMMA RunSaveKeeps == IInv /\ RunSave => IInv'
<1> SUFFICES ASSUME IInv, RunSave PROVE IInv'
  OBVIOUS
<1>1. /\ cmd'.pc \in {"idle", "saving"} /\ commands' = commands
      /\ UNCHANGED <<baseline, backup, history, ghosts>>
  BY DEF RunSave, Report, Idle
<1> QED
  BY <1>1, Quiet

LEMMA EvalGateKeeps ==
  ASSUME IInv, NEW card, EvalGate(card)
  PROVE  IInv'
<1>1. commands' = commands + 1 /\ \E code, verdict : Refused(code, verdict)
  BY DEF EvalGate, Starts
<1> QED
  BY <1>1, RefusedKeeps

LEMMA SaveBeginKeeps ==
  ASSUME IInv, NEW card, SaveBegin(card)
  PROVE  IInv'
<1> DEFINE new == Baseline(commands, card)
<1>0. commands' = commands + 1
  BY DEF SaveBegin, Starts
<1>1. CASE Refused(1, Unknown)
  BY <1>0, <1>1, RefusedKeeps
<1>2. CASE ~Refused(1, Unknown)
  <2>0. /\ cmd' = [pc |-> "overwriting", new |-> new] /\ baseline' = Torn
        /\ replaced' = [by |-> "save", file |-> baseline]
        /\ UNCHANGED <<backup, history, promoted, pruned>>
    BY <1>2 DEF SaveBegin, GoesOn
  <2>1. new.name = commands
    BY DEF Baseline
  <2> HIDE DEF new
  <2>2. cmd'.pc = "overwriting" /\ cmd'.new = new /\ replaced'.by = "save"
    BY <2>0
  <2>a. commands \in Nat /\ commands' \in Nat /\ commands < commands'
    BY <1>0 DEF IInv, Shape
  <2>b. cmd'.pc \notin Promoting \cup {"appending", "pruning"}
    BY <2>2 DEF Promoting
  <2>3. Shape'
    BY <2>a, <2>b DEF Shape
  <2>4. CopyInv'
    BY <2>2 DEF CopyInv, CopyKept
  <2>5. TrailInv'
    BY <2>0, <2>2 DEF IInv, TrailInv
  <2>6. RecordInv'
    BY <2>0, <2>2 DEF IInv, RecordInv, ReportedIsRecorded
  <2>7. TellInv'
    <3>1. (\A n \in promoted' : n \in Nat /\ n < commands') /\ new.name \notin promoted'
      BY <2>0, <2>1, <2>a DEF IInv, TellInv
    <3>2. \A h : Tells(h)'
      BY <2>0 DEF Tells, IsBaseline, IsContent
    <3>3. cmd'.pc \notin {"written", "appending"}
      BY <2>2
    <3> QED
      BY <2>2, <2>b, <3>1, <3>2, <3>3 DEF TellInv
  <2> QED
    BY <2>3, <2>4, <2>5, <2>6, <2>7 DEF IInv
<1> QED
  BY <1>1, <1>2

LEMMA SaveEndKeeps == IInv /\ SaveEnd => IInv'
<1> SUFFICES ASSUME IInv, SaveEnd PROVE IInv'
  OBVIOUS
<1>0. /\ cmd.pc = "overwriting" /\ cmd'.pc = "idle" /\ baseline' = cmd.new
      /\ UNCHANGED <<backup, history, commands, promoted, pruned, replaced>>
  BY DEF SaveEnd, Report, Idle, ghosts
<1>1. Shape' /\ TrailInv'
  BY <1>0 DEF IInv, Shape, TrailInv, Promoting
<1>2. CopyInv'
  BY <1>0 DEF IInv, CopyInv, CopyKept
<1>3. RecordInv'
  BY <1>0 DEF IInv, RecordInv, ReportedIsRecorded
<1>4. TellInv'
  BY <1>0 DEF IInv, TellInv, Tells, Promoting
<1> QED
  BY <1>1, <1>2, <1>3, <1>4 DEF IInv

LEMMA PromoteBeginKeeps ==
  ASSUME IInv, NEW card, NEW force, PromoteBegin(card, force)
  PROVE  IInv'
<1> DEFINE record == Record(commands, card)
           new    == Baseline(commands, card)
<1>0. commands' = commands + 1 /\ commands \in Nat
  BY DEF PromoteBegin, Starts, IInv, Shape
<1>1. CASE \E code, verdict : Refused(code, verdict)
  BY <1>0, <1>1, RefusedKeeps
<1>2. CASE ~ \E code, verdict : Refused(code, verdict)
  <2>0. /\ cmd' = [pc |-> AfterGate, force |-> force, record |-> record, new |-> new]
        /\ baseline = Missing \/ IsBaseline(baseline)
        /\ UNCHANGED <<baseline, backup, history, promoted, pruned, replaced>>
    BY <1>2 DEF PromoteBegin, GoesOn, files, ghosts
  <2>1. new.name = commands /\ record.new = commands
    BY DEF Baseline, Record
  <2> HIDE DEF new, record
  <2>2. /\ cmd'.pc = AfterGate /\ cmd'.record = record /\ cmd'.new = new
        /\ DOMAIN cmd' = {"pc", "force", "record", "new"}
    BY <2>0
  <2>3. /\ baseline = Missing => cmd'.pc = "backed up"
        /\ baseline # Missing => cmd'.pc = "gated"
        /\ baseline # Torn
    BY <2>0, <2>2, FilesAssumption DEF AfterGate, IsBaseline, IsContent
  <2>4. Shape'
    BY <1>0, <2>1, <2>2 DEF Shape
  <2>5. CopyInv'
    BY <2>0, <2>3 DEF CopyInv, CopyKept
  <2>6. TrailInv'
    BY <2>0, <2>3 DEF IInv, TrailInv
  <2>7. RecordInv'
    BY <2>0, <2>3 DEF IInv, RecordInv, ReportedIsRecorded
  <2>8. TellInv'
    <3>1. /\ \A n \in promoted' : n \in Nat /\ n < commands'
          /\ record.new \notin promoted' /\ record.new \in Nat /\ record.new < commands'
      BY <1>0, <2>0, <2>1 DEF IInv, TellInv
    <3>2. history' # Torn => Tells(history)'
      BY <2>0 DEF IInv, TellInv, Tells
    <3>3. cmd'.pc \notin {"overwriting", "written", "appending", "pruning"}
      BY <2>3
    <3> QED
      BY <2>2, <3>1, <3>2, <3>3 DEF TellInv
  <2> QED
    BY <2>4, <2>5, <2>6, <2>7, <2>8 DEF IInv
<1> QED
  BY <1>1, <1>2

LEMMA BackupBeginKeeps == IInv /\ BackupBegin => IInv'
<1> SUFFICES ASSUME IInv, BackupBegin PROVE IInv'
  OBVIOUS
<1>0. /\ cmd.pc = "gated" /\ cmd' = [cmd EXCEPT !.pc = "backing up"]
      /\ DOMAIN cmd = {"pc", "force", "record", "new"}
      /\ UNCHANGED <<baseline, history, commands, promoted, pruned, replaced>>
  BY DEF IInv, Shape, Promoting, BackupBegin, ghosts
<1>1. /\ cmd'.pc = "backing up" /\ cmd'.record = cmd.record /\ cmd'.new = cmd.new
      /\ DOMAIN cmd' = {"pc", "force", "record", "new"}
  BY <1>0, NextPc
<1>2. Shape'
  BY <1>0, <1>1 DEF IInv, Shape, Promoting
<1>3. CopyInv'
  BY <1>0, <1>1 DEF IInv, CopyInv, CopyKept
<1>4. TrailInv' /\ RecordInv'
  BY <1>0, <1>1 DEF IInv, TrailInv, RecordInv, ReportedIsRecorded
<1>5. TellInv'
  BY <1>0, <1>1 DEF IInv, TellInv, Tells, Promoting
<1> QED
  BY <1>2, <1>3, <1>4, <1>5 DEF IInv

LEMMA BackupEndKeeps == IInv /\ BackupEnd => IInv'
<1> SUFFICES ASSUME IInv, BackupEnd PROVE IInv'
  OBVIOUS
<1>0. /\ cmd.pc = "backing up" /\ cmd' = [cmd EXCEPT !.pc = "backed up"]
      /\ backup' = baseline
      /\ DOMAIN cmd = {"pc", "force", "record", "new"}
      /\ UNCHANGED <<baseline, history, commands, promoted, pruned, replaced>>
  BY DEF IInv, Shape, Promoting, BackupEnd, ghosts
<1>1. /\ cmd'.pc = "backed up" /\ cmd'.record = cmd.record /\ cmd'.new = cmd.new
      /\ DOMAIN cmd' = {"pc", "force", "record", "new"}
  BY <1>0, NextPc
<1>2. Shape'
  BY <1>0, <1>1 DEF IInv, Shape, Promoting
<1>3. CopyInv'
  BY <1>0, <1>1 DEF IInv, CopyInv, CopyKept
<1>4. TrailInv' /\ RecordInv'
  BY <1>0, <1>1 DEF IInv, TrailInv, RecordInv, ReportedIsRecorded
<1>5. TellInv'
  BY <1>0, <1>1 DEF IInv, TellInv, Tells, Promoting
<1> QED
  BY <1>2, <1>3, <1>4, <1>5 DEF IInv

LEMMA WriteBeginKeeps == IInv /\ WriteBegin => IInv'
<1> SUFFICES ASSUME IInv, WriteBegin PROVE IInv'
  OBVIOUS
<1>0. /\ cmd.pc = "backed up" /\ cmd' = [cmd EXCEPT !.pc = "writing"]
      /\ baseline' = Torn /\ replaced' = [by |-> "promote", file |-> baseline]
      /\ DOMAIN cmd = {"pc", "force", "record", "new"}
      /\ UNCHANGED <<backup, history, commands, promoted, pruned>>
  BY DEF IInv, Shape, Promoting, WriteBegin
<1>1. /\ cmd'.pc = "writing" /\ cmd'.record = cmd.record /\ cmd'.new = cmd.new
      /\ DOMAIN cmd' = {"pc", "force", "record", "new"}
  BY <1>0, NextPc
<1>2. Shape'
  BY <1>0, <1>1 DEF IInv, Shape, Promoting
<1>3. CopyInv'
  BY <1>0, <1>1 DEF IInv, CopyInv, CopyKept
<1>4. TrailInv' /\ RecordInv'
  BY <1>0, <1>1 DEF IInv, TrailInv, RecordInv, ReportedIsRecorded
<1>5. TellInv'
  BY <1>0, <1>1 DEF IInv, TellInv, Tells, IsBaseline, IsContent, Promoting
<1> QED
  BY <1>2, <1>3, <1>4, <1>5 DEF IInv

LEMMA WriteEndKeeps == IInv /\ WriteEnd => IInv'
<1> SUFFICES ASSUME IInv, WriteEnd PROVE IInv'
  OBVIOUS
<1>0. /\ cmd.pc = "writing" /\ cmd' = [cmd EXCEPT !.pc = "written"]
      /\ baseline' = cmd.new
      /\ DOMAIN cmd = {"pc", "force", "record", "new"}
      /\ UNCHANGED <<backup, history, commands, promoted, pruned, replaced>>
  BY DEF IInv, Shape, Promoting, WriteEnd, ghosts
<1>1. /\ cmd'.pc = "written" /\ cmd'.record = cmd.record /\ cmd'.new = cmd.new
      /\ DOMAIN cmd' = {"pc", "force", "record", "new"}
  BY <1>0, NextPc
<1>2. Shape'
  BY <1>0, <1>1 DEF IInv, Shape, Promoting
<1>3. CopyInv'
  BY <1>0, <1>1 DEF IInv, CopyInv, CopyKept
<1>4. TrailInv' /\ RecordInv'
  BY <1>0, <1>1 DEF IInv, TrailInv, RecordInv, ReportedIsRecorded
<1>5. TellInv'
  <2>1. cmd.new.name \notin promoted
    BY <1>0 DEF IInv, Shape, TellInv, Promoting
  <2> QED
    BY <1>0, <1>1, <2>1 DEF IInv, TellInv, Tells, Promoting
<1> QED
  BY <1>2, <1>3, <1>4, <1>5 DEF IInv

LEMMA AppendBeginKeeps == IInv /\ AppendBegin => IInv'
<1> SUFFICES ASSUME IInv, AppendBegin PROVE IInv'
  OBVIOUS
<1>1. CASE history = Torn
  BY <1>1, RefusedKeeps DEF AppendBegin, LoadHistory
<1>2. CASE history # Torn
  <2> DEFINE entries == Appended(history, cmd.record)
  <2>0. /\ cmd.pc = "written" /\ history' = Torn
        /\ cmd' = [pc |-> "appending", record |-> cmd.record, entries |-> entries]
        /\ UNCHANGED <<baseline, backup, commands, promoted, pruned, replaced>>
    BY <1>2 DEF AppendBegin, LoadHistory, ghosts
  <2>1. cmd'.pc = "appending" /\ cmd'.record = cmd.record /\ cmd'.entries = entries
    BY <2>0
  <2>2. /\ IsTrail(entries) /\ NamesIn(entries) = NamesIn(history) \cup {cmd.record.new}
        /\ Last(entries).promotion = cmd.record
    BY <1>2, AppendedTrail DEF IInv, TrailInv
  <2> HIDE DEF entries
  <2>3. Shape'
    BY <2>0, <2>1 DEF IInv, Shape, Promoting
  <2>4. CopyInv'
    BY <2>0, <2>1 DEF IInv, CopyInv, CopyKept
  <2>5. TrailInv'
    BY <2>0, <2>1, <2>2 DEF TrailInv
  <2>6. RecordInv'
    BY <1>2, <2>0, <2>1, <2>2 DEF IInv, RecordInv, ReportedIsRecorded
  <2>7. TellInv'
    BY <2>0, <2>1, <2>2 DEF IInv, Shape, TellInv, Promoting
  <2> QED
    BY <2>3, <2>4, <2>5, <2>6, <2>7 DEF IInv
<1> QED
  BY <1>1, <1>2

LEMMA AppendEndKeeps == IInv /\ AppendEnd => IInv'
<1> SUFFICES ASSUME IInv, AppendEnd PROVE IInv'
  OBVIOUS
<1>0. /\ cmd.pc = "appending" /\ cmd'.pc = "idle" /\ history' = cmd.entries
      /\ promoted' = promoted \cup {cmd.record.new}
      /\ UNCHANGED <<baseline, backup, commands, pruned, replaced>>
  BY DEF AppendEnd, Report, Idle
<1>1. Shape'
  BY <1>0 DEF IInv, Shape, Promoting
<1>2. CopyInv'
  BY <1>0 DEF IInv, CopyInv, CopyKept
<1>3. TrailInv' /\ RecordInv'
  BY <1>0 DEF IInv, TrailInv, RecordInv, ReportedIsRecorded
<1>4. TellInv'
  BY <1>0 DEF IInv, TellInv, Tells, Promoting
<1> QED
  BY <1>1, <1>2, <1>3, <1>4 DEF IInv

LEMMA PruneBeginKeeps ==
  ASSUME IInv, NEW keep \in Keeps, PruneBegin(keep)
  PROVE  IInv'
<1>0. commands' = commands + 1 /\ commands \in Nat
  BY DEF PruneBegin, Starts, IInv, Shape
<1>1. CASE \E code, verdict : Refused(code, verdict)
  BY <1>0, <1>1, RefusedKeeps
<1>2. CASE ~ \E code, verdict : Refused(code, verdict)
  <2> DEFINE entries == Newest(history, keep)
             gone == NamesIn(history) \ NamesIn(entries)
  <2>0. /\ history # Torn /\ ~(Len(history) <= keep) /\ history' = Torn
        /\ cmd' = [pc |-> "pruning", entries |-> entries, gone |-> gone]
        /\ UNCHANGED <<baseline, backup, promoted, pruned, replaced>>
    BY <1>2 DEF PruneBegin, GoesOn, ghosts
  <2>1. cmd'.pc = "pruning" /\ cmd'.entries = entries /\ cmd'.gone = gone
    BY <2>0
  <2>2. /\ IsTrail(entries)
        /\ entries # <<>> => history # <<>> /\ Last(entries) = Last(history)
    BY <2>0, NewestTrail, KeepsAssumption DEF IInv, TrailInv
  <2>3. (promoted \ pruned) \ gone \subseteq NamesIn(entries)
    BY <2>0 DEF IInv, RecordInv, ReportedIsRecorded
  <2> HIDE DEF entries, gone
  <2>4. Shape'
    BY <1>0, <2>1 DEF Shape, Promoting
  <2>5. CopyInv'
    BY <2>0, <2>1 DEF IInv, CopyInv, CopyKept
  <2>6. TrailInv'
    BY <2>0, <2>1, <2>2 DEF TrailInv
  <2>7. RecordInv'
    BY <2>0, <2>1, <2>3 DEF RecordInv, ReportedIsRecorded
  <2>8. TellInv'
    <3>1. \A n \in promoted' : n \in Nat /\ n < commands'
      BY <1>0, <2>0 DEF IInv, TellInv
    <3>2. Tells(cmd.entries)'
      BY <2>0, <2>1, <2>2 DEF IInv, TellInv, Tells
    <3> QED
      BY <2>0, <2>1, <3>1, <3>2 DEF TellInv, Promoting
  <2> QED
    BY <2>4, <2>5, <2>6, <2>7, <2>8 DEF IInv
<1> QED
  BY <1>1, <1>2

LEMMA PruneEndKeeps == IInv /\ PruneEnd => IInv'
<1> SUFFICES ASSUME IInv, PruneEnd PROVE IInv'
  OBVIOUS
<1>0. /\ cmd.pc = "pruning" /\ cmd'.pc = "idle" /\ history' = cmd.entries
      /\ pruned' = pruned \cup cmd.gone
      /\ UNCHANGED <<baseline, backup, commands, promoted, replaced>>
  BY DEF PruneEnd, Report, Idle
<1>1. Shape'
  BY <1>0 DEF IInv, Shape, Promoting
<1>2. CopyInv'
  BY <1>0 DEF IInv, CopyInv, CopyKept
<1>3. TrailInv' /\ RecordInv'
  BY <1>0 DEF IInv, TrailInv, RecordInv, ReportedIsRecorded
<1>4. TellInv'
  BY <1>0 DEF IInv, TellInv, Tells, Promoting
<1> QED
  BY <1>1, <1>2, <1>3, <1>4 DEF IInv

LEMMA CrashKeeps == IInv /\ Crash => IInv'
<1> SUFFICES ASSUME IInv, Crash PROVE IInv'
  OBVIOUS
<1>1. /\ cmd'.pc = "idle" /\ commands' = commands
      /\ UNCHANGED <<baseline, backup, history, ghosts>>
  BY DEF Crash, Idle, files
<1> QED
  BY <1>1, Quiet

LEMMA DayKeeps == IInv /\ Day => IInv'
<1> SUFFICES ASSUME IInv, Day PROVE IInv'
  OBVIOUS
<1>1. /\ cmd'.pc = "idle" /\ commands' = commands
      /\ UNCHANGED <<baseline, backup, history, ghosts>>
  BY DEF Day, Idle, files
<1> QED
  BY <1>1, Quiet

LEMMA NextIInv == IInv /\ [BaselineNext]_baselineVars => IInv'
<1> SUFFICES ASSUME IInv, [BaselineNext]_baselineVars PROVE IInv'
  OBVIOUS
<1>1. CASE RunBegin \/ RunSave
  BY <1>1, RunBeginKeeps, RunSaveKeeps
<1>2. ASSUME NEW card \in Candidates, EvalGate(card) \/ SaveBegin(card)
      PROVE  IInv'
  BY <1>2, EvalGateKeeps, SaveBeginKeeps
<1>3. CASE SaveEnd
  BY <1>3, SaveEndKeeps
<1>4. ASSUME NEW card \in Candidates, NEW force \in BOOLEAN, PromoteBegin(card, force)
      PROVE  IInv'
  BY <1>4, PromoteBeginKeeps
<1>5. CASE BackupBegin \/ BackupEnd \/ WriteBegin \/ WriteEnd
  BY <1>5, BackupBeginKeeps, BackupEndKeeps, WriteBeginKeeps, WriteEndKeeps
<1>6. CASE AppendBegin \/ AppendEnd
  BY <1>6, AppendBeginKeeps, AppendEndKeeps
<1>7. ASSUME NEW keep \in Keeps, PruneBegin(keep)
      PROVE  IInv'
  BY <1>7, PruneBeginKeeps
<1>8. CASE PruneEnd \/ Crash \/ Day
  BY <1>8, PruneEndKeeps, CrashKeeps, DayKeeps
<1>9. CASE UNCHANGED baselineVars
  BY <1>9, Stutter
<1> QED
  BY <1>1, <1>2, <1>3, <1>4, <1>5, <1>6, <1>7, <1>8, <1>9 DEF BaselineNext

LEMMA Invariant == BaselineSpec => []IInv
  BY InitIInv, NextIInv, PTL DEF BaselineSpec

-----------------------------------------------------------------------------

(* Wherever a promotion stops while it writes the baseline, the backup is   *)
(* the baseline as it was (promote_baseline copies first).                  *)
THEOREM BackupOfTheCut == BaselineSpec => []CopyKept
<1>1. IInv => CopyKept
  BY DEF IInv, CopyInv
<1> QED
  BY <1>1, Invariant, PTL

(* A trail that can be read has numbers without gaps and repeats, and holds *)
(* what every promotion reported, whatever was pruned and wherever commands *)
(* stopped (BaselineHistory::append, promote_baseline).                     *)
THEOREM TrailStaysWhole == BaselineSpec => []TrailIsWhole
<1>1. IInv => AuditNumbered
  BY DEF IInv, TrailInv, IsTrail, AuditNumbered
<1>2. IInv => ReportedIsRecorded
  BY DEF IInv, RecordInv
<1>3. IInv => TrailIsWhole
  BY <1>1, <1>2 DEF TrailIsWhole
<1> QED
  BY <1>3, Invariant, PTL

(* The end of a trail that can be read names the baseline in use, when its  *)
(* promotion was reported.                                                  *)
THEOREM TrailTellsTheBaseline == BaselineSpec => []AuditTellsTheBaseline
<1>1. IInv => AuditTellsTheBaseline
  BY DEF IInv, TellInv, Tells, AuditTellsTheBaseline
<1> QED
  BY <1>1, Invariant, PTL

-----------------------------------------------------------------------------
(* What passes the gate. *)

(* Induction over the natural numbers, as a fact about sets. *)
LEMMA CountingUp ==
  ASSUME NEW T \in SUBSET Nat, 0 \in T, \A n \in T : n + 1 \in T
  PROVE  T = Nat
<1> SUFFICES ASSUME Nat \ T # {} PROVE FALSE
  OBVIOUS
<1>1. PICK x \in Nat \ T : \A y \in Nat \ T : ~(<<y, x>> \in OpToRel(<, Nat))
  BY NatLessThanWellFounded, WFMin, Nat \ T \subseteq Nat
<1>2. x # 0 /\ x - 1 \in Nat /\ x - 1 < x
  OBVIOUS
<1>3. x - 1 \in T
  BY <1>1, <1>2 DEF OpToRel
<1> QED
  BY <1>2, <1>3

TrustSum(cards) == FoldFunction(LAMBDA c, sum : c.scores["trust"] + sum, 0, cards)

(* Scorecards without trust add up to none, in whatever order the fold of  *)
(* the average takes them.                                                 *)
LEMMA NothingAddsUp ==
  ASSUME NEW n \in Nat, NEW cards, DOMAIN cards = 1 .. n,
         \A i \in 1 .. n : cards[i].scores["trust"] = 0
  PROVE  TrustSum(cards) = 0
<1> DEFINE all == 1 .. n
           chosen(S) == CHOOSE i \in S : TRUE
           IsFold(f) == f = [S \in SUBSET all |->
                               IF S = {} THEN 0
                               ELSE cards[chosen(S)].scores["trust"] + f[S \ {chosen(S)}]]
           sum == CHOOSE f : IsFold(f)
           Reached == {k \in Nat : \A S \in SUBSET all : Cardinality(S) = k => sum[S] = 0}
<1>1. \A S \in SUBSET all : S # {} =>
        chosen(S) \in S /\ cards[chosen(S)].scores["trust"] = 0 /\ S \ {chosen(S)} \in SUBSET all
  OBVIOUS
<1>2. TrustSum(cards) = sum[all]
  BY DEF TrustSum, FoldFunction, FoldFunctionOnSet, MapThenFoldSet
<1> HIDE DEF chosen
<1>3. IsFold([S \in SUBSET all |-> 0])
  BY <1>1
<1>4. IsFold(sum)
  <2> HIDE DEF IsFold
  <2> QED
    BY <1>3
<1> HIDE DEF sum
<1>5. \A S \in SUBSET all : sum[S] = IF S = {} THEN 0 ELSE 0 + sum[S \ {chosen(S)}]
  <2>1. sum = [S \in SUBSET all |->
                 IF S = {} THEN 0
                 ELSE cards[chosen(S)].scores["trust"] + sum[S \ {chosen(S)}]]
    BY <1>4
  <2> HIDE DEF IsFold
  <2>2. ASSUME NEW S \in SUBSET all
        PROVE  sum[S] = IF S = {} THEN 0
                        ELSE cards[chosen(S)].scores["trust"] + sum[S \ {chosen(S)}]
    BY <2>1
  <2> QED
    BY <1>1, <2>2
<1>6. \A S \in SUBSET all : IsFiniteSet(S) /\ Cardinality(S) \in Nat
  <2>1. IsFiniteSet(all)
    BY FS_Interval
  <2> QED
    BY <2>1, FS_Subset, FS_CardinalityType
<1>7. 0 \in Reached
  BY <1>5, <1>6, FS_EmptySet
<1>8. ASSUME NEW k \in Reached
      PROVE  k + 1 \in Reached
  <2> SUFFICES ASSUME NEW S \in SUBSET all, Cardinality(S) = k + 1
               PROVE  sum[S] = 0
    OBVIOUS
  <2>1. S # {}
    <3>1. k \in Nat /\ k + 1 # 0
      OBVIOUS
    <3> QED
      BY <3>1, FS_EmptySet
  <2>2. Cardinality(S \ {chosen(S)}) = Cardinality(S) - 1
    BY <1>1, <1>6, <2>1, FS_RemoveElement
  <2>3. S \ {chosen(S)} \in SUBSET all /\ k \in Nat
    BY <1>1, <2>1
  <2>4. sum[S \ {chosen(S)}] = 0
    BY <2>2, <2>3
  <2>5. sum[S] = 0 + sum[S \ {chosen(S)}]
    BY <1>5, <2>1
  <2> QED
    BY <2>4, <2>5
<1>9. Reached = Nat
  <2>1. Reached \subseteq Nat
    OBVIOUS
  <2> HIDE DEF Reached
  <2> QED
    BY <1>7, <1>8, <2>1, CountingUp
<1> QED
  BY <1>2, <1>6, <1>9

(* A suite never scores trust: its scenarios have no verdict on it. *)
LEMMA SuiteHasNoTrust ==
  ASSUME NEW suite \in Suites, suite # <<>>
  PROVE  Aggregate([i \in DOMAIN suite |-> Build(ScenarioData(suite[i]), Weights)])
           .scores["trust"] = 0
<1> DEFINE n == Len(suite)
           cards == [i \in DOMAIN suite |-> Build(ScenarioData(suite[i]), Weights)]
<1>1. n \in Nat /\ DOMAIN suite = 1 .. n
  BY SuitesAssumption
<1>2. ASSUME NEW data, data.trust = Unknown
      PROVE  Build(data, Weights).scores["trust"] = 0
  BY <1>2, UnknownAssumption DEF Build, Scorecard, ScoreTrust
<1>3. \A i \in 1 .. n : ScenarioData(suite[i]).trust = Unknown
  BY DEF ScenarioData, NoData
<1>4. DOMAIN cards = 1 .. n /\ \A i \in 1 .. n : cards[i].scores["trust"] = 0
  BY <1>1, <1>2, <1>3
<1>5. Len(cards) = n
  <2>1. cards \in Seq({cards[i] : i \in 1 .. n})
    BY <1>1
  <2> HIDE DEF cards
  <2> QED
    BY <1>1, <1>4, <2>1
<1>6. n # 0
  BY <1>1
<1> HIDE DEF cards, n
<1>7. TrustSum(cards) = 0
  BY <1>1, <1>4, NothingAddsUp
<1>8. Aggregate(cards).scores["trust"] = TrustSum(cards) \div Len(cards)
  BY DEF Aggregate, Scorecard, TrustSum
<1>9. 0 \div n = 0
  BY <1>1, <1>6
<1> QED
  BY <1>5, <1>7, <1>8, <1>9 DEF cards

(* Nor does a run that has no scorecard of its own. *)
LEMMA ReconstructedHasNoTrust ==
  ASSUME NEW r
  PROVE  Reconstructed(r).scores["trust"] = 0
<1> DEFINE told == [NoData EXCEPT !.success = r.data.success, !.trust = "none",
                                  !.tokens = r.data.tokens,
                                  !.replans = r.data.replans]
           data == IF r.stage = "mission"
                   THEN WithMission(told, r.data.mission, r.data.trust) ELSE told
<1>1. told.trust = "none" /\ "trust" \in DOMAIN told
  BY DEF NoData
<1>2. data.trust = "none"
  BY <1>1, UnknownAssumption DEF WithMission, NoData
<1>3. Reconstructed(r) = Build(data, Weights)
  BY DEF Reconstructed
<1> HIDE DEF data
<1> QED
  BY <1>2, <1>3 DEF Build, Scorecard, ScoreTrust

(* A scorecard without trust fails the gate of every policy but one. *)
LEMMA NoTrustFails ==
  ASSUME ValidConfig(config), config.policy # "lenient",
         NEW card, card.scores["trust"] = 0
  PROVE  VerdictOn(card) = "fail"
<1> DEFINE policy == ResolvePolicy(config)
<1>1. config.policy \in {"strict", "balanced"}
  BY DEF ValidConfig
<1>2. /\ policy.strategy \in {"strict", "balanced"}
      /\ policy.thresholds["trust"].min \in {30, 60}
  BY <1>1 DEF ResolvePolicy, StrictPolicy, BalancedPolicy, Thresholds
<1> HIDE DEF policy
<1>3. DimensionVerdict(policy, baseline.card, card, "trust") = "fail"
  BY <1>2 DEF DimensionVerdict, Critical
<1>4. "trust" \in Dimensions
  BY DEF Dimensions
<1>5. "fail" \in {DimensionVerdict(policy, baseline.card, card, d) : d \in Dimensions}
  BY <1>3, <1>4
<1>6. GateVerdict(policy, baseline.card, card) = "fail"
  BY <1>5 DEF GateVerdict
<1> QED
  BY <1>6 DEF VerdictOn, policy

LEMMA NoTrustRejected ==
  ASSUME ValidConfig(config), config.policy # "lenient", baseline # Missing,
         NEW card, card.scores["trust"] = 0, NEW name
  PROVE  Record(name, card).recommendation = "reject"
<1>1. VerdictOn(card) = "fail"
  BY NoTrustFails
<1>2. Recommendation("fail", AgeOf(baseline)) = "reject"
  BY DEF Recommendation
<1> QED
  BY <1>1, <1>2 DEF Record

(* Where a scorecard with trust comes from: a run that was saved.           *)
OfSavedRun(card) ==
  \E r \in {run} \cup earlier : r.stage = "saved" /\ card = SavedCard(r)

Honest(card) == card.scores["trust"] = 0 \/ OfSavedRun(card)

(* It is so of every scorecard that a file holds or a command carries, and  *)
(* a run that is saved is not saved again.                                  *)
TrustInv ==
  /\ "stage" \in DOMAIN run
  /\ cmd.pc = "saving" => run.stage # "saved"
  /\ \A file \in {baseline, backup} : IsContent(file) => Honest(file.card)
  /\ cmd.pc \in Promoting \cup {"overwriting"} => Honest(cmd.new.card)
  /\ NoTrustNoPromotion

LEMMA CandidatesHonest ==
  ASSUME TrustInv, NEW card \in Candidates, card # Unknown
  PROVE  Honest(card)
<1>1. ASSUME NEW r \in {run} \cup earlier, card = CardOfRun(r)
      PROVE  Honest(card)
  <2>1. CASE r.stage = "saved"
    <3>1. card = SavedCard(r)
      BY <1>1, <2>1 DEF CardOfRun
    <3> QED
      BY <2>1, <3>1 DEF Honest, OfSavedRun
  <2>2. CASE r.stage # "saved"
    <3>1. card = Reconstructed(r)
      BY <1>1, <2>2 DEF CardOfRun
    <3> QED
      BY <3>1, ReconstructedHasNoTrust DEF Honest
  <2> QED
    BY <2>1, <2>2
<1>2. ASSUME NEW file \in {baseline, backup}, card = CardOfFile(file)
      PROVE  Honest(card)
  BY <1>2 DEF TrustInv, CardOfFile
<1>3. ASSUME NEW suite \in Suites, card = CardOfSuite(suite)
      PROVE  Honest(card)
  <2>1. suite # <<>>
    BY <1>3 DEF CardOfSuite
  <2>2. card.scores["trust"] = 0
    BY <1>3, <2>1, SuiteHasNoTrust DEF CardOfSuite
  <2> QED
    BY <2>2 DEF Honest
<1> QED
  BY <1>1, <1>2, <1>3 DEF Candidates

(* No run that is saved is lost, so what was honest stays honest.           *)
LEMMA HonestStays ==
  ASSUME UNCHANGED config,
         \A r \in {run} \cup earlier : r.stage = "saved" => r \in {run'} \cup earlier'
  PROVE  \A card : Honest(card) => Honest(card)'
  BY DEF Honest, OfSavedRun, SavedCard, Weights

(* The command carries what it carried or nothing, and the files keep what  *)
(* they held or take what the command carries.                              *)
Carrying == Promoting \cup {"overwriting"}

LEMMA TrustKept ==
  ASSUME TrustInv, UNCHANGED <<config, run, earlier>>,
         baseline' \in {baseline, Torn} \/ (cmd.pc \in Carrying /\ baseline' = cmd.new),
         backup' \in {backup, baseline, Torn},
         cmd'.pc \notin Carrying \/ (cmd.pc \in Carrying /\ cmd'.new = cmd.new),
         cmd'.pc \in {"saving", "gated"} => UNCHANGED cmd
  PROVE  TrustInv'
<1>1. \A card : Honest(card) => Honest(card)'
  BY HonestStays
<1>2. PICK new : new = cmd.new
  OBVIOUS
<1>3. cmd.pc \in Carrying => Honest(new.card)'
  BY <1>1, <1>2 DEF TrustInv, Carrying
<1>4. ASSUME NEW file \in {baseline', backup'}, IsContent(file)
      PROVE  Honest(file.card)'
  <2>1. file \in {baseline, backup, Torn} \/ (cmd.pc \in Carrying /\ file = new)
    BY <1>2
  <2>2. ASSUME file \in {baseline, backup}
        PROVE  Honest(file.card)'
    BY <1>1, <1>4, <2>2 DEF TrustInv
  <2>3. file # Torn
    BY <1>4 DEF IsContent
  <2> QED
    BY <1>3, <2>1, <2>2, <2>3
<1>5. cmd'.pc \in Carrying => Honest(cmd.new.card)'
  BY <1>2, <1>3
<1>6. NoTrustNoPromotion'
  BY DEF TrustInv, NoTrustNoPromotion, SavedCard, Weights
<1> QED
  BY <1>4, <1>5, <1>6 DEF TrustInv, Carrying, IsContent

LEMMA RefusedKeepsTrust ==
  ASSUME TrustInv, NEW code, NEW verdict, Refused(code, verdict)
  PROVE  TrustInv'
<1>1. cmd'.pc = "idle" /\ UNCHANGED <<config, run, earlier, baseline, backup>>
  BY DEF Refused, Report, Idle, files
<1>2. cmd'.pc \notin Carrying
  BY <1>1 DEF Carrying, Promoting
<1> QED
  BY <1>1, <1>2, TrustKept

LEMMA RunKeepsTrust ==
  ASSUME TrustInv, RunBegin \/ RunSave
  PROVE  TrustInv'
<1>0. /\ UNCHANGED <<config, baseline, backup>>
      /\ cmd'.pc \notin Carrying \cup {"gated"}
  <2>1. UNCHANGED <<config, baseline, backup>> /\ cmd'.pc \in {"saving", "idle"}
    BY DEF RunBegin, RunSave, GoesOn, Report, Idle
  <2> QED
    BY <2>1 DEF Carrying, Promoting
<1>1. /\ \A r \in {run} \cup earlier : r.stage = "saved" => r \in {run'} \cup earlier'
      /\ "stage" \in DOMAIN run'
      /\ cmd'.pc = "saving" => run'.stage # "saved"
  <2>1. CASE RunBegin
    <3>1. /\ \E data : run' = [stage |-> "started", data |-> data]
          /\ earlier' = IF run.stage = "none" THEN earlier ELSE earlier \cup {run}
      BY <2>1 DEF RunBegin
    <3> QED
      BY <3>1
  <2>2. CASE RunSave
    <3>1. /\ run' = [run EXCEPT !.stage = NextStage] /\ earlier' = earlier
          /\ cmd.pc = "saving" /\ (NextStage = "saved" => cmd'.pc = "idle")
      BY <2>2 DEF RunSave, Report, Idle
    <3>2. run'.stage = NextStage /\ DOMAIN run' = DOMAIN run /\ run.stage # "saved"
      BY <3>1 DEF TrustInv
    <3> QED
      BY <3>1, <3>2 DEF TrustInv
  <2> QED
    BY <2>1, <2>2
<1>2. \A card : Honest(card) => Honest(card)'
  BY <1>0, <1>1, HonestStays
<1>3. \A file \in {baseline', backup'} : IsContent(file) => Honest(file.card)'
  BY <1>0, <1>2 DEF TrustInv
<1> QED
  BY <1>0, <1>1, <1>3 DEF TrustInv, Carrying, NoTrustNoPromotion, IsContent

LEMMA SaveBeginKeepsTrust ==
  ASSUME TrustInv, NEW card \in Candidates, SaveBegin(card)
  PROVE  TrustInv'
<1>1. CASE Refused(1, Unknown)
  BY <1>1, RefusedKeepsTrust
<1>2. CASE ~Refused(1, Unknown)
  <2>1. /\ cmd' = [pc |-> "overwriting", new |-> Baseline(commands, card)]
        /\ card # Unknown /\ baseline' = Torn
        /\ UNCHANGED <<config, run, earlier, backup>>
    BY <1>2 DEF SaveBegin, GoesOn
  <2>2. cmd'.pc = "overwriting" /\ cmd'.new.card = card
    BY <2>1 DEF Baseline
  <2>3. \A c : Honest(c) => Honest(c)'
    BY <2>1, HonestStays
  <2>4. Honest(card)'
    BY <2>1, <2>3, CandidatesHonest
  <2>5. \A file \in {baseline', backup'} : IsContent(file) => Honest(file.card)'
    BY <2>1, <2>3 DEF TrustInv, IsContent
  <2> QED
    BY <2>1, <2>2, <2>4, <2>5 DEF TrustInv, NoTrustNoPromotion, IsContent
<1> QED
  BY <1>1, <1>2

LEMMA PromoteBeginKeepsTrust ==
  ASSUME TrustInv, NEW card \in Candidates, NEW force \in BOOLEAN,
         PromoteBegin(card, force)
  PROVE  TrustInv'
<1> DEFINE record == Record(commands, card)
<1>1. CASE \E code, verdict : Refused(code, verdict)
  BY <1>1, RefusedKeepsTrust
<1>2. CASE ~ \E code, verdict : Refused(code, verdict)
  <2>1. /\ cmd' = [pc |-> AfterGate, force |-> force, record |-> record,
                   new |-> Baseline(commands, card)]
        /\ ValidConfig(config) /\ card # Unknown
        /\ record.recommendation = "reject" => force
        /\ UNCHANGED <<config, run, earlier, baseline, backup>>
    BY <1>2 DEF PromoteBegin, GoesOn, files
  <2> HIDE DEF record
  <2>2. cmd'.pc = AfterGate /\ cmd'.force = force /\ cmd'.new.card = card
    BY <2>1 DEF Baseline
  <2>3. \A c : Honest(c) => Honest(c)'
    BY <2>1, HonestStays
  <2>4. Honest(card) /\ Honest(card)'
    BY <2>1, <2>3, CandidatesHonest
  <2>5. \A file \in {baseline', backup'} : IsContent(file) => Honest(file.card)'
    BY <2>1, <2>3 DEF TrustInv
  <2>6. ASSUME AfterGate = "gated", ~force, config.policy # "lenient"
        PROVE  \E r \in {run} \cup earlier : r.stage = "saved" /\ card = SavedCard(r)
    <3>1. baseline # Missing
      BY <2>6 DEF AfterGate
    <3>2. card.scores["trust"] # 0
      BY <2>1, <2>6, <3>1, NoTrustRejected DEF record
    <3> QED
      BY <2>4, <3>2 DEF Honest, OfSavedRun
  <2>7. NoTrustNoPromotion'
    BY <2>1, <2>2, <2>6 DEF NoTrustNoPromotion, SavedCard, Weights
  <2>8. cmd'.pc # "saving"
    BY <2>2 DEF AfterGate
  <2> QED
    BY <2>1, <2>2, <2>4, <2>5, <2>7, <2>8 DEF TrustInv, IsContent
<1> QED
  BY <1>1, <1>2

LEMMA NextTrust ==
  ASSUME IInv, TrustInv, [BaselineNext]_baselineVars
  PROVE  TrustInv'
<1>1. CASE RunBegin \/ RunSave
  BY <1>1, RunKeepsTrust
<1>2. ASSUME NEW card \in Candidates, EvalGate(card)
      PROVE  TrustInv'
  BY <1>2, RefusedKeepsTrust DEF EvalGate
<1>3. ASSUME NEW card \in Candidates, SaveBegin(card)
      PROVE  TrustInv'
  BY <1>3, SaveBeginKeepsTrust
<1>4. ASSUME NEW card \in Candidates, NEW force \in BOOLEAN, PromoteBegin(card, force)
      PROVE  TrustInv'
  BY <1>4, PromoteBeginKeepsTrust
<1>5. CASE SaveEnd \/ AppendEnd \/ PruneEnd \/ Crash
  <2>1. cmd'.pc = "idle" /\ UNCHANGED <<config, run, earlier, backup>>
    BY <1>5 DEF SaveEnd, AppendEnd, PruneEnd, Crash, Report, Idle, files
  <2>2. baseline' = baseline \/ (cmd.pc = "overwriting" /\ baseline' = cmd.new)
    BY <1>5 DEF SaveEnd, AppendEnd, PruneEnd, Crash, files
  <2>3. cmd'.pc \notin Carrying /\ "overwriting" \in Carrying
    BY <2>1 DEF Carrying, Promoting
  <2> QED
    BY <2>1, <2>2, <2>3, TrustKept
<1>6. CASE BackupBegin \/ BackupEnd \/ WriteBegin \/ WriteEnd
  <2>1. /\ cmd.pc \in Promoting /\ UNCHANGED <<config, run, earlier>>
        /\ baseline' \in {baseline, Torn, cmd.new} /\ backup' \in {backup, baseline, Torn}
        /\ \E p : p \notin {"saving", "gated"} /\ cmd' = [cmd EXCEPT !.pc = p]
    BY <1>6 DEF BackupBegin, BackupEnd, WriteBegin, WriteEnd, Promoting
  <2>2. cmd'.pc \notin {"saving", "gated"} /\ cmd'.new = cmd.new
    BY <2>1, NextPc DEF IInv, Shape
  <2>3. cmd.pc \in Carrying
    BY <2>1 DEF Carrying
  <2> QED
    BY <2>1, <2>2, <2>3, TrustKept
<1>7. CASE AppendBegin \/ \E keep \in Keeps : PruneBegin(keep)
  <2>1. CASE \E code, verdict : Refused(code, verdict)
    BY <2>1, RefusedKeepsTrust
  <2>2. CASE ~ \E code, verdict : Refused(code, verdict)
    <3>1. cmd'.pc \in {"appending", "pruning"} /\ UNCHANGED <<config, run, earlier, baseline, backup>>
      BY <1>7, <2>2 DEF AppendBegin, PruneBegin, GoesOn
    <3>2. cmd'.pc \notin Carrying
      BY <3>1 DEF Carrying, Promoting
    <3> QED
      BY <3>1, <3>2, TrustKept
  <2> QED
    BY <2>1, <2>2
<1>8. CASE Day \/ UNCHANGED baselineVars
  <2>1. UNCHANGED <<config, run, earlier, baseline, backup, cmd>>
    BY <1>8 DEF Day, baselineVars, files
  <2> QED
    BY <2>1, TrustKept
<1> QED
  BY <1>1, <1>2, <1>3, <1>4, <1>5, <1>6, <1>7, <1>8 DEF BaselineNext

LEMMA InitTrust == BaselineInit => TrustInv
<1> SUFFICES ASSUME BaselineInit PROVE TrustInv
  OBVIOUS
<1>1. /\ cmd.pc = "idle" /\ backup = Missing
      /\ run = [stage |-> "none", data |-> Unknown]
  BY DEF BaselineInit, Idle
<1>2. IsContent(baseline) => OfSavedRun(baseline.card)
  <2>1. CASE baseline = Missing
    BY <2>1 DEF IsContent
  <2>2. CASE \E data : /\ earlier = {[stage |-> "saved", data |-> data]}
                       /\ baseline = Bare(Build(data, Weights))
    BY <2>2 DEF OfSavedRun, SavedCard, Bare
  <2> QED
    BY <2>1, <2>2 DEF BaselineInit
<1> QED
  BY <1>1, <1>2 DEF TrustInv, Honest, IsContent, Promoting, NoTrustNoPromotion

(* Under a policy that blocks on trust, what replaces a baseline without    *)
(* --force is the scorecard of a run whose artifacts were all saved,        *)
(* however it came into the file it is read from: neither a run that was    *)
(* cut short nor any eval suite has the trust it takes, nor a baseline made *)
(* of one.                                                                  *)
THEOREM TrustIsNeeded == BaselineSpec => []NoTrustNoPromotion
<1>1. TrustInv => NoTrustNoPromotion
  BY DEF TrustInv
<1>2. IInv /\ TrustInv /\ [BaselineNext]_baselineVars => TrustInv'
  BY NextTrust
<1> QED
  BY <1>1, <1>2, InitTrust, Invariant, PTL DEF BaselineSpec

-----------------------------------------------------------------------------
(* The memory of a mission. *)

Statuses == {"active", "confirmed", "contradicted", "superseded"}

-----------------------------------------------------------------------------
(* What is believed.  A claim stands in one kind of entry at most, and one  *)
(* that was given up is at most a hypothesis that was superseded, which is  *)
(* not handed over.                                                         *)

Apart(given, facs, hyps, quests) ==
  /\ given \cup facs \cup hyps \cup quests \subseteq known
  /\ given \cap (facs \cup quests) = {}
  /\ hyps \cap (facs \cup quests) = {}
  /\ facs \cap quests = {}

BeliefInv ==
  /\ known \subseteq Claims
  /\ status \in [Claims -> Statuses]
  /\ Apart(givenUp, findings \cup facts, hypotheses, questions)
  /\ \A c \in givenUp \cap hypotheses : status[c] = "superseded"
  /\ \A m \in missions : /\ Apart(m.givenUp, m.facts, m.hypotheses, m.questions)
                         /\ m.givenUp \cap m.hypotheses = {}

LEMMA BeliefInit == MissionInit => BeliefInv
  BY DEF MissionInit, BeliefInv, Apart, Statuses

LEMMA BeliefNext == BeliefInv /\ [MissionNext]_missionVars => BeliefInv'
<1> SUFFICES ASSUME BeliefInv, [MissionNext]_missionVars PROVE BeliefInv'
  OBVIOUS
<1>1. ASSUME NEW c \in Claims, AddFinding(c) \/ AddHypothesis(c) \/ AddQuestion(c)
      PROVE  BeliefInv'
  <2>1. status' = [status EXCEPT ![c] = "active"] /\ known' = known \cup {c}
        /\ c \notin known /\ UNCHANGED <<facts, missions, givenUp>>
    BY <1>1 DEF AddFinding, AddHypothesis, AddQuestion, NewClaim
  <2>2. status' \in [Claims -> Statuses] /\ \A d \in known : status'[d] = status[d]
    BY <2>1 DEF BeliefInv, Statuses
  <2>3. CASE AddFinding(c)
    BY <2>1, <2>2, <2>3 DEF BeliefInv, Apart, AddFinding
  <2>4. CASE AddHypothesis(c)
    BY <2>1, <2>2, <2>4 DEF BeliefInv, Apart, AddHypothesis
  <2>5. CASE AddQuestion(c)
    BY <2>1, <2>2, <2>5 DEF BeliefInv, Apart, AddQuestion
  <2> QED
    BY <1>1, <2>3, <2>4, <2>5
<1>2. ASSUME NEW c \in Claims, PromoteToFact(c) PROVE BeliefInv'
  BY <1>2 DEF BeliefInv, Apart, Statuses, PromoteToFact
<1>3. ASSUME NEW c \in Claims, Invalidate(c) PROVE BeliefInv'
  BY <1>3 DEF BeliefInv, Apart, Statuses, Invalidate
<1>4. ASSUME NEW c \in Claims, Supersede(c) PROVE BeliefInv'
  BY <1>4 DEF BeliefInv, Apart, Statuses, Supersede
<1>5. ASSUME NEW c \in Claims, ResolveQuestion(c) PROVE BeliefInv'
  BY <1>5 DEF BeliefInv, Apart, ResolveQuestion
<1>6. CASE EndRun
  <2>1. Apart(givenUp, facts, Believed, questions) /\ givenUp \cap Believed = {}
    BY DEF BeliefInv, Apart, Believed, Statuses
  <2>2. \A m \in missions' : m \in missions \/ m = FromWorkingState
    BY <1>6 DEF EndRun
  <2>3. FromWorkingState.facts = facts /\ FromWorkingState.hypotheses = Believed
        /\ FromWorkingState.questions = questions /\ FromWorkingState.givenUp = givenUp
    BY DEF FromWorkingState
  <2> QED
    BY <1>6, <2>1, <2>2, <2>3 DEF BeliefInv, Apart, EndRun, memoryVars
<1>7. ASSUME NEW m \in missions, RestoreFromMission(m) PROVE BeliefInv'
  <2>1. status' \in [Claims -> Statuses]
    BY <1>7 DEF RestoreFromMission, Statuses
  <2> QED
    BY <1>7, <2>1 DEF BeliefInv, Apart, RestoreFromMission
<1>8. CASE UpdatePlan \/ CheckStep \/ UNCHANGED missionVars
  <2>1. UNCHANGED <<known, status, givenUp, findings, facts, hypotheses, questions,
                    missions>>
    BY <1>8 DEF UpdatePlan, CheckStep, RecordRun, RecordModification, missionVars,
                memoryVars
  <2> QED
    BY <2>1 DEF BeliefInv, Apart
<1> QED
  BY <1>1, <1>2, <1>3, <1>4, <1>5, <1>6, <1>7, <1>8 DEF MissionNext, MemoryStep, LineStep

LEMMA BeliefSuffices == BeliefInv => GivenUpStaysOut
  BY DEF BeliefInv, Apart, GivenUpStaysOut, ActiveEntries

(* A claim that was refuted, or superseded as a hypothesis, is not believed *)
(* again, in this run or in any that resumes the mission.                   *)
THEOREM NoReturnOfTheRefuted == MissionSpec => []GivenUpStaysOut
<1>1. MissionSpec => []BeliefInv
  BY BeliefInit, BeliefNext, PTL DEF MissionSpec
<1> QED
  BY <1>1, BeliefSuffices, PTL

-----------------------------------------------------------------------------
(* What is verified.  A verification takes its time and its snapshot in one *)
(* step, so that a later modification is later than the one and not in the  *)
(* other.                                                                   *)

Modifications == UNION {[S -> Nat] : S \in SUBSET Files}
Runs == [timestamp : Nat, snapshot : Modifications]

(* What the last verification says of the files. *)
LastRunInv(check) ==
  /\ check.timestamp <= now
  /\ DOMAIN check.snapshot \subseteq DOMAIN modified
  /\ \A f \in DOMAIN check.snapshot :
       /\ check.snapshot[f] <= check.timestamp
       /\ modified[f] = check.snapshot[f] \/ modified[f] > check.timestamp
  /\ \A f \in DOMAIN modified \ DOMAIN check.snapshot : modified[f] > check.timestamp
  /\ \A f \in untested : modified[f] > check.timestamp

TestedInv ==
  /\ now \in Nat /\ modified \in Modifications /\ verifications \in Seq(Runs)
  /\ \A f \in DOMAIN modified : modified[f] <= now
  /\ untested \subseteq DOMAIN modified
  /\ verifications # <<>> => LastRunInv(Last(verifications))
  /\ \A m \in missions : m.modified \subseteq Files /\ m.unverified \subseteq m.modified
                         /\ m.untested \subseteq m.modified

LEMMA LastInRuns == TestedInv /\ verifications # <<>> => Last(verifications) \in Runs
  BY DEF TestedInv, Last

LEMMA ModificationsShape ==
  ASSUME modified \in Modifications
  PROVE  /\ DOMAIN modified \subseteq Files
         /\ \A f \in DOMAIN modified : modified[f] \in Nat
  BY DEF Modifications

LEMMA TestedInit == MissionInit => TestedInv
<1> SUFFICES ASSUME MissionInit PROVE TestedInv
  OBVIOUS
<1>1. << >> \in [{} -> Nat] /\ DOMAIN << >> = {}
  OBVIOUS
<1>2. modified \in Modifications /\ DOMAIN modified = {}
  BY <1>1 DEF MissionInit, Modifications
<1> QED
  BY <1>2 DEF MissionInit, TestedInv

LEMMA ModificationKeeps ==
  ASSUME TestedInv, NEW f \in Files, RecordModification(f)
  PROVE  TestedInv'
<1>1. /\ now' = now + 1 /\ untested' = untested \cup {f}
      /\ modified' = [g \in DOMAIN modified \cup {f} |-> IF g = f THEN now' ELSE modified[g]]
      /\ UNCHANGED <<verifications, missions>>
  BY DEF RecordModification
<1>2. now \in Nat /\ now' \in Nat
  BY <1>1 DEF TestedInv
<1>3. DOMAIN modified \subseteq Files /\ \A g \in DOMAIN modified : modified[g] \in 0..now
  BY ModificationsShape DEF TestedInv
<1>4. /\ DOMAIN modified' = DOMAIN modified \cup {f} /\ modified'[f] = now'
      /\ \A g \in DOMAIN modified \ {f} : modified'[g] = modified[g]
  BY <1>1
<1>5. modified' \in Modifications /\ \A g \in DOMAIN modified' : modified'[g] <= now'
  <2>1. \A g \in DOMAIN modified' : modified'[g] \in 0..now'
    BY <1>1, <1>2, <1>3, <1>4
  <2>2. modified' \in [DOMAIN modified' -> Nat] /\ DOMAIN modified' \in SUBSET Files
    BY <1>1, <1>3, <1>4, <2>1
  <2> QED
    BY <2>1, <2>2 DEF Modifications
<1>6. ASSUME verifications' # <<>> PROVE LastRunInv(Last(verifications))'
  <2> DEFINE check == Last(verifications)
  <2>1. check \in Runs /\ LastRunInv(check) /\ check' = check
    BY <1>1, <1>6, LastInRuns DEF TestedInv
  <2>2. check.timestamp \in Nat /\ check.timestamp < now'
    BY <1>1, <1>2, <2>1 DEF Runs, LastRunInv
  <2> HIDE DEF check
  <2>3. DOMAIN check.snapshot \subseteq DOMAIN modified'
    BY <1>4, <2>1 DEF LastRunInv
  <2>4. \A g \in DOMAIN check.snapshot :
          /\ check.snapshot[g] <= check.timestamp
          /\ modified'[g] = check.snapshot[g] \/ modified'[g] > check.timestamp
    BY <1>4, <2>1, <2>2 DEF LastRunInv
  <2>5. \A g \in DOMAIN modified' \ DOMAIN check.snapshot : modified'[g] > check.timestamp
    BY <1>4, <2>1, <2>2 DEF LastRunInv
  <2>6. \A g \in untested' : modified'[g] > check.timestamp
    BY <1>1, <1>4, <2>1, <2>2 DEF LastRunInv, TestedInv
  <2>7. LastRunInv(check)'
    BY <1>2, <2>1, <2>2, <2>3, <2>4, <2>5, <2>6 DEF LastRunInv
  <2> QED
    BY <2>7 DEF check
<1> QED
  BY <1>1, <1>2, <1>4, <1>5, <1>6 DEF TestedInv

LEMMA RunKeeps == ASSUME TestedInv, RecordRun PROVE TestedInv'
<1> DEFINE check == [timestamp |-> now', snapshot |-> modified]
<1>1. /\ now' = now + 1 /\ verifications' = Append(verifications, check)
      /\ untested' = {} /\ UNCHANGED <<modified, missions>>
  BY DEF RecordRun
<1>2. now \in Nat /\ now' \in Nat
  BY <1>1 DEF TestedInv
<1>3. check \in Runs /\ check.timestamp = now' /\ check.snapshot = modified
  BY <1>2 DEF Runs, TestedInv
<1>4. verifications' \in Seq(Runs) /\ Last(verifications') = check
  <2> HIDE DEF check
  <2> QED
    BY <1>1, <1>3 DEF TestedInv, Last
<1>5. LastRunInv(Last(verifications))'
  <2>1. \A f \in DOMAIN modified : modified[f] \in 0..now
    BY ModificationsShape DEF TestedInv
  <2> HIDE DEF check
  <2> QED
    BY <1>1, <1>2, <1>3, <1>4, <2>1 DEF LastRunInv
<1>6. \A f \in DOMAIN modified : modified[f] <= now'
  BY <1>1, <1>2, ModificationsShape DEF TestedInv
<1> QED
  BY <1>1, <1>2, <1>4, <1>5, <1>6 DEF TestedInv

LEMMA TestedNext == TestedInv /\ [MissionNext]_missionVars => TestedInv'
<1> SUFFICES ASSUME TestedInv, [MissionNext]_missionVars PROVE TestedInv'
  OBVIOUS
<1>1. ASSUME NEW f \in Files, RecordModification(f) PROVE TestedInv'
  BY <1>1, ModificationKeeps
<1>2. CASE RecordRun
  BY <1>2, RunKeeps
<1>3. CASE EndRun
  <2>1. \A m \in missions' : m \in missions \/ m = FromWorkingState
    BY <1>3 DEF EndRun
  <2>2. /\ FromWorkingState.modified = DOMAIN modified
        /\ FromWorkingState.unverified = UnverifiedFiles
        /\ FromWorkingState.untested = untested
    BY DEF FromWorkingState
  <2>3. UnverifiedFiles \subseteq DOMAIN modified /\ DOMAIN modified \subseteq Files
    BY ModificationsShape DEF UnverifiedFiles, TestedInv
  <2>4. UNCHANGED <<now, modified, verifications, untested>>
    BY <1>3 DEF EndRun, checkVars
  <2> QED
    BY <2>1, <2>2, <2>3, <2>4 DEF TestedInv, LastRunInv
<1>4. ASSUME NEW m \in missions, RestoreFromMission(m) PROVE TestedInv'
  <2>1. /\ now' = 1 /\ modified' = [f \in m.modified \cup m.unverified |-> 1]
        /\ verifications' = <<>> /\ untested' = m.untested /\ missions' = missions
    BY <1>4 DEF RestoreFromMission
  <2>2. modified' \in [m.modified \cup m.unverified -> Nat]
    BY <2>1
  <2>3. m.modified \cup m.unverified \in SUBSET Files
    BY DEF TestedInv
  <2>4. modified' \in Modifications
    BY <2>2, <2>3 DEF Modifications
  <2>5. DOMAIN modified' = m.modified \cup m.unverified
        /\ \A f \in DOMAIN modified' : modified'[f] <= now'
    BY <2>1
  <2>6. verifications' \in Seq(Runs)
    BY <2>1
  <2> QED
    BY <2>1, <2>4, <2>5, <2>6 DEF TestedInv
<1>5. CASE MemoryStep \/ UpdatePlan \/ UNCHANGED missionVars
  <2>1. UNCHANGED <<now, modified, verifications, untested, missions>>
    BY <1>5 DEF MemoryStep, AddFinding, AddHypothesis, AddQuestion, NewClaim, PromoteToFact,
                Invalidate, Supersede, ResolveQuestion, UpdatePlan, checkVars, missionVars
  <2> QED
    BY <2>1 DEF TestedInv, LastRunInv
<1> QED
  BY <1>1, <1>2, <1>3, <1>4, <1>5 DEF MissionNext, CheckStep, LineStep

LEMMA TestedSuffices == TestedInv => UntestedIsReported
<1> SUFFICES ASSUME TestedInv PROVE UntestedIsReported
  OBVIOUS
<1>1. CASE verifications = <<>>
  BY <1>1 DEF TestedInv, UntestedIsReported, UnverifiedFiles, VerificationFreshness
<1>2. CASE verifications # <<>>
  <2> DEFINE check == Last(verifications)
  <2>1. LastRunInv(check) /\ check.timestamp \in Nat
        /\ \A f \in DOMAIN check.snapshot : check.snapshot[f] \in Nat
    BY <1>2, LastInRuns DEF TestedInv, Runs, Modifications
  <2>2. \A f \in DOMAIN modified : modified[f] \in Nat
    BY ModificationsShape DEF TestedInv
  <2>3. UnverifiedFiles = {f \in DOMAIN modified : modified[f] > check.timestamp}
    BY <1>2 DEF UnverifiedFiles
  <2>4. VerificationFreshness = IF \E f \in DOMAIN modified : ModifiedSince(check, f)
                    THEN "stale" ELSE "fresh"
    BY <1>2 DEF VerificationFreshness
  <2> HIDE DEF check
  <2>5. ASSUME NEW f \in DOMAIN modified
        PROVE  ModifiedSince(check, f) <=> modified[f] > check.timestamp
    BY <2>1, <2>2 DEF ModifiedSince, LastRunInv
  <2>6. untested \subseteq UnverifiedFiles
    BY <2>1, <2>3 DEF LastRunInv, TestedInv
  <2> QED
    BY <2>3, <2>4, <2>5, <2>6 DEF UntestedIsReported
<1> QED
  BY <1>1, <1>2

(* A file that was modified and not verified since is reported, and the two *)
(* ways of finding out agree, through any line of runs.                     *)
THEOREM UntestedFilesReported == MissionSpec => []UntestedIsReported
<1>1. MissionSpec => []TestedInv
  BY TestedInit, TestedNext, PTL DEF MissionSpec
<1> QED
  BY <1>1, TestedSuffices, PTL
=============================================================================
