------------------------ MODULE IndependentPartsProofs ------------------------
(***************************************************************************)
(* Theorems about parts that share no state, with their proofs: the bound  *)
(* of RateLimiter for every number of requests and every limit of at least *)
(* one, the pauses of ReplaySession for recordings of any length and any   *)
(* number of calls, PluginInstaller for any files of the plugin, any line  *)
(* of commands and any number of cuts and writes that fail untold,         *)
(* PluginHooks for any number of hooks at a time and sessions of any       *)
(* length, and TeamCoordination for every team, plan, topology and         *)
(* timeout. The task list and the registry of the last share no variable   *)
(* either, so each has an inductive invariant of its own.                  *)
(***************************************************************************)
EXTENDS RateLimiter, ReplaySession, PluginInstaller, PluginHooks, TeamCoordination, Integers,
        TLAPS, FiniteSetTheorems

-----------------------------------------------------------------------------
(* The rate limiter. *)

(* The requests of this second that moved the window and have not reset the *)
(* counter yet.                                                             *)
Resetting == {r \in Requests : step[r] = "store" /\ seen[r].now = second}

(* How many more the counter lets through as it stands.                     *)
Room == IF count >= MaxPerSecond THEN 0 ELSE MaxPerSecond - count

(* A window that is not of this second can be moved to it once more.        *)
Behind == IF window = second THEN 0 ELSE 1

Types ==
  /\ second \in Nat /\ window \in Nat /\ count \in Nat
  /\ admitted \in Nat /\ stale \in Nat
  /\ step \in [Requests -> {"idle", "load", "swap", "store", "add"}]
  /\ seen \in [Requests -> [now : Nat, window : Nat]]
  /\ IsFiniteSet(Resetting)
  /\ \A r \in Requests :
       /\ seen[r].now <= second
       /\ step[r] = "swap" => seen[r].now # seen[r].window

(* What was let through, what the counter has room for, and a whole limit   *)
(* for every reset that is under way or can still come, was paid for: twice *)
(* the limit by the second, once more by each stale step.                   *)
Paid ==
  admitted + Room + MaxPerSecond * (Cardinality(Resetting) + Behind)
    <= MaxPerSecond * (2 + stale)

IInv == Types /\ Paid

LEMMA InitIInv ==
  ASSUME MaxPerSecond \in Nat, LimiterInit
  PROVE  IInv
<1>1. Resetting = {}
  BY DEF LimiterInit, Resetting
<1>2. IsFiniteSet(Resetting) /\ Cardinality(Resetting) = 0
  BY <1>1, FS_EmptySet
<1>3. Types
  BY <1>2 DEF LimiterInit, Types, Nothing
<1>4. Paid
  <2>1. Behind = 0 /\ Room <= MaxPerSecond /\ Room \in Nat
    BY DEF LimiterInit, Behind, Room
  <2> QED
    BY <1>2, <2>1 DEF LimiterInit, Paid
<1> QED
  BY <1>3, <1>4 DEF IInv

(* The terms of the bound are numbers. *)
LEMMA Numbers ==
  ASSUME MaxPerSecond \in Nat \ {0}, Types
  PROVE  Room \in 0 .. MaxPerSecond /\ Behind \in {0, 1} /\ Cardinality(Resetting) \in Nat
  BY FS_CardinalityType DEF Types, Room, Behind

(* A limit more on one side for a limit more on the other.                  *)
LEMMA Distributes ==
  ASSUME NEW m, NEW x, m \in Nat, x \in Nat
  PROVE  m * (x + 1) = m * x + m /\ m * x \in Nat
  OBVIOUS

LEMMA ReadClockKeeps ==
  ASSUME MaxPerSecond \in Nat \ {0}, IInv, NEW r \in Requests, ReadClock(r)
  PROVE  IInv'
<1>0. Types /\ Paid
  BY DEF IInv
<1>1. Resetting' = Resetting
  BY <1>0 DEF ReadClock, Resetting, Types
<1>2. Types'
  BY <1>0, <1>1 DEF ReadClock, Types
<1>3. Room' = Room /\ Behind' = Behind
  BY DEF ReadClock, Room, Behind
<1>4. Paid'
  BY <1>0, <1>1, <1>3 DEF Paid, ReadClock
<1> QED
  BY <1>2, <1>4 DEF IInv

LEMMA LoadWindowKeeps ==
  ASSUME MaxPerSecond \in Nat \ {0}, IInv, NEW r \in Requests, LoadWindow(r)
  PROVE  IInv'
<1>0. Types /\ Paid
  BY DEF IInv
<1>1. Resetting' = Resetting
  BY <1>0 DEF LoadWindow, Resetting, Types
<1>2. Types'
  BY <1>0, <1>1 DEF LoadWindow, Types
<1>3. Room' = Room /\ Behind' = Behind
  BY DEF LoadWindow, Room, Behind
<1>4. Paid'
  BY <1>0, <1>1, <1>3 DEF Paid, LoadWindow
<1> QED
  BY <1>2, <1>4 DEF IInv

LEMMA SwapKeeps ==
  ASSUME MaxPerSecond \in Nat \ {0}, IInv, NEW r \in Requests, Swap(r)
  PROVE  IInv'
<1> DEFINE n == Cardinality(Resetting)
           wins == window = seen[r].window
<1>0. /\ Types /\ Paid /\ Room \in 0 .. MaxPerSecond /\ Behind \in {0, 1} /\ n \in Nat
      /\ step[r] = "swap" /\ UNCHANGED <<second, count, seen, admitted>>
      /\ r \notin Resetting
  BY Numbers DEF IInv, Swap, Resetting
<1>1. Room' = Room
  BY <1>0 DEF Room
<1>2. CASE ~wins
  <2>1. window' = window /\ stale' = stale /\ step' = [step EXCEPT ![r] = "add"]
    BY <1>2 DEF Swap
  <2>2. Resetting' = Resetting
    BY <1>0, <2>1 DEF Resetting, Types
  <2>3. Types'
    BY <1>0, <2>1, <2>2 DEF Types
  <2>4. Behind' = Behind
    BY <1>0, <2>1 DEF Behind
  <2> QED
    BY <1>0, <1>1, <2>1, <2>2, <2>3, <2>4 DEF IInv, Paid
<1>3. CASE wins /\ seen[r].now = second
  <2>1. window' = second /\ stale' = stale /\ step' = [step EXCEPT ![r] = "store"]
    BY <1>3 DEF Swap, IsStale
  <2>2. window # second
    BY <1>0, <1>3 DEF Types
  <2>3. Resetting' = Resetting \cup {r}
    BY <1>0, <1>3, <2>1 DEF Resetting, Types
  <2>4. IsFiniteSet(Resetting') /\ Cardinality(Resetting') = n + 1
    BY <1>0, <2>3, FS_AddElement DEF Types
  <2>5. Types'
    BY <1>0, <2>1, <2>4 DEF Types
  <2>6. Behind = 1 /\ Behind' = 0
    BY <1>0, <2>1, <2>2 DEF Behind
  <2>7. Cardinality(Resetting') + Behind' = n + Behind
    BY <1>0, <2>4, <2>6
  <2> QED
    BY <1>0, <1>1, <2>1, <2>5, <2>7 DEF IInv, Paid
<1>4. CASE wins /\ seen[r].now # second
  <2>1. stale' = stale + 1 /\ step' = [step EXCEPT ![r] = "store"] /\ window' = seen[r].now
    BY <1>4 DEF Swap, IsStale
  <2>2. Resetting' = Resetting
    BY <1>0, <1>4, <2>1 DEF Resetting, Types
  <2>3. Types'
    BY <1>0, <2>1, <2>2 DEF Types
  <2>4. Behind' = 1
    BY <1>0, <1>4, <2>1 DEF Behind, Types
  <2>5. /\ MaxPerSecond * (n + Behind') <= MaxPerSecond * (n + Behind) + MaxPerSecond
        /\ MaxPerSecond * (2 + stale') = MaxPerSecond * (2 + stale) + MaxPerSecond
    <3>1. /\ MaxPerSecond * (n + 1) = MaxPerSecond * n + MaxPerSecond
          /\ MaxPerSecond * ((2 + stale) + 1) = MaxPerSecond * (2 + stale) + MaxPerSecond
          /\ MaxPerSecond * n \in Nat /\ MaxPerSecond * (n + 0) = MaxPerSecond * n
      BY <1>0, Distributes DEF Types
    <3>2. (2 + stale) + 1 = 2 + stale'
      BY <1>0, <2>1 DEF Types
    <3> QED
      BY <1>0, <2>4, <3>1, <3>2
  <2>6. /\ MaxPerSecond * (n + Behind) \in Nat /\ MaxPerSecond * (n + Behind') \in Nat
        /\ MaxPerSecond * (2 + stale) \in Nat
    BY <1>0, <2>4, Distributes DEF Types
  <2>7. Paid'
    BY <1>0, <1>1, <2>2, <2>5, <2>6 DEF Paid, Types
  <2> QED
    BY <2>3, <2>7 DEF IInv
<1> QED
  BY <1>2, <1>3, <1>4

LEMMA StoreKeeps ==
  ASSUME MaxPerSecond \in Nat \ {0}, IInv, NEW r \in Requests, Store(r)
  PROVE  IInv'
<1> DEFINE n == Cardinality(Resetting)
<1>0. /\ Types /\ Paid /\ Room \in 0 .. MaxPerSecond /\ Behind \in {0, 1} /\ n \in Nat
      /\ step[r] = "store" /\ count' = 1 /\ admitted' = admitted + 1
      /\ step' = [step EXCEPT ![r] = "idle"] /\ seen' = [seen EXCEPT ![r] = Nothing]
      /\ UNCHANGED <<second, window>>
  BY Numbers DEF IInv, Store, Answered
<1>1. Room' = MaxPerSecond - 1 /\ Behind' = Behind
  BY <1>0 DEF Room, Behind
<1>2. Resetting' = Resetting \ {r}
  BY <1>0 DEF Resetting, Types
<1>3. IsFiniteSet(Resetting')
  BY <1>0, <1>2, FS_RemoveElement DEF Types
<1>4. stale' \in {stale, stale + 1}
  BY DEF Store
<1>5. Types'
  <2>1. Nothing \in [now : Nat, window : Nat] /\ Nothing.now <= second
    BY <1>0 DEF Nothing, Types
  <2>2. /\ step' \in [Requests -> {"idle", "load", "swap", "store", "add"}]
        /\ seen' \in [Requests -> [now : Nat, window : Nat]]
    BY <1>0, <2>1 DEF Types
  <2>3. \A q \in Requests : /\ seen'[q].now <= second
                            /\ step'[q] = "swap" => seen'[q].now # seen'[q].window
    BY <1>0, <2>1 DEF Types
  <2> QED
    BY <1>0, <1>3, <1>4, <2>2, <2>3 DEF Types
<1>6. /\ MaxPerSecond * (n + Behind) \in Nat /\ MaxPerSecond * (2 + stale) \in Nat
  BY <1>0, Distributes DEF Types
<1>7. CASE seen[r].now = second
  <2>1. r \in Resetting /\ stale' = stale
    BY <1>0, <1>7 DEF Resetting, Store, IsStale
  <2>2. n >= 1 /\ Cardinality(Resetting') = n - 1
    <3>1. Cardinality(Resetting') = n - 1
      BY <1>0, <1>2, <2>1, FS_RemoveElement DEF Types
    <3>2. Cardinality(Resetting') \in Nat
      BY <1>3, FS_CardinalityType
    <3> QED
      BY <1>0, <3>1, <3>2
  <2>3. MaxPerSecond * (n + Behind) = MaxPerSecond * (n - 1 + Behind) + MaxPerSecond
    <3>1. n - 1 + Behind \in Nat /\ (n - 1 + Behind) + 1 = n + Behind
      BY <1>0, <2>2
    <3> QED
      BY <3>1, Distributes
  <2>4. MaxPerSecond * (n - 1 + Behind) \in Nat
    BY <1>0, <2>2, Distributes
  <2>5. Paid'
    BY <1>0, <1>1, <1>6, <2>1, <2>2, <2>3, <2>4 DEF Paid, Types
  <2> QED
    BY <1>5, <2>5 DEF IInv
<1>8. CASE seen[r].now # second
  <2>1. Resetting' = Resetting /\ stale' = stale + 1
    BY <1>0, <1>2, <1>8 DEF Resetting, Store, IsStale
  <2>2. MaxPerSecond * (2 + stale') = MaxPerSecond * (2 + stale) + MaxPerSecond
    <3>1. (2 + stale) + 1 = 2 + stale' /\ 2 + stale \in Nat
      BY <1>0, <2>1 DEF Types
    <3> QED
      BY <3>1, Distributes
  <2>3. Paid'
    BY <1>0, <1>1, <1>6, <2>1, <2>2 DEF Paid, Types
  <2> QED
    BY <1>5, <2>3 DEF IInv
<1> QED
  BY <1>7, <1>8

LEMMA AddKeeps ==
  ASSUME MaxPerSecond \in Nat \ {0}, IInv, NEW r \in Requests, Add(r)
  PROVE  IInv'
<1> DEFINE n == Cardinality(Resetting)
<1>0. /\ Types /\ Paid /\ Room \in 0 .. MaxPerSecond /\ Behind \in {0, 1} /\ n \in Nat
      /\ step[r] = "add" /\ count' = count + 1
      /\ admitted' = IF count < MaxPerSecond THEN admitted + 1 ELSE admitted
      /\ step' = [step EXCEPT ![r] = "idle"] /\ seen' = [seen EXCEPT ![r] = Nothing]
      /\ UNCHANGED <<second, window, stale>>
  BY Numbers DEF IInv, Add, Answered, WithinLimit
<1>1. Resetting' = Resetting /\ Behind' = Behind
  BY <1>0 DEF Resetting, Behind, Types
<1>2. Types'
  <2>1. Nothing \in [now : Nat, window : Nat] /\ Nothing.now <= second
    BY <1>0 DEF Nothing, Types
  <2>2. /\ step' \in [Requests -> {"idle", "load", "swap", "store", "add"}]
        /\ seen' \in [Requests -> [now : Nat, window : Nat]]
    BY <1>0, <2>1 DEF Types
  <2>3. \A q \in Requests : /\ seen'[q].now <= second
                            /\ step'[q] = "swap" => seen'[q].now # seen'[q].window
    BY <1>0, <2>1 DEF Types
  <2> QED
    BY <1>0, <1>1, <2>2, <2>3 DEF Types
<1>3. admitted' + Room' = admitted + Room
  BY <1>0 DEF Room, Types
<1>4. Paid'
  BY <1>0, <1>1, <1>3 DEF Paid
<1> QED
  BY <1>2, <1>4 DEF IInv

LEMMA NextSecondKeeps ==
  ASSUME MaxPerSecond \in Nat \ {0}, IInv, NextSecond
  PROVE  IInv'
<1>0. /\ Types /\ second' = second + 1 /\ admitted' = 0 /\ stale' = 0
      /\ UNCHANGED <<window, count, step, seen>>
  BY DEF IInv, NextSecond
<1>1. Resetting' = {}
  BY <1>0 DEF Resetting, Types
<1>2. IsFiniteSet(Resetting') /\ Cardinality(Resetting') = 0
  BY <1>1, FS_EmptySet
<1>3. Types'
  BY <1>0, <1>2 DEF Types
<1>4. Room' \in 0 .. MaxPerSecond /\ Behind' \in {0, 1}
  BY <1>0 DEF Types, Room, Behind
<1>5. Paid'
  <2> DEFINE b == Behind'
  <2>0. b = 0 \/ b = 1
    BY <1>4
  <2> HIDE DEF b
  <2>1. MaxPerSecond * (0 + b) = 0 \/ MaxPerSecond * (0 + b) = MaxPerSecond
    BY <2>0
  <2>2. MaxPerSecond * (2 + 0) = MaxPerSecond + MaxPerSecond
    BY SMT
  <2>4. 0 + Room' + MaxPerSecond * (0 + b) <= MaxPerSecond * (2 + 0)
    BY <1>4, <2>1, <2>2
  <2> USE DEF b
  <2> QED
    BY <1>0, <1>2, <2>4 DEF Paid
<1> QED
  BY <1>3, <1>5 DEF IInv

LEMMA NextIInv ==
  ASSUME MaxPerSecond \in Nat \ {0}, IInv, [LimiterNext]_limiterVars
  PROVE  IInv'
<1>1. CASE NextSecond
  BY <1>1, NextSecondKeeps
<1>2. ASSUME NEW r \in Requests,
             ReadClock(r) \/ LoadWindow(r) \/ Swap(r) \/ Store(r) \/ Add(r)
      PROVE  IInv'
  BY <1>2, ReadClockKeeps, LoadWindowKeeps, SwapKeeps, StoreKeeps, AddKeeps
<1>3. CASE UNCHANGED limiterVars
  BY <1>3 DEF limiterVars, IInv, Types, Paid, Resetting, Room, Behind
<1> QED
  BY <1>1, <1>2, <1>3 DEF LimiterNext

(* In any second at most twice the limit is let through, and a limit more   *)
(* for every swap or reset a request of an earlier second makes in it,      *)
(* however many requests are checked at a time (RateLimiter::check).        *)
THEOREM AtMostTwiceTheLimit ==
  ASSUME MaxPerSecond \in Nat \ {0}
  PROVE  LimiterSpec => []AdmittedBounded
<1>1. LimiterInit => IInv
  BY InitIInv
<1>2. IInv /\ [LimiterNext]_limiterVars => IInv'
  BY NextIInv
<1>3. IInv => AdmittedBounded
  <2> SUFFICES ASSUME IInv PROVE AdmittedBounded
    OBVIOUS
  <2>1. Room \in Nat /\ Cardinality(Resetting) + Behind \in Nat
    BY Numbers DEF IInv
  <2>2. MaxPerSecond * (Cardinality(Resetting) + Behind) \in Nat
    BY <2>1, Distributes
  <2>3. MaxPerSecond * (2 + stale) \in Nat
    BY Distributes DEF IInv, Types
  <2> QED
    BY <2>1, <2>2, <2>3 DEF IInv, Paid, Types, AdmittedBounded
<1> QED
  BY <1>1, <1>2, <1>3, PTL DEF LimiterSpec

-----------------------------------------------------------------------------
(* Replays.  Once the event under way at a pause is out, the task is back   *)
(* where it looks at the state, and the state stays as it is until somebody *)
(* resumes.                                                                 *)

PauseInv ==
  \/ sincePause = 0
  \/ sincePause = 1 /\ playback # "playing" /\ task \notin {"sleep", "emit"}

(* Whenever a pause comes between the task's look at the state, the delay   *)
(* and the event, at most one more event comes out (ReplaySession::run).    *)
THEOREM PauseHolds == ReplaySpec => []OneEventAfterPause
<1>1. ReplayInit => PauseInv
  BY DEF ReplayInit, PauseInv
<1>2. PauseInv /\ [ReplayNext]_replayVars => PauseInv'
  <2> SUFFICES ASSUME PauseInv, [ReplayNext]_replayVars PROVE PauseInv'
    OBVIOUS
  <2>1. CASE FinishReplay
    BY <2>1 DEF FinishReplay, PauseInv
  <2>2. CASE Check
    BY <2>2 DEF Check, MayPlay, PauseInv
  <2>3. CASE AwaitChange
    BY <2>3 DEF AwaitChange, PauseInv
  <2>4. CASE Sleep
    BY <2>4 DEF Sleep, PauseInv
  <2>5. CASE Emit
    BY <2>5 DEF Emit, PauseInv
  <2>6. CASE Pause
    BY <2>6 DEF Pause, Send, PauseInv
  <2>7. CASE Resume
    BY <2>7 DEF Resume, PauseInv
  <2>8. CASE SetSpeed \/ Delete \/ UNCHANGED replayVars
    BY <2>8 DEF SetSpeed, Delete, replayVars, PauseInv
  <2> QED
    BY <2>1, <2>2, <2>3, <2>4, <2>5, <2>6, <2>7, <2>8 DEF ReplayNext, TaskStep
<1>3. PauseInv => OneEventAfterPause
  BY DEF PauseInv, OneEventAfterPause
<1> QED
  BY <1>1, <1>2, <1>3, PTL DEF ReplaySpec

-----------------------------------------------------------------------------
(* The installer. *)

(* Where the manifest says the plugin is registered, and nowhere else, but   *)
(* for settings that could not be replaced.                                  *)
Told(mode) ==
  /\ mode = "managed-settings.d" /\ "settings" \notin overdue
       => "plugin hook" \notin settings.entries
  /\ mode = "settings.json" => dropin # "file"

Modes == {"managed-settings.d", "settings.json"}

Shape ==
  /\ "pc" \in DOMAIN job
  /\ job.pc \in {"idle", "copy", "migrate", "servers", "manifest", "remove",
                 "clean servers", "remove manifest", "restore", "restore manifest"}
  /\ settings.is # "readable" => settings.entries = {}
  /\ manifest \in Modes \cup {"none", "torn"}
  /\ content \in [Paths -> {"none", "own", "plugin", "torn"}]

(* What the command under way has come to. *)
Stages ==
  /\ job.pc \in {"copy", "remove", "restore"} => "left" \in DOMAIN job
  /\ job.pc = "migrate" => job.mode = "managed-settings.d"
  /\ job.pc \in {"servers", "manifest"} => job.mode \in Modes /\ Told(job.mode)
  /\ job.pc \in {"remove", "clean servers", "remove manifest"} => manifest \in Modes
  /\ job.pc = "remove" => \A p \in Paths \ job.left : content[p] = "none"
  /\ job.pc \in {"clean servers", "remove manifest"} =>
       \A p \in Paths : content[p] = "none"
  /\ job.pc \in {"clean servers", "remove manifest"} /\ ~doubtful =>
       /\ dropin # "file"
       /\ "settings" \notin overdue => "plugin hook" \notin settings.entries
  /\ job.pc = "remove manifest" /\ "servers" \notin overdue =>
       "plugin server" \notin servers.entries

(* Until an install writes settings, and when none is in doubt, the          *)
(* manifest tells the truth.                                                *)
Tidy ==
  job.pc \notin {"migrate", "servers", "manifest"} /\ ~doubtful => Told(manifest)

InstallerInv == Shape /\ Stages /\ Tidy /\ OwnSettingsKept /\ NothingLeftRegistered

LEMMA EntriesOf ==
  /\ NoFile.entries = {} /\ Broken.entries = {} /\ Broken.is = "broken"
  /\ \A es : Holding(es).entries = es /\ Holding(es).is = "readable"
  BY DEF NoFile, Broken, Holding

(* Cleaned settings have no hook of the plugin's, and all that does not     *)
(* look like the plugin's, unless they were not replaced or left half       *)
(* written; the servers are not touched.                                    *)
LEMMA Cleaned ==
  ASSUME Shape, Clean(settings.entries)
  PROVE  /\ settings'.is # "readable" => settings'.entries = {}
         /\ "settings" \notin overdue' => "plugin hook" \notin settings'.entries
         /\ "own setting" \in settings.entries /\ "settings" \notin damaged'
              => "own setting" \in settings'.entries
         /\ damaged \subseteq damaged'
         /\ "servers" \notin damaged' => "servers" \notin damaged
         /\ "servers" \notin overdue' => "servers" \notin overdue
<1> DEFINE es == settings.entries
<1>1. CASE RemoveOcoSettings(es) = {}
  <2>1. settings' = NoFile /\ damaged' = damaged /\ overdue' = overdue \ {"settings"}
    BY <1>1 DEF Clean, UpToDate
  <2>2. settings'.entries = {}
    BY <2>1 DEF NoFile
  <2>3. "own setting" \notin es
    <3>1. "own setting" \notin RemoveOcoSettings(es)
      BY <1>1
    <3> QED
      BY <3>1 DEF RemoveOcoSettings, Plugins
  <2> QED
    BY <1>1, <2>1, <2>2, <2>3
<1>2. CASE RemoveOcoSettings(es) # {}
  <2>0. \/ /\ settings' = Holding(RemoveOcoSettings(es))
           /\ damaged' = damaged /\ overdue' = overdue \ {"settings"}
        \/ /\ settings' = settings
           /\ damaged' = damaged /\ overdue' = overdue \cup {"settings"}
        \/ /\ settings' = Broken
           /\ damaged' = damaged \cup {"settings"} /\ overdue' = overdue \ {"settings"}
    BY <1>2 DEF Clean, AtomicWrite, UpToDate, MissesUntold
  <2>1. CASE settings' = Holding(RemoveOcoSettings(es))
    <3>1. settings'.entries = RemoveOcoSettings(es) /\ settings'.is = "readable"
      BY <2>1 DEF Holding
    <3> QED
      BY <2>0, <3>1 DEF RemoveOcoSettings, Plugins, Shape
  <2>2. CASE settings' = settings /\ settings' # Holding(RemoveOcoSettings(es))
             /\ overdue' = overdue \cup {"settings"}
    BY <2>0, <2>2 DEF Shape
  <2>3. CASE settings' = Broken /\ overdue' = overdue \ {"settings"}
             /\ damaged' = damaged \cup {"settings"}
    <3>1. settings'.entries = {}
      BY <2>3 DEF Broken
    <3> QED
      BY <2>3, <3>1
  <2> QED
    BY <2>0, <2>1, <2>2, <2>3
<1> QED
  BY <1>1, <1>2

LEMMA GoesOn ==
  ASSUME NEW pc, "pc" \in DOMAIN job, Goes(pc)
  PROVE  /\ job'.pc = pc /\ DOMAIN job' = DOMAIN job
         /\ job'.left = job.left /\ job'.mode = job.mode
  BY DEF Goes

LEMMA InstallerBegins == InstallerInit => InstallerInv
<1> SUFFICES ASSUME InstallerInit PROVE InstallerInv
  OBVIOUS
<1>1. job.pc = "idle" /\ job.last = "none" /\ "pc" \in DOMAIN job
  BY DEF InstallerInit, NoJob
<1>2. Shape
  <2>1. settings.is # "readable" => settings.entries = {}
    <3>1. settings \in {NoFile, Broken} \/ \E es : settings = Holding(es)
      BY DEF InstallerInit
    <3> QED
      BY <3>1 DEF NoFile, Broken, Holding
  <2>2. manifest = "none" /\ content \in [Paths -> {"none", "own", "plugin", "torn"}]
    BY DEF InstallerInit
  <2> QED
    BY <1>1, <2>1, <2>2 DEF Shape
<1>3. Stages /\ Tidy /\ NothingLeftRegistered
  BY <1>1 DEF InstallerInit, Stages, Tidy, Told, NothingLeftRegistered
<1>4. OwnSettingsKept
  BY DEF InstallerInit, OwnSettingsKept
<1> QED
  BY <1>2, <1>3, <1>4 DEF InstallerInv

LEMMA InstallerMoves == InstallerInv /\ [InstallerNext]_installerVars => InstallerInv'
<1> SUFFICES ASSUME InstallerInv, [InstallerNext]_installerVars PROVE InstallerInv'
  OBVIOUS
<1>0. Shape /\ Stages /\ Tidy /\ OwnSettingsKept /\ NothingLeftRegistered
  BY DEF InstallerInv
<1> USE DEF Told, Modes, harm
<1>1. ASSUME NEW force \in BOOLEAN, Install(force) PROVE InstallerInv'
  <2>1. job'.pc = "copy" /\ DOMAIN job' = {"pc", "left", "force"} /\ job.pc = "idle"
    BY <1>1 DEF Install, Invoked
  <2>2. UNCHANGED <<content, settings, servers, dropin, manifest, origin, doubtful, harm>>
    BY <1>1 DEF Install
  <2> QED
    BY <1>0, <2>1, <2>2 DEF InstallerInv, Shape, Stages, Tidy, OwnSettingsKept,
       NothingLeftRegistered
<1>2. ASSUME NEW p \in Paths, CopyFile(p) PROVE InstallerInv'
  <2>1. job'.pc = "copy" /\ DOMAIN job' = DOMAIN job /\ job.pc = "copy"
    BY <1>0, <1>2 DEF CopyFile, Shape
  <2>2. /\ UNCHANGED <<settings, servers, dropin, manifest, origin, doubtful, harm>>
        /\ content' \in {content, [content EXCEPT ![p] = "plugin"]}
    BY <1>2 DEF CopyFile
  <2> QED
    BY <1>0, <2>1, <2>2 DEF InstallerInv, Shape, Stages, Tidy, OwnSettingsKept,
       NothingLeftRegistered
<1>3. CASE WriteDropin
  <2>1. /\ job'.pc = "migrate" /\ job'.mode = "managed-settings.d" /\ "pc" \in DOMAIN job'
        /\ UNCHANGED <<content, settings, servers, manifest, origin, doubtful, harm>>
    BY <1>3 DEF WriteDropin
  <2> QED
    BY <1>0, <2>1 DEF InstallerInv, Shape, Stages, Tidy, OwnSettingsKept,
       NothingLeftRegistered
<1>4. CASE MigrateSettings
  <2>1. /\ job.pc = "migrate" /\ job'.pc = "servers" /\ DOMAIN job' = DOMAIN job
        /\ job'.mode = "managed-settings.d"
    BY <1>0, <1>4, GoesOn DEF MigrateSettings, Shape, Stages
  <2>2. UNCHANGED <<content, servers, dropin, manifest, origin, doubtful>>
    BY <1>4 DEF MigrateSettings
  <2>3. /\ settings'.is # "readable" => settings'.entries = {}
        /\ "settings" \notin overdue' => "plugin hook" \notin settings'.entries
        /\ "own setting" \in settings.entries /\ "settings" \notin damaged'
             => "own setting" \in settings'.entries
        /\ damaged \subseteq damaged'
        /\ "servers" \notin damaged' => "servers" \notin damaged
        /\ "servers" \notin overdue' => "servers" \notin overdue
    <3>1. CASE Clean(settings.entries)
      BY <1>0, <3>1, Cleaned
    <3>2. CASE UNCHANGED settings /\ UpToDate("settings")
               /\ "plugin hook" \notin settings.entries
      BY <1>0, <3>2 DEF UpToDate, Shape
    <3>3. ~Exists(settings) => settings.entries = {}
      BY <1>0 DEF Exists, Shape
    <3>4. RemoveOcoSettings(settings.entries) = settings.entries
            => "plugin hook" \notin settings.entries
      BY DEF RemoveOcoSettings, Plugins
    <3> QED
      BY <1>4, <3>1, <3>2, <3>3, <3>4 DEF MigrateSettings, Entries
  <2> QED
    BY <1>0, <2>1, <2>2, <2>3 DEF InstallerInv, Shape, Stages, Tidy, OwnSettingsKept,
       NothingLeftRegistered
<1>5. CASE WriteSettings
  <2>1. /\ job'.pc = "servers" /\ job'.mode = "settings.json" /\ "pc" \in DOMAIN job'
        /\ dropin = "none"
        /\ UNCHANGED <<content, servers, dropin, manifest, origin, doubtful>>
        /\ AtomicWrite("settings", settings, settings', MergeSettings(settings.entries))
    BY <1>5 DEF WriteSettings, SupportsDropin, Entries
  <2>2. /\ settings'.is # "readable" => settings'.entries = {}
        /\ "settings" \notin damaged' => settings.entries \subseteq settings'.entries
        /\ damaged \subseteq damaged'
        /\ "servers" \notin damaged' => "servers" \notin damaged
        /\ "servers" \notin overdue' => "servers" \notin overdue
    <3>1. CASE settings' = Holding(MergeSettings(settings.entries)) /\ UpToDate("settings")
      BY <3>1 DEF UpToDate, Holding, MergeSettings
    <3>2. CASE MissesUntold("settings", settings, settings')
      <4>1. \/ /\ settings' = settings /\ damaged' = damaged
              /\ overdue' = overdue \cup {"settings"}
           \/ /\ settings' = Broken /\ damaged' = damaged \cup {"settings"}
              /\ overdue' = overdue \ {"settings"}
        BY <3>2 DEF MissesUntold
      <4> QED
        BY <1>0, <4>1, EntriesOf DEF Shape
    <3> QED
      BY <2>1, <3>1, <3>2 DEF AtomicWrite
  <2> QED
    BY <1>0, <2>1, <2>2 DEF InstallerInv, Shape, Stages, Tidy, OwnSettingsKept,
       NothingLeftRegistered
<1>6. CASE WriteServers
  <2>1. /\ job.pc = "servers" /\ job'.pc = "manifest" /\ DOMAIN job' = DOMAIN job
        /\ job'.mode = job.mode
    BY <1>0, <1>6, GoesOn DEF WriteServers, Shape
  <2>2. UNCHANGED <<content, settings, dropin, manifest, origin, doubtful>>
    BY <1>6 DEF WriteServers
  <2>3. /\ "servers" \notin damaged' => servers.entries \subseteq servers'.entries
        /\ "settings" \notin damaged' => "settings" \notin damaged
        /\ "settings" \notin overdue' => "settings" \notin overdue
        /\ "servers" \notin damaged' => "servers" \notin damaged
    <3>1. CASE UNCHANGED servers /\ UpToDate("servers")
      BY <3>1 DEF UpToDate
    <3>2. CASE servers' = Holding(servers.entries \cup {"plugin server"})
               /\ UpToDate("servers")
      BY <3>2 DEF UpToDate, Holding
    <3>3. CASE MissesUntold("servers", servers, servers')
      BY <3>3 DEF MissesUntold, Broken
    <3> QED
      BY <1>6, <3>1, <3>2, <3>3 DEF WriteServers, AtomicWrite, Entries
  <2> QED
    BY <1>0, <2>1, <2>2, <2>3 DEF InstallerInv, Shape, Stages, Tidy, OwnSettingsKept,
       NothingLeftRegistered
<1>7. CASE WriteManifest
  <2>1. /\ job.pc = "manifest" /\ manifest' \in {job.mode, manifest, "torn"}
        /\ doubtful' = (manifest' # job.mode)
        /\ job'.pc = "idle" /\ job'.last = "installed" /\ "pc" \in DOMAIN job'
        /\ UNCHANGED <<content, settings, servers, dropin, origin, harm>>
    BY <1>7 DEF WriteManifest, Ends
  <2> QED
    BY <1>0, <2>1 DEF InstallerInv, Shape, Stages, Tidy, OwnSettingsKept,
       NothingLeftRegistered
<1>8. CASE Uninstall
  <2>1. job.pc = "idle"
        /\ UNCHANGED <<content, settings, servers, dropin, origin, doubtful, harm>>
    BY <1>8 DEF Uninstall, Invoked
  <2>2. CASE manifest \in {"none", "torn"}
    <3>1. /\ manifest' = "none" /\ job'.pc = "idle" /\ "pc" \in DOMAIN job'
          /\ job'.last \in {"nothing found", "corrupted"}
      <4>1. manifest = "none" => Ends("nothing found") /\ UNCHANGED manifest
        BY <1>8 DEF Uninstall
      <4>2. manifest = "torn" => Ends("corrupted") /\ manifest' = "none"
        BY <1>8 DEF Uninstall
      <4>3. \A outcome : Ends(outcome) =>
              job'.pc = "idle" /\ "pc" \in DOMAIN job' /\ job'.last = outcome
        BY DEF Ends
      <4> QED
        BY <2>2, <4>1, <4>2, <4>3
    <3> QED
      BY <1>0, <2>1, <3>1 DEF InstallerInv, Shape, Stages, Tidy, OwnSettingsKept,
         NothingLeftRegistered
  <2>3. CASE manifest \in Modes
    <3>1. /\ job'.pc = "remove" /\ job'.left = Paths /\ DOMAIN job' = {"pc", "left"}
          /\ manifest' = manifest
      <4>1. manifest # "none" /\ manifest # "torn"
        BY <2>3
      <4>2. job' = [pc |-> "remove", left |-> Paths] /\ UNCHANGED <<done, manifest>>
        BY <1>8, <4>1 DEF Uninstall
      <4> QED
        BY <4>2
    <3> QED
      BY <1>0, <2>1, <2>3, <3>1 DEF InstallerInv, Shape, Stages, Tidy, OwnSettingsKept,
         NothingLeftRegistered
  <2> QED
    BY <1>0, <2>2, <2>3 DEF Shape
<1>9. ASSUME NEW p \in Paths, RemoveFile(p) PROVE InstallerInv'
  <2>1. /\ job'.pc = "remove" /\ DOMAIN job' = DOMAIN job /\ job.pc = "remove"
        /\ job'.left = job.left \ {p}
    BY <1>0, <1>9 DEF RemoveFile, Shape, Stages
  <2>2. /\ UNCHANGED <<settings, servers, dropin, manifest, origin, doubtful, harm>>
        /\ content' = [content EXCEPT ![p] = "none"]
    BY <1>9 DEF RemoveFile
  <2>3. \A q \in Paths \ job'.left : content'[q] = "none"
    BY <1>0, <2>1, <2>2 DEF Shape, Stages
  <2> QED
    BY <1>0, <2>1, <2>2, <2>3 DEF InstallerInv, Shape, Stages, Tidy, OwnSettingsKept,
       NothingLeftRegistered
<1>10. CASE CleanSettings
  <2>1. /\ job.pc = "remove" /\ job.left = {} /\ job'.pc = "clean servers"
        /\ DOMAIN job' = DOMAIN job
    BY <1>0, <1>10, GoesOn DEF CleanSettings, Shape
  <2>2. UNCHANGED <<content, servers, manifest, origin, doubtful>>
    BY <1>10 DEF CleanSettings
  <2>3. /\ settings'.is # "readable" => settings'.entries = {}
        /\ "own setting" \in settings.entries /\ "settings" \notin damaged'
             => "own setting" \in settings'.entries
        /\ ~doubtful => /\ dropin' # "file"
                        /\ "settings" \notin overdue'
                             => "plugin hook" \notin settings'.entries
        /\ damaged \subseteq damaged'
        /\ "servers" \notin damaged' => "servers" \notin damaged
        /\ "servers" \notin overdue' => "servers" \notin overdue
    <3>1. CASE manifest = "managed-settings.d" /\ dropin = "file"
      BY <1>0, <1>10, <2>1, <3>1 DEF CleanSettings, Shape, Tidy
    <3>2. CASE ~(manifest = "managed-settings.d" /\ dropin = "file") /\ Exists(settings)
      <4>1. Clean(settings.entries) /\ dropin' = dropin
        BY <1>10, <3>2 DEF CleanSettings, Entries
      <4>2. ~doubtful => dropin # "file"
        BY <1>0, <2>1, <3>2 DEF Stages, Tidy
      <4> QED
        BY <1>0, <4>1, <4>2, Cleaned
    <3>3. CASE ~(manifest = "managed-settings.d" /\ dropin = "file") /\ ~Exists(settings)
      <4>1. UNCHANGED <<settings, dropin>> /\ settings.entries = {} /\ UpToDate("settings")
        BY <1>0, <1>10, <3>3 DEF CleanSettings, Exists, Shape
      <4>2. ~doubtful => dropin # "file"
        BY <1>0, <2>1, <3>3 DEF Stages, Tidy
      <4> QED
        BY <1>0, <4>1, <4>2 DEF UpToDate, Shape
    <3> QED
      BY <3>1, <3>2, <3>3
  <2>4. ~doubtful => Told(manifest)'
    BY <2>2, <2>3
  <2> QED
    BY <1>0, <2>1, <2>2, <2>3, <2>4 DEF InstallerInv, Shape, Stages, Tidy,
       OwnSettingsKept, NothingLeftRegistered
<1>11. CASE CleanServers
  <2>1. /\ job.pc = "clean servers" /\ job'.pc = "remove manifest"
        /\ DOMAIN job' = DOMAIN job
    BY <1>0, <1>11, GoesOn DEF CleanServers, Shape
  <2>2. UNCHANGED <<content, settings, dropin, manifest, origin, doubtful>>
    BY <1>11 DEF CleanServers
  <2>3. /\ "own server" \in servers.entries /\ "servers" \notin damaged'
             => "own server" \in servers'.entries
        /\ "servers" \notin overdue' => "plugin server" \notin servers'.entries
        /\ "servers" \notin damaged' => "servers" \notin damaged
        /\ "settings" \notin damaged' => "settings" \notin damaged
        /\ "settings" \notin overdue' => "settings" \notin overdue
    <3> DEFINE rest == servers.entries \ {"plugin server"}
    <3>1. CASE UNCHANGED servers /\ "plugin server" \notin servers.entries
               /\ UpToDate("servers")
      BY <3>1 DEF UpToDate
    <3>2. CASE servers' = NoFile /\ rest = {} /\ UpToDate("servers")
      <4>0. \A S, e : e \in S /\ e # "plugin server" => e \in S \ {"plugin server"}
        OBVIOUS
      <4>1. servers'.entries = {} /\ "own server" \notin servers.entries
        BY <3>2, <4>0, EntriesOf
      <4> QED
        BY <3>2, <4>1 DEF UpToDate
    <3>3. CASE servers' = Holding(rest) /\ UpToDate("servers")
      BY <3>3 DEF Holding, UpToDate
    <3>4. CASE MissesUntold("servers", servers, servers')
      <4>1. \/ /\ servers' = servers /\ damaged' = damaged
              /\ overdue' = overdue \cup {"servers"}
           \/ /\ servers' = Broken /\ damaged' = damaged \cup {"servers"}
              /\ overdue' = overdue \ {"servers"}
        BY <3>4 DEF MissesUntold
      <4> QED
        BY <4>1, EntriesOf
    <3>5. CASE UNCHANGED <<servers, damaged>> /\ overdue' = overdue \cup {"servers"}
      BY <3>5
    <3> QED
      BY <1>11, <3>1, <3>2, <3>3, <3>4, <3>5 DEF CleanServers, Entries, AtomicWrite
  <2> QED
    BY <1>0, <2>1, <2>2, <2>3 DEF InstallerInv, Shape, Stages, Tidy, OwnSettingsKept,
       NothingLeftRegistered
<1>12. CASE RemoveManifest
  <2>1. /\ job.pc = "remove manifest" /\ manifest' = "none"
        /\ job'.pc = "idle" /\ job'.last = "removed" /\ "pc" \in DOMAIN job'
        /\ UNCHANGED <<content, settings, servers, dropin, origin, doubtful, harm>>
    BY <1>12 DEF RemoveManifest, Ends
  <2> QED
    BY <1>0, <2>1 DEF InstallerInv, Shape, Stages, Tidy, OwnSettingsKept,
       NothingLeftRegistered
<1>13. CASE Repair
  <2>1. /\ job'.pc = "restore" /\ DOMAIN job' = {"pc", "left"}
        /\ job.pc = "idle"
        /\ UNCHANGED <<content, settings, servers, dropin, manifest, origin, doubtful, harm>>
    BY <1>13 DEF Repair, Invoked
  <2> QED
    BY <1>0, <2>1 DEF InstallerInv, Shape, Stages, Tidy, OwnSettingsKept,
       NothingLeftRegistered
<1>14. ASSUME NEW p \in Paths, RestoreFile(p) PROVE InstallerInv'
  <2>1. job'.pc = "restore" /\ DOMAIN job' = DOMAIN job /\ job.pc = "restore"
    BY <1>0, <1>14 DEF RestoreFile, Shape
  <2>2. /\ UNCHANGED <<settings, servers, dropin, manifest, origin, doubtful, harm>>
        /\ content' \in {content, [content EXCEPT ![p] = "plugin"]}
    BY <1>14 DEF RestoreFile
  <2> QED
    BY <1>0, <2>1, <2>2 DEF InstallerInv, Shape, Stages, Tidy, OwnSettingsKept,
       NothingLeftRegistered
<1>15. CASE RestoreSettings
  <2>1. /\ job.pc = "restore" /\ job'.pc = "restore manifest" /\ DOMAIN job' = DOMAIN job
    BY <1>0, <1>15, GoesOn DEF RestoreSettings, Shape
  <2>2. /\ UNCHANGED <<content, settings, servers, manifest, origin, harm>>
        /\ ~doubtful' => ~doubtful /\ dropin' = dropin
    BY <1>15 DEF RestoreSettings
  <2> QED
    BY <1>0, <2>1, <2>2 DEF InstallerInv, Shape, Stages, Tidy, OwnSettingsKept,
       NothingLeftRegistered
<1>16. CASE RestoreManifest
  <2>1. /\ job.pc = "restore manifest" /\ manifest' \in Modes \cup {"none", "torn"}
        /\ job'.pc = "idle" /\ job'.last = "repaired" /\ "pc" \in DOMAIN job'
        /\ ~doubtful' => ~doubtful /\ manifest' = manifest
        /\ UNCHANGED <<content, settings, servers, dropin, origin, harm>>
    BY <1>0, <1>16 DEF RestoreManifest, Ends, Shape
  <2> QED
    BY <1>0, <2>1 DEF InstallerInv, Shape, Stages, Tidy, OwnSettingsKept,
       NothingLeftRegistered
<1>17. CASE Cut
  <2>1. /\ job.pc # "idle" /\ job'.pc = "idle" /\ job'.last = "none" /\ "pc" \in DOMAIN job'
        /\ dropin' \in {dropin, "dir"}
        /\ UNCHANGED <<settings, servers, origin, harm>>
    BY <1>17 DEF Cut, NoJob
  <2>2. content' \in [Paths -> {"none", "own", "plugin", "torn"}]
    BY <1>0, <1>17 DEF Cut, Shape
  <2>3. /\ manifest' \in {manifest, "torn"}
        /\ ~doubtful' => /\ ~doubtful /\ manifest' = manifest
                         /\ job.pc \notin {"copy", "migrate", "servers", "manifest"}
    BY <1>17 DEF Cut, WritesManifest
  <2>4. ~doubtful' => Told(manifest)
    BY <1>0, <2>3 DEF Tidy
  <2>5. Shape' /\ Tidy'
    BY <1>0, <2>1, <2>2, <2>3, <2>4 DEF Shape, Tidy
  <2> QED
    BY <1>0, <2>1, <2>5 DEF InstallerInv, Stages, OwnSettingsKept, NothingLeftRegistered
<1>18. CASE Update \/ UNCHANGED installerVars
  <2>1. UNCHANGED <<content, settings, servers, dropin, manifest, job, origin, doubtful, harm>>
    <3>1. CASE Update
      BY <3>1 DEF Update
    <3>2. CASE UNCHANGED installerVars
      BY <3>2 DEF installerVars
    <3> QED
      BY <1>18, <3>1, <3>2
  <2>2. Shape' /\ Stages'
    BY <1>0, <2>1 DEF Shape, Stages
  <2>3. Tidy' /\ OwnSettingsKept' /\ NothingLeftRegistered'
    BY <1>0, <2>1 DEF Tidy, OwnSettingsKept, NothingLeftRegistered
  <2> QED
    BY <2>2, <2>3 DEF InstallerInv
<1> QED
  BY <1>1, <1>2, <1>3, <1>4, <1>5, <1>6, <1>7, <1>8, <1>9, <1>10, <1>11, <1>12, <1>13,
     <1>14, <1>15, <1>16, <1>17, <1>18 DEF InstallerNext

(* Wherever commands are cut, and whatever writes fail without their being  *)
(* told, the user keeps his own in every file no write in place left half   *)
(* written; and an uninstall that comes to its end removes all there is     *)
(* from every file it could replace, unless an install was cut or wrote no  *)
(* manifest, or a repair wrote settings or a manifest, since the last       *)
(* install that did write its own (cli.mjs).                                *)
THEOREM CutsDoNoHarm == InstallerSpec => []HarmlessWhereverCut
<1>1. InstallerInv => HarmlessWhereverCut
  BY DEF InstallerInv, HarmlessWhereverCut
<1> QED
  BY <1>1, InstallerBegins, InstallerMoves, PTL DEF InstallerSpec

-----------------------------------------------------------------------------
(* The hooks. *)

(* No second a verification's hook holds or wrote is newer than the newest, *)
(* and an answer stands only until the next edit.                           *)
HooksInv ==
  /\ time \in Nat /\ lastEdit \in Nat /\ lastCheck \in Nat /\ modifiedTs \in Nat
  /\ lastEdit <= time /\ lastCheck <= time
  /\ hooks \in [1 .. MaxHooks -> [pc : {"none", "started", "stamped", "open"}, at : Nat]]
  /\ \A h \in 1 .. MaxHooks : hooks[h].at <= lastCheck
  /\ verifyTs \in Int /\ verifyTs <= lastCheck
  /\ modifiedLog = "source" => modifiedTs = lastEdit
  /\ waited \in {"other", "source"} => answer = "none"
  /\ AllowedOnEvidence

LEMMA HooksBegin == HooksInit => HooksInv
  BY DEF HooksInit, NoHook, HooksInv, AllowedOnEvidence

LEMMA HooksMove == HooksInv /\ [HooksNext]_hookVars => HooksInv'
<1> SUFFICES ASSUME HooksInv, [HooksNext]_hookVars PROVE HooksInv'
  OBVIOUS
<1> USE DEF HooksInv, AllowedOnEvidence, edits, newest
<1>1. CASE SecondPasses
  BY <1>1 DEF SecondPasses
<1>2. ASSUME NEW kind \in {"other", "source"}, Edit(kind) PROVE HooksInv'
  BY <1>2 DEF Edit
<1>3. CASE EditHook
  BY <1>3 DEF EditHook
<1>4. CASE CheckPasses
  BY <1>4 DEF CheckPasses
<1>5. ASSUME NEW h \in 1 .. MaxHooks, HookStamps(h) PROVE HooksInv'
  BY <1>5 DEF HookStamps
<1>6. ASSUME NEW h \in 1 .. MaxHooks, HookOpens(h) PROVE HooksInv'
  BY <1>6 DEF HookOpens, HalfWritten
<1>7. ASSUME NEW h \in 1 .. MaxHooks, HookWrites(h) PROVE HooksInv'
  BY <1>7 DEF HookWrites, NoHook
<1>8. ASSUME NEW reason \in {"complete", "other"}, Stop(reason) PROVE HooksInv'
  BY <1>8 DEF Stop, Vouched
<1>9. CASE ClearState
  BY <1>9 DEF ClearState, NoHook
<1>10. CASE UNCHANGED hookVars
  BY <1>10 DEF hookVars
<1> QED
  BY <1>1, <1>2, <1>3, <1>4, <1>5, <1>6, <1>7, <1>8, <1>9, <1>10 DEF HooksNext

(* With checks to ask for and source modified, a completion is let through  *)
(* only on a verification no older than the last edit, to the second,       *)
(* however many hooks of verifications are late (stop.mjs).                 *)
THEOREM EvidenceIsNeeded == HooksSpec => []AllowedOnEvidence
<1>1. HooksInv => AllowedOnEvidence
  BY DEF HooksInv
<1> QED
  BY <1>1, HooksBegin, HooksMove, PTL DEF HooksSpec

-----------------------------------------------------------------------------
(* The task list and the registry of a team. *)

(* Types of the two halves; TypeOK is their conjunction. *)
ListTypes ==
  /\ plan \in [Steps -> Statuses \cup {"absent"}]
  /\ DOMAIN tasks \subseteq Steps
  /\ \A s \in DOMAIN tasks :
       tasks[s] \in [status : Statuses, claimedBy : Agents \cup {Nobody}]
  /\ revoked \subseteq Steps /\ forced \subseteq revoked

AgentRecord == [status : {"active", "unresponsive", "dead"}, beat : 0..clock,
                since : 0..clock, load : Nat, done : Nat, failed : Nat]

AgentTypes ==
  /\ DOMAIN registry \subseteq Agents /\ spawned \subseteq DOMAIN registry
  /\ \A a \in DOMAIN registry : registry[a] \in AgentRecord
  /\ joined \in BOOLEAN
  /\ messages \in 0..MaxMessages /\ clock \in 0..MaxClock
  /\ held \in [Agents -> Nat]

(* A listed task is one of the plan, a retired task one of a retired step.  *)
(* Nobody holds the claim of a task that a revocation met, and its step     *)
(* stays retired, whatever status is forced on the task.                    *)
ListInv ==
  /\ ListTypes
  /\ \A s \in DOMAIN tasks : plan[s] # "absent"
  /\ \A s \in DOMAIN tasks : tasks[s].status = "replanned" => plan[s] = "replanned"
  /\ \A s \in revoked : /\ s \in DOMAIN tasks /\ plan[s] = "replanned"
                        /\ tasks[s].claimedBy = Nobody
                        /\ \/ tasks[s].status = "replanned"
                           \/ s \in forced /\ tasks[s].status \in {"completed", "failed"}

(* Nothing is reserved before the team is there, the beat on record is the  *)
(* last one, and an agent is flagged only after the timeout.                *)
AgentInv ==
  /\ AgentTypes
  /\ ~joined => DOMAIN registry = {} /\ \A a \in Agents : held[a] = 0
  /\ LoadIsHeld
  /\ \A a \in DOMAIN registry :
       /\ heard[a] = registry[a].beat
       /\ registry[a].status = "unresponsive"
            => registry[a].since - registry[a].beat >= Timeout
  /\ DOMAIN heard = Agents

-----------------------------------------------------------------------------
(* The task list. *)

LEMMA InitList == Init => ListInv
  BY DEF Init, ListInv, ListTypes, FromPlan, Task, Statuses

LEMMA NextList == ListInv /\ [Next]_vars => ListInv'
<1> SUFFICES ASSUME ListInv, [Next]_vars
             PROVE  ListInv'
  OBVIOUS
<1> USE DEF ListInv, ListTypes, Statuses
<1>1. ASSUME UNCHANGED <<plan, tasks, revoked, forced>>
      PROVE  ListInv'
  BY <1>1
<1>2. ASSUME NEW s \in Steps, NEW a \in Agents, Claim(s, a)
      PROVE  ListInv'
  BY <1>2 DEF Claim, Claimable
<1>3. ASSUME NEW s \in Steps, NEW a \in Agents, NEW st \in {"completed", "failed"},
             Finish(s, a, st)
      PROVE  ListInv'
  <2>1. s \notin revoked
    BY <1>3, NobodyAssumption DEF Finish
  <2> QED
    BY <1>3, <2>1 DEF Finish
<1>4. ASSUME NEW s \in Steps, NEW st \in {"completed", "failed"}, ForceStatus(s, st)
      PROVE  ListInv'
  <2>1. /\ UNCHANGED <<plan, revoked>> /\ DOMAIN tasks' = DOMAIN tasks
        /\ forced' = forced \cup ({s} \cap revoked)
        /\ tasks'[s] = [tasks[s] EXCEPT !.status = st]
        /\ \A t \in DOMAIN tasks : t # s => tasks'[t] = tasks[t]
    BY <1>4 DEF ForceStatus
  <2> QED
    BY <2>1
<1>5. ASSUME NEW s \in Steps, Adopt(s)
      PROVE  ListInv'
  BY <1>5 DEF Adopt
<1>6. CASE SyncWithPlan
  <2>1. /\ UNCHANGED <<plan, revoked>> /\ forced' = {}
        /\ DOMAIN tasks' = {s \in Steps : plan[s] # "absent"}
        /\ \A s \in DOMAIN tasks' :
             tasks'[s] = IF s \in DOMAIN tasks THEN [tasks[s] EXCEPT !.status = plan[s]]
                         ELSE [status |-> plan[s], claimedBy |-> Nobody]
    BY <1>6 DEF SyncWithPlan, FromPlan, Task
  <2>2. \A s \in DOMAIN tasks' :
          /\ tasks'[s] \in [status : Statuses, claimedBy : Agents \cup {Nobody}]
          /\ tasks'[s].status = plan[s]
    BY <2>1
  <2>3. \A s \in revoked : s \in DOMAIN tasks' /\ tasks'[s].claimedBy = Nobody
    BY <2>1
  <2> QED
    BY <2>1, <2>2, <2>3
<1>7. CASE RevokeReplannedClaims
  <2>1. /\ UNCHANGED <<plan, forced>> /\ DOMAIN tasks' = DOMAIN tasks
        /\ revoked' = revoked \cup {s \in DOMAIN tasks : tasks[s].status = "replanned"}
        /\ \A s \in DOMAIN tasks :
             tasks'[s] = IF tasks[s].status = "replanned"
                         THEN [tasks[s] EXCEPT !.claimedBy = Nobody] ELSE tasks[s]
    BY <1>7 DEF RevokeReplannedClaims, Unclaimed
  <2>2. \A s \in DOMAIN tasks :
          /\ tasks'[s] \in [status : Statuses, claimedBy : Agents \cup {Nobody}]
          /\ tasks'[s].status = tasks[s].status
          /\ tasks[s].status = "replanned" \/ tasks[s].claimedBy = Nobody
               => tasks'[s].claimedBy = Nobody
    BY <2>1
  <2> QED
    BY <2>1, <2>2
<1>8. CASE Replan
  <2>1. /\ UNCHANGED <<tasks, revoked, forced>>
        /\ plan' \in [Steps -> Statuses]
        /\ \A s \in Steps : plan[s] = "replanned" => plan'[s] = "replanned"
    BY <1>8 DEF Replan
  <2> QED
    BY <2>1
<1>9. CASE SpawnMembers \/ AgentStep \/ UNCHANGED vars
  <2>1. UNCHANGED <<plan, tasks, revoked, forced>>
    BY <1>9 DEF AgentStep, SpawnMembers, Heartbeat, ReleaseAgent, CheckHealth,
                ReserveAgent, Teardown, RecordMessage, Tick, vars
  <2> QED
    BY <1>1, <2>1
<1>10. CASE ListStep
  BY <1>2, <1>3, <1>4, <1>5, <1>6, <1>7, <1>8, <1>10 DEF ListStep
<1> QED
  BY <1>9, <1>10 DEF Next

(* A task whose claim was revoked does not count again: no late result, no  *)
(* claim, no revocation and no second replan brings it back, and what is    *)
(* forced on it lasts until the next synchronisation at most (team.rs).     *)
THEOREM RevokedForGood == Spec => []RevokedStaysRetired
<1>1. ListInv => RevokedStaysRetired
  BY DEF ListInv, RevokedStaysRetired
<1> QED
  BY <1>1, InitList, NextList, PTL DEF Spec

-----------------------------------------------------------------------------
(* The registry. *)

LEMMA SlotsNat == \A a \in Agents : Slots(a) \in Nat
  BY StepsAssumption, FS_Subset, FS_CardinalityType DEF Slots, Agents

(* What each operation makes of the record of an agent. *)
LEMMA BeatenAgent ==
  ASSUME clock \in Nat, NEW r \in AgentRecord
  PROVE  /\ Beaten(r) \in AgentRecord
         /\ Beaten(r).load = r.load /\ Beaten(r).beat = clock
         /\ Beaten(r).status # "unresponsive"
<1>1. /\ clock \in 0..clock /\ r.since \in 0..clock
      /\ r.load \in Nat /\ r.done \in Nat /\ r.failed \in Nat
      /\ r.status \in {"active", "unresponsive", "dead"}
  BY DEF AgentRecord
<1>2. CASE r.status = "unresponsive"
  <2>1. Beaten(r) = [r EXCEPT !.beat = clock, !.status = "active"]
    BY <1>2 DEF Beaten
  <2>2. Beaten(r) = [status |-> "active", beat |-> clock, since |-> r.since,
                     load |-> r.load, done |-> r.done, failed |-> r.failed]
    BY <2>1 DEF AgentRecord
  <2> QED
    BY <1>1, <2>2 DEF AgentRecord
<1>3. CASE r.status # "unresponsive"
  <2>1. Beaten(r) = [r EXCEPT !.beat = clock, !.status = r.status]
    BY <1>3 DEF Beaten
  <2>2. Beaten(r) = [status |-> r.status, beat |-> clock, since |-> r.since,
                     load |-> r.load, done |-> r.done, failed |-> r.failed]
    BY <2>1 DEF AgentRecord
  <2> QED
    BY <1>1, <1>3, <2>2 DEF AgentRecord
<1> QED
  BY <1>2, <1>3

LEMMA CheckedAgent ==
  ASSUME clock \in Nat, NEW r \in AgentRecord,
         r.status = "unresponsive" => r.since - r.beat >= Timeout
  PROVE  /\ Checked(r) \in AgentRecord
         /\ Checked(r).load = r.load /\ Checked(r).beat = r.beat
         /\ Checked(r).status = "unresponsive"
              => Checked(r).since - Checked(r).beat >= Timeout
         /\ Checked(r).status = "dead" /\ r.status # "dead"
              => r.status = "unresponsive" /\ clock - r.since >= Grace
<1>1. /\ r.beat \in 0..clock /\ r.since \in 0..clock
      /\ r.load \in Nat /\ r.done \in Nat /\ r.failed \in Nat
      /\ r.status \in {"active", "unresponsive", "dead"}
  BY DEF AgentRecord
<1>2. CASE clock - r.beat >= Timeout /\ r.status = "active"
  <2>1. Checked(r) = [status |-> "unresponsive", beat |-> r.beat, since |-> clock,
                      load |-> r.load, done |-> r.done, failed |-> r.failed]
    BY <1>2 DEF Checked, AgentRecord
  <2> QED
    BY <1>1, <1>2, <2>1 DEF AgentRecord
<1>3. CASE clock - r.beat >= Timeout /\ r.status = "unresponsive" /\ clock - r.since >= Grace
  <2>1. Checked(r) = [status |-> "dead", beat |-> r.beat, since |-> r.since,
                      load |-> r.load, done |-> r.done, failed |-> r.failed]
    BY <1>3 DEF Checked, AgentRecord
  <2> QED
    BY <1>1, <1>3, <2>1 DEF AgentRecord
<1>4. CASE ~(clock - r.beat >= Timeout /\ r.status = "active")
           /\ ~(clock - r.beat >= Timeout /\ r.status = "unresponsive"
                /\ clock - r.since >= Grace)
  BY <1>4 DEF Checked
<1> QED
  BY <1>2, <1>3, <1>4

Counted(r, n, succeeded, errors) ==
  [r EXCEPT !.load = n, !.done = succeeded, !.failed = errors]

LEMMA CountedAgent ==
  ASSUME NEW r, NEW n, NEW succeeded, NEW errors, NEW q,
         r \in AgentRecord, n \in Nat, succeeded \in Nat, errors \in Nat,
         q = Counted(r, n, succeeded, errors)
  PROVE  /\ q \in AgentRecord /\ q.load = n
         /\ q.status = r.status /\ q.beat = r.beat /\ q.since = r.since
<1>1. q = [status |-> r.status, beat |-> r.beat, since |-> r.since, load |-> n,
           done |-> succeeded, failed |-> errors]
  BY DEF Counted, AgentRecord
<1>2. /\ r.beat \in 0..clock /\ r.since \in 0..clock
      /\ r.status \in {"active", "unresponsive", "dead"}
  BY DEF AgentRecord
<1> QED
  BY <1>1, <1>2 DEF AgentRecord

LEMMA InitAgents == Init => AgentInv
<1> SUFFICES ASSUME Init PROVE AgentInv
  OBVIOUS
<1>1. DOMAIN registry = {}
  BY DEF Init
<1>2. /\ spawned = {} /\ joined = FALSE /\ messages = 0 /\ clock = 0
      /\ held = [a \in Agents |-> 0] /\ heard = [a \in Agents |-> 0]
  BY DEF Init
<1>3. messages \in 0..MaxMessages /\ clock \in 0..MaxClock
  BY <1>2, BoundsAssumption
<1>4. AgentTypes
  BY <1>1, <1>2, <1>3 DEF AgentTypes
<1> QED
  BY <1>1, <1>2, <1>4 DEF AgentInv, LoadIsHeld

LEMMA NextAgents == AgentInv /\ [Next]_vars => AgentInv'
<1> SUFFICES ASSUME AgentInv, [Next]_vars
             PROVE  AgentInv'
  OBVIOUS
<1> USE DEF AgentInv, AgentTypes, LoadIsHeld
<1> USE SlotsNat, TimesAssumption, BoundsAssumption
<1>0. \A a : Slots(a)' = Slots(a)
  BY DEF Slots
<1>1. ASSUME UNCHANGED <<registry, spawned, joined, messages, clock, held, heard>>
      PROVE  AgentInv'
  BY <1>0, <1>1 DEF AgentRecord
<1>2. CASE SpawnMembers
  BY <1>0, <1>2 DEF SpawnMembers, Descriptor, AgentRecord
<1>3. ASSUME NEW a \in Agents, Heartbeat(a)
      PROVE  AgentInv'
  <2>1. /\ a \in DOMAIN registry /\ DOMAIN registry' = DOMAIN registry
        /\ registry'[a] = Beaten(registry[a]) /\ heard'[a] = clock
        /\ \A b \in DOMAIN registry \ {a} :
             registry'[b] = registry[b] /\ heard'[b] = heard[b]
        /\ DOMAIN heard' = Agents
        /\ UNCHANGED <<spawned, joined, messages, clock, held>>
    BY <1>3 DEF Heartbeat
  <2>2. /\ registry'[a] \in AgentRecord'
        /\ registry'[a].load = registry[a].load
        /\ registry'[a].beat = clock /\ registry'[a].status # "unresponsive"
    BY <2>1, BeatenAgent DEF AgentRecord
  <2>3. \A b \in DOMAIN registry : registry'[b] \in AgentRecord'
    BY <2>1, <2>2 DEF AgentRecord
  <2>4. LoadIsHeld'
    BY <1>0, <2>1, <2>2
  <2> QED
    BY <2>1, <2>2, <2>3, <2>4
<1>4. ASSUME NEW a \in Agents, NEW ok \in BOOLEAN, ReleaseAgent(a, ok)
      PROVE  AgentInv'
  <2>1. /\ held[a] \in Nat \ {0}
        /\ held' = [held EXCEPT ![a] = held[a] - 1]
        /\ UNCHANGED <<spawned, joined, messages, clock, heard>>
    BY <1>4 DEF ReleaseAgent
  <2>2. CASE a \notin DOMAIN registry
    <3>1. UNCHANGED registry
      BY <1>4, <2>2 DEF ReleaseAgent
    <3> QED
      BY <1>0, <2>1, <2>2, <3>1 DEF AgentRecord
  <2>3. CASE a \in DOMAIN registry
    <3>1. PICK succeeded, errors \in Nat :
            registry'[a] = Counted(registry[a], held[a] - 1, succeeded, errors)
      <4>1. registry[a].load = held[a]
        BY <2>3
      <4>2. /\ registry'[a] = [registry[a] EXCEPT
                 !.load = held[a] - 1,
                 !.done = IF ok THEN @ + 1 ELSE @,
                 !.failed = IF ok THEN @ ELSE @ + 1]
        BY <1>4, <2>1, <2>3, <4>1 DEF ReleaseAgent
      <4>3. registry[a].done \in Nat /\ registry[a].failed \in Nat
        BY <2>3 DEF AgentRecord
      <4> DEFINE succeeded == IF ok THEN registry[a].done + 1 ELSE registry[a].done
                 errors == IF ok THEN registry[a].failed ELSE registry[a].failed + 1
      <4>4. succeeded \in Nat /\ errors \in Nat
        BY <4>3
      <4>5. registry'[a] = Counted(registry[a], held[a] - 1, succeeded, errors)
        BY <4>2 DEF Counted
      <4> HIDE DEF succeeded, errors
      <4> QED
        BY <4>4, <4>5
    <3>2. /\ registry'[a] \in AgentRecord
          /\ registry'[a].load = held[a] - 1
          /\ registry'[a].status = registry[a].status
          /\ registry'[a].beat = registry[a].beat
          /\ registry'[a].since = registry[a].since
      <4>1. registry[a] \in AgentRecord /\ held[a] - 1 \in Nat
        BY <2>1, <2>3
      <4> HIDE DEF AgentInv, AgentTypes, LoadIsHeld
      <4> QED
        BY <3>1, <4>1, CountedAgent
    <3>3. /\ DOMAIN registry' = DOMAIN registry
          /\ \A b \in DOMAIN registry \ {a} : registry'[b] = registry[b]
      BY <1>4, <2>3 DEF ReleaseAgent
    <3>4. LoadIsHeld'
      BY <1>0, <2>1, <2>3, <3>2, <3>3
    <3> QED
      BY <2>1, <2>3, <3>2, <3>3, <3>4 DEF AgentRecord
  <2> QED
    BY <2>2, <2>3
<1>5. CASE CheckHealth
  <2>1. /\ DOMAIN registry' = DOMAIN registry
        /\ \A a \in DOMAIN registry : registry'[a] = Checked(registry[a])
        /\ UNCHANGED <<spawned, joined, messages, clock, held, heard>>
    BY <1>5 DEF CheckHealth
  <2>2. ASSUME NEW a \in DOMAIN registry
        PROVE  /\ registry'[a] \in AgentRecord
               /\ registry'[a].load = registry[a].load
               /\ registry'[a].beat = registry[a].beat
               /\ registry'[a].status = "unresponsive"
                    => registry'[a].since - registry'[a].beat >= Timeout
    BY <2>1, <2>2, CheckedAgent
  <2>3. LoadIsHeld'
    BY <1>0, <2>1, <2>2
  <2> QED
    BY <2>1, <2>2, <2>3 DEF AgentRecord
<1>6. ASSUME NEW capability, ReserveAgent(capability)
      PROVE  AgentInv'
  <2>1. PICK a \in DOMAIN registry :
          /\ registry[a].load < Slots(a)
          /\ registry' = [registry EXCEPT ![a].load = @ + 1]
          /\ held' = [held EXCEPT ![a] = @ + 1]
          /\ UNCHANGED <<spawned, joined, messages, clock, heard>>
    BY <1>6 DEF ReserveAgent, Selectable, HasCapacity
  <2>2. /\ registry'[a] \in AgentRecord
        /\ registry'[a].load = registry[a].load + 1
        /\ registry'[a].status = registry[a].status
        /\ registry'[a].beat = registry[a].beat
        /\ registry'[a].since = registry[a].since
    <3>1. registry[a] \in AgentRecord
      BY <2>1
    <3>2. registry'[a] = Counted(registry[a], registry[a].load + 1,
                                 registry[a].done, registry[a].failed)
      BY <2>1, <3>1 DEF Counted, AgentRecord
    <3>3. /\ registry[a].load + 1 \in Nat /\ registry[a].done \in Nat
          /\ registry[a].failed \in Nat
      BY <3>1 DEF AgentRecord
    <3> HIDE DEF AgentInv, AgentTypes, LoadIsHeld
    <3>4. registry'[a] \in AgentRecord /\ registry'[a].load = registry[a].load + 1
          /\ registry'[a].status = registry[a].status
          /\ registry'[a].beat = registry[a].beat /\ registry'[a].since = registry[a].since
      BY <3>1, <3>2, <3>3, CountedAgent
    <3> QED
      BY <3>4
  <2>3. /\ DOMAIN registry' = DOMAIN registry
        /\ \A b \in DOMAIN registry \ {a} : registry'[b] = registry[b]
    BY <2>1
  <2>4. LoadIsHeld'
    <3>1. a \in Agents /\ held'[a] = held[a] + 1 /\ held[a] < Slots(a)
          /\ \A b \in Agents \ {a} : held'[b] = held[b]
      BY <2>1
    <3> QED
      BY <1>0, <2>2, <2>3, <3>1
  <2>5. joined /\ a \in Agents
    BY <2>1
  <2> QED
    BY <2>1, <2>2, <2>3, <2>4, <2>5 DEF AgentRecord
<1>7. CASE Teardown
  BY <1>0, <1>7 DEF Teardown, AgentRecord
<1>8. ASSUME NEW from \in Agents, NEW to \in Agents, RecordMessage(from, to)
      PROVE  AgentInv'
  BY <1>0, <1>8 DEF RecordMessage, AgentRecord
<1>9. CASE Tick
  BY <1>0, <1>9 DEF Tick, AgentRecord
<1> QED
  BY <1>1, <1>2, <1>3, <1>4, <1>5, <1>6, <1>7, <1>8, <1>9
     DEF Next, ListStep, AgentStep, Claim, Finish, ForceStatus, Adopt, SyncWithPlan,
         RevokeReplannedClaims, Replan, vars

(* The load of a registered agent is what was reserved and not released,    *)
(* and never more than its slots.                                           *)
THEOREM LoadBounded == Spec => []LoadIsHeld
<1>1. AgentInv => LoadIsHeld
  BY DEF AgentInv
<1> QED
  BY <1>1, InitAgents, NextAgents, PTL DEF Spec

(* The variables keep their types. *)
THEOREM TypeCorrect == Spec => []TypeOK
<1>1. ListInv /\ AgentInv => TypeOK
  BY DEF ListInv, ListTypes, AgentInv, AgentTypes, AgentRecord, TypeOK
<1> QED
  BY <1>1, InitList, NextList, InitAgents, NextAgents, PTL DEF Spec

(* An agent is given up only after the timeout and the grace period passed  *)
(* without a sign of life.                                                  *)
THEOREM SilentBeforeDead == Spec => DeadOnlyAfterSilence
<1> DEFINE GivenUpLate ==
      \A a \in DOMAIN registry' :
        registry'[a].status = "dead" /\ (a \in DOMAIN registry => registry[a].status # "dead")
          => clock - heard[a] >= Timeout + Grace
<1>1. AgentInv /\ [Next]_vars => [GivenUpLate]_vars
  <2> SUFFICES ASSUME AgentInv, [Next]_vars
               PROVE  [GivenUpLate]_vars
    OBVIOUS
  <2> USE DEF AgentInv, AgentTypes, AgentRecord
  <2>1. CASE UNCHANGED registry
    BY <2>1
  <2>2. CASE SpawnMembers
    BY <2>2 DEF SpawnMembers, Descriptor
  <2>3. ASSUME NEW a \in Agents, Heartbeat(a)
        PROVE  GivenUpLate
    BY <2>3 DEF Heartbeat, Beaten
  <2>4. ASSUME NEW a \in Agents, NEW ok \in BOOLEAN, ReleaseAgent(a, ok)
        PROVE  GivenUpLate
    BY <2>4 DEF ReleaseAgent
  <2>5. CASE CheckHealth
    <3> SUFFICES ASSUME NEW a \in DOMAIN registry, registry[a].status # "dead",
                        registry'[a].status = "dead"
                 PROVE  clock - heard[a] >= Timeout + Grace
      BY <2>5 DEF CheckHealth
    <3>1. /\ registry[a].status = "unresponsive"
          /\ clock - registry[a].since >= Grace
      BY <2>5 DEF CheckHealth, Checked
    <3> QED
      BY <3>1, TimesAssumption
  <2>6. ASSUME NEW capability, ReserveAgent(capability)
        PROVE  GivenUpLate
    <3>1. PICK a \in Agents : registry' = [registry EXCEPT ![a].load = registry[a].load + 1]
      BY <2>6 DEF ReserveAgent, Selectable
    <3>2. /\ DOMAIN registry' = DOMAIN registry
          /\ \A b \in DOMAIN registry : registry'[b].status = registry[b].status
      BY <3>1
    <3> QED
      BY <3>2
  <2>7. CASE Teardown
    BY <2>7 DEF Teardown
  <2> QED
    BY <2>1, <2>2, <2>3, <2>4, <2>5, <2>6, <2>7
       DEF Next, ListStep, AgentStep, Claim, Finish, ForceStatus, Adopt, SyncWithPlan,
           RevokeReplannedClaims, Replan, RecordMessage, Tick, vars
<1> QED
  BY <1>1, InitAgents, NextAgents, PTL DEF Spec, DeadOnlyAfterSilence
===============================================================================
