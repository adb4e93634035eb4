------------------------------ MODULE RateLimiter ------------------------------
(***************************************************************************)
(* The limiter in front of the hook endpoints (crates/mcp-server/src/      *)
(* hooks.rs): a counter and the second it counts for, two atomics that     *)
(* concurrent requests read and write one at a time.  A request that finds *)
(* an old second moves the window by compare-and-swap and then, in a       *)
(* separate step, resets the counter; the others keep counting in between, *)
(* and a request slow enough moves the window back.                        *)
(***************************************************************************)
EXTENDS Integers

CONSTANTS Requests,             \* the requests that may be checked at one time
          MaxPerSecond,
          MaxSecond, MaxCount   \* bounds of the exploration

VARIABLES second,         \* the clock
          window, count,  \* the two atomics
          step, seen,     \* of each request: its next step, what it has read
          admitted,       \* requests let through in this second
          stale           \* swaps and resets this second by requests of an earlier one

limiterVars == <<second, window, count, step, seen, admitted, stale>>

Nothing == [now |-> 0, window |-> 0]

IsStale(r) == seen[r].now # second

ReadClock(r) ==
  /\ step[r] = "idle"
  /\ step' = [step EXCEPT ![r] = "load"]
  /\ seen' = [seen EXCEPT ![r].now = second]
  /\ UNCHANGED <<second, window, count, admitted, stale>>

LoadWindow(r) ==
  /\ step[r] = "load"
  /\ seen' = [seen EXCEPT ![r].window = window]
  /\ step' = [step EXCEPT ![r] = IF seen[r].now # window THEN "swap" ELSE "add"]
  /\ UNCHANGED <<second, window, count, admitted, stale>>

(* Only one of those that saw the same old window wins; a loser counts.     *)
Swap(r) ==
  LET wins == window = seen[r].window
  IN  /\ step[r] = "swap"
      /\ window' = IF wins THEN seen[r].now ELSE window
      /\ step' = [step EXCEPT ![r] = IF wins THEN "store" ELSE "add"]
      /\ stale' = IF wins /\ IsStale(r) THEN stale + 1 ELSE stale
      /\ UNCHANGED <<second, count, seen, admitted>>

Answered(r) ==
  /\ step' = [step EXCEPT ![r] = "idle"]
  /\ seen' = [seen EXCEPT ![r] = Nothing]

Store(r) ==
  /\ step[r] = "store"
  /\ count' = 1
  /\ admitted' = admitted + 1
  /\ stale' = IF IsStale(r) THEN stale + 1 ELSE stale
  /\ Answered(r)
  /\ UNCHANGED <<second, window>>

(* Mutant of WithinLimit: one request too many. *)
UpToLimit(previous) == previous <= MaxPerSecond

WithinLimit(previous) == previous < MaxPerSecond

Add(r) ==
  /\ step[r] = "add" /\ count < MaxCount
  /\ count' = count + 1
  /\ admitted' = IF WithinLimit(count) THEN admitted + 1 ELSE admitted
  /\ Answered(r)
  /\ UNCHANGED <<second, window, stale>>

NextSecond ==
  /\ second < MaxSecond
  /\ second' = second + 1
  /\ admitted' = 0 /\ stale' = 0
  /\ UNCHANGED <<window, count, step, seen>>

LimiterInit ==
  /\ second = 1 /\ window = 1 /\ count = 0
  /\ step = [r \in Requests |-> "idle"]
  /\ seen = [r \in Requests |-> Nothing]
  /\ admitted = 0 /\ stale = 0

LimiterNext ==
  \/ NextSecond
  \/ \E r \in Requests :
       ReadClock(r) \/ LoadWindow(r) \/ Swap(r) \/ Store(r) \/ Add(r)

LimiterSpec == LimiterInit /\ [][LimiterNext]_limiterVars

-----------------------------------------------------------------------------
(* Properties. *)

(* The lost counts are bounded: a second lets through at most twice the      *)
(* limit (once on the counter of the second before, once after the reset),  *)
(* and once more for every swap or reset that a request of an earlier       *)
(* second makes in it (RateLimiter::check).                                 *)
AdmittedBounded == admitted <= MaxPerSecond * (2 + stale)
=============================================================================
