----------------------------- MODULE ReplaySession -----------------------------
(***************************************************************************)
(* A replay of a recorded run: the task that re-emits its events at their  *)
(* recorded pace, and the endpoints that pause, resume, speed up and       *)
(* remove it (crates/orchestrator-core/src/replay.rs, mcp-server/src/      *)
(* dashboard.rs).  The playback state is a tokio watch channel: a value,   *)
(* and for the task's receiver whether it was sent to since the task last  *)
(* awaited a change.  The task looks at the state before the delay of an   *)
(* event, sleeps uninterrupted and emits; while the state is not Playing   *)
(* it awaits a change.  The channel outlives the registry's entry, because *)
(* the task holds the session itself.                                      *)
(***************************************************************************)
EXTENDS Naturals, Sequences

CONSTANTS Delays,         \* "none", "short" or "long" before each event
          MaxControls     \* bound: calls of pause, resume and speed

VARIABLES playback,       \* what the channel holds
          unseen,         \* sent to since the task last awaited a change?
          speed,          \* "slow" or "fast": a fast one skips short delays
          task,           \* next step of the task
          emitted,        \* number of events emitted
          listed,         \* in the registry?
          controls,       \* calls made
          sincePause      \* ghost: events emitted since a pause nobody undid

replayVars == <<playback, unseen, speed, task, emitted, listed, controls, sincePause>>

Ended == emitted = Len(Delays)

Sleeps(i) == Delays[i] = "long" \/ (Delays[i] = "short" /\ speed = "slow")

(* The task. *)

FinishReplay ==
  /\ task = "check" /\ Ended
  /\ task' = "done"
  /\ playback' = "finished"
  /\ UNCHANGED <<unseen, speed, emitted, listed, controls, sincePause>>

(* Mutant of MayPlay: any state but the last will do. *)
NotFinished == playback # "finished"

MayPlay == playback = "playing"

Check ==
  /\ task = "check" /\ ~Ended
  /\ task' = IF ~MayPlay THEN "wait" ELSE IF Sleeps(emitted + 1) THEN "sleep" ELSE "emit"
  /\ UNCHANGED <<playback, unseen, speed, emitted, listed, controls, sincePause>>

(* Mutant of Changed: only the end of the replay counts as a change. *)
AtTheEnd == playback = "finished"

Changed == unseen

AwaitChange ==
  /\ task = "wait" /\ Changed
  /\ task' = "check"
  /\ unseen' = FALSE
  /\ UNCHANGED <<playback, speed, emitted, listed, controls, sincePause>>

Sleep ==
  /\ task = "sleep"
  /\ task' = "emit"
  /\ UNCHANGED <<playback, unseen, speed, emitted, listed, controls, sincePause>>

Emit ==
  /\ task = "emit"
  /\ task' = "check"
  /\ emitted' = emitted + 1
  /\ sincePause' = IF playback = "paused" THEN sincePause + 1 ELSE 0
  /\ UNCHANGED <<playback, unseen, speed, listed, controls>>

(* The endpoints, while the registry has the replay. *)

Control ==
  /\ listed /\ controls < MaxControls
  /\ controls' = controls + 1

Send(value) ==
  /\ playback' = value
  /\ unseen' = TRUE

Pause ==
  /\ Control /\ Send("paused")
  /\ UNCHANGED <<speed, task, emitted, listed, sincePause>>

(* Resuming a replay that has ended makes it Playing again, with no task.   *)
Resume ==
  /\ Control /\ Send("playing")
  /\ sincePause' = 0
  /\ UNCHANGED <<speed, task, emitted, listed>>

SetSpeed ==
  /\ Control
  /\ \E s \in {"slow", "fast"} : speed' = s
  /\ UNCHANGED <<playback, unseen, task, emitted, listed, sincePause>>

Delete ==
  /\ listed
  /\ listed' = FALSE
  /\ UNCHANGED <<playback, unseen, speed, task, emitted, controls, sincePause>>

ReplayInit ==
  /\ playback = "playing" /\ unseen = FALSE
  /\ speed \in {"slow", "fast"}
  /\ task = "check" /\ emitted = 0
  /\ listed = TRUE /\ controls = 0
  /\ sincePause = 0

TaskStep == FinishReplay \/ Check \/ AwaitChange \/ Sleep \/ Emit

ReplayNext == TaskStep \/ Pause \/ Resume \/ SetSpeed \/ Delete

(* The task is run when it can go on; nobody has to call an endpoint.       *)
ReplaySpec == ReplayInit /\ [][ReplayNext]_replayVars /\ WF_replayVars(TaskStep)

-----------------------------------------------------------------------------
(* Properties. *)

(* After a pause at most one more event comes out, the one whose delay had   *)
(* begun, until somebody resumes (the loop of ReplaySession::run).          *)
OneEventAfterPause == sincePause <= 1

(* A replay that is not left paused is played to its end: no pause and       *)
(* resume, however they fall between the task's look at the state and its   *)
(* wait for a change, puts it to sleep for good (run and ReplayControls).   *)
PlaysToTheEnd == <>[](playback # "paused") => <>(task = "done")
=============================================================================
