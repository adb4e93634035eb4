---------------------------- MODULE SessionManager ----------------------------
(***************************************************************************)
(* The session manager of the MCP server: concurrent HTTP handlers that    *)
(* create, stop and observe sessions, the operating-system thread that     *)
(* runs the orchestration loop of one session, and the lock around each    *)
(* SessionState (crates/mcp-server/src/session_manager.rs, called from     *)
(* router.rs, hooks.rs and dashboard.rs).                                  *)
(*                                                                         *)
(* A handler is a small process: between two of its steps any other        *)
(* handler and any thread may run.  A step that holds the session's lock   *)
(* is one action.  What the loop does is left to OrchestrationLoop and     *)
(* GraphRunner: here it returns, with a result or an error, or panics.     *)
(* The event feed of a session is the subject of DashboardStream.          *)
(***************************************************************************)
EXTENDS Integers, Sequences, FiniteSets

CONSTANTS
  Handlers,        \* concurrent HTTP handlers
  Sessions,        \* session ids that may be drawn: the bound on creations
  Observed,        \* bound: the sessions hook events and snapshots are about
  MaxConcurrent,   \* config.max_concurrent_sessions
  MaxHookEvents    \* MAX_HOOK_EVENTS

ASSUME LimitsAssumption ==
  /\ MaxConcurrent \in Nat \ {0}   \* OrchestratorConfig::validate
  /\ MaxHookEvents \in Nat \ {0}
  /\ Observed \subseteq Sessions

ASSUME FiniteAssumption == IsFiniteSet(Handlers) /\ IsFiniteSet(Sessions)

NoSession == "no session"
ASSUME NoSessionAssumption == NoSession \notin Sessions

VARIABLES
  handler,   \* handler[h]: the request h serves, the session it is about
  status,    \* status[s]: SessionState.status, "none" if s is not in the map
  cancel,    \* cancel[s]: its cancellation token
  thread,    \* thread[s]: where the session's thread is
  hooks,     \* hooks[s]: the recorded flags of hook_events
  saved      \* saved[s]: a compact snapshot or mission memory was stored

vars == <<handler, status, cancel, thread, hooks, saved>>

Idle == [op |-> "idle", session |-> NoSession]

Ops == {"idle", "insert", "spawn", "record", "stop", "save"}
Statuses == {"Active", "Completed", "Failed", "Cancelled"}
Threads == {"none", "running", "ok", "error", "ended", "panicked"}

Init ==
  /\ handler = [h \in Handlers |-> Idle]
  /\ status = [s \in Sessions |-> "none"]
  /\ cancel = [s \in Sessions |-> FALSE]
  /\ thread = [s \in Sessions |-> "none"]
  /\ hooks = [s \in Sessions |-> <<>>]
  /\ saved = [s \in Sessions |-> FALSE]

Known == {s \in Sessions : status[s] # "none"}
Active == {s \in Sessions : status[s] = "Active"}

(* The only one of a session's states that has an orchestration_state. *)
HasState(s) == status[s] = "Completed"

Goes(h, op, s) == handler' = [handler EXCEPT ![h] = [op |-> op, session |-> s]]
Done(h) == handler' = [handler EXCEPT ![h] = Idle]

-----------------------------------------------------------------------------
(* create_session: the limit is read, the session inserted and the thread  *)
(* spawned in three steps that hold no common lock.                        *)

(* Bound: an id is left for one more session. *)
IdLeft ==
  Cardinality(Known) + Cardinality({h \in Handlers : handler[h].op = "insert"})
    < Cardinality(Sessions)

(* When a creation is refused; a refusal changes nothing. *)
Full == Cardinality(Known) >= MaxConcurrent

(* Mutant of Admit: every creation is let through. *)
AdmitAlways(h) ==
  /\ handler[h].op = "idle" /\ IdLeft
  /\ Goes(h, "insert", NoSession)
  /\ UNCHANGED <<status, cancel, thread, hooks, saved>>

Admit(h) ==
  /\ handler[h].op = "idle" /\ ~Full /\ IdLeft
  /\ Goes(h, "insert", NoSession)
  /\ UNCHANGED <<status, cancel, thread, hooks, saved>>

Insert(h, s) ==
  /\ handler[h].op = "insert" /\ s \notin Known
  /\ status' = [status EXCEPT ![s] = "Active"]
  /\ Goes(h, "spawn", s)
  /\ UNCHANGED <<cancel, thread, hooks, saved>>

Spawn(h) ==
  /\ handler[h].op = "spawn"
  /\ thread' = [thread EXCEPT ![handler[h].session] = "running"]
  /\ Done(h)
  /\ UNCHANGED <<status, cancel, hooks, saved>>

(* The operating system refuses the thread: the error goes to the caller,  *)
(* the session stays in the map.                                           *)
SpawnFails(h) ==
  /\ handler[h].op = "spawn"
  /\ Done(h)
  /\ UNCHANGED <<status, cancel, thread, hooks, saved>>

(* create_tracking_session: no limit and no thread. *)
CreateTracking(h, s) ==
  /\ handler[h].op = "idle" /\ s \notin Known /\ IdLeft
  /\ status' = [status EXCEPT ![s] = "Active"]
  /\ UNCHANGED <<handler, cancel, thread, hooks, saved>>

-----------------------------------------------------------------------------
(* Requests about a session.  The id in the request is the session's own,  *)
(* or an external one that several sessions may share: it resolves to any  *)
(* session of the map, without a lock that lasts.                          *)

Resolve(h, s) ==
  /\ handler[h].op = "idle" /\ s \in Known
  /\ \E op \in {"record", "stop", "save"} :
       (op = "stop" \/ s \in Observed) /\ Goes(h, op, s)
  /\ UNCHANGED <<status, cancel, thread, hooks, saved>>

(* HOOK_TIMEOUT passes before the handler gets the session's lock. *)
TimeOut(h) ==
  /\ handler[h].op \in {"record", "stop", "save"}
  /\ Done(h)
  /\ UNCHANGED <<status, cancel, thread, hooks, saved>>

(* record_hook_event *)
RecordHookEvent(h) ==
  LET s == handler[h].session
  IN  /\ handler[h].op = "record"
      /\ hooks' = IF Len(hooks[s]) < MaxHookEvents
                  THEN [hooks EXCEPT ![s] = Append(@, s \in Active)]
                  ELSE hooks
      /\ Done(h)
      /\ UNCHANGED <<status, cancel, thread, saved>>

(* Mutants of StopSession: the status is not looked at; the token of the   *)
(* loop is not signalled.                                                  *)
StopSessionUnchecked(h) ==
  LET s == handler[h].session
  IN  /\ handler[h].op = "stop"
      /\ status' = [status EXCEPT ![s] = "Cancelled"]
      /\ cancel' = [cancel EXCEPT ![s] = TRUE]
      /\ Done(h)
      /\ UNCHANGED <<thread, hooks, saved>>
StopSessionSilently(h) ==
  LET s == handler[h].session
  IN  /\ handler[h].op = "stop" /\ s \in Active
      /\ status' = [status EXCEPT ![s] = "Cancelled"]
      /\ Done(h)
      /\ UNCHANGED <<cancel, thread, hooks, saved>>

(* stop_session *)
StopSession(h) ==
  LET s == handler[h].session
  IN  /\ handler[h].op = "stop" /\ s \in Active
      /\ status' = [status EXCEPT ![s] = "Cancelled"]
      /\ cancel' = [cancel EXCEPT ![s] = TRUE]
      /\ Done(h)
      /\ UNCHANGED <<thread, hooks, saved>>

StopTooLate(h) ==
  /\ handler[h].op = "stop" /\ handler[h].session \notin Active
  /\ Done(h)
  /\ UNCHANGED <<status, cancel, thread, hooks, saved>>

(* create_and_store_compact_snapshot and get_mission_memory, which keeps   *)
(* nothing when the memory has no content.                                 *)
Save(h) ==
  LET s == handler[h].session
  IN  /\ handler[h].op = "save"
      /\ \/ /\ HasState(s)
            /\ saved' = [saved EXCEPT ![s] = TRUE]
         \/ UNCHANGED saved
      /\ Done(h)
      /\ UNCHANGED <<status, cancel, thread, hooks>>

-----------------------------------------------------------------------------
(* The session's thread.  OrchestrationLoop::run returns a final state or  *)
(* an error; only then does the thread take the lock and write the status, *)
(* whatever the status has become.  A panic is swallowed by join().        *)

Returns(s, result) ==
  /\ thread[s] = "running"
  /\ thread' = [thread EXCEPT ![s] = result]
  /\ UNCHANGED <<handler, status, cancel, hooks, saved>>

Panics(s) ==
  /\ thread[s] = "running"
  /\ thread' = [thread EXCEPT ![s] = "panicked"]
  /\ UNCHANGED <<handler, status, cancel, hooks, saved>>

(* Mutants of Publish: a failed session is put back for another try; the   *)
(* status is the one the loop gave its own session.                        *)
PublishForRetry(s) ==
  /\ thread[s] \in {"ok", "error"}
  /\ status' = [status EXCEPT ![s] =
                  IF thread[s] = "ok" THEN "Completed" ELSE "Active"]
  /\ thread' = [thread EXCEPT ![s] = "ended"]
  /\ UNCHANGED <<handler, cancel, hooks, saved>>

Publish(s) ==
  /\ thread[s] \in {"ok", "error"}
  /\ status' = [status EXCEPT ![s] =
                  IF thread[s] = "ok" THEN "Completed" ELSE "Failed"]
  /\ thread' = [thread EXCEPT ![s] = "ended"]
  /\ UNCHANGED <<handler, cancel, hooks, saved>>

-----------------------------------------------------------------------------

Next ==
  \/ \E h \in Handlers :
       \/ Admit(h) \/ Spawn(h) \/ SpawnFails(h)
       \/ TimeOut(h) \/ RecordHookEvent(h) \/ StopSession(h)
       \/ StopTooLate(h) \/ Save(h)
       \/ \E s \in Sessions : Insert(h, s) \/ CreateTracking(h, s) \/ Resolve(h, s)
  \/ \E s \in Sessions :
       \/ Returns(s, "ok") \/ Returns(s, "error") \/ Panics(s) \/ Publish(s)

Spec == Init /\ [][Next]_vars

(* A thread that has returned gets its lock, and a loop whose token is     *)
(* signalled looks at it: both loops poll it before every step, and a step *)
(* is bounded by the timeouts of the model client and of the tools.        *)
FairSpec ==
  /\ Spec
  /\ \A s \in Sessions :
       /\ WF_vars(Publish(s))
       /\ WF_vars(cancel[s] /\ (Returns(s, "ok") \/ Returns(s, "error") \/ Panics(s)))

-----------------------------------------------------------------------------
(* Properties. *)

TypeOK ==
  /\ handler \in [Handlers -> [op : Ops, session : Sessions \cup {NoSession}]]
  /\ status \in [Sessions -> Statuses \cup {"none"}]
  /\ cancel \in [Sessions -> BOOLEAN]
  /\ thread \in [Sessions -> Threads]
  /\ hooks \in [Sessions -> Seq(BOOLEAN)]
  /\ saved \in [Sessions -> BOOLEAN]

(* Handlers that passed the limit check at the same time may exceed the    *)
(* limit together, by one less than there are handlers: never more threads *)
(* than that (create_session).                                             *)
Started == {s \in Sessions : thread[s] # "none"}
AdmissionBounded ==
  Cardinality(Started) <= MaxConcurrent + Cardinality(Handlers) - 1

(* A hook event that found the session active never follows one that did   *)
(* not: the flags of a session's log are TRUE up to its end, then FALSE    *)
(* (record_hook_event against stop_session and the thread).                *)
RecordedThenDropped ==
  \A s \in Sessions :
    \A i, j \in DOMAIN hooks[s] : i < j /\ hooks[s][j] => hooks[s][i]

(* A session's status moves only forward: what the thread has published is *)
(* never overwritten by a late stop, and no session becomes active again.  *)
Forward ==
  [from \in {"none", "Active", "Cancelled", "Completed", "Failed"} |->
     CASE from = "none"      -> {"Active"}
       [] from = "Active"    -> {"Cancelled", "Completed", "Failed"}
       [] from = "Cancelled" -> {"Completed", "Failed"}
       [] OTHER              -> {}]
StatusMovesForward ==
  [][\A s \in Sessions :
       status'[s] # status[s] => status'[s] \in Forward[status[s]]]_vars

(* What was saved for a later run is of a run that ended with a result,    *)
(* and stays so: no snapshot is taken of a session whose outcome changes.  *)
SavedFromFinalState ==
  \A s \in Sessions :
    saved[s] => status[s] = "Completed" /\ thread[s] = "ended"

(* Stopping a session that runs ends its thread, and unless that panics    *)
(* the thread's outcome replaces the status the stop wrote.                *)
StopEndsThread ==
  \A s \in Sessions :
    status[s] = "Cancelled" /\ thread[s] = "running"
      ~> \/ thread[s] = "panicked"
         \/ thread[s] = "ended" /\ status[s] \in {"Completed", "Failed"}
=============================================================================
