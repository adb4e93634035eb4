--------------------------- MODULE DashboardStream ---------------------------
(***************************************************************************)
(* The live event feed of one session of the MCP server, end to end: the   *)
(* orchestration loop's mpsc channel and the bridge task that drains it,   *)
(* the endpoint that injects events of an outside process, the session's   *)
(* event log and broadcast channel (crates/mcp-server/src/                 *)
(* session_manager.rs, shared-types/src/dashboard.rs), the server-sent-    *)
(* event stream that reads both (mcp-server/src/dashboard.rs) and the      *)
(* reconnecting client of the web dashboard (apps/dashboard/.../sse.ts).   *)
(*                                                                         *)
(* The log and the channel are written together under the session's lock,  *)
(* so a position of the log is also a position of the channel.  What an    *)
(* event says is left out; it is known by its position, its sequence       *)
(* number and its writer.  Delays between reconnects are left out.         *)
(***************************************************************************)
EXTENDS Integers, Sequences, FiniteSets, Functions

CONSTANTS
  Clients,        \* readers of the feed
  Capacity,       \* LIVE_BROADCAST_CAPACITY
  MaxEmitted,     \* bound: events the orchestration loop emits
  MaxInjected,    \* bound: events injected from outside
  MaxFailures     \* bound: times one client's connection breaks

ASSUME BoundsAssumption ==
  /\ Capacity \in Nat \ {0}
  /\ MaxEmitted \in Nat /\ MaxInjected \in Nat /\ MaxFailures \in Nat

VARIABLES
  emitted,     \* events the loop has sent into the mpsc channel
  inbox,       \* those the bridge has not received yet
  holders,     \* who keeps the SessionState, hence the broadcast sender, alive
  nextSeq,     \* EventStream.next_seq
  log,         \* SessionState.dashboard_events
  conn,        \* conn[c]: where client c's stream is
  pending,     \* pending[c]: positions of the catch-up events not yet sent
  pos,         \* pos[c]: next position c's broadcast receiver will read
  cursor,      \* cursor[c]: lastSeq of the client, 0 before its first event
  got,         \* history: positions c received, over all its connections
  resumed,     \* history: whether c ever connected with a cursor
  failures     \* history: times c's connection broke

vars == <<emitted, inbox, holders, nextSeq, log, conn, pending, pos, cursor,
          got, resumed, failures>>

writerVars == <<emitted, inbox, holders, nextSeq, log>>
clientVars == <<conn, pending, pos, cursor, got, resumed, failures>>

Event == [seq : Nat \ {0}, by : {"bridge", "injected"}]

(* A session with an orchestration loop, or a tracking-only session. *)
Init ==
  /\ emitted = 0 /\ inbox = 0
  /\ holders \in {{"sessions", "bridge", "loop"}, {"sessions"}}
  /\ nextSeq = 1
  /\ log = <<>>
  /\ conn = [c \in Clients |-> "off"]
  /\ pending = [c \in Clients |-> {}]
  /\ pos = [c \in Clients |-> 1]
  /\ cursor = [c \in Clients |-> 0]
  /\ got = [c \in Clients |-> <<>>]
  /\ resumed = [c \in Clients |-> FALSE]
  /\ failures = [c \in Clients |-> 0]

-----------------------------------------------------------------------------
(* The writers. *)

LoopEmits ==
  /\ "loop" \in holders /\ emitted < MaxEmitted
  /\ emitted' = emitted + 1
  /\ inbox' = inbox + 1
  /\ UNCHANGED <<holders, nextSeq, log, clientVars>>

(* The loop's thread ends, whatever the outcome, and drops the mpsc sender. *)
LoopEnds ==
  /\ "loop" \in holders
  /\ holders' = holders \ {"loop"}
  /\ UNCHANGED <<emitted, inbox, nextSeq, log, clientVars>>

(* wrap() draws the number before the lock is taken, but only the bridge    *)
(* draws from next_seq.                                                    *)
Bridge ==
  /\ "bridge" \in holders /\ inbox > 0
  /\ inbox' = inbox - 1
  /\ nextSeq' = nextSeq + 1
  /\ log' = Append(log, [seq |-> nextSeq, by |-> "bridge"])
  /\ UNCHANGED <<emitted, holders, clientVars>>

(* Mutant of BridgeEnds: what is still in the channel is dropped. *)
BridgeEndsAtOnce ==
  /\ "bridge" \in holders /\ "loop" \notin holders
  /\ holders' = holders \ {"bridge"}
  /\ UNCHANGED <<emitted, inbox, nextSeq, log, clientVars>>

(* recv() answers None only when the channel is empty and its sender gone. *)
BridgeEnds ==
  /\ "bridge" \in holders /\ "loop" \notin holders /\ inbox = 0
  /\ holders' = holders \ {"bridge"}
  /\ UNCHANGED <<emitted, inbox, nextSeq, log, clientVars>>

(* The positions of each writer. *)
Injected == {p \in DOMAIN log : log[p].by = "injected"}
Bridged  == {p \in DOMAIN log : log[p].by = "bridge"}

Inject ==
  /\ Cardinality(Injected) < MaxInjected
  /\ log' = Append(log, [seq |-> Len(log) + 1, by |-> "injected"])
  /\ UNCHANGED <<emitted, inbox, holders, nextSeq, clientVars>>

-----------------------------------------------------------------------------
(* The streams and their clients. *)

(* Mutants of Missed: the catch-up reaches back no further than the        *)
(* channel does; the event of the cursor is sent again.                    *)
MissedRecently(c) ==
  {p \in DOMAIN log : log[p].seq > cursor[c] /\ p > Len(log) - Capacity}
MissedFromCursor(c) == {p \in DOMAIN log : log[p].seq >= cursor[c]}

(* The catch-up of a client: the logged events its cursor does not cover,  *)
(* sent in the order of the log.                                           *)
Missed(c) == {p \in DOMAIN log : log[p].seq > cursor[c]}
First(positions) == CHOOSE p \in positions : \A q \in positions : p <= q

(* Log and receiver are taken under one lock. *)
Connect(c) ==
  /\ conn[c] = "off"
  /\ conn' = [conn EXCEPT ![c] = "catchup"]
  /\ pending' = [pending EXCEPT ![c] = Missed(c)]
  /\ pos' = [pos EXCEPT ![c] = Len(log) + 1]
  /\ resumed' = [resumed EXCEPT ![c] = @ \/ cursor[c] > 0]
  /\ UNCHANGED <<writerVars, cursor, got, failures>>

Deliver(c, p) ==
  /\ got' = [got EXCEPT ![c] = Append(@, p)]
  /\ cursor' = [cursor EXCEPT ![c] = log[p].seq]

SendCatchup(c) ==
  /\ conn[c] = "catchup" /\ pending[c] # {}
  /\ Deliver(c, First(pending[c]))
  /\ pending' = [pending EXCEPT ![c] = @ \ {First(@)}]
  /\ UNCHANGED <<writerVars, conn, pos, resumed, failures>>

GoLive(c) ==
  /\ conn[c] = "catchup" /\ pending[c] = {}
  /\ conn' = [conn EXCEPT ![c] = "live"]
  /\ UNCHANGED <<writerVars, pending, pos, cursor, got, resumed, failures>>

(* The channel keeps the last Capacity events. *)
Oldest == IF Len(log) > Capacity THEN Len(log) - Capacity + 1 ELSE 1

(* Mutant of Lag: the client reads on after the gap. *)
LagIgnored(c) ==
  /\ conn[c] = "live" /\ pos[c] < Oldest
  /\ pos' = [pos EXCEPT ![c] = Oldest]
  /\ UNCHANGED <<writerVars, conn, pending, cursor, got, resumed, failures>>

(* recv() answers Lagged: the stream says so, and the client closes it to  *)
(* reconnect from its cursor.                                              *)
Lag(c) ==
  /\ conn[c] = "live" /\ pos[c] < Oldest
  /\ conn' = [conn EXCEPT ![c] = "off"]
  /\ UNCHANGED <<writerVars, pending, pos, cursor, got, resumed, failures>>

(* recv() answers an event or, once every sender is gone, Closed. *)
Receive(c) ==
  /\ conn[c] = "live" /\ pos[c] >= Oldest
  /\ pos[c] <= Len(log) \/ holders = {}
  /\ IF pos[c] <= Len(log)
     THEN /\ Deliver(c, pos[c])
          /\ pos' = [pos EXCEPT ![c] = @ + 1]
          /\ UNCHANGED conn
     ELSE /\ conn' = [conn EXCEPT ![c] = "finished"]
          /\ UNCHANGED <<got, cursor, pos>>
  /\ UNCHANGED <<writerVars, pending, resumed, failures>>

(* The connection breaks (onerror): the client will reconnect. *)
Disconnect(c) ==
  /\ conn[c] \in {"catchup", "live"} /\ failures[c] < MaxFailures
  /\ conn' = [conn EXCEPT ![c] = "off"]
  /\ pending' = [pending EXCEPT ![c] = {}]
  /\ failures' = [failures EXCEPT ![c] = @ + 1]
  /\ UNCHANGED <<writerVars, pos, cursor, got, resumed>>

(* The user leaves the page, connected or waiting to reconnect. *)
Close(c) ==
  /\ conn[c] \in {"off", "catchup", "live"}
  /\ conn' = [conn EXCEPT ![c] = "closed"]
  /\ pending' = [pending EXCEPT ![c] = {}]
  /\ UNCHANGED <<writerVars, pos, cursor, got, resumed, failures>>

Stream(c) == Connect(c) \/ SendCatchup(c) \/ GoLive(c) \/ Lag(c) \/ Receive(c)

Next ==
  \/ LoopEmits \/ LoopEnds \/ Bridge \/ BridgeEnds \/ Inject
  \/ \E c \in Clients : Stream(c) \/ Disconnect(c) \/ Close(c)

Spec == Init /\ [][Next]_vars

(* tokio keeps polling the bridge and the streams, and the client's timer  *)
(* fires; nothing obliges the loop to end, the outside to inject or a      *)
(* connection to break.                                                    *)
FairSpec ==
  /\ Spec
  /\ WF_vars(Bridge) /\ WF_vars(BridgeEnds)
  /\ \A c \in Clients : WF_vars(Stream(c))

-----------------------------------------------------------------------------
(* Properties. *)

TypeOK ==
  /\ emitted \in 0..MaxEmitted /\ inbox \in 0..emitted
  /\ holders \subseteq {"sessions", "bridge", "loop"}
  /\ nextSeq \in Nat \ {0}
  /\ log \in Seq(Event)
  /\ conn \in [Clients -> {"off", "catchup", "live", "finished", "closed"}]
  /\ pending \in [Clients -> SUBSET (Nat \ {0})]
  /\ pos \in [Clients -> Nat \ {0}]
  /\ cursor \in [Clients -> Nat]
  /\ got \in [Clients -> Seq(Nat \ {0})]
  /\ resumed \in [Clients -> BOOLEAN]
  /\ failures \in [Clients -> 0..MaxFailures]

(* The two writers number their events independently, so only a log with   *)
(* one writer is numbered by position.                                     *)
OneWriter == \A p, q \in DOMAIN log : log[p].by = log[q].by

(* The cursor of client c means what the server takes it for. *)
Reliable(c) == OneWriter \/ ~resumed[c]

(* Everything before an open stream's place in the channel has reached its *)
(* client or is about to: nothing falls between the catch-up and the       *)
(* subscription or between two connections (subscribe_dashboard,           *)
(* live_session_stream, connectSSE).                                       *)
Accounted(c) ==
  conn[c] \in {"catchup", "live"} =>
    1..(pos[c] - 1) \subseteq Range(got[c]) \cup pending[c]

NoSilentLoss == \A c \in Clients : Reliable(c) => Accounted(c)

(* What a client has received is the log up to some event, every event of  *)
(* it once and in order, however often it lags, breaks off and reconnects. *)
GapFree ==
  \A c \in Clients : Reliable(c) => \A i \in DOMAIN got[c] : got[c][i] = i

(* What the loop emits is logged in the end, even what it emitted just     *)
(* before its thread ended.                                                *)
EveryEventLogged ==
  \A n \in 1..MaxEmitted : emitted >= n ~> Cardinality(Bridged) >= n

(* Every logged event reaches every client whose page stays open, however  *)
(* far the client fell behind the channel: a lag costs a reconnect and     *)
(* never an event.                                                         *)
EveryEventDelivered ==
  \A c \in Clients, n \in 1..(MaxEmitted + MaxInjected) :
    Len(log) >= n ~>
      Len(got[c]) >= n \/ conn[c] = "closed" \/ ~OneWriter

(* What the stream's comments say of a reconnect with a cursor: it sends   *)
(* what was missed.  No condition on who wrote the log.                    *)
ReconnectSendsWhatWasMissed == \A c \in Clients : Accounted(c)

(* What the doc of live_session_stream says: a client gets a `finished`    *)
(* event when the session completes.                                       *)
FinishedOnCompletion ==
  \A c \in Clients :
    emitted > 0 /\ "loop" \notin holders
      ~> conn[c] \in {"finished", "closed"}
=============================================================================
