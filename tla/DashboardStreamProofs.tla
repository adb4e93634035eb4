------------------------ MODULE DashboardStreamProofs ------------------------
(***************************************************************************)
(* Theorems about DashboardStream for every number of clients, events and  *)
(* failures and every capacity of the channel, with their proofs.          *)
(***************************************************************************)
EXTENDS DashboardStream, TLAPS, WellFoundedInduction

(* How the two writers number the log: an injected event by its position,  *)
(* and the bridge as long as it has the log for itself.                    *)
LogInv ==
  /\ \A p \in DOMAIN log : log[p].by = "injected" => log[p].seq = p
  /\ (\A p \in DOMAIN log : log[p].by = "bridge") =>
       /\ nextSeq = Len(log) + 1
       /\ \A p \in DOMAIN log : log[p].seq = p

(* Where a client is whose cursor means what the server takes it for: it    *)
(* has a prefix of the log, and what it lacks up to its place in the        *)
(* channel is pending.                                                      *)
ClientInv(c) ==
  /\ got[c] = [i \in 1..Len(got[c]) |-> i] /\ Len(got[c]) <= Len(log)
  /\ cursor[c] = IF got[c] = <<>> THEN 0 ELSE log[Len(got[c])].seq
  /\ conn[c] \in {"catchup", "live"} =>
       /\ Len(got[c]) < pos[c] /\ pos[c] <= Len(log) + 1
       /\ pending[c] = (Len(got[c]) + 1)..(pos[c] - 1)
  /\ conn[c] = "live" => pending[c] = {}

(* Only events of the log are pending. *)
Typed == TypeOK /\ \A c \in Clients : pending[c] \subseteq DOMAIN log

IInv == Typed /\ LogInv /\ \A c \in Clients : Reliable(c) => ClientInv(c)

-----------------------------------------------------------------------------
(* Types. *)

LEMMA InitTyped == Init => Typed
  BY BoundsAssumption DEF Init, Typed, TypeOK

(* The first of a set of positions that is not empty is one of them. *)
LEMMA FirstIsMember ==
  ASSUME NEW S \in SUBSET Nat, S # {}
  PROVE  First(S) \in S /\ \A q \in S : First(S) <= q
<1>1. PICK x \in S : \A y \in S : ~(<<y, x>> \in OpToRel(<, Nat))
  BY NatLessThanWellFounded, WFMin, S \subseteq Nat
<1>2. \A y \in S : x <= y
  <2> SUFFICES ASSUME NEW y \in S PROVE x <= y
    OBVIOUS
  <2>1. x \in Nat /\ y \in Nat
    OBVIOUS
  <2>2. ~(y < x)
    BY <1>1, <2>1 DEF OpToRel
  <2> QED
    BY <2>1, <2>2
<1> QED
  BY <1>2 DEF First

LEMMA LogEvents ==
  ASSUME log \in Seq(Event), NEW p \in DOMAIN log
  PROVE  /\ p \in Nat \ {0} /\ log[p] \in Event
         /\ log[p].seq \in Nat \ {0} /\ log[p].by \in {"bridge", "injected"}
<1>1. p \in 1..Len(log)
  OBVIOUS
<1>2. log[p] \in Event
  BY <1>1
<1> QED
  BY <1>1, <1>2 DEF Event

(* Both writers only add to the log. *)
Grows == /\ log' \in Seq(Event) /\ Len(log') = Len(log) + 1
         /\ \A p \in DOMAIN log : log'[p] = log[p]

LEMMA WritersAppend ==
  ASSUME TypeOK, Bridge \/ Inject
  PROVE  /\ Grows /\ UNCHANGED clientVars
         /\ emitted' \in 0..MaxEmitted /\ inbox' \in 0..emitted'
         /\ holders' \subseteq {"sessions", "bridge", "loop"} /\ nextSeq' \in Nat \ {0}
<1> USE DEF TypeOK, Grows
<1>1. CASE Bridge
  <2>1. [seq |-> nextSeq, by |-> "bridge"] \in Event
    BY DEF Event
  <2>2. log' = Append(log, [seq |-> nextSeq, by |-> "bridge"])
    BY <1>1 DEF Bridge
  <2>3. Grows
    BY <2>1, <2>2
  <2> QED
    BY <1>1, <2>3 DEF Bridge
<1>2. CASE Inject
  <2>1. [seq |-> Len(log) + 1, by |-> "injected"] \in Event
    BY DEF Event
  <2>2. log' = Append(log, [seq |-> Len(log) + 1, by |-> "injected"])
    BY <1>2 DEF Inject
  <2>3. Grows
    BY <2>1, <2>2
  <2> QED
    BY <1>2, <2>3 DEF Inject
<1> QED
  BY <1>1, <1>2

LEMMA Delivered ==
  ASSUME TypeOK, NEW c \in Clients, NEW p \in DOMAIN log, Deliver(c, p)
  PROVE  /\ got' = [got EXCEPT ![c] = Append(got[c], p)]
         /\ cursor' = [cursor EXCEPT ![c] = log[p].seq]
         /\ got' \in [Clients -> Seq(Nat \ {0})] /\ cursor' \in [Clients -> Nat]
<1>1. p \in Nat \ {0} /\ log[p].seq \in Nat
  BY LogEvents DEF TypeOK
<1> QED
  BY <1>1 DEF Deliver, TypeOK

LEMMA NextTyped == Typed /\ [Next]_vars => Typed'
<1> SUFFICES ASSUME Typed, [Next]_vars
             PROVE  Typed'
  OBVIOUS
<1> USE DEF Typed, TypeOK, writerVars, clientVars
<1> USE BoundsAssumption
<1>1. CASE UNCHANGED vars \/ LoopEmits \/ LoopEnds \/ BridgeEnds
  <2>1. UNCHANGED <<nextSeq, log, clientVars>>
    BY <1>1 DEF vars, LoopEmits, LoopEnds, BridgeEnds
  <2>2. /\ emitted' \in 0..MaxEmitted /\ inbox' \in 0..emitted'
        /\ holders' \subseteq {"sessions", "bridge", "loop"}
    <3>1. CASE LoopEmits
      <4>1. /\ emitted < MaxEmitted /\ emitted' = emitted + 1 /\ inbox' = inbox + 1
            /\ holders' = holders
        BY <3>1 DEF LoopEmits
      <4>2. emitted \in Nat /\ inbox \in Nat /\ inbox <= emitted
        OBVIOUS
      <4> QED
        BY <4>1, <4>2
    <3>2. CASE UNCHANGED vars \/ LoopEnds \/ BridgeEnds
      <4>1. UNCHANGED <<emitted, inbox>> /\ holders' \subseteq holders
        BY <3>2 DEF vars, LoopEnds, BridgeEnds
      <4> QED
        BY <4>1
    <3> QED
      BY <1>1, <3>1, <3>2
  <2> QED
    BY <2>1, <2>2
<1>2. CASE Bridge \/ Inject
  <2>1. /\ Grows /\ UNCHANGED clientVars
        /\ emitted' \in 0..MaxEmitted /\ inbox' \in 0..emitted'
        /\ holders' \subseteq {"sessions", "bridge", "loop"} /\ nextSeq' \in Nat \ {0}
    BY <1>2, WritersAppend
  <2> QED
    BY <2>1 DEF Grows
<1>3. ASSUME NEW c \in Clients, Connect(c)
      PROVE  Typed'
  <2>1. Missed(c) \subseteq DOMAIN log /\ DOMAIN log \subseteq Nat \ {0}
        /\ Len(log) + 1 \in Nat \ {0}
    BY DEF Missed
  <2> QED
    BY <1>3, <2>1 DEF Connect
<1>4. ASSUME NEW c \in Clients, SendCatchup(c)
      PROVE  Typed'
  <2>1. First(pending[c]) \in pending[c]
    BY <1>4, FirstIsMember DEF SendCatchup
  <2>2. First(pending[c]) \in DOMAIN log /\ Deliver(c, First(pending[c]))
    BY <1>4, <2>1 DEF SendCatchup
  <2>3. got' \in [Clients -> Seq(Nat \ {0})] /\ cursor' \in [Clients -> Nat]
    BY <2>2, Delivered
  <2> QED
    BY <1>4, <2>3 DEF SendCatchup
<1>5. ASSUME NEW c \in Clients, Receive(c)
      PROVE  Typed'
  <2>1. CASE pos[c] <= Len(log)
    <3>1. pos[c] \in DOMAIN log /\ Deliver(c, pos[c])
      BY <1>5, <2>1 DEF Receive
    <3>2. got' \in [Clients -> Seq(Nat \ {0})] /\ cursor' \in [Clients -> Nat]
      BY <3>1, Delivered
    <3>3. pos' \in [Clients -> Nat \ {0}]
      <4>1. pos' = [pos EXCEPT ![c] = pos[c] + 1] /\ pos[c] + 1 \in Nat \ {0}
        BY <1>5, <2>1 DEF Receive
      <4> QED
        BY <4>1
    <3>4. UNCHANGED <<writerVars, conn, pending, resumed, failures>>
      BY <1>5, <2>1 DEF Receive
    <3> QED
      BY <3>2, <3>3, <3>4
  <2>2. CASE ~(pos[c] <= Len(log))
    <3>1. /\ UNCHANGED <<writerVars, pending, got, cursor, pos, resumed, failures>>
          /\ conn' = [conn EXCEPT ![c] = "finished"]
      BY <1>5, <2>2 DEF Receive
    <3> QED
      BY <3>1
  <2> QED
    BY <2>1, <2>2
<1>6. ASSUME NEW c \in Clients, GoLive(c) \/ Lag(c) \/ Disconnect(c) \/ Close(c)
      PROVE  Typed'
  <2>1. /\ UNCHANGED <<writerVars, pos, cursor, got, resumed>>
        /\ \E to \in {"live", "off", "closed"} : conn' = [conn EXCEPT ![c] = to]
        /\ UNCHANGED pending \/ pending' = [pending EXCEPT ![c] = {}]
    BY <1>6 DEF GoLive, Lag, Disconnect, Close
  <2>2. failures' \in [Clients -> 0..MaxFailures]
    <3>1. CASE Disconnect(c)
      <4>1. /\ failures' = [failures EXCEPT ![c] = failures[c] + 1]
            /\ failures[c] + 1 \in 0..MaxFailures
        BY <3>1 DEF Disconnect
      <4> QED
        BY <4>1
    <3>2. CASE GoLive(c) \/ Lag(c) \/ Close(c)
      BY <3>2 DEF GoLive, Lag, Close
    <3> QED
      BY <1>6, <3>1, <3>2
  <2> QED
    BY <2>1, <2>2
<1> QED
  BY <1>1, <1>2, <1>3, <1>4, <1>5, <1>6 DEF Next, Stream

(* The variables keep their types. *)
THEOREM TypeCorrect == Spec => []TypeOK
<1>1. Typed => TypeOK
  BY DEF Typed
<1> QED
  BY <1>1, InitTyped, NextTyped, PTL DEF Spec

-----------------------------------------------------------------------------
(* The log. *)

LEMMA NextLog == Typed /\ LogInv /\ [Next]_vars => LogInv'
<1> SUFFICES ASSUME Typed, LogInv, [Next]_vars
             PROVE  LogInv'
  OBVIOUS
<1> USE DEF Typed, TypeOK
<1>1. CASE UNCHANGED <<log, nextSeq>>
  BY <1>1 DEF LogInv
<1>2. CASE Bridge
  <2>1. /\ nextSeq' = nextSeq + 1
        /\ log' = Append(log, [seq |-> nextSeq, by |-> "bridge"])
    BY <1>2 DEF Bridge
  <2>2. /\ DOMAIN log' = DOMAIN log \cup {Len(log) + 1} /\ Len(log') = Len(log) + 1
        /\ log'[Len(log) + 1] = [seq |-> nextSeq, by |-> "bridge"]
        /\ \A p \in DOMAIN log : log'[p] = log[p]
    BY <2>1
  <2> QED
    BY <2>1, <2>2 DEF LogInv
<1>3. CASE Inject
  <2>1. /\ nextSeq' = nextSeq
        /\ log' = Append(log, [seq |-> Len(log) + 1, by |-> "injected"])
    BY <1>3 DEF Inject
  <2>2. /\ DOMAIN log' = DOMAIN log \cup {Len(log) + 1} /\ Len(log') = Len(log) + 1
        /\ log'[Len(log) + 1] = [seq |-> Len(log) + 1, by |-> "injected"]
        /\ \A p \in DOMAIN log : log'[p] = log[p]
    BY <2>1
  <2> QED
    BY <2>1, <2>2 DEF LogInv
<1> QED
  BY <1>1, <1>2, <1>3
     DEF Next, Stream, LoopEmits, LoopEnds, BridgeEnds, Connect, SendCatchup, GoLive, Lag,
         Receive, Disconnect, Close, writerVars, vars

(* With one writer the log is numbered by position. *)
LEMMA Numbered ==
  ASSUME Typed, LogInv, OneWriter
  PROVE  \A p \in DOMAIN log : log[p].seq = p
<1>1. \A p \in DOMAIN log : log[p].by \in {"bridge", "injected"}
  BY LogEvents DEF Typed, TypeOK
<1>2. (\A p \in DOMAIN log : log[p].by = "bridge") \/ (\A p \in DOMAIN log : log[p].by = "injected")
  BY <1>1 DEF OneWriter
<1> QED
  BY <1>2 DEF LogInv

-----------------------------------------------------------------------------
(* The clients. *)

LEMMA InitIInv == Init => IInv
<1> SUFFICES ASSUME Init PROVE IInv
  OBVIOUS
<1>1. LogInv
  BY DEF Init, LogInv
<1>2. \A c \in Clients : ClientInv(c)
  BY DEF Init, ClientInv
<1> QED
  BY <1>1, <1>2, InitTyped DEF IInv

(* A step that leaves a client alone and at most adds to the log. *)
LEMMA Untouched ==
  ASSUME Typed, Typed', NEW c \in Clients, Reliable(c) => ClientInv(c),
         Grows \/ UNCHANGED log,
         UNCHANGED <<conn[c], pending[c], pos[c], cursor[c], got[c], resumed[c]>>
  PROVE  Reliable(c)' => ClientInv(c)'
<1>1. /\ Len(log) <= Len(log') /\ \A p \in DOMAIN log : log'[p] = log[p]
      /\ DOMAIN log \subseteq DOMAIN log' /\ Len(log) \in Nat /\ Len(log') \in Nat
  BY DEF Grows, Typed, TypeOK
<1>2. Reliable(c)' => Reliable(c)
  BY <1>1 DEF Reliable, OneWriter
<1> SUFFICES ASSUME ClientInv(c) PROVE ClientInv(c)'
  BY <1>2
<1>3. Len(got[c]) \in Nat /\ pos[c] \in Nat /\ (got[c] # <<>> => Len(got[c]) \in DOMAIN log)
  BY DEF Typed, TypeOK, ClientInv
<1> QED
  BY <1>1, <1>3 DEF ClientInv

(* A client receives the next event of the log. *)
LEMMA Received ==
  ASSUME Typed, NEW c \in Clients, ClientInv(c), UNCHANGED log,
         Len(got[c]) + 1 \in DOMAIN log, Deliver(c, Len(got[c]) + 1)
  PROVE  /\ Len(got'[c]) = Len(got[c]) + 1 /\ Len(got'[c]) <= Len(log)
         /\ got'[c] = [i \in 1..Len(got'[c]) |-> i] /\ got'[c] # <<>>
         /\ cursor'[c] = log[Len(got'[c])].seq
         /\ \A d \in Clients \ {c} : got'[d] = got[d] /\ cursor'[d] = cursor[d]
<1>1. /\ got' = [got EXCEPT ![c] = Append(got[c], Len(got[c]) + 1)]
      /\ cursor' = [cursor EXCEPT ![c] = log[Len(got[c]) + 1].seq]
  BY Delivered DEF Typed
<1>2. got[c] \in Seq(Nat \ {0}) /\ got[c] = [i \in 1..Len(got[c]) |-> i]
      /\ log \in Seq(Event)
  BY DEF Typed, TypeOK, ClientInv
<1>3. got'[c] = Append(got[c], Len(got[c]) + 1) /\ cursor'[c] = log[Len(got[c]) + 1].seq
  BY <1>1 DEF Typed, TypeOK
<1>4. Len(got'[c]) = Len(got[c]) + 1
  BY <1>2, <1>3
<1>5. got'[c] = [i \in 1..(Len(got[c]) + 1) |-> i]
  BY <1>2, <1>3
<1> QED
  BY <1>1, <1>2, <1>3, <1>4, <1>5 DEF Typed, TypeOK

LEMMA NextIInv == IInv /\ [Next]_vars => IInv'
<1> SUFFICES ASSUME IInv, [Next]_vars, NEW c \in Clients, Reliable(c)'
             PROVE  ClientInv(c)'
  BY NextTyped, NextLog DEF IInv
<1> USE DEF writerVars, clientVars
<1>0. Typed /\ Typed' /\ LogInv /\ (Reliable(c) => ClientInv(c))
  BY NextTyped DEF IInv
<1>1. ASSUME Grows \/ UNCHANGED log,
             UNCHANGED <<conn[c], pending[c], pos[c], cursor[c], got[c], resumed[c]>>
      PROVE  ClientInv(c)'
  BY <1>0, <1>1, Untouched
<1>2. CASE LoopEmits \/ LoopEnds \/ Bridge \/ BridgeEnds \/ Inject \/ UNCHANGED vars
  <2>1. UNCHANGED clientVars /\ (Grows \/ UNCHANGED log)
    BY <1>0, <1>2, WritersAppend DEF LoopEmits, LoopEnds, BridgeEnds, vars, Typed
  <2> QED
    BY <1>1, <2>1
<1>3. ASSUME NEW d \in Clients, d # c, Stream(d) \/ Disconnect(d) \/ Close(d)
      PROVE  ClientInv(c)'
  <2>1. UNCHANGED log
        /\ UNCHANGED <<conn[c], pending[c], pos[c], cursor[c], got[c], resumed[c]>>
    BY <1>0, <1>3 DEF Stream, Connect, SendCatchup, GoLive, Lag, Receive, Deliver,
       Disconnect, Close, Typed, TypeOK
  <2> QED
    BY <1>1, <2>1
<1>4. ASSUME Stream(c) \/ Disconnect(c) \/ Close(c)
      PROVE  UNCHANGED log /\ (Reliable(c)' => Reliable(c))
  <2>1. UNCHANGED log /\ (resumed'[c] = resumed[c] \/ resumed'[c] = (resumed[c] \/ cursor[c] > 0))
    BY <1>0, <1>4 DEF Stream, Connect, SendCatchup, GoLive, Lag, Receive, Disconnect, Close,
       Typed, TypeOK
  <2>2. OneWriter' <=> OneWriter
    BY <2>1 DEF OneWriter
  <2>3. resumed[c] \in BOOLEAN /\ (resumed[c] => resumed'[c])
    BY <1>0, <2>1 DEF Typed, TypeOK
  <2> QED
    BY <2>1, <2>2, <2>3 DEF Reliable
<1>5. CASE Connect(c)
  <2>1. UNCHANGED log /\ ClientInv(c)
    BY <1>0, <1>4, <1>5 DEF Stream
  <2> DEFINE n == Len(got[c])
  <2>2. /\ n \in Nat /\ n <= Len(log) /\ Len(log) \in Nat
        /\ cursor[c] = IF n = 0 THEN 0 ELSE log[n].seq
        /\ \A p \in DOMAIN log : log[p].seq \in Nat \ {0}
        /\ DOMAIN log = 1..Len(log)
    BY <1>0, <2>1, LogEvents DEF ClientInv, Typed, TypeOK
  <2>3. Missed(c) = (n + 1)..Len(log)
    <3>1. CASE OneWriter
      <4>1. \A p \in DOMAIN log : log[p].seq = p
        BY <1>0, <3>1, Numbered
      <4>2. cursor[c] = n
        BY <2>2, <4>1
      <4> QED
        BY <2>2, <4>1, <4>2 DEF Missed
    <3>2. CASE ~OneWriter
      <4>1. resumed'[c] = FALSE
        BY <2>1, <3>2, <1>0 DEF Reliable, OneWriter, Typed, TypeOK
      <4>2. ~(cursor[c] > 0)
        BY <1>0, <1>5, <4>1 DEF Connect, Typed, TypeOK
      <4>3. n = 0 /\ cursor[c] = 0
        BY <2>2, <4>2
      <4> QED
        BY <2>2, <4>3 DEF Missed
    <3> QED
      BY <3>1, <3>2
  <2>4. /\ conn'[c] = "catchup" /\ pending'[c] = Missed(c) /\ pos'[c] = Len(log) + 1
        /\ UNCHANGED <<log, got, cursor>>
    BY <1>0, <1>5 DEF Connect, Typed, TypeOK
  <2>5. pending'[c] = (n + 1)..(pos'[c] - 1)
    BY <2>2, <2>3, <2>4
  <2> QED
    BY <2>1, <2>2, <2>4, <2>5 DEF ClientInv
<1>6. CASE SendCatchup(c)
  <2> DEFINE n == Len(got[c])
  <2>1. ClientInv(c) /\ conn[c] = "catchup" /\ pending[c] # {}
        /\ UNCHANGED <<log, conn, pos>>
    BY <1>0, <1>4, <1>6 DEF Stream, SendCatchup
  <2>2. pending[c] = (n + 1)..(pos[c] - 1) /\ n \in Nat /\ pos[c] \in Nat
    BY <1>0, <2>1 DEF ClientInv, Typed, TypeOK
  <2>3. First(pending[c]) = n + 1
    <3>1. First(pending[c]) \in pending[c] /\ \A q \in pending[c] : First(pending[c]) <= q
      BY <1>0, <2>1, FirstIsMember DEF Typed, TypeOK
    <3>2. n + 1 \in pending[c]
      BY <2>1, <2>2
    <3>3. /\ First(pending[c]) \in Nat /\ n + 1 <= First(pending[c])
          /\ First(pending[c]) <= n + 1
      BY <2>2, <3>1, <3>2
    <3> HIDE DEF n
    <3> QED
      BY <2>2, <3>3
  <2>4. n + 1 \in DOMAIN log /\ Deliver(c, n + 1)
        /\ pending'[c] = pending[c] \ {n + 1}
    BY <1>0, <1>6, <2>1, <2>2, <2>3 DEF SendCatchup, Typed, TypeOK
  <2>5. /\ Len(got'[c]) = n + 1 /\ Len(got'[c]) <= Len(log)
        /\ got'[c] = [i \in 1..Len(got'[c]) |-> i] /\ got'[c] # <<>>
        /\ cursor'[c] = log[Len(got'[c])].seq
    BY <1>0, <2>1, <2>4, Received
  <2>6. pending'[c] = (n + 1 + 1)..(pos[c] - 1) /\ n + 1 < pos[c]
    BY <2>1, <2>2, <2>4
  <2>7. pos[c] <= Len(log) + 1
    BY <2>1 DEF ClientInv
  <2> QED
    BY <2>1, <2>2, <2>5, <2>6, <2>7 DEF ClientInv
<1>7. CASE GoLive(c)
  <2>1. ClientInv(c) /\ conn[c] = "catchup" /\ pending[c] = {} /\ conn'[c] = "live"
        /\ UNCHANGED <<log, pending, pos, cursor, got>>
    BY <1>0, <1>4, <1>7 DEF Stream, GoLive, Typed, TypeOK
  <2> QED
    BY <2>1 DEF ClientInv
<1>8. CASE Lag(c) \/ Disconnect(c) \/ Close(c)
  <2>1. ClientInv(c) /\ conn'[c] \in {"off", "closed"} /\ UNCHANGED <<log, cursor, got>>
    BY <1>0, <1>4, <1>8 DEF Stream, Lag, Disconnect, Close, Typed, TypeOK
  <2> QED
    BY <2>1 DEF ClientInv
<1>9. CASE Receive(c)
  <2> DEFINE n == Len(got[c])
  <2>1. ClientInv(c) /\ conn[c] = "live" /\ UNCHANGED <<log, pending>>
    BY <1>0, <1>4, <1>9 DEF Stream, Receive
  <2>2. /\ n \in Nat /\ pos[c] \in Nat /\ Len(log) \in Nat /\ DOMAIN log = 1..Len(log)
        /\ pos[c] = n + 1 /\ pending[c] = {}
    <3>1. /\ n \in Nat /\ pos[c] \in Nat /\ Len(log) \in Nat /\ DOMAIN log = 1..Len(log)
      BY <1>0 DEF Typed, TypeOK
    <3>2. n < pos[c] /\ pending[c] = {} /\ pending[c] = (n + 1)..(pos[c] - 1)
      BY <2>1 DEF ClientInv
    <3>3. n + 1 \notin (n + 1)..(pos[c] - 1)
      BY <3>2
    <3> QED
      BY <3>1, <3>2, <3>3
  <2>3. CASE pos[c] <= Len(log)
    <3>1. Deliver(c, n + 1) /\ n + 1 \in DOMAIN log /\ conn'[c] = "live"
          /\ pos'[c] = n + 1 + 1
      BY <1>0, <1>9, <2>1, <2>2, <2>3 DEF Receive, Typed, TypeOK
    <3>2. /\ Len(got'[c]) = n + 1 /\ Len(got'[c]) <= Len(log)
          /\ got'[c] = [i \in 1..Len(got'[c]) |-> i] /\ got'[c] # <<>>
          /\ cursor'[c] = log[Len(got'[c])].seq
      BY <1>0, <2>1, <3>1, Received
    <3>3. pending'[c] = (n + 1 + 1)..(pos'[c] - 1)
      BY <2>1, <2>2, <3>1
    <3> QED
      BY <2>1, <2>2, <3>1, <3>2, <3>3 DEF ClientInv
  <2>4. CASE ~(pos[c] <= Len(log))
    <3>1. conn'[c] = "finished" /\ UNCHANGED <<cursor, got>>
      BY <1>0, <1>9, <2>4 DEF Receive, Typed, TypeOK
    <3> QED
      BY <2>1, <3>1 DEF ClientInv
  <2> QED
    BY <2>3, <2>4
<1> QED
  BY <1>2, <1>3, <1>5, <1>6, <1>7, <1>8, <1>9 DEF Next, Stream

LEMMA InductiveInvariant == Spec => []IInv
  BY InitIInv, NextIInv, PTL DEF Spec

(* What a client received is the log up to some event, each event once and  *)
(* in order, over any number of lags, failures and reconnects.              *)
THEOREM PrefixOfTheLog == Spec => []GapFree
<1>1. IInv => GapFree
  BY DEF IInv, GapFree, ClientInv
<1> QED
  BY <1>1, InductiveInvariant, PTL

(* Nothing falls between the catch-up and the subscription, or between two  *)
(* connections.                                                             *)
THEOREM NothingLost == Spec => []NoSilentLoss
<1>1. IInv => NoSilentLoss
  <2> SUFFICES ASSUME IInv, NEW c \in Clients, Reliable(c), conn[c] \in {"catchup", "live"},
                      NEW p \in 1..(pos[c] - 1), p \notin pending[c]
               PROVE  p \in Range(got[c])
    BY DEF NoSilentLoss, Accounted
  <2>1. ClientInv(c) /\ pos[c] \in Nat /\ Len(got[c]) \in Nat
    BY DEF IInv, Typed, TypeOK
  <2>2. p \in 1..Len(got[c])
    BY <2>1 DEF ClientInv
  <2>3. p \in DOMAIN got[c] /\ got[c][p] = p
    BY <2>1, <2>2 DEF ClientInv
  <2> QED
    BY <2>3 DEF Range
<1> QED
  BY <1>1, InductiveInvariant, PTL
=============================================================================
