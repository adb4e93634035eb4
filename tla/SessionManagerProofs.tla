------------------------ MODULE SessionManagerProofs ------------------------
(***************************************************************************)
(* Theorems about SessionManager for every number of handlers and sessions *)
(* and every limit, with their proofs.                                     *)
(***************************************************************************)
EXTENDS SessionManager, TLAPS, FiniteSetTheorems

(* What the request a handler serves says of the session it is about: a    *)
(* session is in the map, and one whose thread is about to be spawned has  *)
(* none yet and only this handler.                                         *)
HandlerInv(h) ==
  /\ handler[h].op \in {"spawn", "record", "stop", "save"} => handler[h].session \in Known
  /\ handler[h].op = "spawn" =>
       /\ thread[handler[h].session] = "none"
       /\ \A g \in Handlers : handler[g] = handler[h] => g = h

(* What the status of a session says of its thread, its hook log and what  *)
(* was saved.                                                              *)
SessionInv(s) ==
  /\ status[s] = "none" => thread[s] = "none" /\ hooks[s] = <<>>
  /\ status[s] \in {"Completed", "Failed"} <=> thread[s] = "ended"
  /\ saved[s] => status[s] = "Completed"
  /\ status[s] = "Active" => \A i \in DOMAIN hooks[s] : hooks[s][i]

(* Sessions with a thread, or whose handler is about to spawn it. *)
Begun == {s \in Sessions : \/ thread[s] # "none"
                           \/ \E h \in Handlers : handler[h] = [op |-> "spawn", session |-> s]}

Inserting == {h \in Handlers : handler[h].op = "insert"}

IInv ==
  /\ TypeOK
  /\ \A h \in Handlers : HandlerInv(h)
  /\ \A s \in Sessions : SessionInv(s)
  /\ RecordedThenDropped

-----------------------------------------------------------------------------
(* Types. *)

LEMMA InitTypeOK == Init => TypeOK
  BY DEF Init, TypeOK, Idle, Ops, Statuses, Threads

LEMMA NextTypeOK == TypeOK /\ [Next]_vars => TypeOK'
<1> SUFFICES ASSUME TypeOK, [Next]_vars
             PROVE  TypeOK'
  OBVIOUS
<1> USE DEF TypeOK, Ops, Statuses, Threads, Idle, Done, Goes, Known, Active
<1>1. CASE UNCHANGED vars
  BY <1>1 DEF vars
<1>2. ASSUME NEW h \in Handlers, Admit(h) \/ Spawn(h) \/ SpawnFails(h) \/ TimeOut(h)
      PROVE  TypeOK'
  <2>1. handler' \in [Handlers -> [op : Ops, session : Sessions \cup {NoSession}]]
    <3>1. CASE Admit(h)
      BY <3>1 DEF Admit
    <3>2. CASE Done(h)
      BY <3>2
    <3> QED
      BY <1>2, <3>1, <3>2 DEF Spawn, SpawnFails, TimeOut
  <2>2. thread' \in [Sessions -> Threads]
    BY <1>2 DEF Admit, Spawn, SpawnFails, TimeOut
  <2> QED
    BY <1>2, <2>1, <2>2 DEF Admit, Spawn, SpawnFails, TimeOut
<1>3. ASSUME NEW h \in Handlers, RecordHookEvent(h)
      PROVE  TypeOK'
  <2>1. handler' \in [Handlers -> [op : Ops, session : Sessions \cup {NoSession}]]
    BY <1>3 DEF RecordHookEvent
  <2>2. hooks' \in [Sessions -> Seq(BOOLEAN)]
    <3> DEFINE t == handler[h].session
               b == t \in Active
    <3>1. b \in BOOLEAN
      OBVIOUS
    <3>2. CASE hooks' = hooks
      BY <3>2
    <3>3. CASE hooks' = [hooks EXCEPT ![t] = Append(@, b)]
      <4> HIDE DEF b
      <4>1. t \in Sessions => Append(hooks[t], b) \in Seq(BOOLEAN)
        BY <3>1
      <4> HIDE DEF t
      <4> QED
        BY <3>3, <4>1
    <3> QED
      BY <1>3, <3>2, <3>3 DEF RecordHookEvent
  <2> QED
    BY <1>3, <2>1, <2>2 DEF RecordHookEvent
<1>4. ASSUME NEW h \in Handlers, StopSession(h) \/ StopTooLate(h)
      PROVE  TypeOK'
  <2>1. CASE StopSession(h)
    BY <2>1 DEF StopSession
  <2>2. CASE StopTooLate(h)
    BY <2>2 DEF StopTooLate
  <2> QED
    BY <1>4, <2>1, <2>2
<1>5. ASSUME NEW h \in Handlers, Save(h)
      PROVE  TypeOK'
  BY <1>5 DEF Save
<1>6. ASSUME NEW h \in Handlers, NEW s \in Sessions, Insert(h, s) \/ CreateTracking(h, s)
      PROVE  TypeOK'
  <2>1. CASE Insert(h, s)
    BY <2>1 DEF Insert
  <2>2. CASE CreateTracking(h, s)
    BY <2>2 DEF CreateTracking
  <2> QED
    BY <1>6, <2>1, <2>2
<1>7. ASSUME NEW h \in Handlers, NEW s \in Sessions, Resolve(h, s)
      PROVE  TypeOK'
  BY <1>7 DEF Resolve
<1>8. ASSUME NEW s \in Sessions,
             Returns(s, "ok") \/ Returns(s, "error") \/ Panics(s) \/ Publish(s)
      PROVE  TypeOK'
  BY <1>8 DEF Returns, Panics, Publish
<1> QED
  BY <1>1, <1>2, <1>3, <1>4, <1>5, <1>6, <1>7, <1>8 DEF Next

(* Every variable keeps its type. *)
THEOREM TypeCorrect == Spec => []TypeOK
  BY InitTypeOK, NextTypeOK, PTL DEF Spec

-----------------------------------------------------------------------------
(* The invariant. *)

LEMMA InitIInv == Init => IInv
<1> SUFFICES ASSUME Init PROVE IInv
  OBVIOUS
<1>1. TypeOK
  BY InitTypeOK
<1>2. \A h \in Handlers : HandlerInv(h)
  BY DEF Init, HandlerInv, Idle
<1>3. \A s \in Sessions : SessionInv(s)
  BY DEF Init, SessionInv
<1>4. RecordedThenDropped
  BY DEF Init, RecordedThenDropped
<1> QED
  BY <1>1, <1>2, <1>3, <1>4 DEF IInv

(* A step that leaves the status, the thread, the log and the savings of   *)
(* the sessions alone, and gives a handler a session of the map, if any.   *)
LEMMA Request ==
  ASSUME IInv, TypeOK', NEW h \in Handlers, UNCHANGED <<status, thread, hooks, saved>>,
         NEW op \in Ops \ {"spawn"}, NEW s,
         op \in {"record", "stop", "save"} => s \in Known,
         Goes(h, op, s)
  PROVE  IInv'
<1>1. \A g \in Handlers : HandlerInv(g)'
  <2> SUFFICES ASSUME NEW g \in Handlers PROVE HandlerInv(g)'
    OBVIOUS
  <2>1. HandlerInv(g)
    BY DEF IInv
  <2>2. CASE g = h
    BY <2>2 DEF HandlerInv, Goes, IInv, TypeOK, Known, Ops
  <2>3. CASE g # h
    BY <2>1, <2>3 DEF HandlerInv, Goes, IInv, TypeOK, Known
  <2> QED
    BY <2>2, <2>3
<1>2. \A t \in Sessions : SessionInv(t)'
  BY DEF IInv, SessionInv
<1>3. RecordedThenDropped'
  BY DEF IInv, RecordedThenDropped
<1> QED
  BY <1>1, <1>2, <1>3 DEF IInv

(* A step after which a handler is idle, and the handlers about to spawn a *)
(* thread find their session as it was.                                    *)
LEMMA HandlersAfter ==
  ASSUME IInv, NEW h \in Handlers, Done(h), Known \subseteq Known',
         \A g \in Handlers \ {h} :
           handler[g].op = "spawn" => thread'[handler[g].session] = thread[handler[g].session]
  PROVE  \A g \in Handlers : HandlerInv(g)'
<1> SUFFICES ASSUME NEW g \in Handlers PROVE HandlerInv(g)'
  OBVIOUS
<1>1. HandlerInv(g) /\ TypeOK
  BY DEF IInv
<1>2. CASE g = h
  BY <1>1, <1>2 DEF HandlerInv, Done, Idle, TypeOK
<1>3. CASE g # h
  <2>1. handler'[g] = handler[g] /\ handler'[h].op = "idle"
    BY <1>1, <1>3 DEF Done, Idle, TypeOK
  <2>2. \A f \in Handlers \ {h} : handler'[f] = handler[f]
    BY <1>1 DEF Done, TypeOK
  <2> QED
    BY <1>1, <1>3, <2>1, <2>2 DEF HandlerInv
<1> QED
  BY <1>2, <1>3

LEMMA NextIInv == IInv /\ [Next]_vars => IInv'
<1> SUFFICES ASSUME IInv, [Next]_vars PROVE IInv'
  OBVIOUS
<1>1. TypeOK /\ TypeOK'
  BY NextTypeOK DEF IInv
<1>2. CASE UNCHANGED vars
  BY <1>1, <1>2 DEF vars, IInv, HandlerInv, SessionInv, RecordedThenDropped, Known
<1>3. ASSUME NEW h \in Handlers, Admit(h)
      PROVE  IInv'
  BY <1>1, <1>3, Request DEF Admit, Ops
<1>4. ASSUME NEW h \in Handlers, NEW s \in Sessions, Resolve(h, s)
      PROVE  IInv'
  BY <1>1, <1>4, Request DEF Resolve, Ops
<1>5. ASSUME NEW h \in Handlers, SpawnFails(h) \/ TimeOut(h) \/ StopTooLate(h)
      PROVE  IInv'
  <2>1. Goes(h, "idle", NoSession) /\ UNCHANGED <<status, thread, hooks, saved>>
    BY <1>5 DEF SpawnFails, TimeOut, StopTooLate, Goes, Done, Idle
  <2> QED
    BY <1>1, <2>1, Request DEF Ops
<1>6. ASSUME NEW h \in Handlers, NEW s \in Sessions, Insert(h, s)
      PROVE  IInv'
  <2>1. s \notin Known /\ status' = [status EXCEPT ![s] = "Active"]
        /\ Goes(h, "spawn", s) /\ UNCHANGED <<cancel, thread, hooks, saved>>
    BY <1>6 DEF Insert
  <2>2. SessionInv(s) /\ status[s] = "none"
    BY <2>1 DEF Known, IInv
  <2>3. \A g \in Handlers : HandlerInv(g)'
    <3> SUFFICES ASSUME NEW g \in Handlers PROVE HandlerInv(g)'
      OBVIOUS
    <3>1. HandlerInv(g)
      BY DEF IInv
    <3>2. CASE g = h
      <4>1. handler'[h] = [op |-> "spawn", session |-> s]
            /\ \A f \in Handlers \ {h} : handler'[f] = handler[f]
        BY <1>1, <2>1 DEF Goes, TypeOK
      <4>2. \A f \in Handlers \ {h} : handler[f] # [op |-> "spawn", session |-> s]
        BY <2>1 DEF IInv, HandlerInv
      <4>3. s \in Known' /\ thread'[s] = "none"
        BY <1>1, <2>1, <2>2 DEF TypeOK, Known, SessionInv
      <4> QED
        BY <3>2, <4>1, <4>2, <4>3 DEF HandlerInv
    <3>3. CASE g # h
      BY <1>1, <2>1, <3>1, <3>3 DEF HandlerInv, Goes, TypeOK, Known
    <3> QED
      BY <3>2, <3>3
  <2>4. \A t \in Sessions : SessionInv(t)'
    <3> SUFFICES ASSUME NEW t \in Sessions PROVE SessionInv(t)'
      OBVIOUS
    <3>1. SessionInv(t)
      BY DEF IInv
    <3> QED
      BY <1>1, <2>1, <2>2, <3>1 DEF SessionInv, TypeOK
  <2>5. RecordedThenDropped'
    BY <2>1 DEF IInv, RecordedThenDropped
  <2> QED
    BY <1>1, <2>3, <2>4, <2>5 DEF IInv
<1>7. ASSUME NEW h \in Handlers, NEW s \in Sessions, CreateTracking(h, s)
      PROVE  IInv'
  <2>1. s \notin Known /\ status' = [status EXCEPT ![s] = "Active"]
        /\ UNCHANGED <<handler, cancel, thread, hooks, saved>>
    BY <1>7 DEF CreateTracking
  <2>2. SessionInv(s) /\ status[s] = "none"
    BY <2>1 DEF Known, IInv
  <2>3. \A g \in Handlers : HandlerInv(g)'
    BY <1>1, <2>1 DEF HandlerInv, TypeOK, Known, IInv
  <2>4. \A t \in Sessions : SessionInv(t)'
    <3> SUFFICES ASSUME NEW t \in Sessions PROVE SessionInv(t)'
      OBVIOUS
    <3>1. SessionInv(t)
      BY DEF IInv
    <3> QED
      BY <1>1, <2>1, <2>2, <3>1 DEF SessionInv, TypeOK
  <2>5. RecordedThenDropped'
    BY <2>1 DEF IInv, RecordedThenDropped
  <2> QED
    BY <1>1, <2>3, <2>4, <2>5 DEF IInv
<1>8. ASSUME NEW h \in Handlers, Spawn(h)
      PROVE  IInv'
  <2> DEFINE s == handler[h].session
  <2>1. handler[h].op = "spawn" /\ thread' = [thread EXCEPT ![s] = "running"]
        /\ Done(h) /\ UNCHANGED <<status, cancel, hooks, saved>>
    BY <1>8 DEF Spawn
  <2>2. s \in Known /\ thread[s] = "none" /\ s \in Sessions
    BY <2>1 DEF IInv, HandlerInv, Known
  <2>3. \A g \in Handlers : HandlerInv(g)'
    <3>1. ASSUME NEW g \in Handlers \ {h}, handler[g].op = "spawn"
          PROVE  handler[g].session # s
      <4>1. handler[g] # handler[h]
        BY <2>1 DEF IInv, HandlerInv
      <4>2. handler[g] \in [op : Ops, session : Sessions \cup {NoSession}]
            /\ handler[h] \in [op : Ops, session : Sessions \cup {NoSession}]
        BY <1>1 DEF TypeOK
      <4> QED
        BY <2>1, <3>1, <4>1, <4>2
    <3>2. Known \subseteq Known'
      BY <2>1 DEF Known
    <3>3. \A g \in Handlers \ {h} :
            handler[g].op = "spawn" => thread'[handler[g].session] = thread[handler[g].session]
      BY <1>1, <2>1, <3>1 DEF TypeOK
    <3> QED
      BY <2>1, <3>2, <3>3, HandlersAfter
  <2>4. \A t \in Sessions : SessionInv(t)'
    <3> SUFFICES ASSUME NEW t \in Sessions PROVE SessionInv(t)'
      OBVIOUS
    <3>1. SessionInv(t)
      BY DEF IInv
    <3> QED
      BY <1>1, <2>1, <2>2, <3>1 DEF SessionInv, TypeOK, Known
  <2>5. RecordedThenDropped'
    BY <2>1 DEF IInv, RecordedThenDropped
  <2> QED
    BY <1>1, <2>3, <2>4, <2>5 DEF IInv
<1>9. ASSUME NEW h \in Handlers, RecordHookEvent(h)
      PROVE  IInv'
  <2> DEFINE s == handler[h].session
             b == s \in Active
  <2>1. handler[h].op = "record" /\ Done(h) /\ UNCHANGED <<status, cancel, thread, saved>>
        /\ (hooks' = hooks \/ hooks' = [hooks EXCEPT ![s] = Append(@, b)])
    BY <1>9 DEF RecordHookEvent
  <2>2. s \in Sessions /\ status[s] # "none"
    BY <2>1 DEF IInv, HandlerInv, Known
  <2>3. \A g \in Handlers : HandlerInv(g)'
    <3>1. Known \subseteq Known'
      BY <2>1 DEF Known
    <3> QED
      BY <2>1, <3>1, HandlersAfter
  <2>4. CASE hooks' = hooks
    <3>1. \A t \in Sessions : SessionInv(t)'
      BY <2>1, <2>4 DEF IInv, SessionInv
    <3>2. RecordedThenDropped'
      BY <2>4 DEF IInv, RecordedThenDropped
    <3> QED
      BY <1>1, <2>3, <3>1, <3>2 DEF IInv
  <2>5. CASE hooks' = [hooks EXCEPT ![s] = Append(@, b)]
    <3> DEFINE log == hooks[s]
    <3>1. log \in Seq(BOOLEAN) /\ b \in BOOLEAN /\ hooks'[s] = Append(log, b)
          /\ \A t \in Sessions : t # s => hooks'[t] = hooks[t]
      BY <1>1, <2>2, <2>5 DEF TypeOK
    <3>2. (\A i \in DOMAIN log : log[i]) \/ ~b
      BY <2>2 DEF IInv, SessionInv, Active
    <3>3. b <=> status[s] = "Active"
      BY <2>2 DEF Active
    <3>4. \A i, j \in DOMAIN log : i < j /\ log[j] => log[i]
      BY <2>2 DEF IInv, RecordedThenDropped
    <3> HIDE DEF b, log, s
    <3>5. DOMAIN Append(log, b) = 1..Len(log) + 1 /\ DOMAIN log = 1..Len(log)
          /\ Len(log) \in Nat
          /\ Append(log, b)[Len(log) + 1] = b
          /\ \A i \in 1..Len(log) : Append(log, b)[i] = log[i]
      BY <3>1
    <3>6. \A i \in DOMAIN Append(log, b) : i \in DOMAIN log \/ i = Len(log) + 1
      BY <3>5
    <3>7. \A i \in DOMAIN log : Append(log, b)[i] = log[i]
      BY <3>5
    <3>8. RecordedThenDropped'
      <4> SUFFICES ASSUME NEW t \in Sessions,
                          NEW i \in DOMAIN hooks'[t], NEW j \in DOMAIN hooks'[t],
                          i < j, hooks'[t][j]
                   PROVE  hooks'[t][i]
        BY DEF RecordedThenDropped
      <4>1. CASE t # s
        BY <3>1, <4>1 DEF IInv, RecordedThenDropped
      <4>2. CASE t = s
        <5>1. i \in DOMAIN log
          BY <3>1, <3>5, <4>2
        <5>2. CASE j \in DOMAIN log
          <6>1. log[j]
            BY <3>1, <3>7, <4>2, <5>2
          <6>2. log[i]
            BY <3>4, <5>1, <5>2, <6>1
          <6> QED
            BY <3>1, <3>7, <4>2, <5>1, <6>2
        <5>3. CASE j = Len(log) + 1
          <6>1. b
            BY <3>1, <3>5, <4>2, <5>3
          <6>2. log[i]
            BY <3>2, <5>1, <6>1
          <6> QED
            BY <3>1, <3>7, <4>2, <5>1, <6>2
        <5> QED
          BY <3>1, <3>6, <4>2, <5>2, <5>3
      <4> QED
        BY <4>1, <4>2
    <3>9. \A t \in Sessions : SessionInv(t)'
      <4> SUFFICES ASSUME NEW t \in Sessions PROVE SessionInv(t)'
        OBVIOUS
      <4>1. SessionInv(t) /\ UNCHANGED <<status, thread, saved>>
        BY <2>1 DEF IInv
      <4>2. CASE t # s
        BY <3>1, <4>1, <4>2 DEF SessionInv
      <4>3. CASE t = s
        <5>1. status[s] # "none" /\ hooks'[s] = Append(log, b)
          BY <2>2, <3>1 DEF s
        <5>2. status[s] = "Active" => \A i \in DOMAIN Append(log, b) : Append(log, b)[i]
          <6> SUFFICES ASSUME status[s] = "Active", NEW i \in DOMAIN Append(log, b)
                       PROVE  Append(log, b)[i]
            OBVIOUS
          <6>1. b /\ \A k \in DOMAIN log : log[k]
            BY <3>2, <3>3
          <6>2. CASE i \in DOMAIN log
            BY <3>7, <6>1, <6>2
          <6>3. CASE i = Len(log) + 1
            BY <3>5, <6>1, <6>3
          <6> QED
            BY <3>6, <6>2, <6>3
        <5> QED
          BY <4>1, <4>3, <5>1, <5>2 DEF SessionInv
      <4> QED
        BY <4>2, <4>3
    <3> QED
      BY <1>1, <2>3, <3>8, <3>9 DEF IInv
  <2> QED
    BY <2>1, <2>4, <2>5
<1>10. ASSUME NEW h \in Handlers, StopSession(h)
       PROVE  IInv'
  <2> DEFINE s == handler[h].session
  <2>1. s \in Active /\ status' = [status EXCEPT ![s] = "Cancelled"]
        /\ Done(h) /\ UNCHANGED <<thread, hooks, saved>>
    BY <1>10 DEF StopSession
  <2>2. \A g \in Handlers : HandlerInv(g)'
    <3>1. Known \subseteq Known'
      BY <1>1, <2>1 DEF Known, Active, TypeOK
    <3> QED
      BY <2>1, <3>1, HandlersAfter
  <2>3. \A t \in Sessions : SessionInv(t)'
    <3> SUFFICES ASSUME NEW t \in Sessions PROVE SessionInv(t)'
      OBVIOUS
    <3>1. SessionInv(t)
      BY DEF IInv
    <3> QED
      BY <1>1, <2>1, <3>1 DEF SessionInv, TypeOK, Active
  <2>4. RecordedThenDropped'
    BY <2>1 DEF IInv, RecordedThenDropped
  <2> QED
    BY <1>1, <2>2, <2>3, <2>4 DEF IInv
<1>11. ASSUME NEW h \in Handlers, Save(h)
       PROVE  IInv'
  <2> DEFINE s == handler[h].session
  <2>1. Done(h) /\ UNCHANGED <<status, cancel, thread, hooks>>
        /\ \/ UNCHANGED saved
           \/ status[s] = "Completed" /\ saved' = [saved EXCEPT ![s] = TRUE]
    BY <1>11 DEF Save, HasState
  <2>2. \A g \in Handlers : HandlerInv(g)'
    <3>1. Known \subseteq Known'
      BY <2>1 DEF Known
    <3> QED
      BY <2>1, <3>1, HandlersAfter
  <2>3. \A t \in Sessions : SessionInv(t)'
    <3> SUFFICES ASSUME NEW t \in Sessions PROVE SessionInv(t)'
      OBVIOUS
    <3>1. SessionInv(t)
      BY DEF IInv
    <3>2. saved'[t] => status[t] = "Completed"
      BY <1>1, <2>1, <3>1 DEF SessionInv, TypeOK
    <3> QED
      BY <2>1, <3>1, <3>2 DEF SessionInv
  <2>4. RecordedThenDropped'
    BY <2>1 DEF IInv, RecordedThenDropped
  <2> QED
    BY <1>1, <2>2, <2>3, <2>4 DEF IInv
<1>12. ASSUME NEW s \in Sessions,
              Returns(s, "ok") \/ Returns(s, "error") \/ Panics(s) \/ Publish(s)
       PROVE  IInv'
  <2>1. UNCHANGED <<handler, hooks, saved>> /\ thread[s] # "none" /\ thread[s] # "ended"
        /\ \E th \in Threads \ {"none"} : thread' = [thread EXCEPT ![s] = th]
        /\ \/ UNCHANGED status /\ thread'[s] # "ended"
           \/ /\ thread'[s] = "ended"
              /\ \E st \in {"Completed", "Failed"} : status' = [status EXCEPT ![s] = st]
    BY <1>1, <1>12 DEF Returns, Panics, Publish, Threads, TypeOK
  <2>2. \A g \in Handlers : HandlerInv(g)'
    <3> SUFFICES ASSUME NEW g \in Handlers PROVE HandlerInv(g)'
      OBVIOUS
    <3>1. HandlerInv(g)
      BY DEF IInv
    <3>2. Known \subseteq Known'
      BY <1>1, <2>1 DEF Known, TypeOK
    <3>3. handler[g].op = "spawn" => thread'[handler[g].session] = "none"
      BY <1>1, <2>1, <3>1 DEF HandlerInv, TypeOK
    <3> QED
      BY <2>1, <3>1, <3>2, <3>3 DEF HandlerInv
  <2>3. \A t \in Sessions : SessionInv(t)'
    <3> SUFFICES ASSUME NEW t \in Sessions PROVE SessionInv(t)'
      OBVIOUS
    <3>1. SessionInv(t) /\ SessionInv(s)
      BY DEF IInv
    <3> QED
      BY <1>1, <2>1, <3>1 DEF SessionInv, TypeOK
  <2>4. RecordedThenDropped'
    BY <2>1 DEF IInv, RecordedThenDropped
  <2> QED
    BY <1>1, <2>2, <2>3, <2>4 DEF IInv
<1> QED
  BY <1>2, <1>3, <1>4, <1>5, <1>6, <1>7, <1>8, <1>9, <1>10, <1>11, <1>12 DEF Next

LEMMA InductiveInvariant == Spec => []IInv
  BY InitIInv, NextIInv, PTL DEF Spec

(* The log of a session is TRUE up to the end of the session and FALSE     *)
(* from then on.                                                           *)
THEOREM LogEndsWithSession == Spec => []RecordedThenDropped
<1>1. IInv => RecordedThenDropped
  BY DEF IInv
<1> QED
  BY <1>1, InductiveInvariant, PTL

(* What is saved is of a session that completed and whose thread ended. *)
THEOREM SavedOnceFinal == Spec => []SavedFromFinalState
<1>1. IInv => SavedFromFinalState
  BY DEF IInv, SessionInv, SavedFromFinalState
<1> QED
  BY <1>1, InductiveInvariant, PTL

-----------------------------------------------------------------------------
(* Steps of the status. *)

LEMMA NextForward ==
  ASSUME IInv, [Next]_vars, NEW s \in Sessions, status'[s] # status[s]
  PROVE  status'[s] \in Forward[status[s]]
<1>1. TypeOK /\ SessionInv(s)
  BY DEF IInv
<1>2. status[s] = "none" /\ status'[s] = "Active" => status'[s] \in Forward[status[s]]
  BY DEF Forward
<1>3. status[s] = "Active" /\ status'[s] \in {"Cancelled", "Completed", "Failed"}
        => status'[s] \in Forward[status[s]]
  BY DEF Forward
<1>4. status[s] = "Cancelled" /\ status'[s] \in {"Completed", "Failed"}
        => status'[s] \in Forward[status[s]]
  BY DEF Forward
<1>5. ASSUME NEW h \in Handlers, NEW t \in Sessions, Insert(h, t) \/ CreateTracking(h, t)
      PROVE  status[s] = "none" /\ status'[s] = "Active"
  BY <1>1, <1>5 DEF Insert, CreateTracking, Known, TypeOK
<1>6. ASSUME NEW h \in Handlers, StopSession(h)
      PROVE  status[s] = "Active" /\ status'[s] = "Cancelled"
  BY <1>1, <1>6 DEF StopSession, Active, TypeOK
<1>7. ASSUME NEW t \in Sessions, Publish(t)
      PROVE  status[s] \in {"Active", "Cancelled"} /\ status'[s] \in {"Completed", "Failed"}
  <2>1. t = s /\ thread[s] \in {"ok", "error"} /\ status'[s] \in {"Completed", "Failed"}
    BY <1>1, <1>7 DEF Publish, TypeOK
  <2> QED
    BY <1>1, <2>1 DEF SessionInv, TypeOK, Statuses
<1>8. \/ \E h \in Handlers : StopSession(h)
      \/ \E h \in Handlers, t \in Sessions : Insert(h, t) \/ CreateTracking(h, t)
      \/ \E t \in Sessions : Publish(t)
  BY DEF Next, vars, Admit, Spawn, SpawnFails, TimeOut, RecordHookEvent, StopTooLate,
         Save, Resolve, Returns, Panics
<1> QED
  BY <1>2, <1>3, <1>4, <1>5, <1>6, <1>7, <1>8

(* A status moves only forward, whatever stops and outcomes race. *)
THEOREM MovesForward == Spec => StatusMovesForward
<1>1. IInv /\ [Next]_vars
        => [\A s \in Sessions : status'[s] # status[s] => status'[s] \in Forward[status[s]]]_vars
  BY NextForward
<1> QED
  BY <1>1, InductiveInvariant, PTL DEF Spec, StatusMovesForward

-----------------------------------------------------------------------------
(* Admission. *)

(* What handlers past the limit check have begun, and how many more may be *)
(* begun by those still to insert their session.                           *)
AdmissionInv ==
  Cardinality(Begun) + Cardinality(Inserting) <= MaxConcurrent + Cardinality(Handlers) - 1

LEMMA FiniteSets ==
  ASSUME NEW S \in SUBSET Sessions, NEW H \in SUBSET Handlers
  PROVE  /\ IsFiniteSet(S) /\ Cardinality(S) \in Nat
         /\ IsFiniteSet(H) /\ Cardinality(H) \in Nat
         /\ Cardinality(H) <= Cardinality(Handlers)
  BY FiniteAssumption, FS_Subset, FS_CardinalityType

(* Fewer sessions begun and handlers inserting leave the bound in place. *)
LEMMA NoMoreBegun ==
  ASSUME AdmissionInv, Begun' \subseteq Begun, Inserting' \subseteq Inserting
  PROVE  AdmissionInv'
<1>1. Begun \in SUBSET Sessions /\ Inserting \in SUBSET Handlers
  BY DEF Begun, Inserting
<1>2. Cardinality(Begun') <= Cardinality(Begun)
      /\ Cardinality(Inserting') <= Cardinality(Inserting)
  BY <1>1, FiniteSets, FS_Subset
<1>3. Cardinality(Begun) \in Nat /\ Cardinality(Inserting) \in Nat
      /\ Cardinality(Begun') \in Nat /\ Cardinality(Inserting') \in Nat
      /\ Cardinality(Handlers) \in Nat /\ MaxConcurrent \in Nat
  BY <1>1, FiniteSets, FiniteAssumption, FS_CardinalityType, LimitsAssumption
<1> HIDE DEF Begun, Inserting
<1> QED
  BY <1>2, <1>3 DEF AdmissionInv

LEMMA InitAdmission == Init => AdmissionInv
<1> SUFFICES ASSUME Init PROVE AdmissionInv
  OBVIOUS
<1>1. Begun = {} /\ Inserting = {}
  BY DEF Init, Begun, Inserting, Idle
<1>2. Cardinality(Handlers) \in Nat /\ MaxConcurrent \in Nat \ {0}
  BY FiniteAssumption, FS_CardinalityType, LimitsAssumption
<1> QED
  BY <1>1, <1>2, FS_EmptySet DEF AdmissionInv

LEMMA NextAdmission == IInv /\ AdmissionInv /\ [Next]_vars => AdmissionInv'
<1> SUFFICES ASSUME IInv, AdmissionInv, [Next]_vars PROVE AdmissionInv'
  OBVIOUS
<1>1. TypeOK /\ TypeOK'
  BY NextTypeOK DEF IInv
<1>2. CASE UNCHANGED vars
  BY <1>2, NoMoreBegun DEF vars, Begun, Inserting
<1>3. ASSUME NEW h \in Handlers, Admit(h)
      PROVE  AdmissionInv'
  <2>1. Begun' \subseteq Begun
    BY <1>1, <1>3 DEF Admit, Goes, Begun, TypeOK
  <2>2. Begun \subseteq Known
    BY DEF IInv, HandlerInv, SessionInv, Begun, Known
  <2>3. Cardinality(Known) < MaxConcurrent
    <3>1. Cardinality(Known) \in Nat
      BY FiniteSets DEF Known
    <3> QED
      BY <1>3, <3>1, LimitsAssumption DEF Admit, Full
  <2>4. Cardinality(Begun') <= Cardinality(Known)
    BY <2>1, <2>2, FiniteSets, FS_Subset DEF Known
  <2>5. Cardinality(Inserting') <= Cardinality(Handlers)
    BY FiniteSets DEF Inserting
  <2>6. Cardinality(Begun') \in Nat /\ Cardinality(Inserting') \in Nat
        /\ Cardinality(Handlers) \in Nat /\ Cardinality(Known) \in Nat /\ MaxConcurrent \in Nat
    BY FiniteSets, FiniteAssumption, FS_CardinalityType, LimitsAssumption DEF Begun, Inserting, Known
  <2> QED
    BY <2>3, <2>4, <2>5, <2>6 DEF AdmissionInv
<1>4. ASSUME NEW h \in Handlers, NEW s \in Sessions, Insert(h, s)
      PROVE  AdmissionInv'
  <2>1. h \in Inserting /\ Inserting' = Inserting \ {h}
    BY <1>1, <1>4 DEF Insert, Goes, Inserting, TypeOK
  <2>2. Begun' \subseteq Begun \cup {s}
    BY <1>1, <1>4 DEF Insert, Goes, Begun, TypeOK
  <2>3. Begun \in SUBSET Sessions /\ Inserting \in SUBSET Handlers
        /\ Begun \cup {s} \in SUBSET Sessions
    BY DEF Begun, Inserting
  <2>4. Cardinality(Inserting') = Cardinality(Inserting) - 1
    BY <2>1, <2>3, FiniteSets, FS_RemoveElement
  <2>5. Cardinality(Begun') <= Cardinality(Begun) + 1
    <3>1. Cardinality(Begun \cup {s}) \in {Cardinality(Begun), Cardinality(Begun) + 1}
      BY <2>3, FiniteSets, FS_AddElement
    <3>2. Cardinality(Begun') <= Cardinality(Begun \cup {s})
      BY <2>2, <2>3, FiniteSets, FS_Subset
    <3>3. Cardinality(Begun) \in Nat /\ Cardinality(Begun') \in Nat
      BY FiniteSets DEF Begun
    <3> QED
      BY <3>1, <3>2, <3>3
  <2>6. Cardinality(Begun) \in Nat /\ Cardinality(Inserting) \in Nat
        /\ Cardinality(Begun') \in Nat /\ Cardinality(Inserting') \in Nat
        /\ Cardinality(Handlers) \in Nat /\ MaxConcurrent \in Nat
    BY FiniteSets, FiniteAssumption, FS_CardinalityType, LimitsAssumption DEF Begun, Inserting
  <2> QED
    BY <2>4, <2>5, <2>6 DEF AdmissionInv
<1>5. ASSUME NEW h \in Handlers, Spawn(h)
      PROVE  AdmissionInv'
  <2>1. handler[h] = [op |-> "spawn", session |-> handler[h].session]
        /\ thread' = [thread EXCEPT ![handler[h].session] = "running"] /\ Done(h)
    BY <1>1, <1>5 DEF Spawn, TypeOK
  <2>2. Begun' \subseteq Begun
    BY <1>1, <2>1 DEF Done, Idle, Begun, TypeOK
  <2>3. Inserting' \subseteq Inserting
    BY <1>1, <2>1 DEF Done, Idle, Inserting, TypeOK
  <2> QED
    BY <2>2, <2>3, NoMoreBegun
<1>6. ASSUME NEW h \in Handlers,
             \/ SpawnFails(h) \/ TimeOut(h) \/ RecordHookEvent(h) \/ StopSession(h)
             \/ StopTooLate(h) \/ Save(h)
      PROVE  AdmissionInv'
  <2>1. Done(h) /\ UNCHANGED thread
    BY <1>6 DEF SpawnFails, TimeOut, RecordHookEvent, StopSession, StopTooLate, Save
  <2>2. Begun' \subseteq Begun /\ Inserting' \subseteq Inserting
    BY <1>1, <2>1 DEF Done, Idle, Begun, Inserting, TypeOK
  <2> QED
    BY <2>2, NoMoreBegun
<1>7. ASSUME NEW h \in Handlers, NEW s \in Sessions, CreateTracking(h, s) \/ Resolve(h, s)
      PROVE  AdmissionInv'
  <2>1. UNCHANGED thread
        /\ \/ UNCHANGED handler
           \/ \E op \in {"record", "stop", "save"} : Goes(h, op, s)
    BY <1>7 DEF CreateTracking, Resolve
  <2>2. CASE UNCHANGED handler
    <3>1. Begun' \subseteq Begun /\ Inserting' \subseteq Inserting
      BY <2>1, <2>2 DEF Begun, Inserting
    <3> QED
      BY <3>1, NoMoreBegun
  <2>3. ASSUME NEW op \in {"record", "stop", "save"}, Goes(h, op, s)
        PROVE  AdmissionInv'
    <3>1. /\ handler'[h].op \notin {"spawn", "insert"}
          /\ \A g \in Handlers \ {h} : handler'[g] = handler[g]
      BY <1>1, <2>3 DEF Goes, TypeOK
    <3>2. Begun' \subseteq Begun
      BY <2>1, <3>1 DEF Begun
    <3>3. Inserting' \subseteq Inserting
      BY <3>1 DEF Inserting
    <3> QED
      BY <3>2, <3>3, NoMoreBegun
  <2> QED
    BY <2>1, <2>2, <2>3
<1>8. ASSUME NEW s \in Sessions,
             Returns(s, "ok") \/ Returns(s, "error") \/ Panics(s) \/ Publish(s)
      PROVE  AdmissionInv'
  <2>1. thread[s] # "none" /\ UNCHANGED handler
        /\ \A t \in Sessions \ {s} : thread'[t] = thread[t]
    BY <1>1, <1>8 DEF Returns, Panics, Publish, TypeOK
  <2>2. Begun' \subseteq Begun /\ Inserting' \subseteq Inserting
    BY <1>1, <2>1 DEF Begun, Inserting
  <2> QED
    BY <2>2, NoMoreBegun
<1> QED
  BY <1>2, <1>3, <1>4, <1>5, <1>6, <1>7, <1>8 DEF Next

(* Creations that pass the limit check together exceed the limit by fewer  *)
(* threads than there are handlers.                                        *)
THEOREM Admission == Spec => []AdmissionBounded
<1>1. AdmissionInv => AdmissionBounded
  <2> SUFFICES ASSUME AdmissionInv PROVE AdmissionBounded
    OBVIOUS
  <2>1. Started \subseteq Begun /\ Begun \in SUBSET Sessions /\ Inserting \in SUBSET Handlers
    BY DEF Started, Begun, Inserting
  <2>2. Cardinality(Started) <= Cardinality(Begun)
    BY <2>1, FiniteSets, FS_Subset
  <2>3. Cardinality(Started) \in Nat /\ Cardinality(Begun) \in Nat
        /\ Cardinality(Inserting) \in Nat /\ Cardinality(Handlers) \in Nat
        /\ MaxConcurrent \in Nat
    BY <2>1, FiniteSets, FiniteAssumption, FS_CardinalityType, LimitsAssumption DEF Started
  <2> QED
    BY <2>2, <2>3 DEF AdmissionInv, AdmissionBounded
<1> QED
  BY <1>1, InitIInv, NextIInv, InitAdmission, NextAdmission, PTL DEF Spec
=============================================================================
