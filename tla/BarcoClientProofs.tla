-------------------------- MODULE BarcoClientProofs --------------------------
(***************************************************************************)
(* Theorems about BarcoClient, for any set of tasks and any number of      *)
(* calls.                                                                  *)
(***************************************************************************)
EXTENDS BarcoClient, TLAPS

------------------------------------------------------------------------------
(* The types. *)

LEMMA TransmissionType ==
    ASSUME TypeOK, NEW t \in Task, op[t] \in RequestOps
    PROVE  Transmission(t) \in Transmissions
BY DEF TypeOK, Transmission, Transmissions

LEMMA AnswersType ==
    ASSUME NEW m \in Transmissions, NEW s \in AnswersTo(m)
    PROVE  s \in Seq(Frames)
<1> DEFINE F(k) == Frame(k, m)
<1>1. \A k \in {"ack", "nack", "answer", "bad"} : F(k) \in Frames
  BY DEF Transmissions, Frame, Frames
<1>2. s \in {<<>>, <<F("bad")>>, <<F("ack"), F("answer")>>, <<F("ack"), F("bad")>>,
             <<F("answer")>>, <<F("ack")>>}
  BY Zenon DEF AnswersTo
<1> HIDE DEF F
<1>3. \A x, y \in Frames : <<>> \in Seq(Frames) /\ <<x>> \in Seq(Frames) /\ <<x, y>> \in Seq(Frames)
  OBVIOUS
<1> QED BY <1>1, <1>2, <1>3, Zenon

LEMMA TypeInit == Init => TypeOK
BY DEF Init, TypeOK, RequestOps, Transmissions, Frames

LEMMA TypeNext == TypeOK /\ [Next]_vars => TypeOK'
<1> SUFFICES ASSUME TypeOK, [Next]_vars PROVE TypeOK'
  OBVIOUS
<1> USE OpsAssumption
<1> USE DEF TypeOK, taskVars, linkVars, Goto, Stay
<1>1. ASSUME NEW t \in Task, NEW result \in {"ok", "nack", "failed", "done", "cancelled"},
             Release(t, result)
      PROVE  /\ pc' \in [Task -> {"idle", "queued", "connect", "ack", "answer", "closing"}]
             /\ op' \in [Task -> RequestOps \cup {"connect", "close"}]
             /\ calls' \in [Task -> Nat]
             /\ ahead' \in [Task -> SUBSET Task]
             /\ outcome' \in [Task -> {"none", "pending", "ok", "nack", "failed",
                                       "done", "cancelled"}]
  BY <1>1 DEF Release
<1>2. ASSUME DropLink
      PROVE  /\ link' \in {"none", "open", "eof", "lost"}
             /\ inbox' \in Seq(Transmissions)
             /\ stream' \in Seq(Frames)
             /\ stale' \subseteq Transmissions
  BY <1>2 DEF DropLink, Elements
<1>3. ASSUME NEW t \in Task, NextAttempt(t)
      PROVE  /\ pc' \in [Task -> {"idle", "queued", "connect", "ack", "answer", "closing"}]
             /\ op' \in [Task -> RequestOps \cup {"connect", "close"}]
             /\ calls' \in [Task -> Nat]
             /\ attempt' \in [Task -> {1, 2}]
             /\ ahead' \in [Task -> SUBSET Task]
             /\ outcome' \in [Task -> {"none", "pending", "ok", "nack", "failed",
                                       "done", "cancelled"}]
  BY <1>1, <1>3 DEF NextAttempt
<1>4. ASSUME NEW t \in Task, NEW result \in {"ok", "nack"}, Settle(t, result), stream # <<>>
      PROVE  TypeOK'
  <2>1. Head(stream) \in Frames /\ Tail(stream) \in Seq(Frames)
    BY <1>4
  <2>2. Head(stream).for \in Task \X Nat
    BY <2>1 DEF Frames
  <2> QED BY <1>1, <1>4, <2>1, <2>2 DEF Settle
<1>5. ASSUME NEW t \in Task, NEW o \in Ops, Call(t, o)
      PROVE  TypeOK'
  BY <1>5 DEF Call
<1>6. ASSUME NEW t \in Task, TaskStep(t)
      PROVE  TypeOK'
  <2>1. CASE Begin(t)            BY <2>1 DEF Begin
  <2>2. CASE Close(t)            BY <1>1, <1>2, <2>2 DEF Close
  <2>3. CASE AlreadyConnected(t) BY <1>1, <2>3 DEF AlreadyConnected
  <2>4. CASE OpenOnly(t)         BY <1>1, <2>4 DEF OpenOnly
  <2>5. CASE Transmit(t)         BY <2>5, TransmissionType DEF Transmit
  <2>6. CASE OpenAndTransmit(t)  BY <2>6, TransmissionType DEF OpenAndTransmit
  <2>7. CASE OpenFails(t)        BY <1>1, <1>3, <2>7 DEF OpenFails
  <2>8. CASE Rejected(t)         BY <1>4, <2>8 DEF Rejected
  <2>9. CASE Answered(t)         BY <1>4, <2>9 DEF Answered
  <2>10. CASE Acknowledged(t)    BY <2>10 DEF Acknowledged
  <2>11. CASE AttemptFails(t)    BY <1>2, <2>11 DEF AttemptFails
  <2>12. CASE Closed(t)          BY <1>1, <1>3, <2>12 DEF Closed
  <2> QED BY <1>6, <2>1, <2>2, <2>3, <2>4, <2>5, <2>6, <2>7, <2>8, <2>9, <2>10,
             <2>11, <2>12 DEF TaskStep
<1>7. ASSUME NEW t \in Task, Cancel(t)
      PROVE  TypeOK'
  BY <1>1, <1>7 DEF Cancel
<1>8. ASSUME Environment
      PROVE  TypeOK'
  <2>1. CASE Execute
    <3>1. Head(inbox) \in Transmissions /\ Tail(inbox) \in Seq(Transmissions)
      BY <2>1 DEF Execute
    <3>2. stream' \in Seq(Frames)
      BY <2>1, <3>1, AnswersType DEF Execute
    <3> QED BY <2>1, <3>1, <3>2 DEF Execute
  <2>2. CASE Refuse
    <3>1. Head(inbox) \in Transmissions /\ Tail(inbox) \in Seq(Transmissions)
      BY <2>2 DEF Refuse
    <3>2. <<Frame("nack", Head(inbox))>> \in Seq(Frames)
      BY <3>1 DEF Frame, Frames, Transmissions
    <3>3. PICK frames \in {<<>>, <<Frame("nack", Head(inbox))>>} : stream' = stream \o frames
      BY <2>2 DEF Refuse
    <3>4. frames \in Seq(Frames)
      <4>1. <<>> \in Seq(Frames)
        OBVIOUS
      <4> QED BY <3>2, <3>3, <4>1, Zenon
    <3>5. stream' \in Seq(Frames)
      BY <3>3, <3>4
    <3> QED BY <2>2, <3>1, <3>5 DEF Refuse
  <2>3. CASE PeerCloses          BY <2>3 DEF PeerCloses
  <2>4. CASE ConnectionLost      BY <2>4 DEF ConnectionLost, Elements
  <2>5. CASE HandleStale         BY <2>5 DEF HandleStale
  <2> QED BY <1>8, <2>1, <2>2, <2>3, <2>4, <2>5 DEF Environment
<1>9. CASE UNCHANGED vars
  BY <1>9 DEF vars
<1> QED BY <1>5, <1>6, <1>7, <1>8, <1>9 DEF Next, AllDone

------------------------------------------------------------------------------
(* The lock, tasks cancelled or not.  Of two tasks inside a call one is in  *)
(* line before the other, and the task that holds the lock has nobody      *)
(* before it.                                                              *)

InLine ==
    \A t, u \in Task :
        pc[t] # "idle" /\ pc[u] # "idle" /\ t # u
            => t \in ahead[u] \/ u \in ahead[t]
HolderFirst == \A t \in Task : Holding(t) => ahead[t] = {}
LockInv == InLine /\ HolderFirst

LEMMA LockInit == Init => LockInv
BY DEF Init, LockInv, InLine, HolderFirst, Holding

LEMMA LockNext == TypeOK /\ LockInv /\ [Next]_vars => LockInv'
<1> SUFFICES ASSUME TypeOK, LockInv, [Next]_vars PROVE LockInv'
  OBVIOUS
<1> USE DEF TypeOK, LockInv, InLine, HolderFirst, Holding, taskVars, linkVars, Goto, Stay
<1>1. ASSUME NEW t \in Task, NEW result, Release(t, result)
      PROVE  LockInv'
  BY <1>1 DEF Release
<1>8. ASSUME NEW t \in Task, NEW where, Goto(t, where), Stay,
             pc[t] # "idle", ahead[t] = {}
      PROVE  LockInv'
  BY <1>8
<1>2. ASSUME NEW t \in Task, NextAttempt(t), Holding(t)
      PROVE  LockInv'
  <2>1. CASE attempt[t] = 1
    <3>1. Goto(t, "connect") /\ Stay
      BY <1>2, <2>1 DEF NextAttempt
    <3>2. pc[t] # "idle" /\ ahead[t] = {}
      BY <1>2
    <3> QED BY <1>8, <3>1, <3>2
  <2>2. CASE attempt[t] # 1      BY <1>1, <1>2, <2>2 DEF NextAttempt
  <2> QED BY <2>1, <2>2
<1>3. ASSUME NEW t \in Task, NEW o \in Ops, Call(t, o)
      PROVE  LockInv'
  <2>1. /\ pc[t] = "idle"
        /\ pc' = [pc EXCEPT ![t] = "queued"]
        /\ ahead' = [ahead EXCEPT ![t] = {u \in Task : pc[u] # "idle"}]
    BY <1>3 DEF Call
  <2>2. HolderFirst'
    BY <2>1
  <2>3. InLine'
    BY <2>1
  <2> QED BY <2>2, <2>3
<1>4. ASSUME NEW t \in Task, TaskStep(t)
      PROVE  LockInv'
  <2>1. CASE Begin(t)            BY <2>1 DEF Begin, HasLock
  <2>2. CASE Close(t)
    <3>1. CASE link = "none"     BY <1>1, <2>2, <3>1 DEF Close
    <3>2. CASE link # "none"
      <4>1. Goto(t, "closing") /\ Stay /\ pc[t] # "idle" /\ ahead[t] = {}
        BY <2>2, <3>2 DEF Close, HasLock
      <4> QED BY <1>8, <4>1
    <3> QED BY <3>1, <3>2
  <2>3. CASE AlreadyConnected(t) BY <1>1, <2>3 DEF AlreadyConnected
  <2>4. CASE OpenOnly(t)         BY <1>1, <2>4 DEF OpenOnly
  <2>5. CASE Transmit(t)         BY <2>5 DEF Transmit
  <2>6. CASE OpenAndTransmit(t)  BY <2>6 DEF OpenAndTransmit
  <2>7. CASE OpenFails(t)        BY <1>1, <1>2, <2>7 DEF OpenFails
  <2>8. CASE Rejected(t)         BY <1>1, <2>8 DEF Rejected, Settle
  <2>9. CASE Answered(t)         BY <1>1, <2>9 DEF Answered, Settle
  <2>10. CASE Acknowledged(t)    BY <2>10 DEF Acknowledged
  <2>11. CASE AttemptFails(t)    BY <2>11 DEF AttemptFails
  <2>12. CASE Closed(t)          BY <1>1, <1>2, <2>12 DEF Closed
  <2> QED BY <1>4, <2>1, <2>2, <2>3, <2>4, <2>5, <2>6, <2>7, <2>8, <2>9, <2>10,
             <2>11, <2>12 DEF TaskStep
<1>5. ASSUME NEW t \in Task, Cancel(t)
      PROVE  LockInv'
  BY <1>1, <1>5 DEF Cancel
<1>6. CASE Environment
  BY <1>6 DEF Environment, Execute, Refuse, PeerCloses, ConnectionLost, HandleStale
<1>7. CASE UNCHANGED vars
  BY <1>7 DEF vars
<1> QED BY <1>3, <1>4, <1>5, <1>6, <1>7 DEF Next, AllDone

\* The types and the lock are invariant, whatever is cancelled.
THEOREM TypeCorrect == Spec => []TypeOK
<1> QED BY TypeInit, TypeNext, PTL DEF Spec

LEMMA LockCorrect == Spec => []LockInv
<1> QED BY TypeCorrect, LockInit, LockNext, PTL DEF Spec

\* At most one task is between taking the lock and releasing it.
THEOREM MutualExclusion == Spec => []OneRequestAtATime
<1>1. LockInv => OneRequestAtATime
  BY DEF LockInv, InLine, HolderFirst, OneRequestAtATime, Holding
<1> QED BY <1>1, LockCorrect, PTL

------------------------------------------------------------------------------
(* The stream.  When no task is cancelled and no read command is sent      *)
(* without reading its answer, a usable connection carries the exchange of *)
(* the task that holds the lock, and nothing else.                         *)

Orderly == ~Cancels /\ "raw_read" \notin Ops

Exchanging(t) == pc[t] \in {"ack", "answer"}

\* Where a task is says how far its call has come.
Progress ==
    \A t \in Task :
        /\ outcome[t] = "pending" <=> pc[t] # "idle"
        /\ outcome[t] # "cancelled"
        /\ pc[t] # "idle" => calls[t] > 0
        /\ op[t] # "raw_read"
        /\ Exchanging(t) => op[t] \in RequestOps
        /\ pc[t] = "answer" => op[t] = "read"
        /\ pc[t] = "connect" => op[t] # "close"

\* Nothing was carried out, or is left of a dead socket, that was not sent.
Known ==
    \A m \in executed \cup stale :
        /\ m.call \in 1 .. calls[m.task]
        /\ m.call = calls[m.task] =>
              /\ pc[m.task] # "queued"
              /\ m.attempt = attempt[m.task] => pc[m.task] # "connect"
              /\ attempt[m.task] = 1 => m.attempt = 1

Quiet ==
    ~Connected \/ (\A t \in Task : ~Exchanging(t)) => inbox = <<>> /\ stream = <<>>

Undone(m) == m \notin executed \cup stale

Exchange(t) ==
    LET m == Transmission(t) IN
    /\ pc[t] = "ack" =>
          \/ inbox = <<m>> /\ stream = <<>> /\ Undone(m)
          \/ inbox = <<>> /\ stream = <<>>
          \/ inbox = <<>> /\ stream = <<Frame("nack", m)>> /\ Undone(m)
          \/ inbox = <<>> /\ stream \in AnswersTo(m) /\ m \in executed
    /\ pc[t] = "answer" =>
          /\ inbox = <<>>
          /\ stream \in {<<>>, <<Frame("answer", m)>>, <<Frame("bad", m)>>}
          /\ m \in executed

Verdict ==
    \A t \in Task :
        /\ outcome[t] \in {"ok", "nack"} => settledBy[t] = <<t, calls[t]>>
        /\ outcome[t] = "ok" => Transmission(t) \in executed
        /\ outcome[t] = "nack" => Undone(Transmission(t))

StreamInv ==
    /\ Progress
    /\ Known
    /\ Quiet
    /\ \A t \in Task : Exchange(t)
    /\ Verdict

LEMMA FirstOfAnswers ==
    ASSUME NEW m \in Transmissions, NEW s \in AnswersTo(m), s # <<>>
    PROVE  /\ Head(s).for = <<m.task, m.call>>
           /\ Head(s).kind \in {"ack", "answer", "bad"}
           /\ Head(s).kind = "ack" =>
                 /\ Tail(s) \in {<<>>, <<Frame("answer", m)>>, <<Frame("bad", m)>>}
                 /\ m.op = "write" => Tail(s) = <<>>
           /\ Head(s).kind = "answer" => Tail(s) = <<>>
<1> DEFINE F(k) == Frame(k, m)
<1>1. /\ s \in {<<F("bad")>>, <<F("ack"), F("answer")>>, <<F("ack"), F("bad")>>,
               <<F("answer")>>, <<F("ack")>>}
      /\ m.op = "write" => s \in {<<F("bad")>>, <<F("ack")>>}
  BY DEF AnswersTo, IsReadCommand
<1>2. \A k \in {"ack", "answer", "bad"} : F(k).kind = k /\ F(k).for = <<m.task, m.call>>
  BY DEF Frame
<1> SUFFICES
      /\ Head(s).for = <<m.task, m.call>>
      /\ Head(s).kind \in {"ack", "answer", "bad"}
      /\ Head(s).kind = "ack" =>
            /\ Tail(s) \in {<<>>, <<F("answer")>>, <<F("bad")>>}
            /\ m.op = "write" => Tail(s) = <<>>
      /\ Head(s).kind = "answer" => Tail(s) = <<>>
  OBVIOUS
<1> HIDE DEF F
<1>3. CASE s = <<F("bad")>>
  BY <1>2, <1>3
<1>4. CASE s = <<F("ack"), F("answer")>>
  BY <1>1, <1>2, <1>4
<1>5. CASE s = <<F("ack"), F("bad")>>
  BY <1>1, <1>2, <1>5
<1>6. CASE s = <<F("answer")>>
  BY <1>2, <1>6
<1>7. CASE s = <<F("ack")>>
  BY <1>2, <1>7
<1> QED BY <1>1, <1>3, <1>4, <1>5, <1>6, <1>7

\* What a task finds when it reads the first frame of its exchange.
LEMMA FirstFrame ==
    ASSUME TypeOK, Progress, NEW t \in Task, Exchange(t), pc[t] = "ack", stream # <<>>
    PROVE  /\ inbox = <<>>
           /\ Head(stream).for = <<t, calls[t]>>
           /\ Head(stream).kind = "nack" =>
                 Tail(stream) = <<>> /\ Undone(Transmission(t))
           /\ Head(stream).kind = "ack" =>
                 /\ Transmission(t) \in executed
                 /\ Tail(stream) \in {<<>>, <<Frame("answer", Transmission(t))>>,
                                     <<Frame("bad", Transmission(t))>>}
                 /\ op[t] = "write" => Tail(stream) = <<>>
           /\ Head(stream).kind = "answer" =>
                 Transmission(t) \in executed /\ Tail(stream) = <<>>
<1> DEFINE m == Transmission(t)
<1>1. m \in Transmissions
  BY TransmissionType DEF Progress, Exchanging
<1>2. m.task = t /\ m.call = calls[t] /\ m.op = op[t]
  BY DEF Transmission
<1> HIDE DEF m
<1>3. CASE inbox = <<>> /\ stream = <<Frame("nack", m)>> /\ Undone(m)
  BY <1>2, <1>3 DEF Frame, m
<1>4. CASE inbox = <<>> /\ stream \in AnswersTo(m) /\ m \in executed
  BY <1>1, <1>2, <1>4, FirstOfAnswers DEF m
<1> QED BY <1>3, <1>4 DEF Exchange, m

LEMMA ElementsOf ==
    /\ Elements(<<>>) = {}
    /\ \A x : Elements(<<x>>) = {x}
<1>1. Elements(<<>>) = {}
  BY DEF Elements
<1>2. ASSUME NEW x PROVE Elements(<<x>>) = {x}
  BY DEF Elements
<1> QED BY <1>1, <1>2

LEMMA StreamInit == Init => StreamInv
BY DEF Init, StreamInv, Progress, Known, Quiet, Exchange, Verdict, Exchanging, Connected,
       RequestOps

\* Whatever is under way when a link is dropped is the request of the task
\* that holds the lock.
LEMMA UnderWay ==
    ASSUME TypeOK, LockInv, StreamInv, NEW t \in Task, Holding(t)
    PROVE  /\ \A u \in Task : Exchanging(u) => u = t
           /\ ~Exchanging(t) => inbox = <<>> /\ stream = <<>>
           /\ Elements(inbox) # {} =>
                Exchanging(t) /\ Elements(inbox) = {Transmission(t)}
<1>1. \A u \in Task : Exchanging(u) => u = t
  BY DEF LockInv, InLine, HolderFirst, Holding, Exchanging
<1>2. ~Exchanging(t) => inbox = <<>> /\ stream = <<>>
  BY <1>1 DEF StreamInv, Quiet
<1>3. Exchanging(t) => inbox \in {<<>>, <<Transmission(t)>>}
  BY DEF StreamInv, Exchange, Exchanging
<1> QED BY <1>1, <1>2, <1>3, ElementsOf

LEMMA StreamTaskStep ==
    ASSUME Orderly, TypeOK, LockInv, StreamInv, NEW t \in Task, TaskStep(t)
    PROVE  StreamInv'
<1> USE DEF TypeOK, taskVars, linkVars, Goto, Stay
<1>0. /\ \A u \in Task : Exchanging(u) => u = t
      /\ ~Exchanging(t) => inbox = <<>> /\ stream = <<>>
      /\ Elements(inbox) # {} => Exchanging(t) /\ Elements(inbox) = {Transmission(t)}
  <2>1. Holding(t) \/ HasLock(t)
    BY DEF TaskStep, Begin, Close, AlreadyConnected, OpenOnly, Transmit, OpenAndTransmit,
           OpenFails, Rejected, Answered, Acknowledged, AttemptFails, Closed, Holding
  <2>2. CASE Holding(t)
    BY <2>2, UnderWay
  <2>3. CASE HasLock(t)
    <3>1. \A u \in Task : ~Exchanging(u)
      BY <2>3 DEF HasLock, LockInv, InLine, HolderFirst, Holding, Exchanging
    <3>2. inbox = <<>> /\ stream = <<>>
      BY <3>1 DEF StreamInv, Quiet
    <3> QED BY <3>1, <3>2, ElementsOf
  <2> QED BY <2>1, <2>2, <2>3
\* Steps after which the task is not in an exchange and both directions are empty.
<1>1. ASSUME ~Exchanging(t)', \A u \in Task \ {t} : pc'[u] = pc[u],
             inbox' = <<>>, stream' = <<>>
      PROVE  Quiet' /\ \A u \in Task : Exchange(u)'
  BY <1>0, <1>1 DEF Quiet, Exchange, Exchanging
<1>2. CASE Begin(t)
  <2>1. Progress'
    BY <1>2 DEF Begin, StreamInv, Progress, Exchanging, HasLock
  <2>2. Known'
    BY <1>2 DEF Begin, StreamInv, Known, HasLock
  <2>3. Verdict'
    BY <1>2 DEF Begin, StreamInv, Verdict, Undone, Transmission
  <2>4. Quiet' /\ \A u \in Task : Exchange(u)'
    BY <1>0, <1>1, <1>2 DEF Begin, Exchanging, HasLock
  <2> QED BY <2>1, <2>2, <2>3, <2>4 DEF StreamInv
\* Ways of leaving the lock.
<1>3. ASSUME NEW result \in {"failed", "done"}, Release(t, result), ~Exchanging(t), pc[t] # "idle",
             attempt' = attempt, UNCHANGED <<settledBy, inbox, stream, stale, executed>>
      PROVE  StreamInv'
  <2>1. Progress'
    BY <1>3 DEF Release, StreamInv, Progress, Exchanging
  <2>2. Known'
    BY <1>3 DEF Release, StreamInv, Known
  <2>3. Verdict'
    BY <1>3 DEF Release, StreamInv, Verdict, Undone, Transmission
  <2>4. Quiet' /\ \A u \in Task : Exchange(u)'
    BY <1>0, <1>1, <1>3 DEF Release, Exchanging
  <2> QED BY <2>1, <2>2, <2>3, <2>4 DEF StreamInv
<1>4. ASSUME NextAttempt(t), ~Exchanging(t), pc[t] # "idle", op[t] # "close",
             UNCHANGED <<settledBy, inbox, stream, stale, executed>>
      PROVE  StreamInv'
  <2>1. CASE attempt[t] # 1
    BY <1>3, <1>4, <2>1 DEF NextAttempt
  <2>2. CASE attempt[t] = 1
    <3>1. Progress'
      BY <1>4, <2>2 DEF NextAttempt, StreamInv, Progress, Exchanging
    <3>2. Known'
      BY <1>4, <2>2 DEF NextAttempt, StreamInv, Known, Transmissions
    <3>3. Verdict'
      BY <1>4, <2>2 DEF NextAttempt, StreamInv, Progress, Verdict, Undone, Transmission
    <3>4. Quiet' /\ \A u \in Task : Exchange(u)'
      BY <1>0, <1>1, <1>4, <2>2 DEF NextAttempt, Exchanging
    <3> QED BY <3>1, <3>2, <3>3, <3>4 DEF StreamInv
  <2> QED BY <2>1, <2>2
<1>5. ASSUME NEW result \in {"ok", "nack"}, Settle(t, result), Exchanging(t),
             inbox = <<>>, Tail(stream) = <<>>, Head(stream).for = <<t, calls[t]>>,
             result = "ok" => Transmission(t) \in executed,
             result = "nack" => Undone(Transmission(t))
      PROVE  StreamInv'
  <2>1. Progress'
    BY <1>5 DEF Settle, Release, StreamInv, Progress, Exchanging
  <2>2. Known'
    BY <1>5 DEF Settle, Release, StreamInv, Known
  <2>3. Verdict'
    BY <1>5 DEF Settle, Release, StreamInv, Verdict, Undone, Transmission
  <2>4. Quiet' /\ \A u \in Task : Exchange(u)'
    BY <1>0, <1>1, <1>5 DEF Settle, Release, Exchanging
  <2> QED BY <2>1, <2>2, <2>3, <2>4 DEF StreamInv
<1>6. CASE Close(t)
  <2>1. ~Exchanging(t) /\ inbox = <<>> /\ stream = <<>> /\ pc[t] = "queued" /\ op[t] = "close"
    BY <1>0, <1>6 DEF Close, HasLock, Exchanging
  <2>2. inbox' = <<>> /\ stream' = <<>> /\ stale' = stale /\ UNCHANGED <<attempt, settledBy, executed>>
    BY <1>6, <2>1, ElementsOf DEF Close, DropLink
  <2>3. CASE link = "none"
    BY <1>3, <1>6, <2>1, <2>2, <2>3 DEF Close
  <2>4. CASE link # "none"
    <3>1. Goto(t, "closing") /\ Stay
      BY <1>6, <2>4 DEF Close
    <3>2. Progress'
      BY <2>1, <3>1 DEF StreamInv, Progress, Exchanging
    <3>3. Known'
      BY <2>1, <2>2, <3>1 DEF StreamInv, Known
    <3>4. Verdict'
      BY <2>1, <2>2, <3>1 DEF StreamInv, Verdict, Undone, Transmission
    <3>5. Quiet' /\ \A u \in Task : Exchange(u)'
      BY <1>1, <2>2, <3>1 DEF Exchanging
    <3> QED BY <3>2, <3>3, <3>4, <3>5 DEF StreamInv
  <2> QED BY <2>3, <2>4
<1>7. CASE AlreadyConnected(t)
  BY <1>3, <1>7 DEF AlreadyConnected, Exchanging
<1>8. CASE OpenOnly(t)
  BY <1>3, <1>8 DEF OpenOnly, Exchanging
<1>9. ASSUME pc[t] = "connect", op[t] \in RequestOps, Goto(t, "ack"), Stay, stream' = stream,
             inbox' \in {<<>>, <<Transmission(t)>>}, Connected',
             UNCHANGED <<attempt, settledBy, stale, executed>>
      PROVE  StreamInv'
  <2>1. Progress'
    BY <1>9 DEF StreamInv, Progress, Exchanging
  <2>2. Known'
    BY <1>9 DEF StreamInv, Known
  <2>3. Verdict'
    BY <1>9 DEF StreamInv, Verdict, Undone, Transmission
  <2>4. Undone(Transmission(t))
    BY <1>9 DEF StreamInv, Known, Undone, Transmission
  <2>5. stream' = <<>> /\ Transmission(t)' = Transmission(t) /\ Undone(Transmission(t))'
    BY <1>0, <1>9, <2>4 DEF Exchanging, Transmission, Undone
  <2>6. Exchange(t)'
    BY <1>9, <2>5 DEF Exchange
  <2>7. \A u \in Task \ {t} : Exchange(u)'
    BY <1>0, <1>9 DEF Exchange, Exchanging
  <2>8. Quiet'
    BY <1>9 DEF Quiet, Exchanging
  <2> QED BY <2>1, <2>2, <2>3, <2>6, <2>7, <2>8 DEF StreamInv
<1>10. CASE Transmit(t)
  <2>1. inbox' \in {<<>>, <<Transmission(t)>>}
    <3>1. inbox = <<>> /\ Append(<<>>, Transmission(t)) = <<Transmission(t)>>
      BY <1>0, <1>10 DEF Transmit, Exchanging
    <3> QED BY <1>10, <3>1 DEF Transmit
  <2> QED BY <1>9, <1>10, <2>1 DEF Transmit, Connected
<1>11. CASE OpenAndTransmit(t)
  BY <1>0, <1>9, <1>11 DEF OpenAndTransmit, Connected
<1>12. CASE OpenFails(t)
  <2>1. ~Exchanging(t) /\ pc[t] # "idle" /\ op[t] # "close"
    BY <1>12 DEF OpenFails, Exchanging, StreamInv, Progress
  <2> QED BY <1>3, <1>4, <1>12, <2>1 DEF OpenFails
<1>13. CASE Rejected(t)
  BY <1>5, <1>13, FirstFrame DEF Rejected, Exchanging, StreamInv
<1>14. CASE Answered(t)
  <2>1. CASE pc[t] = "ack" /\ Head(stream).kind = "answer"
    BY <1>5, <1>14, <2>1, FirstFrame DEF Answered, Exchanging, StreamInv
  <2>2. CASE pc[t] = "ack" /\ Head(stream).kind = "ack" /\ ~ExpectAnswer(op[t])
    <3>1. op[t] = "write"
      BY <2>2 DEF StreamInv, Progress, Exchanging, RequestOps, ExpectAnswer
    <3> QED BY <1>5, <1>14, <2>2, <3>1, FirstFrame DEF Answered, Exchanging, StreamInv
  <2>3. CASE pc[t] = "answer" /\ Head(stream).kind # "bad"
    <3>1. stream = <<Frame("answer", Transmission(t))>> /\ inbox = <<>>
          /\ Transmission(t) \in executed
      BY <1>14, <2>3 DEF Answered, StreamInv, Exchange, Frame
    <3>2. Head(stream).for = <<t, calls[t]>> /\ Tail(stream) = <<>>
      BY <3>1 DEF Frame, Transmission
    <3> QED BY <1>5, <1>14, <2>3, <3>1, <3>2 DEF Answered, Exchanging
  <2> QED BY <1>14, <2>1, <2>2, <2>3 DEF Answered
<1>15. CASE Acknowledged(t)
  <2>1. /\ inbox = <<>> /\ Transmission(t) \in executed
        /\ Tail(stream) \in {<<>>, <<Frame("answer", Transmission(t))>>,
                            <<Frame("bad", Transmission(t))>>}
    BY <1>15, FirstFrame DEF Acknowledged, StreamInv
  <2>2. Progress'
    BY <1>15 DEF Acknowledged, StreamInv, Progress, Exchanging, ExpectAnswer, RequestOps
  <2>3. Known'
    BY <1>15 DEF Acknowledged, StreamInv, Known
  <2>4. Verdict'
    BY <1>15 DEF Acknowledged, StreamInv, Verdict, Undone, Transmission
  <2>5. Transmission(t)' = Transmission(t)
    BY <1>15 DEF Acknowledged, Transmission
  <2>6. Exchange(t)'
    BY <1>15, <2>1, <2>5 DEF Acknowledged, Exchange
  <2>7. \A u \in Task \ {t} : Exchange(u)'
    BY <1>0, <1>15 DEF Acknowledged, Exchange, Exchanging
  <2>8. Quiet'
    BY <1>15 DEF Acknowledged, StreamInv, Quiet, Exchanging, Connected
  <2> QED BY <2>2, <2>3, <2>4, <2>6, <2>7, <2>8 DEF StreamInv
<1>16. CASE AttemptFails(t)
  <2>1. stale' \in {stale, stale \cup {Transmission(t)}} /\ inbox' = <<>> /\ stream' = <<>>
    BY <1>0, <1>16 DEF AttemptFails, DropLink
  <2>2. Progress'
    BY <1>16 DEF AttemptFails, StreamInv, Progress, Exchanging
  <2>3. Known'
    <3>1. Transmission(t).call \in 1 .. calls[t]
      <4>1. calls[t] > 0 /\ calls[t] \in Nat
        BY <1>16 DEF AttemptFails, StreamInv, Progress
      <4> QED BY <4>1 DEF Transmission
    <3> QED BY <1>16, <2>1, <3>1 DEF AttemptFails, StreamInv, Known, Transmission
  <2>4. Verdict'
    BY <1>16, <2>1 DEF AttemptFails, StreamInv, Verdict, Progress, Undone, Transmission
  <2>5. Quiet' /\ \A u \in Task : Exchange(u)'
    BY <1>1, <1>16, <2>1 DEF AttemptFails, Exchanging
  <2> QED BY <2>2, <2>3, <2>4, <2>5 DEF StreamInv
<1>17. CASE Closed(t)
  BY <1>3, <1>4, <1>17 DEF Closed, Exchanging
<1> QED BY <1>2, <1>6, <1>7, <1>8, <1>10, <1>11, <1>12, <1>13, <1>14, <1>15, <1>16, <1>17
       DEF TaskStep

LEMMA StreamEnvironment ==
    ASSUME Orderly, TypeOK, LockInv, StreamInv, Environment
    PROVE  StreamInv'
<1> USE DEF TypeOK, taskVars
<1>1. Progress'
  BY DEF StreamInv, Progress, Exchanging, Environment, Execute, Refuse, PeerCloses,
         ConnectionLost, HandleStale
<1>2. \A t, u \in Task : Exchanging(t) /\ Exchanging(u) => t = u
  BY DEF LockInv, InLine, HolderFirst, Holding, Exchanging
<1>3. ASSUME inbox # <<>>
      PROVE  \E t \in Task :
                /\ pc[t] = "ack" /\ Connected /\ inbox = <<Transmission(t)>> /\ stream = <<>>
                /\ Undone(Transmission(t)) /\ calls[t] > 0
  BY <1>3 DEF StreamInv, Quiet, Exchange, Exchanging, Progress
<1>4. CASE Execute
  <2>1. PICK t \in Task :
            /\ pc[t] = "ack" /\ Connected /\ inbox = <<Transmission(t)>> /\ stream = <<>>
            /\ Undone(Transmission(t)) /\ calls[t] > 0
    BY <1>3, <1>4 DEF Execute
  <2> DEFINE m == Transmission(t)
  <2>2. /\ inbox' = <<>> /\ executed' = executed \cup {m} /\ UNCHANGED <<stale, link, taskVars>>
    BY <1>4, <2>1 DEF Execute
  <2>3. stream' \in AnswersTo(m)
    <3>1. PICK frames \in AnswersTo(m) : stream' = stream \o frames
      BY <1>4, <2>1 DEF Execute
    <3>2. frames \in Seq(Frames)
      <4>1. m \in Transmissions
        BY <2>1, TransmissionType DEF StreamInv, Progress, Exchanging
      <4> QED BY <3>1, <4>1, AnswersType
    <3> QED BY <2>1, <3>1, <3>2
  <2>4. m' = m
    BY <2>2 DEF Transmission
  <2>5. Known'
    <3>1. m.task = t /\ m.call = calls[t] /\ m.attempt = attempt[t]
      BY DEF Transmission
    <3> QED BY <2>1, <2>2, <3>1 DEF StreamInv, Known
  <2>6. Verdict'
    BY <2>1, <2>2 DEF StreamInv, Verdict, Progress, Undone, Transmission
  <2>7. Quiet'
    BY <2>1, <2>2 DEF Quiet, Connected, Exchanging
  <2>8. Exchange(t)'
    BY <2>1, <2>2, <2>3, <2>4 DEF Exchange
  <2>9. \A u \in Task \ {t} : Exchange(u)'
    BY <1>2, <2>1, <2>2 DEF Exchange, Exchanging
  <2> QED BY <1>1, <2>5, <2>6, <2>7, <2>8, <2>9 DEF StreamInv
<1>5. CASE Refuse
  <2>1. PICK t \in Task :
            /\ pc[t] = "ack" /\ Connected /\ inbox = <<Transmission(t)>> /\ stream = <<>>
            /\ Undone(Transmission(t)) /\ calls[t] > 0
    BY <1>3, <1>5 DEF Refuse
  <2> DEFINE m == Transmission(t)
  <2>2. inbox' = <<>> /\ UNCHANGED <<executed, stale, link, taskVars>>
    BY <1>5, <2>1 DEF Refuse
  <2>3. stream' \in {<<>>, <<Frame("nack", m)>>}
    BY <1>5, <2>1 DEF Refuse
  <2>4. m' = m /\ Undone(m)'
    BY <2>1, <2>2 DEF Transmission, Undone
  <2>5. Exchange(t)'
    BY <2>1, <2>2, <2>3, <2>4 DEF Exchange
  <2>6. \A u \in Task \ {t} : Exchange(u)'
    BY <1>2, <2>1, <2>2 DEF Exchange, Exchanging
  <2>7. Quiet'
    BY <2>1, <2>2 DEF Quiet, Connected, Exchanging
  <2>8. Known' /\ Verdict'
    BY <2>2 DEF StreamInv, Known, Verdict, Undone, Transmission
  <2> QED BY <1>1, <2>5, <2>6, <2>7, <2>8 DEF StreamInv
<1>6. CASE PeerCloses
  <2>1. Known' /\ Verdict'
    BY <1>6 DEF PeerCloses, StreamInv, Known, Verdict, Undone, Transmission
  <2>2. Quiet'
    BY <1>6 DEF PeerCloses, StreamInv, Quiet, Connected, Exchanging
  <2>3. \A t \in Task : Exchange(t)'
    BY <1>6 DEF PeerCloses, StreamInv, Exchange, Undone, Transmission, AnswersTo, Frame
  <2> QED BY <1>1, <2>1, <2>2, <2>3 DEF StreamInv
<1>7. CASE ConnectionLost
  <2>1. \A m \in stale' \ stale :
            \E t \in Task : m = Transmission(t) /\ pc[t] = "ack" /\ calls[t] > 0
    BY <1>3, <1>7, ElementsOf DEF ConnectionLost
  <2>2. Known'
    <3>1. \A t \in Task : /\ Transmission(t).task = t /\ Transmission(t).call = calls[t]
                         /\ Transmission(t).attempt = attempt[t]
      BY DEF Transmission
    <3> QED BY <1>7, <2>1, <3>1 DEF ConnectionLost, StreamInv, Known
  <2>3. Verdict'
    <3>1. \A u \in Task : Transmission(u)' = Transmission(u)
      BY <1>7 DEF ConnectionLost, Transmission
    <3>2. \A u \in Task : outcome[u] = "nack" => Transmission(u) \notin stale' \ stale
      BY <2>1 DEF StreamInv, Progress, Transmission
    <3> QED BY <1>7, <3>1, <3>2 DEF ConnectionLost, StreamInv, Verdict, Undone
  <2>4. Quiet' /\ \A t \in Task : Exchange(t)'
    BY <1>7 DEF ConnectionLost, Quiet, StreamInv, Exchange, Transmission
  <2> QED BY <1>1, <2>2, <2>3, <2>4 DEF StreamInv
<1>8. CASE HandleStale
  <2>1. Known' /\ Verdict'
    BY <1>8 DEF HandleStale, StreamInv, Known, Verdict, Undone, Transmission
  <2>2. Quiet'
    BY <1>8 DEF HandleStale, StreamInv, Quiet, Connected, Exchanging
  <2>3. executed \subseteq executed' /\ executed' \cup stale' \subseteq executed \cup stale
    BY <1>8 DEF HandleStale
  <2>4. \A t \in Task : Exchange(t)'
    <3> TAKE t \in Task
    <3>1. Transmission(t)' = Transmission(t)
      BY <1>8 DEF HandleStale, Transmission
    <3> QED BY <1>8, <2>3, <3>1 DEF HandleStale, StreamInv, Exchange, Undone
  <2> QED BY <1>1, <2>1, <2>2, <2>4 DEF StreamInv
<1> QED BY <1>4, <1>5, <1>6, <1>7, <1>8 DEF Environment

LEMMA StreamNext == Orderly /\ TypeOK /\ LockInv /\ StreamInv /\ [Next]_vars => StreamInv'
<1> SUFFICES ASSUME Orderly, TypeOK, LockInv, StreamInv, [Next]_vars PROVE StreamInv'
  OBVIOUS
<1> USE DEF TypeOK, taskVars, linkVars
<1>1. ASSUME NEW t \in Task, NEW o \in Ops, Call(t, o)
      PROVE  StreamInv'
  <2>1. Progress'
    BY <1>1, OpsAssumption DEF Call, Goto, StreamInv, Progress, Exchanging, Orderly
  <2>2. Known'
    BY <1>1 DEF Call, Goto, StreamInv, Known, Transmissions
  <2>3. Verdict'
    BY <1>1 DEF Call, Goto, StreamInv, Verdict, Undone, Transmission
  <2>4. Quiet'
    BY <1>1 DEF Call, Goto, StreamInv, Quiet, Exchanging, Connected
  <2>5. \A u \in Task : Exchange(u)'
    <3> TAKE u \in Task
    <3>1. CASE u = t
      BY <1>1, <3>1 DEF Call, Goto, Exchange
    <3>2. CASE u # t
      <4>1. pc'[u] = pc[u] /\ Transmission(u)' = Transmission(u)
        BY <1>1, <3>2 DEF Call, Goto, Transmission
      <4> QED BY <1>1, <4>1 DEF Call, StreamInv, Exchange, Undone
    <3> QED BY <3>1, <3>2
  <2> QED BY <2>1, <2>2, <2>3, <2>4, <2>5 DEF StreamInv
<1>2. ASSUME NEW t \in Task, TaskStep(t)
      PROVE  StreamInv'
  BY <1>2, StreamTaskStep
<1>3. ASSUME NEW t \in Task, Cancel(t)
      PROVE  StreamInv'
  BY <1>3 DEF Cancel, Orderly
<1>4. CASE Environment
  BY <1>4, StreamEnvironment
<1>5. CASE UNCHANGED vars
  BY <1>5 DEF vars, StreamInv, Progress, Known, Quiet, Exchange, Verdict, Exchanging,
              Connected, Undone, Transmission
<1> QED BY <1>1, <1>2, <1>3, <1>4, <1>5 DEF Next, AllDone

LEMMA StreamCorrect == ASSUME Orderly PROVE Spec => []StreamInv
<1> QED BY StreamInit, StreamNext, TypeCorrect, LockCorrect, PTL DEF Spec

\* The frame that ends a call answers that call: no answer is ever taken for
\* the answer to another command.
THEOREM OwnAnswers == ASSUME Orderly PROVE Spec => []AnswerIsOwn
<1>1. StreamInv => AnswerIsOwn
  BY DEF StreamInv, Verdict, AnswerIsOwn
<1> QED BY <1>1, StreamCorrect, PTL

\* Nothing is under way on a usable connection while no task holds it.
THEOREM QuietConnection == ASSUME Orderly PROVE Spec => []QuietWhenFree
<1>1. StreamInv => QuietWhenFree
  BY DEF StreamInv, Quiet, QuietWhenFree, Holding, Exchanging
<1> QED BY <1>1, StreamCorrect, PTL

\* "ok" means carried out; a refusal means that the refused attempt was not.
THEOREM TrueOutcomes == ASSUME Orderly PROVE Spec => []OutcomeIsTrue
<1>1. StreamInv => OutcomeIsTrue
  BY DEF StreamInv, Verdict, Undone, OutcomeIsTrue
<1> QED BY <1>1, StreamCorrect, PTL
------------------------------------------------------------------------------
(* Action properties, tasks cancelled or not. *)

\* Tasks take the lock in the order in which they asked for it.
THEOREM Fifo == Spec => FirstComeFirstServed
<1> DEFINE A == \A t, u \in Task :
                  pc[t] = "queued" /\ pc'[t] # "queued" /\ outcome'[t] # "cancelled"
                      => ~(pc[u] # "idle" /\ t # u /\ t \notin ahead[u])
<1>1. TypeOK /\ LockInv /\ [Next]_vars => [A]_vars
  <2> SUFFICES ASSUME TypeOK, LockInv, Next, NEW t \in Task, NEW u \in Task,
                      pc[t] = "queued", pc'[t] # "queued", outcome'[t] # "cancelled"
               PROVE  ~(pc[u] # "idle" /\ t # u /\ t \notin ahead[u])
    OBVIOUS
  <2> USE DEF TypeOK, taskVars, linkVars, Goto, Stay
  <2>1. ASSUME NEW v \in Task, TaskStep(v)
        PROVE  pc[v] # "idle" /\ ahead[v] = {} /\ pc' = [pc EXCEPT ![v] = pc'[v]]
    BY <2>1 DEF TaskStep, Begin, Close, AlreadyConnected, OpenOnly, Transmit, OpenAndTransmit,
           OpenFails, Rejected, Answered, Acknowledged, AttemptFails, Closed, Settle, Release,
           NextAttempt, HasLock, LockInv, HolderFirst, Holding
  <2>2. ASSUME NEW v \in Task, NEW o \in Ops, Call(v, o) PROVE FALSE
    BY <2>2 DEF Call
  <2>3. ASSUME NEW v \in Task, Cancel(v) PROVE FALSE
    BY <2>3 DEF Cancel, Release
  <2>4. ~Environment /\ ~AllDone
    BY DEF Environment, Execute, Refuse, PeerCloses, ConnectionLost, HandleStale, AllDone, vars
  <2>5. ahead[t] = {}
    BY <2>1, <2>2, <2>3, <2>4 DEF Next
  <2> QED BY <2>5 DEF LockInv, InLine
<1> QED BY <1>1, TypeCorrect, LockCorrect, PTL DEF Spec, FirstComeFirstServed

\* A connection that is gone carries nothing, and a task that closes one is
\* the only one that could have opened another.
Gone ==
    /\ ~Connected => stream = <<>> /\ inbox = <<>>
    /\ \A t \in Task : pc[t] = "closing" => link = "none"

LEMMA GoneNext == TypeOK /\ LockInv /\ Gone /\ [Next]_vars => Gone'
<1> SUFFICES ASSUME TypeOK, LockInv, Gone, [Next]_vars PROVE Gone'
  OBVIOUS
<1> USE DEF TypeOK, Gone, Connected, taskVars, linkVars, Goto, Stay
<1>1. \A t, u \in Task : (Holding(t) \/ HasLock(t)) /\ pc[u] = "closing" => t = u
  BY DEF LockInv, InLine, HolderFirst, Holding, HasLock
<1>2. ASSUME NEW t \in Task, NextAttempt(t), pc[t] = "connect" \/ pc[t] = "closing",
             UNCHANGED <<inbox, stream>>, ~Connected, link' = "none"
      PROVE  Gone'
  BY <1>2 DEF NextAttempt, Release
<1>3. ASSUME NEW t \in Task, NEW o \in Ops, Call(t, o)
      PROVE  Gone'
  BY <1>3 DEF Call
<1>4. ASSUME NEW t \in Task, Cancel(t)
      PROVE  Gone'
  BY <1>4 DEF Cancel, Release
<1>5. ASSUME NEW t \in Task, TaskStep(t)
      PROVE  Gone'
  <2>1. CASE Begin(t)            BY <2>1 DEF Begin
  <2>2. CASE Close(t)            BY <2>2 DEF Close, DropLink, Release
  <2>3. CASE AlreadyConnected(t) BY <2>3 DEF AlreadyConnected, Release
  <2>4. CASE OpenOnly(t)         BY <1>1, <2>4 DEF OpenOnly, Release, Holding
  <2>5. CASE Transmit(t)         BY <2>5 DEF Transmit
  <2>6. CASE OpenAndTransmit(t)  BY <1>1, <2>6 DEF OpenAndTransmit, Holding
  <2>7. CASE OpenFails(t)        BY <1>2, <2>7 DEF OpenFails, Release
  <2>8. CASE Rejected(t)         BY <2>8 DEF Rejected, Settle, Release
  <2>9. CASE Answered(t)         BY <2>9 DEF Answered, Settle, Release
  <2>10. CASE Acknowledged(t)    BY <2>10 DEF Acknowledged
  <2>11. CASE AttemptFails(t)    BY <2>11 DEF AttemptFails, DropLink
  <2>12. CASE Closed(t)          BY <1>2, <2>12 DEF Closed, Release
  <2> QED BY <1>5, <2>1, <2>2, <2>3, <2>4, <2>5, <2>6, <2>7, <2>8, <2>9, <2>10,
             <2>11, <2>12 DEF TaskStep
<1>6. CASE Environment
  BY <1>6 DEF Environment, Execute, Refuse, PeerCloses, ConnectionLost, HandleStale
<1>7. CASE UNCHANGED vars
  BY <1>7 DEF vars
<1> QED BY <1>3, <1>4, <1>5, <1>6, <1>7 DEF Next, AllDone

\* A second attempt never meets what the first one left on the connection.
THEOREM FreshRetry == Spec => RetryOnFreshConnection
<1> DEFINE A == \A t \in Task :
                  attempt[t] = 1 /\ attempt'[t] = 2
                      => link' = "none" /\ stream' = <<>> /\ inbox' = <<>>
<1>1. Init => Gone
  BY DEF Init, Gone, Connected
<1>2. TypeOK /\ LockInv /\ Gone /\ [Next]_vars => [A]_vars
  <2> SUFFICES ASSUME TypeOK, LockInv, Gone, Next, NEW t \in Task,
                      attempt[t] = 1, attempt'[t] = 2
               PROVE  link' = "none" /\ stream' = <<>> /\ inbox' = <<>>
    OBVIOUS
  <2> USE DEF TypeOK, Gone, Connected, taskVars, linkVars
  <2>1. ASSUME NEW u \in Task, TaskStep(u) PROVE OpenFails(u) \/ Closed(u)
    BY <2>1 DEF TaskStep, Begin, Close, AlreadyConnected, OpenOnly, Transmit, OpenAndTransmit,
                Rejected, Answered, Acknowledged, AttemptFails, Settle
  <2>2. ASSUME NEW u \in Task, OpenFails(u) \/ Closed(u)
        PROVE  link' = "none" /\ stream' = <<>> /\ inbox' = <<>>
    BY <2>2 DEF OpenFails, Closed
  <2>3. ASSUME NEW u \in Task, NEW o \in Ops, Call(u, o) PROVE FALSE
    BY <2>3 DEF Call
  <2>4. ASSUME NEW u \in Task, Cancel(u) PROVE FALSE
    BY <2>4 DEF Cancel
  <2>5. ~Environment /\ ~AllDone
    BY DEF Environment, Execute, Refuse, PeerCloses, ConnectionLost, HandleStale, AllDone, vars
  <2> QED BY <2>1, <2>2, <2>3, <2>4, <2>5 DEF Next
<1> QED BY <1>1, <1>2, GoneNext, TypeCorrect, LockCorrect, PTL DEF Spec, RetryOnFreshConnection
------------------------------------------------------------------------------
(* The refinement. *)


LEMMA SerialInit == Init => Serial!Init
BY DEF Init, Effects, Serial!Init

LEMMA SerialNext ==
    ASSUME TypeOK, LockInv, StreamInv, [Next]_vars, StreamInv', Orderly
    PROVE  [Serial!Next]_(Serial!vars)
<1> USE DEF TypeOK, taskVars, linkVars, Effects
<1>1. \A t \in Task : Serial!Pending(t) <=> pc[t] # "idle"
  BY DEF StreamInv, Progress, Serial!Pending
<1>2. ASSUME NEW t \in Task, NEW o \in Ops, Call(t, o)
      PROVE  Serial!Ask(t)
  BY <1>1, <1>2 DEF Call, Serial!Ask
<1>3. ASSUME NEW t \in Task, NEW result \in {"ok", "nack", "failed", "done"}, Release(t, result),
             pc[t] # "idle", ahead[t] = {}, UNCHANGED <<attempt, executed>>
      PROVE  Serial!Return(t, result)
  <2>1. result = "ok" => \E nth \in {1, 2} : <<t, calls[t], nth>> \in Effects
    <3> HAVE result = "ok"
    <3>1. Transmission(t)' \in executed'
      BY <1>3 DEF Release, StreamInv, Verdict
    <3>2. Transmission(t) \in executed
      BY <1>3, <3>1 DEF Release, Transmission
    <3>3. <<t, calls[t], attempt[t]>> \in Effects
      <4>1. /\ Transmission(t).task = t
            /\ Transmission(t).call = calls[t]
            /\ Transmission(t).attempt = attempt[t]
        BY DEF Transmission
      <4> QED BY <3>2, <4>1
    <3> QED BY <3>3
  <2>2. Serial!Leave(t, result)
    BY <1>3 DEF Release, Serial!Leave
  <2> QED BY <1>1, <1>3, <2>1, <2>2 DEF Serial!Return, Serial!Turn
<1>4. ASSUME NEW t \in Task, TaskStep(t)
      PROVE  \/ \E result \in {"ok", "nack", "failed", "done"} : Serial!Return(t, result)
             \/ UNCHANGED Serial!vars
  <2>1. pc[t] # "idle" /\ ahead[t] = {}
    BY <1>4 DEF TaskStep, Begin, Close, AlreadyConnected, OpenOnly, Transmit, OpenAndTransmit,
                OpenFails, Rejected, Answered, Acknowledged, AttemptFails, Closed, HasLock,
                LockInv, HolderFirst, Holding
  <2>2. UNCHANGED executed
    BY <1>4 DEF TaskStep, Begin, Close, AlreadyConnected, OpenOnly, Transmit, OpenAndTransmit,
                OpenFails, Rejected, Answered, Acknowledged, AttemptFails, Closed, Settle
  <2>3. \/ Stay
        \/ /\ UNCHANGED attempt
           /\ \E result \in {"ok", "nack", "failed", "done"} : Release(t, result)
    BY <1>4 DEF TaskStep, Begin, Close, AlreadyConnected, OpenOnly, Transmit, OpenAndTransmit,
                OpenFails, Rejected, Answered, Acknowledged, AttemptFails, Closed, Settle,
                NextAttempt
  <2>4. CASE Stay
    BY <2>2, <2>4 DEF Stay, Serial!vars
  <2> QED BY <1>3, <2>1, <2>2, <2>3, <2>4
<1>5. ASSUME NEW m \in executed', executed' = executed \cup {m}, UNCHANGED taskVars
      PROVE  \E t \in Task : \E c \in 1 .. calls[t], nth \in {1, 2} : Serial!Act(t, c, nth)
  <2> DEFINE t == m.task
             c == m.call
             nth == m.attempt
  <2>1. TypeOK'
    BY TypeNext
  <2>2. t \in Task /\ nth \in {1, 2}
    BY <2>1 DEF Transmissions
  <2>3. c \in 1 .. calls[t] /\ (c = calls[t] => pc[t] # "queued")
    BY <1>5 DEF StreamInv, Known
  <2>4. c = calls[t] /\ Serial!Pending(t) => Serial!Turn(t)
    <3>1. pc[t] \notin {"idle", "queued"} => ahead[t] = {}
      BY <2>2 DEF LockInv, HolderFirst, Holding
    <3> QED BY <1>1, <2>2, <2>3, <3>1 DEF Serial!Turn
  <2>5. {<<x.task, x.call, x.attempt>> : x \in executed'} = Effects \cup {<<t, c, nth>>}
    BY <1>5
  <2>6. Serial!Act(t, c, nth)
    BY <1>5, <2>3, <2>4, <2>5 DEF Serial!Act
  <2> QED BY <2>2, <2>3, <2>6
<1>6. CASE Environment
  <2>1. UNCHANGED taskVars /\ (executed' = executed \/ \E m \in executed' : executed' = executed \cup {m})
    BY <1>6 DEF Environment, Execute, Refuse, PeerCloses, ConnectionLost, HandleStale
  <2> QED BY <1>5, <2>1 DEF Serial!Next, Serial!vars
<1>7. CASE UNCHANGED vars
  BY <1>7 DEF vars, Serial!vars
<1>8. ASSUME NEW t \in Task, Cancel(t) PROVE FALSE
  BY <1>8 DEF Cancel, Orderly
<1> QED BY <1>2, <1>4, <1>6, <1>7, <1>8 DEF Next, AllDone, Serial!Next

\* BarcoClient implements SerialCalls.
THEOREM Refinement == ASSUME Orderly PROVE Spec => ImplementsSerialCalls
<1>1. ASSUME TypeOK, LockInv, StreamInv, [Next]_vars, StreamInv'
      PROVE  [Serial!Next]_(Serial!vars)
  BY <1>1, SerialNext
<1> QED BY <1>1, SerialInit, TypeCorrect, LockCorrect, StreamCorrect, PTL
        DEF Spec, ImplementsSerialCalls, Serial!Spec
==============================================================================
