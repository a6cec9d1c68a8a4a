-------------------------- MODULE IcmpClientProofs --------------------------
(***************************************************************************)
(* Theorems about IcmpClient, for any set of tasks, any number of calls,   *)
(* late replies and cancellation.                                          *)
(***************************************************************************)
EXTENDS IcmpClient, TLAPS

------------------------------------------------------------------------------
(* Sequences: what is in one after it has grown or shrunk. *)

LEMMA InSeq ==
    ASSUME NEW S, NEW s \in Seq(S)
    PROVE  Elements(s) \subseteq S
BY DEF Elements

LEMMA InAppend ==
    ASSUME NEW S, NEW s \in Seq(S), NEW e \in S
    PROVE  Append(s, e) \in Seq(S) /\ Elements(Append(s, e)) = Elements(s) \cup {e}
BY DEF Elements

LEMMA InConcat ==
    ASSUME NEW S, NEW s \in Seq(S), NEW t \in Seq(S)
    PROVE  s \o t \in Seq(S) /\ Elements(s \o t) = Elements(s) \cup Elements(t)
<1>1. /\ s \o t \in Seq(S) /\ Len(s \o t) = Len(s) + Len(t)
      /\ \A i \in 1 .. Len(s) : (s \o t)[i] = s[i]
      /\ \A i \in 1 .. Len(t) : (s \o t)[Len(s) + i] = t[i]
  OBVIOUS
<1>2. Elements(s) \cup Elements(t) \subseteq Elements(s \o t)
  <2>1. Elements(s) \subseteq Elements(s \o t)
    BY <1>1 DEF Elements
  <2>2. \A i \in 1 .. Len(t) : Len(s) + i \in 1 .. Len(s \o t)
    BY <1>1
  <2>3. Elements(t) \subseteq Elements(s \o t)
    BY <1>1, <2>2, Zenon DEF Elements
  <2> QED BY <2>1, <2>3
<1>3. ASSUME NEW i \in 1 .. Len(s \o t)
      PROVE  (s \o t)[i] \in Elements(s) \cup Elements(t)
  <2>1. CASE i \in 1 .. Len(s)
    BY <1>1, <2>1 DEF Elements
  <2>2. CASE i - Len(s) \in 1 .. Len(t)
    BY <1>1, <2>2 DEF Elements
  <2> QED BY <1>1, <2>1, <2>2
<1> QED BY <1>1, <1>2, <1>3 DEF Elements

LEMMA InSubSeq ==
    ASSUME NEW S, NEW s \in Seq(S), NEW m \in 1 .. Len(s) + 1, NEW n \in 0 .. Len(s)
    PROVE  SubSeq(s, m, n) \in Seq(S) /\ Elements(SubSeq(s, m, n)) \subseteq Elements(s)
BY DEF Elements

LEMMA InTail ==
    ASSUME NEW S, NEW s \in Seq(S), s # <<>>
    PROVE  /\ Head(s) \in S /\ Tail(s) \in Seq(S)
           /\ Elements(s) = Elements(Tail(s)) \cup {Head(s)}
<1>1. /\ Head(s) = s[1] /\ Tail(s) \in Seq(S) /\ Len(Tail(s)) = Len(s) - 1 /\ Len(s) > 0
      /\ \A i \in 1 .. Len(s) - 1 : Tail(s)[i] = s[i + 1]
  OBVIOUS
<1>2. ASSUME NEW i \in 1 .. Len(s), i # 1
      PROVE  s[i] \in Elements(Tail(s))
  <2>1. i - 1 \in 1 .. Len(Tail(s)) /\ s[i] = Tail(s)[i - 1]
    BY <1>1, <1>2
  <2> QED BY <2>1 DEF Elements
<1> QED BY <1>1, <1>2 DEF Elements

LEMMA HeadOfAppend ==
    ASSUME NEW S, NEW s \in Seq(S), NEW e \in S
    PROVE  Append(s, e) # <<>> /\ (s # <<>> => Head(Append(s, e)) = Head(s))
<1>1. Append(s, e) \in Seq(S) /\ Len(Append(s, e)) = Len(s) + 1 /\ Len(s) \in Nat
  OBVIOUS
<1>2. Append(s, e) # <<>>
  BY <1>1
<1>3. ASSUME s # <<>> PROVE Head(Append(s, e)) = Head(s)
  <2>1. Len(s) > 0
    BY <1>3
  <2>2. Append(s, e)[1] = s[1]
    BY <1>1, <2>1
  <2>3. Head(s) = s[1] /\ Head(Append(s, e)) = Append(s, e)[1]
    BY <1>1, <1>2, <1>3
  <2> QED BY <2>2, <2>3
<1> QED BY <1>2, <1>3

LEMMA InEmpty == Elements(<<>>) = {}
BY DEF Elements

LEMMA InConstant ==
    ASSUME NEW S, NEW e \in S, NEW n \in 0 .. 2
    PROVE  [i \in 1 .. n |-> e] \in Seq(S) /\ Elements([i \in 1 .. n |-> e]) \subseteq {e}
BY DEF Elements

------------------------------------------------------------------------------
(* The invariants. *)

\* What a task that holds the lock is about.
Stage ==
    \A t \in Task :
        /\ pc[t] \in {"connect", "greeting"} => op[t] # "close"
        /\ pc[t] \in {"write", "reply"} => op[t] \in Commands
        /\ outcome[t] = "pending" <=> pc[t] # "idle"
        /\ pc[t] # "idle" => calls[t] > 0

\* As in BarcoClientProofs: of two tasks inside a call one is in line before
\* the other, and the task that holds the lock has nobody before it.
InLine ==
    \A t, u \in Task :
        pc[t] # "idle" /\ pc[u] # "idle" /\ t # u
            => t \in ahead[u] \/ u \in ahead[t]
HolderFirst == \A t \in Task : Holding(t) => ahead[t] = {}
LockInv == InLine /\ HolderFirst

\* The commands that the server has carried out or may still carry out: one
\* for a call, of a call that has written it and did not fail.
Waiting == stale \cup Elements(inbox)
Copies == {m \in executed \cup Waiting : IsCommand(m)}

CopyOK(m) ==
    /\ m.call \in 1 .. calls[m.task]
    /\ m.call = calls[m.task] =>
          pc[m.task] \in {"reply", "idle"} /\ outcome[m.task] # "failed"

SentInv ==
    /\ \A m \in Copies : CopyOK(m)
    /\ \A m, n \in Copies : CallOf(m) = CallOf(n) => m = n

\* No command is in two places, thus none is carried out twice.
Apart ==
    /\ \A m \in stale \cup executed : IsCommand(m) => m \notin Elements(inbox)
    /\ \A m \in executed : IsCommand(m) => m \notin stale
    /\ \A i, j \in 1 .. Len(inbox) :
          IsCommand(inbox[i]) /\ inbox[i] = inbox[j] => i = j

\* The greeting is the first thing a socket carries.
GreetingInv ==
    /\ link # "open" => inbox = <<>>
    /\ link = "open" /\ ~acking => inbox # <<>> /\ Head(inbox).op = "greeting"

\* A command written when nothing was under way finds its own reply only.
OwnReply ==
    \A t \in Task : pc[t] = "reply" /\ ~behind[t] =>
        /\ \A m \in Elements(inbox) : CallOf(m) = <<t, calls[t]>>
        /\ \A r \in Elements(stream) : r.for = <<t, calls[t]>>
------------------------------------------------------------------------------
(* The types. *)

LEMMA MessageType ==
    ASSUME TypeOK, NEW t \in Task, NEW o \in Commands \cup {"greeting"}
    PROVE  /\ Message(t, o) \in Messages
           /\ Message(t, o).op = o /\ CallOf(Message(t, o)) = <<t, calls[t]>>
           /\ Message(t, o).task = t /\ Message(t, o).call = calls[t]
BY DEF TypeOK, Message, Messages, CallOf

\* The replies to the command at the head, if there are any, join the stream.
LEMMA AnswerStream ==
    ASSUME TypeOK, inbox # <<>>, NEW kind \in {"ack", "nack"}, Answer(kind)
    PROVE  /\ stream' \in Seq(Replies)
           /\ Elements(stream') \subseteq Elements(stream) \cup {Reply(kind, Head(inbox))}
<1> DEFINE r == Reply(kind, Head(inbox))
<1>1. r \in Replies
  <2>1. Head(inbox) \in Messages
    BY InTail DEF TypeOK
  <2> QED BY <2>1 DEF Reply, Replies, Messages
<1>2. PICK n \in 0 .. 2 : stream' = stream \o [i \in 1 .. n |-> r]
  BY DEF Answer
<1> HIDE DEF r
<1>3. [i \in 1 .. n |-> r] \in Seq(Replies) /\ Elements([i \in 1 .. n |-> r]) \subseteq {r}
  BY <1>1, InConstant
<1>4. stream \in Seq(Replies)
  BY DEF TypeOK
<1>5. /\ stream' \in Seq(Replies)
      /\ Elements(stream') = Elements(stream) \cup Elements([i \in 1 .. n |-> r])
  <2> DEFINE s == [i \in 1 .. n |-> r]
  <2>1. s \in Seq(Replies) /\ stream' = stream \o s
    BY <1>2, <1>3
  <2> HIDE DEF s
  <2>2. stream \o s \in Seq(Replies) /\ Elements(stream \o s) = Elements(stream) \cup Elements(s)
    BY <1>4, <2>1, InConcat
  <2>3. Elements(stream') = Elements(stream \o s)
    BY <2>1
  <2> QED BY <2>1, <2>2, <2>3 DEF s
<1> QED BY <1>3, <1>5 DEF r

LEMMA ReadType ==
    ASSUME TypeOK, NEW n, ReadSome(n)
    PROVE  /\ stream' \in Seq(Replies)
           /\ Elements(stream') \subseteq Elements(stream)
           /\ SubSeq(stream, 1, n) \in Seq(Replies)
           /\ Elements(SubSeq(stream, 1, n)) \subseteq Elements(stream)
<1>1. n \in 1 .. Len(stream) /\ stream \in Seq(Replies) /\ Len(stream) \in Nat
  BY DEF TypeOK, ReadSome
<1>2. stream' = SubSeq(stream, n + 1, Len(stream))
  BY DEF ReadSome
<1>3. /\ n + 1 \in 1 .. Len(stream) + 1 /\ Len(stream) \in 0 .. Len(stream)
      /\ 1 \in 1 .. Len(stream) + 1 /\ n \in 0 .. Len(stream)
  BY <1>1
<1>4. /\ SubSeq(stream, n + 1, Len(stream)) \in Seq(Replies)
      /\ Elements(SubSeq(stream, n + 1, Len(stream))) \subseteq Elements(stream)
  BY <1>1, <1>3, InSubSeq
<1>5. /\ SubSeq(stream, 1, n) \in Seq(Replies)
      /\ Elements(SubSeq(stream, 1, n)) \subseteq Elements(stream)
  BY <1>1, <1>3, InSubSeq
<1>6. Elements(stream') = Elements(SubSeq(stream, n + 1, Len(stream)))
  BY <1>2
<1> QED BY <1>2, <1>4, <1>5, <1>6

LEMMA TypeInit == Init => TypeOK /\ Stage
<1>1. Init => TypeOK
  <2> SUFFICES ASSUME Init PROVE TypeOK
    OBVIOUS
  <2>1. /\ pc \in [Task -> {"idle", "queued", "connect", "greeting", "write", "reply", "closing"}]
        /\ op \in [Task -> Commands \cup {"connect", "close"}]
        /\ calls \in [Task -> Nat] /\ attempt \in [Task -> {1, 2}]
    BY DEF Init
  <2>2. /\ ahead \in [Task -> SUBSET Task]
        /\ outcome \in [Task -> {"none", "pending", "ok", "nack", "failed", "done", "cancelled"}]
        /\ refusals \in [Task -> SUBSET (Task \X Nat)] /\ behind \in [Task -> BOOLEAN]
    BY DEF Init
  <2>3. link \in {"none", "open", "eof", "lost"} /\ acking \in BOOLEAN
    BY DEF Init
  <2>4. inbox \in Seq(Messages) /\ stream \in Seq(Replies)
    BY DEF Init
  <2>5. stale \subseteq Messages /\ executed \subseteq Messages
    BY DEF Init
  <2> QED BY <2>1, <2>2, <2>3, <2>4, <2>5 DEF TypeOK
<1>2. Init => Stage
  BY DEF Init, Stage
<1> QED BY <1>1, <1>2

LEMMA TypeNext == TypeOK /\ Stage /\ [Next]_vars => TypeOK'
<1> SUFFICES ASSUME TypeOK, Stage, [Next]_vars PROVE TypeOK'
  OBVIOUS
<1> USE OpsAssumption
<1> USE DEF TypeOK, taskVars, linkVars, Goto
<1>1. ASSUME NEW t \in Task, NEW result \in {"ok", "nack", "failed", "done", "cancelled"},
             Release(t, result)
      PROVE  /\ pc' \in [Task -> {"idle", "queued", "connect", "greeting", "write", "reply",
                                   "closing"}]
             /\ op' \in [Task -> Commands \cup {"connect", "close"}]
             /\ calls' \in [Task -> Nat]
             /\ ahead' \in [Task -> SUBSET Task]
             /\ outcome' \in [Task -> {"none", "pending", "ok", "nack", "failed", "done",
                                        "cancelled"}]
  BY <1>1 DEF Release
<1>2. ASSUME DropLink
      PROVE  /\ link' \in {"none", "open", "eof", "lost"}
             /\ inbox' \in Seq(Messages) /\ stream' \in Seq(Replies)
             /\ acking' \in BOOLEAN /\ stale' \subseteq Messages /\ executed' \subseteq Messages
  BY <1>2 DEF DropLink, Elements
<1>3. ASSUME NEW t \in Task, NextAttempt(t)
      PROVE  /\ pc' \in [Task -> {"idle", "queued", "connect", "greeting", "write", "reply",
                                   "closing"}]
             /\ op' \in [Task -> Commands \cup {"connect", "close"}]
             /\ calls' \in [Task -> Nat]
             /\ attempt' \in [Task -> {1, 2}]
             /\ ahead' \in [Task -> SUBSET Task]
             /\ outcome' \in [Task -> {"none", "pending", "ok", "nack", "failed", "done",
                                        "cancelled"}]
  BY <1>1, <1>3 DEF NextAttempt
<1>4. ASSUME NEW t \in Task, NEW o \in Ops, Call(t, o)
      PROVE  TypeOK'
  BY <1>4 DEF Call
<1>5. ASSUME NEW t \in Task, TaskStep(t)
      PROVE  TypeOK'
  <2>1. CASE Begin(t)            BY <2>1 DEF Begin
  <2>2. CASE Close(t)            BY <1>1, <1>2, <2>2 DEF Close
  <2>3. CASE AlreadyConnected(t) BY <1>1, <2>3 DEF AlreadyConnected
  <2>4. CASE Open(t)
    <3>1. inbox' \in Seq(Messages)
      <4>1. Message(t, "greeting") \in Messages
        BY MessageType
      <4> QED BY <2>4, <4>1 DEF Open
    <3> QED BY <2>4, <3>1 DEF Open
  <2>5. CASE OpenFails(t)        BY <1>1, <1>3, <2>5 DEF OpenFails
  <2>6. CASE GreetingFails(t)    BY <1>1, <2>6 DEF GreetingFails
  <2>7. CASE Greeted(t)
    <3>1. stream' \in Seq(Replies) /\ UNCHANGED <<link, inbox, acking, stale, executed>>
      BY <2>7, ReadType DEF Greeted, NothingRead, ReadSome
    <3> QED BY <1>1, <2>7, <3>1 DEF Greeted
  <2>8. CASE Write(t)
    <3>1. op[t] \in Commands
      BY <2>8 DEF Write, AboutToWrite, Stage
    <3>2. Append(inbox, Message(t, op[t])) \in Seq(Messages)
      <4>1. Message(t, op[t]) \in Messages
        BY <3>1, MessageType
      <4> QED BY <4>1
    <3> QED BY <2>8, <3>2 DEF Write
  <2>9. CASE WriteFails(t)       BY <1>2, <2>9 DEF WriteFails
  <2>10. CASE Unanswered(t)      BY <1>1, <2>10 DEF Unanswered, NothingRead
  <2>11. CASE Answered(t)
    <3>1. PICK n \in 1 .. Len(stream) :
             LET nacks == {r \in Elements(SubSeq(stream, 1, n)) : r.kind = "nack"} IN
             /\ ReadSome(n)
             /\ refusals' = [refusals EXCEPT ![t] = {r.for : r \in nacks}]
             /\ Release(t, IF nacks = {} THEN "ok" ELSE "nack")
      BY <2>11 DEF Answered
    <3>2. stream' \in Seq(Replies) /\ UNCHANGED <<link, inbox, acking, stale, executed>>
      BY <3>1, ReadType DEF ReadSome
    <3>3. \A r \in Elements(SubSeq(stream, 1, n)) : r.for \in Task \X Nat
      <4>1. Elements(SubSeq(stream, 1, n)) \subseteq Replies
        BY <3>1, ReadType, InSeq
      <4> QED BY <4>1 DEF Replies
    <3>4. refusals' \in [Task -> SUBSET (Task \X Nat)]
      BY <3>1, <3>3
    <3>5. \E result \in {"ok", "nack"} : Release(t, result)
      BY <3>1
    <3> QED BY <1>1, <2>11, <3>2, <3>4, <3>5 DEF Answered
  <2>12. CASE Closed(t)          BY <1>1, <1>3, <2>12 DEF Closed
  <2> QED BY <1>5, <2>1, <2>2, <2>3, <2>4, <2>5, <2>6, <2>7, <2>8, <2>9, <2>10,
             <2>11, <2>12 DEF TaskStep
<1>6. ASSUME NEW t \in Task, Cancel(t)
      PROVE  TypeOK'
  BY <1>1, <1>6 DEF Cancel
<1>7. ASSUME Server
      PROVE  TypeOK'
  <2>1. CASE Execute
    <3>1. Head(inbox) \in Messages /\ Tail(inbox) \in Seq(Messages)
      BY <2>1, InTail DEF Execute
    <3>2. stream' \in Seq(Replies)
      BY <2>1, AnswerStream DEF Execute
    <3> QED BY <2>1, <3>1, <3>2 DEF Execute
  <2>2. CASE Refuse
    <3>1. Tail(inbox) \in Seq(Messages)
      BY <2>2, InTail DEF Refuse
    <3>2. stream' \in Seq(Replies)
      BY <2>2, AnswerStream DEF Refuse
    <3> QED BY <2>2, <3>1, <3>2 DEF Refuse
  <2>3. CASE PeerCloses          BY <2>3 DEF PeerCloses
  <2>4. CASE ConnectionLost      BY <2>4 DEF ConnectionLost, Elements
  <2>5. CASE HandleStale         BY <2>5 DEF HandleStale
  <2> QED BY <1>7, <2>1, <2>2, <2>3, <2>4, <2>5 DEF Server
<1>8. CASE UNCHANGED vars
  BY <1>8 DEF vars
<1> QED BY <1>4, <1>5, <1>6, <1>7, <1>8 DEF Next, AllDone

LEMMA StageNext == TypeOK /\ Stage /\ [Next]_vars => Stage'
<1> SUFFICES ASSUME TypeOK, Stage, [Next]_vars PROVE Stage'
  OBVIOUS
<1> USE OpsAssumption DEF TypeOK, Stage, taskVars, linkVars, Goto
<1>1. ASSUME NEW t \in Task, NEW result \in {"ok", "nack", "failed", "done", "cancelled"},
             Release(t, result)
      PROVE  Stage'
  BY <1>1 DEF Release
<1>2. ASSUME NEW t \in Task, NextAttempt(t), op[t] # "close", pc[t] # "idle"
      PROVE  Stage'
  BY <1>1, <1>2 DEF NextAttempt
<1>3. ASSUME NEW t \in Task, NEW o \in Ops, Call(t, o)
      PROVE  Stage'
  BY <1>3 DEF Call
<1>4. ASSUME NEW t \in Task, TaskStep(t)
      PROVE  Stage'
  <2>1. CASE Begin(t)            BY <2>1 DEF Begin, HasLock
  <2>2. CASE Close(t)            BY <1>1, <2>2 DEF Close, HasLock
  <2>3. CASE AlreadyConnected(t) BY <1>1, <2>3 DEF AlreadyConnected
  <2>4. CASE Open(t)             BY <2>4 DEF Open
  <2>5. CASE OpenFails(t)        BY <1>1, <1>2, <2>5 DEF OpenFails
  <2>6. CASE GreetingFails(t)    BY <1>1, <2>6 DEF GreetingFails
  <2>7. CASE Greeted(t)          BY <1>1, <2>7 DEF Greeted
  <2>8. CASE Write(t)            BY <2>8 DEF Write, AboutToWrite
  <2>9. CASE WriteFails(t)       BY <2>9 DEF WriteFails, AboutToWrite
  <2>10. CASE Unanswered(t)      BY <1>1, <2>10 DEF Unanswered
  <2>11. CASE Answered(t)
    <3>1. \E result \in {"ok", "nack"} : Release(t, result)
      BY <2>11 DEF Answered
    <3> QED BY <1>1, <3>1
  <2>12. CASE Closed(t)          BY <1>1, <1>2, <2>12 DEF Closed
  <2> QED BY <1>4, <2>1, <2>2, <2>3, <2>4, <2>5, <2>6, <2>7, <2>8, <2>9, <2>10,
             <2>11, <2>12 DEF TaskStep
<1>5. ASSUME NEW t \in Task, Cancel(t)
      PROVE  Stage'
  BY <1>1, <1>5 DEF Cancel
<1>6. CASE Server
  BY <1>6 DEF Server, Execute, Refuse, PeerCloses, ConnectionLost, HandleStale
<1>7. CASE UNCHANGED vars
  BY <1>7 DEF vars
<1> QED BY <1>3, <1>4, <1>5, <1>6, <1>7 DEF Next, AllDone

LEMMA StageCorrect == Spec => [](TypeOK /\ Stage)
<1> QED BY TypeInit, TypeNext, StageNext, PTL DEF Spec

\* Every variable keeps its type, whatever the server does and whoever is
\* cancelled.
THEOREM TypeCorrect == Spec => []TypeOK
<1> QED BY StageCorrect, PTL
------------------------------------------------------------------------------
(* The lock. *)

LEMMA LockInit == Init => LockInv
BY DEF Init, LockInv, InLine, HolderFirst, Holding

LEMMA LockNext == TypeOK /\ LockInv /\ [Next]_vars => LockInv'
<1> SUFFICES ASSUME TypeOK, LockInv, [Next]_vars PROVE LockInv'
  OBVIOUS
<1> USE DEF TypeOK, LockInv, InLine, HolderFirst, Holding, taskVars, linkVars
<1>1. ASSUME NEW t \in Task, NEW result, Release(t, result)
      PROVE  LockInv'
  BY <1>1 DEF Release
<1>2. ASSUME NEW t \in Task, NEW where, Goto(t, where), pc[t] # "idle", ahead[t] = {}
      PROVE  LockInv'
  BY <1>2 DEF Goto
<1>3. ASSUME NEW t \in Task, NextAttempt(t), Holding(t)
      PROVE  LockInv'
  BY <1>1, <1>2, <1>3 DEF NextAttempt
<1>4. ASSUME NEW t \in Task, NEW o \in Ops, Call(t, o)
      PROVE  LockInv'
  <2>1. /\ pc[t] = "idle"
        /\ pc' = [pc EXCEPT ![t] = "queued"]
        /\ ahead' = [ahead EXCEPT ![t] = {u \in Task : pc[u] # "idle"}]
    BY <1>4 DEF Call
  <2> QED BY <2>1
<1>5. ASSUME NEW t \in Task, TaskStep(t)
      PROVE  LockInv'
  <2>1. CASE Begin(t)            BY <1>2, <2>1 DEF Begin, HasLock
  <2>2. CASE Close(t)            BY <1>1, <1>2, <2>2 DEF Close, HasLock
  <2>3. CASE AlreadyConnected(t) BY <1>1, <2>3 DEF AlreadyConnected
  <2>4. CASE Open(t)             BY <1>2, <2>4 DEF Open
  <2>5. CASE OpenFails(t)        BY <1>1, <1>3, <2>5 DEF OpenFails
  <2>6. CASE GreetingFails(t)    BY <1>1, <1>2, <2>6 DEF GreetingFails
  <2>7. CASE Greeted(t)          BY <1>1, <1>2, <2>7 DEF Greeted
  <2>8. CASE Write(t)            BY <1>2, <2>8 DEF Write, AboutToWrite
  <2>9. CASE WriteFails(t)       BY <1>2, <2>9 DEF WriteFails, AboutToWrite
  <2>10. CASE Unanswered(t)      BY <1>1, <2>10 DEF Unanswered
  <2>11. CASE Answered(t)        BY <1>1, <2>11 DEF Answered
  <2>12. CASE Closed(t)          BY <1>1, <1>3, <2>12 DEF Closed
  <2> QED BY <1>5, <2>1, <2>2, <2>3, <2>4, <2>5, <2>6, <2>7, <2>8, <2>9, <2>10,
             <2>11, <2>12 DEF TaskStep
<1>6. ASSUME NEW t \in Task, Cancel(t)
      PROVE  LockInv'
  BY <1>1, <1>6 DEF Cancel
<1>7. CASE Server
  BY <1>7 DEF Server, Execute, Refuse, PeerCloses, ConnectionLost, HandleStale
<1>8. CASE UNCHANGED vars
  BY <1>8 DEF vars
<1> QED BY <1>4, <1>5, <1>6, <1>7, <1>8 DEF Next, AllDone

LEMMA LockCorrect == Spec => []LockInv
<1> QED BY TypeCorrect, LockInit, LockNext, PTL DEF Spec

\* At most one task is between taking the lock and releasing it.
THEOREM MutualExclusion == Spec => []OneCommandAtATime
<1>1. LockInv => OneCommandAtATime
  BY DEF LockInv, InLine, HolderFirst, OneCommandAtATime, Holding
<1> QED BY <1>1, LockCorrect, PTL
------------------------------------------------------------------------------
(* The greeting. *)

LEMMA GreetingNext == TypeOK /\ Stage /\ GreetingInv /\ [Next]_vars => GreetingInv'
<1> SUFFICES ASSUME TypeOK, Stage, GreetingInv, [Next]_vars PROVE GreetingInv'
  OBVIOUS
<1> USE DEF TypeOK, GreetingInv, taskVars, linkVars, Connected
<1>1. ASSUME NEW t \in Task, NEW o \in Ops, Call(t, o)
      PROVE  GreetingInv'
  BY <1>1 DEF Call
<1>2. ASSUME NEW t \in Task, TaskStep(t)
      PROVE  GreetingInv'
  <2>1. CASE Begin(t)            BY <2>1 DEF Begin
  <2>2. CASE Close(t)            BY <2>2 DEF Close, DropLink
  <2>3. CASE AlreadyConnected(t) BY <2>3 DEF AlreadyConnected
  <2>4. CASE Open(t)             BY <2>4 DEF Open, Message
  <2>5. CASE OpenFails(t)        BY <2>5 DEF OpenFails
  <2>6. CASE GreetingFails(t)    BY <2>6 DEF GreetingFails
  <2>7. CASE Greeted(t)          BY <2>7 DEF Greeted, NothingRead, ReadSome
  <2>8. CASE Write(t)
    <3> DEFINE w == Message(t, op[t])
    <3>1. link = "open" => inbox' = Append(inbox, w)
      BY <2>8 DEF Write
    <3>2. w \in Messages
      <4>1. op[t] \in Commands
        BY <2>8 DEF Write, AboutToWrite, Stage
      <4> QED BY <4>1, MessageType
    <3> HIDE DEF w
    <3>3. Append(inbox, w) # <<>> /\ (inbox # <<>> => Head(Append(inbox, w)) = Head(inbox))
      BY <3>2, HeadOfAppend
    <3> QED BY <2>8, <3>1, <3>3 DEF Write
  <2>9. CASE WriteFails(t)       BY <2>9 DEF WriteFails, DropLink
  <2>10. CASE Unanswered(t)      BY <2>10 DEF Unanswered, NothingRead
  <2>11. CASE Answered(t)        BY <2>11 DEF Answered, ReadSome
  <2>12. CASE Closed(t)          BY <2>12 DEF Closed
  <2> QED BY <1>2, <2>1, <2>2, <2>3, <2>4, <2>5, <2>6, <2>7, <2>8, <2>9, <2>10,
             <2>11, <2>12 DEF TaskStep
<1>3. ASSUME NEW t \in Task, Cancel(t)
      PROVE  GreetingInv'
  BY <1>3 DEF Cancel
<1>4. CASE Server
  BY <1>4 DEF Server, Execute, Refuse, PeerCloses, ConnectionLost, HandleStale
<1>5. CASE UNCHANGED vars
  BY <1>5 DEF vars
<1> QED BY <1>1, <1>2, <1>3, <1>4, <1>5 DEF Next, AllDone

LEMMA GreetingCorrect == Spec => []GreetingInv
<1>1. Init => GreetingInv
  BY DEF Init, GreetingInv
<1> QED BY <1>1, GreetingNext, TypeCorrect, StageCorrect, PTL DEF Spec

\* The acknowledgements of a socket are on before its first command.
THEOREM GreetedFirst == Spec => []AcknowledgedFromTheStart
<1>1. GreetingInv => AcknowledgedFromTheStart
  BY DEF GreetingInv, AcknowledgedFromTheStart
<1> QED BY <1>1, GreetingCorrect, PTL
------------------------------------------------------------------------------
(* The copies of a command. *)

LEMMA CopyType == ASSUME TypeOK PROVE Copies \subseteq Messages
<1>1. Elements(inbox) \subseteq Messages
  BY InSeq DEF TypeOK
<1> QED BY <1>1 DEF TypeOK, Copies, Waiting

\* A step of a task without a new copy keeps SentInv when it leaves what was
\* sent as sent.
LEMMA CopiesKept ==
    ASSUME TypeOK, SentInv, Copies' \subseteq Copies, calls' = calls, NEW t \in Task,
           \A u \in Task \ {t} : pc'[u] = pc[u] /\ outcome'[u] = outcome[u],
           pc[t] \in {"reply", "idle"} /\ outcome[t] # "failed"
              => pc'[t] \in {"reply", "idle"} /\ outcome'[t] # "failed"
    PROVE  SentInv'
<1>1. \A m \in Copies : m.task \in Task
  BY CopyType DEF Messages
<1> QED BY <1>1 DEF SentInv, CopyOK, CallOf

\* How the copies change with the variables.
LEMMA CopiesSame ==
    ASSUME UNCHANGED <<executed, stale, inbox>>
    PROVE  Copies' = Copies /\ (Apart => Apart')
BY DEF Copies, Waiting, Apart, Elements

LEMMA CopiesDropped ==
    ASSUME TypeOK, executed' = executed, stale' = stale \cup Elements(inbox), inbox' = <<>>
    PROVE  Copies' = Copies /\ (Apart => Apart')
<1>1. Elements(inbox') = {}
  BY InEmpty
<1> QED BY <1>1 DEF Copies, Waiting, Apart

LEMMA CopiesHandled ==
    ASSUME TypeOK, Server
    PROVE  Copies' \subseteq Copies /\ (Apart => Apart')
<1> USE DEF taskVars, linkVars
<1>1. ASSUME inbox # <<>>
      PROVE  /\ Elements(inbox) = Elements(Tail(inbox)) \cup {Head(inbox)}
             /\ Apart => /\ IsCommand(Head(inbox)) => Head(inbox) \notin Elements(Tail(inbox))
                         /\ \A i, j \in 1 .. Len(Tail(inbox)) :
                               IsCommand(Tail(inbox)[i]) /\ Tail(inbox)[i] = Tail(inbox)[j]
                                  => i = j
  <2>1. /\ Head(inbox) = inbox[1] /\ Len(Tail(inbox)) = Len(inbox) - 1 /\ Len(inbox) \in Nat \ {0}
        /\ \A i \in 1 .. Len(Tail(inbox)) :
              i + 1 \in 1 .. Len(inbox) /\ Tail(inbox)[i] = inbox[i + 1] /\ i + 1 # 1
    BY <1>1 DEF TypeOK
  <2>2. ASSUME Apart, IsCommand(Head(inbox)), NEW i \in 1 .. Len(Tail(inbox)),
               Tail(inbox)[i] = Head(inbox)
        PROVE  FALSE
    <3>1. i + 1 \in 1 .. Len(inbox) /\ 1 \in 1 .. Len(inbox) /\ inbox[i + 1] = inbox[1]
      BY <2>1, <2>2
    <3> QED BY <2>1, <2>2, <3>1 DEF Apart
  <2>3. ASSUME Apart, NEW i \in 1 .. Len(Tail(inbox)), NEW j \in 1 .. Len(Tail(inbox)),
               IsCommand(Tail(inbox)[i]), Tail(inbox)[i] = Tail(inbox)[j]
        PROVE  i = j
    <3>1. i + 1 = j + 1
      BY <2>1, <2>3 DEF Apart
    <3> QED BY <3>1
  <2>4. Elements(inbox) = Elements(Tail(inbox)) \cup {Head(inbox)}
    BY <1>1, InTail DEF TypeOK
  <2> QED BY <2>2, <2>3, <2>4 DEF Elements
<1>2. CASE Execute
  <2>1. /\ inbox # <<>> /\ inbox' = Tail(inbox) /\ executed' = executed \cup {Head(inbox)}
        /\ stale' = stale
    BY <1>2 DEF Execute
  <2>2. Elements(inbox') = Elements(Tail(inbox))
    BY <2>1
  <2> QED BY <1>1, <2>1, <2>2 DEF Copies, Waiting, Apart
<1>3. CASE Refuse
  <2>1. inbox # <<>> /\ inbox' = Tail(inbox) /\ executed' = executed /\ stale' = stale
    BY <1>3 DEF Refuse
  <2>2. Elements(inbox') = Elements(Tail(inbox))
    BY <2>1
  <2> QED BY <1>1, <2>1, <2>2 DEF Copies, Waiting, Apart
<1>4. CASE PeerCloses
  <2>1. Elements(inbox') = {} /\ Len(inbox') = 0 /\ executed' = executed /\ stale' = stale
    BY <1>4, InEmpty DEF PeerCloses
  <2> QED BY <2>1 DEF Copies, Waiting, Apart
<1>5. CASE ConnectionLost
  BY <1>5, CopiesDropped DEF ConnectionLost
<1>6. CASE HandleStale
  <2>1. Elements(inbox') = Elements(inbox) /\ inbox' = inbox
    BY <1>6 DEF HandleStale
  <2> QED BY <1>6, <2>1 DEF HandleStale, Copies, Waiting, Apart
<1> QED BY <1>2, <1>3, <1>4, <1>5, <1>6 DEF Server

\* A task about to write its command has not sent it before.
LEMMA CopiesWritten ==
    ASSUME TypeOK, Stage, SentInv, NEW t \in Task, Write(t)
    PROVE  SentInv' /\ (Apart => Apart')
<1> DEFINE w == Message(t, op[t])
<1>1. /\ op[t] \in Commands /\ pc[t] \in {"write", "connect"} /\ calls[t] \in Nat \ {0}
      /\ pc' = [pc EXCEPT ![t] = "reply"] /\ pc'[t] = "reply" /\ outcome[t] = "pending"
      /\ UNCHANGED <<op, calls, outcome, attempt, executed, stale>>
  BY DEF Write, AboutToWrite, Stage, TypeOK, Goto
<1>2. /\ w \in Messages /\ w.task = t /\ w.call = calls[t] /\ IsCommand(w)
      /\ CallOf(w) = <<t, calls[t]>>
  BY <1>1, MessageType DEF IsCommand
<1>3. inbox' \in {inbox, Append(inbox, w)}
  BY DEF Write
<1> HIDE DEF w
<1>4. ASSUME NEW m \in Copies PROVE CallOf(m) # CallOf(w)
  <2>1. CopyOK(m)
    BY <1>4 DEF SentInv
  <2> QED BY <1>1, <1>2, <2>1 DEF CopyOK, CallOf
<1>5. CASE inbox' = inbox
  <2>1. Copies' = Copies /\ (Apart => Apart')
    BY <1>1, <1>5, CopiesSame
  <2>2. SentInv'
    BY <1>1, <2>1, CopiesKept DEF TypeOK
  <2> QED BY <2>1, <2>2
<1>6. CASE inbox' = Append(inbox, w)
  <2>1. Elements(inbox') = Elements(inbox) \cup {w}
    BY <1>2, <1>6, InAppend DEF TypeOK
  <2>2. Copies' = Copies \cup {w}
    BY <1>1, <1>2, <2>1 DEF Copies, Waiting, IsCommand
  <2>3. ASSUME NEW m \in Copies' PROVE CopyOK(m)'
    <3>1. CASE m = w
      BY <1>1, <1>2, <3>1 DEF CopyOK
    <3>2. CASE m \in Copies
      <4>1. CopyOK(m) /\ m.task \in Task
        BY <3>2, CopyType DEF SentInv, Messages
      <4> QED BY <1>1, <4>1 DEF CopyOK, TypeOK
    <3> QED BY <2>2, <3>1, <3>2
  <2>4. \A m, n \in Copies' : CallOf(m) = CallOf(n) => m = n
    BY <1>4, <2>2 DEF SentInv
  <2>5. ASSUME Apart PROVE Apart'
    <3>1. w \notin executed \cup stale \cup Elements(inbox)
      BY <1>2, <1>4 DEF Copies, Waiting
    <3>2. \A m \in (stale \cup executed)' : IsCommand(m) => m \notin Elements(inbox')
      BY <1>1, <2>1, <2>5, <3>1 DEF Apart
    <3>3. /\ Len(inbox') = Len(inbox) + 1 /\ Len(inbox) \in Nat /\ inbox'[Len(inbox) + 1] = w
          /\ \A i \in 1 .. Len(inbox) : inbox'[i] = inbox[i] /\ inbox[i] # w
      BY <1>2, <1>6, <3>1 DEF TypeOK, Elements
    <3>4. \A i, j \in 1 .. Len(inbox') : IsCommand(inbox'[i]) /\ inbox'[i] = inbox'[j] => i = j
      <4>1. \A i \in 1 .. Len(inbox') : i \in 1 .. Len(inbox) \/ i = Len(inbox) + 1
        BY <3>3
      <4> QED BY <2>5, <3>3, <4>1 DEF Apart
    <3> QED BY <1>1, <2>5, <3>2, <3>4 DEF Apart, IsCommand
  <2> QED BY <2>3, <2>4, <2>5 DEF SentInv
<1> QED BY <1>3, <1>5, <1>6

\* A socket is opened with nothing but the greeting in it.
LEMMA CopiesOpened ==
    ASSUME TypeOK, GreetingInv, NEW t \in Task, Open(t)
    PROVE  Copies' = Copies /\ (Apart => Apart')
<1> DEFINE g == Message(t, "greeting")
<1>1. /\ inbox = <<>> /\ inbox' = <<g>> /\ UNCHANGED <<stale, executed>>
  BY DEF Open, GreetingInv, Connected, linkVars
<1>2. ~IsCommand(g)
  BY DEF Message, IsCommand, Commands
<1> HIDE DEF g
<1>3. Elements(inbox) = {} /\ Elements(inbox') = {g} /\ Len(inbox') = 1 /\ inbox'[1] = g
  BY <1>1, InEmpty DEF Elements
<1> QED BY <1>1, <1>2, <1>3 DEF Copies, Waiting, Apart

LEMMA CopiesOfTask ==
    ASSUME TypeOK, Stage, GreetingInv, SentInv, NEW t \in Task, TaskStep(t), ~Write(t)
    PROVE  Copies' = Copies /\ (Apart => Apart')
<1> USE DEF linkVars, DropLink
<1>1. CASE Open(t)
  BY <1>1, CopiesOpened
<1>2. CASE Begin(t) \/ AlreadyConnected(t) \/ OpenFails(t) \/ GreetingFails(t) \/ Greeted(t)
           \/ Unanswered(t) \/ Answered(t) \/ Closed(t)
  <2>1. UNCHANGED <<executed, stale, inbox>>
    BY <1>2 DEF Begin, AlreadyConnected, OpenFails, GreetingFails, Greeted, Unanswered, Answered,
                Closed, NothingRead, ReadSome
  <2> QED BY <2>1, CopiesSame
<1>3. CASE Close(t) \/ WriteFails(t)
  <2>1. executed' = executed /\ stale' = stale \cup Elements(inbox) /\ inbox' = <<>>
    BY <1>3 DEF Close, WriteFails
  <2> QED BY <2>1, CopiesDropped
<1> QED BY <1>1, <1>2, <1>3 DEF TaskStep

LEMMA SentNext ==
    TypeOK /\ Stage /\ GreetingInv /\ SentInv /\ Apart /\ [Next]_vars => SentInv' /\ Apart'
<1> SUFFICES ASSUME TypeOK, Stage, GreetingInv, SentInv, Apart, [Next]_vars
             PROVE  SentInv' /\ Apart'
  OBVIOUS
<1> USE DEF taskVars, linkVars
<1>1. ASSUME NEW t \in Task, NEW o \in Ops, Call(t, o)
      PROVE  SentInv' /\ Apart'
  <2>1. Copies' = Copies /\ Apart'
    BY <1>1, CopiesSame DEF Call
  <2>2. ASSUME NEW m \in Copies PROVE CopyOK(m)'
    <3>1. CopyOK(m) /\ m.task \in Task /\ m.call \in Nat
      BY <2>2, CopyType DEF SentInv, Messages
    <3>2. CASE m.task = t
      <4>1. calls'[t] = calls[t] + 1 /\ calls[t] \in Nat
        BY <1>1 DEF Call, TypeOK
      <4> QED BY <3>1, <3>2, <4>1 DEF CopyOK
    <3>3. CASE m.task # t
      BY <1>1, <3>1, <3>3 DEF CopyOK, Call, TypeOK
    <3> QED BY <3>2, <3>3
  <2> QED BY <2>1, <2>2 DEF SentInv, CallOf
<1>2. ASSUME NEW t \in Task, TaskStep(t)
      PROVE  SentInv' /\ Apart'
  <2>1. CASE Write(t)
    BY <2>1, CopiesWritten
  <2>2. CASE ~Write(t)
    <3>1. Copies' = Copies /\ Apart'
      BY <1>2, <2>2, CopiesOfTask
    <3>2. calls' = calls
      BY <1>2 DEF TaskStep, Begin, Close, AlreadyConnected, Open, OpenFails, GreetingFails,
                  Greeted, Write, WriteFails, Unanswered, Answered, Closed, NextAttempt, Goto,
                  Release
    <3>3. \A u \in Task \ {t} : pc'[u] = pc[u] /\ outcome'[u] = outcome[u]
      BY <1>2 DEF TaskStep, Begin, Close, AlreadyConnected, Open, OpenFails, GreetingFails,
                  Greeted, Write, WriteFails, Unanswered, Answered, Closed, NextAttempt, Goto,
                  Release, TypeOK
    <3>4. ASSUME pc[t] \in {"reply", "idle"}
          PROVE  pc'[t] \in {"reply", "idle"} /\ outcome'[t] # "failed"
      <4>1. \E result \in {"ok", "nack"} : Release(t, result)
        BY <1>2, <2>2, <3>4 DEF TaskStep, Begin, Close, AlreadyConnected, Open, OpenFails,
              GreetingFails, Greeted, WriteFails, Unanswered, Answered, Closed, HasLock,
              AboutToWrite
      <4> QED BY <4>1 DEF Release, TypeOK
    <3> QED BY <3>1, <3>2, <3>3, <3>4, CopiesKept
  <2> QED BY <2>1, <2>2
<1>3. ASSUME NEW t \in Task, Cancel(t)
      PROVE  SentInv' /\ Apart'
  <2>1. Copies' = Copies /\ Apart'
    BY <1>3, CopiesSame DEF Cancel
  <2>2. /\ calls' = calls /\ pc'[t] = "idle" /\ outcome'[t] = "cancelled"
        /\ \A u \in Task \ {t} : pc'[u] = pc[u] /\ outcome'[u] = outcome[u]
    BY <1>3 DEF Cancel, Release, TypeOK
  <2> QED BY <2>1, <2>2, CopiesKept
<1>4. CASE Server
  <2>1. Copies' \subseteq Copies /\ Apart'
    BY <1>4, CopiesHandled
  <2>2. UNCHANGED <<calls, pc, outcome>>
    BY <1>4 DEF Server, Execute, Refuse, PeerCloses, ConnectionLost, HandleStale
  <2> QED BY <2>1, <2>2 DEF SentInv, CopyOK
<1>5. CASE UNCHANGED vars
  <2>1. Copies' = Copies /\ Apart'
    BY <1>5, CopiesSame DEF vars
  <2> QED BY <1>5, <2>1 DEF vars, SentInv, CopyOK
<1> QED BY <1>1, <1>2, <1>3, <1>4, <1>5 DEF Next, AllDone

LEMMA SentCorrect == Spec => [](SentInv /\ Apart)
<1>1. Init => SentInv /\ Apart
  <2>1. Init => Copies = {}
    BY InEmpty DEF Init, Copies, Waiting
  <2>2. Init => Apart
    BY InEmpty DEF Init, Apart
  <2> QED BY <2>1, <2>2 DEF SentInv
<1> QED BY <1>1, SentNext, TypeCorrect, StageCorrect, GreetingCorrect, PTL DEF Spec

\* A command is carried out once at most, whatever its call came to.
THEOREM AtMostOnce == Spec => []CarriedOutOnce
<1>1. SentInv => CarriedOutOnce
  BY DEF SentInv, CarriedOutOnce, Copies, IsCommand, CallOf
<1> QED BY <1>1, SentCorrect, PTL

\* A call that failed has left nothing behind that could still be carried out.
THEOREM FailedLeavesNothing == Spec => []FailedIsUnsent
<1>1. TypeOK /\ SentInv => FailedIsUnsent
  BY DEF SentInv, FailedIsUnsent, Copies, Waiting, CopyOK, IsCommand
<1> QED BY <1>1, TypeCorrect, SentCorrect, PTL
------------------------------------------------------------------------------
(* Replies. *)

\* Nobody but the task that waits for a reply moves between its write and its
\* reply.
LEMMA OnlyTheHolderMoves ==
    ASSUME TypeOK, LockInv, NEW t \in Task, TaskStep(t)
    PROVE  /\ pc[t] # "idle" /\ ahead[t] = {}
           /\ \A u \in Task \ {t} : pc[u] # "reply" /\ pc'[u] = pc[u] /\ outcome'[u] = outcome[u]
<1>1. pc[t] # "idle" /\ ahead[t] = {}
  BY DEF TaskStep, Begin, Close, AlreadyConnected, Open, OpenFails, GreetingFails, Greeted,
         Write, WriteFails, AboutToWrite, Unanswered, Answered, Closed, HasLock, LockInv,
         HolderFirst, Holding
<1>2. \A u \in Task \ {t} : pc[u] # "reply"
  BY <1>1 DEF LockInv, InLine, HolderFirst, Holding
<1>3. \A u \in Task \ {t} : pc'[u] = pc[u] /\ outcome'[u] = outcome[u]
  BY DEF TaskStep, Begin, Close, AlreadyConnected, Open, OpenFails, GreetingFails, Greeted,
         Write, WriteFails, Unanswered, Answered, Closed, NextAttempt, Goto, Release, TypeOK
<1> QED BY <1>1, <1>2, <1>3

LEMMA OwnReplyServer ==
    ASSUME TypeOK, OwnReply, Server
    PROVE  OwnReply'
<1> USE DEF taskVars, linkVars
<1>1. UNCHANGED taskVars
  BY DEF Server, Execute, Refuse, PeerCloses, ConnectionLost, HandleStale
<1>2. /\ Elements(inbox') \subseteq Elements(inbox)
      /\ Elements(stream') \subseteq
            Elements(stream) \cup {Reply(k, m) : k \in {"ack", "nack"}, m \in Elements(inbox)}
  <2>1. ASSUME inbox # <<>>, inbox' = Tail(inbox), NEW k \in {"ack", "nack"}, Answer(k)
        PROVE  <1>2!:
    <3>1. Elements(inbox) = Elements(Tail(inbox)) \cup {Head(inbox)}
      BY <2>1, InTail DEF TypeOK
    <3>2. Elements(inbox') = Elements(Tail(inbox))
      BY <2>1
    <3>3. Elements(stream') \subseteq Elements(stream) \cup {Reply(k, Head(inbox))}
      BY <2>1, AnswerStream
    <3> QED BY <3>1, <3>2, <3>3
  <2>2. CASE Execute
    BY <2>1, <2>2 DEF Execute
  <2>3. CASE Refuse
    BY <2>1, <2>3 DEF Refuse
  <2>4. CASE PeerCloses \/ ConnectionLost
    <3>1. inbox' = <<>> /\ stream' \in {<<>>, stream}
      BY <2>4 DEF PeerCloses, ConnectionLost
    <3> QED BY <3>1, InEmpty
  <2>5. CASE HandleStale
    BY <2>5 DEF HandleStale
  <2> QED BY <2>2, <2>3, <2>4, <2>5 DEF Server
<1>3. \A m \in Elements(inbox), k \in {"ack", "nack"} : Reply(k, m).for = CallOf(m)
  BY DEF Reply, CallOf
<1> QED BY <1>1, <1>2, <1>3 DEF OwnReply

LEMMA OwnReplyNext ==
    TypeOK /\ Stage /\ LockInv /\ OwnReply /\ [Next]_vars => OwnReply'
<1> SUFFICES ASSUME TypeOK, Stage, LockInv, OwnReply, [Next]_vars
             PROVE  OwnReply'
  OBVIOUS
<1> USE DEF taskVars, linkVars
<1>1. ASSUME NEW t \in Task, NEW o \in Ops, Call(t, o)
      PROVE  OwnReply'
  BY <1>1 DEF Call, OwnReply, TypeOK
<1>2. ASSUME NEW t \in Task, TaskStep(t)
      PROVE  OwnReply'
  <2>1. ASSUME NEW u \in Task, pc'[u] = "reply" PROVE u = t /\ Write(t)
    <3>1. u = t
      BY <1>2, <2>1, OnlyTheHolderMoves
    <3> QED BY <1>2, <2>1, <3>1 DEF TaskStep, Begin, Close, AlreadyConnected, Open, OpenFails,
               GreetingFails, Greeted, WriteFails, Unanswered, Answered, Closed, NextAttempt,
               Goto, Release, TypeOK
  <2>2. ASSUME Write(t), ~behind'[t]
        PROVE  /\ \A m \in Elements(inbox') : CallOf(m) = <<t, calls[t]>>
               /\ Elements(stream') = {} /\ calls' = calls
    <3> DEFINE w == Message(t, op[t])
    <3>1. op[t] \in Commands
      BY <2>2 DEF Write, AboutToWrite, Stage
    <3>2. w \in Messages /\ CallOf(w) = <<t, calls[t]>>
      BY <3>1, MessageType
    <3>3. inbox' \in {inbox, Append(inbox, w)}
      BY <2>2 DEF Write
    <3>4. inbox = <<>> /\ stream = <<>> /\ stream' = stream /\ calls' = calls
      BY <2>2 DEF Write, Goto, TypeOK
    <3> HIDE DEF w
    <3>5. Elements(Append(inbox, w)) = Elements(inbox) \cup {w}
      BY <3>2, InAppend DEF TypeOK
    <3>6. Elements(inbox) = {} /\ Elements(stream') = {}
      BY <3>4, InEmpty
    <3> QED BY <3>2, <3>3, <3>4, <3>5, <3>6
  <2> QED BY <2>1, <2>2 DEF OwnReply
<1>3. ASSUME NEW t \in Task, Cancel(t)
      PROVE  OwnReply'
  BY <1>3 DEF Cancel, Release, OwnReply, TypeOK
<1>4. CASE Server
  BY <1>4, OwnReplyServer
<1>5. CASE UNCHANGED vars
  BY <1>5 DEF vars, OwnReply
<1> QED BY <1>1, <1>2, <1>3, <1>4, <1>5 DEF Next, AllDone

LEMMA OwnReplyCorrect == Spec => []OwnReply
<1>1. Init => OwnReply
  BY DEF Init, OwnReply
<1> QED BY <1>1, OwnReplyNext, TypeCorrect, StageCorrect, LockCorrect, PTL DEF Spec

\* A call is not ended by the NACK of somebody else's command, if nothing was
\* under way on the socket when its own was written.
THEOREM OwnRejection == Spec => RejectionIsOwn
<1>1. TypeOK /\ Stage /\ LockInv /\ OwnReply /\ [Next]_vars =>
         [\A t \in Task :
             /\ pc[t] = "reply"
             /\ outcome'[t] = "nack"
             /\ ~behind[t]
             => refusals'[t] = {<<t, calls[t]>>}]_vars
  <2> SUFFICES ASSUME TypeOK, Stage, LockInv, OwnReply, [Next]_vars, NEW t \in Task,
                      pc[t] = "reply", outcome'[t] = "nack", ~behind[t]
               PROVE  refusals'[t] = {<<t, calls[t]>>}
    OBVIOUS
  <2>1. outcome'[t] # outcome[t]
    BY DEF Stage
  <2>2. Answered(t)
    <3>1. TaskStep(t)
      <4>1. \A u \in Task, o \in Ops : ~Call(u, o)
        BY <2>1 DEF Call, TypeOK
      <4>2. \A u \in Task : ~Cancel(u)
        BY <2>1 DEF Cancel, Release, TypeOK
      <4>3. ~Server /\ ~UNCHANGED vars
        BY <2>1 DEF Server, Execute, Refuse, PeerCloses, ConnectionLost, HandleStale, vars,
                    taskVars
      <4>4. \A u \in Task : TaskStep(u) => u = t
        BY <2>1, OnlyTheHolderMoves
      <4> QED BY <4>1, <4>2, <4>3, <4>4 DEF Next, AllDone
    <3> QED BY <3>1 DEF TaskStep, Begin, Close, AlreadyConnected, Open, OpenFails,
               GreetingFails, Greeted, Write, WriteFails, AboutToWrite, Unanswered, Closed,
               HasLock, Release, TypeOK
  <2>3. PICK n \in 1 .. Len(stream) :
           LET nacks == {r \in Elements(SubSeq(stream, 1, n)) : r.kind = "nack"} IN
           /\ ReadSome(n)
           /\ refusals' = [refusals EXCEPT ![t] = {r.for : r \in nacks}]
           /\ Release(t, IF nacks = {} THEN "ok" ELSE "nack")
    BY <2>2 DEF Answered
  <2> DEFINE nacks == {r \in Elements(SubSeq(stream, 1, n)) : r.kind = "nack"}
  <2>4. nacks # {}
    BY <2>3 DEF Release, TypeOK
  <2>5. \A r \in nacks : r.for = <<t, calls[t]>>
    <3>1. Elements(SubSeq(stream, 1, n)) \subseteq Elements(stream)
      BY <2>3, ReadType
    <3> QED BY <3>1 DEF OwnReply
  <2>6. refusals'[t] = {r.for : r \in nacks}
    BY <2>3 DEF TypeOK
  <2> HIDE DEF nacks
  <2> QED BY <2>4, <2>5, <2>6
<1> QED BY <1>1, TypeCorrect, StageCorrect, LockCorrect, OwnReplyCorrect, PTL
        DEF Spec, RejectionIsOwn
------------------------------------------------------------------------------
(* The refinement. *)

\* The calls whose commands are in a set of messages.
LEMMA CallsOfUnion == \A A, B : CallsIn(A \cup B) = CallsIn(A) \cup CallsIn(B)
BY DEF CallsIn

LEMMA CallsOfOne ==
    \A m : CallsIn({m}) = IF IsCommand(m) THEN {CallOf(m)} ELSE {}
BY DEF CallsIn

\* A message handled leaves the waiting ones; if it is a command, its call is
\* not among theirs any more, nor had it been carried out.
LEMMA CallsHandled ==
    ASSUME SentInv, NEW m \in Waiting, IsCommand(m), m \notin executed
    PROVE  /\ CallOf(m) \in CallsIn(Waiting) \ CallsIn(executed)
           /\ CallsIn(Waiting \ {m}) = CallsIn(Waiting) \ {CallOf(m)}
BY DEF SentInv, Copies, CallsIn

LEMMA OnceInit == Init => Once!Init
<1> SUFFICES ASSUME Init PROVE Once!Init
  OBVIOUS
<1>1. CallsIn(stale \cup Elements(inbox)) = {} /\ CallsIn(executed) = {}
  BY InEmpty DEF Init, CallsIn
<1>2. Standing = [t \in Task |-> "none"]
  BY DEF Init, Standing
<1> QED BY <1>1, <1>2 DEF Init, Once!Init

\* A task that gets no further than its command, or leaves without a reply to
\* it, does not change what was sent.
LEMMA OnceQuiet ==
    ASSUME TypeOK, GreetingInv, NEW t \in Task, TaskStep(t), ~Write(t)
    PROVE  UNCHANGED <<CallsIn(stale \cup Elements(inbox)), CallsIn(executed)>>
<1> USE DEF linkVars, DropLink
<1>1. CASE Open(t)
  <2> DEFINE g == Message(t, "greeting")
  <2>1. /\ inbox = <<>> /\ inbox' = <<g>> /\ UNCHANGED <<stale, executed>>
    BY <1>1 DEF Open, GreetingInv, Connected
  <2>2. ~IsCommand(g)
    BY DEF Message, IsCommand, Commands
  <2> HIDE DEF g
  <2>3. Elements(inbox) = {} /\ Elements(inbox') = {g}
    BY <2>1, InEmpty DEF Elements
  <2> QED BY <2>1, <2>2, <2>3 DEF CallsIn
<1>2. CASE Begin(t) \/ AlreadyConnected(t) \/ OpenFails(t) \/ GreetingFails(t) \/ Greeted(t)
           \/ Unanswered(t) \/ Answered(t) \/ Closed(t)
  <2>1. UNCHANGED <<executed, stale, inbox>>
    BY <1>2 DEF Begin, AlreadyConnected, OpenFails, GreetingFails, Greeted, Unanswered, Answered,
                Closed, NothingRead, ReadSome
  <2> QED BY <2>1
<1>3. CASE Close(t) \/ WriteFails(t)
  <2>1. executed' = executed /\ stale' = stale \cup Elements(inbox) /\ inbox' = <<>>
    BY <1>3 DEF Close, WriteFails
  <2>2. stale' \cup Elements(inbox') = stale \cup Elements(inbox)
    BY <2>1, InEmpty
  <2> QED BY <2>1, <2>2
<1> QED BY <1>1, <1>2, <1>3 DEF TaskStep

\* What the server and the network do: one command carried out, or some lost.
LEMMA OnceServer ==
    ASSUME TypeOK, SentInv, Apart, Server
    PROVE  Once!Lose \/ \E x \in CallsIn(Waiting) : Once!Act(x)
<1> USE DEF taskVars, linkVars
<1>1. UNCHANGED <<calls, ahead, Standing>>
  BY DEF Server, Execute, Refuse, PeerCloses, ConnectionLost, HandleStale, Standing
<1>2. ASSUME executed' = executed, Waiting' \subseteq Waiting
      PROVE  Once!Lose
  <2>1. CallsIn(stale \cup Elements(inbox))' \subseteq CallsIn(stale \cup Elements(inbox))
    BY <1>2 DEF CallsIn, Waiting
  <2> QED BY <1>1, <1>2, <2>1 DEF Once!Lose
<1>3. ASSUME NEW m \in Waiting, executed' = executed \cup {m}, Waiting' = Waiting \ {m},
             IsCommand(m), m \notin executed
      PROVE  Once!Act(CallOf(m)) /\ CallOf(m) \in CallsIn(Waiting)
  <2>1. CallsIn(executed') = CallsIn(executed) \cup {CallOf(m)}
    <3>1. CallsIn(executed') = CallsIn(executed \cup {m})
      BY <1>3
    <3>2. CallsIn(executed \cup {m}) = CallsIn(executed) \cup CallsIn({m})
      BY CallsOfUnion
    <3>3. CallsIn({m}) = {CallOf(m)}
      BY <1>3, CallsOfOne
    <3> QED BY <3>1, <3>2, <3>3
  <2>2. /\ CallOf(m) \in CallsIn(Waiting) \ CallsIn(executed)
        /\ CallsIn(Waiting') = CallsIn(Waiting) \ {CallOf(m)}
    <3>1. /\ CallOf(m) \in CallsIn(Waiting) \ CallsIn(executed)
          /\ CallsIn(Waiting \ {m}) = CallsIn(Waiting) \ {CallOf(m)}
      BY <1>3, CallsHandled
    <3>2. CallsIn(Waiting') = CallsIn(Waiting \ {m})
      BY <1>3
    <3> QED BY <3>1, <3>2
  <2> QED BY <1>1, <2>1, <2>2 DEF Once!Act, Waiting
<1>4. ASSUME NEW m \in Waiting, executed' = executed \cup {m}, Waiting' \subseteq Waiting,
             ~IsCommand(m)
      PROVE  Once!Lose
  <2>1. CallsIn(stale \cup Elements(inbox))' \subseteq CallsIn(stale \cup Elements(inbox))
    BY <1>4 DEF CallsIn, Waiting
  <2>2. CallsIn(executed') = CallsIn(executed)
    <3>1. CallsIn(executed') = CallsIn(executed \cup {m})
      BY <1>4
    <3>2. CallsIn(executed \cup {m}) = CallsIn(executed) \cup CallsIn({m})
      BY CallsOfUnion
    <3>3. CallsIn({m}) = {}
      BY <1>4, CallsOfOne
    <3> QED BY <3>1, <3>2, <3>3
  <2> QED BY <1>1, <2>1, <2>2 DEF Once!Lose
<1>5. CASE Execute
  <2> DEFINE m == Head(inbox)
  <2>1. /\ inbox # <<>> /\ executed' = executed \cup {m} /\ stale' = stale
        /\ inbox' = Tail(inbox)
    BY <1>5 DEF Execute
  <2>2. Elements(inbox) = Elements(inbox') \cup {m}
    BY <2>1, InTail DEF TypeOK
  <2>3. m \in Waiting /\ Waiting' \subseteq Waiting
    BY <2>1, <2>2 DEF Waiting
  <2>4. CASE IsCommand(m)
    <3>1. m \notin executed /\ m \notin stale
      BY <2>2, <2>4 DEF Apart
    <3>2. m \notin Elements(inbox')
      <4>1. Apart'
        BY CopiesHandled
      <4> QED BY <2>1, <2>4, <4>1 DEF Apart, IsCommand
    <3>3. Waiting' = Waiting \ {m}
      BY <2>1, <2>2, <3>1, <3>2 DEF Waiting
    <3> QED BY <1>3, <2>1, <2>3, <2>4, <3>1, <3>3
  <2>5. CASE ~IsCommand(m)
    BY <1>4, <2>1, <2>3, <2>5
  <2> QED BY <2>4, <2>5
<1>6. CASE Refuse
  <2>1. Elements(inbox') \subseteq Elements(inbox)
    <3>1. inbox # <<>> /\ inbox' = Tail(inbox)
      BY <1>6 DEF Refuse
    <3>2. Elements(inbox) = Elements(Tail(inbox)) \cup {Head(inbox)}
      BY <3>1, InTail DEF TypeOK
    <3> QED BY <3>1, <3>2
  <2> QED BY <1>2, <1>6, <2>1 DEF Refuse, Waiting
<1>7. CASE PeerCloses
  <2>1. Elements(inbox') = {}
    BY <1>7, InEmpty DEF PeerCloses
  <2> QED BY <1>2, <1>7, <2>1 DEF PeerCloses, Waiting
<1>8. CASE ConnectionLost
  <2>1. Elements(inbox') = {}
    BY <1>8, InEmpty DEF ConnectionLost
  <2> QED BY <1>2, <1>8, <2>1 DEF ConnectionLost, Waiting
<1>9. CASE HandleStale
  <2>1. PICK m \in stale : stale' = stale \ {m} /\ executed' \in {executed, executed \cup {m}}
    BY <1>9 DEF HandleStale
  <2>2. inbox' = inbox /\ m \in Waiting /\ Waiting' \subseteq Waiting
    BY <1>9, <2>1 DEF HandleStale, Waiting
  <2>3. CASE executed' = executed
    BY <1>2, <2>2, <2>3
  <2>4. CASE executed' = executed \cup {m} /\ IsCommand(m)
    <3>1. m \notin executed /\ m \notin Elements(inbox)
      BY <2>1, <2>4 DEF Apart
    <3>2. Waiting' = Waiting \ {m}
      BY <2>1, <2>2, <3>1 DEF Waiting
    <3> QED BY <1>3, <2>2, <2>4, <3>1, <3>2
  <2>5. CASE executed' = executed \cup {m} /\ ~IsCommand(m)
    BY <1>4, <2>2, <2>5
  <2> QED BY <2>1, <2>3, <2>4, <2>5
<1> QED BY <1>5, <1>6, <1>7, <1>8, <1>9 DEF Server

\* A command is written once, in its turn.
LEMMA OnceWrite ==
    ASSUME TypeOK, Stage, LockInv, NEW t \in Task, Write(t)
    PROVE  Once!Send(t)
<1> DEFINE w == Message(t, op[t])
<1>1. /\ op[t] \in Commands /\ pc[t] \in {"write", "connect"} /\ outcome[t] = "pending"
      /\ pc' = [pc EXCEPT ![t] = "reply"] /\ ahead[t] = {}
      /\ UNCHANGED <<calls, ahead, outcome, executed, stale>>
  BY DEF Write, AboutToWrite, Stage, Goto, LockInv, HolderFirst, Holding
<1>2. w \in Messages /\ IsCommand(w) /\ CallOf(w) = <<t, calls[t]>>
  BY <1>1, MessageType DEF IsCommand
<1>3. inbox' \in {inbox, Append(inbox, w)}
  BY DEF Write
<1> HIDE DEF w
<1>4. Elements(inbox') \in {Elements(inbox), Elements(inbox) \cup {w}}
  <2>1. Elements(Append(inbox, w)) = Elements(inbox) \cup {w}
    BY <1>2, InAppend DEF TypeOK
  <2> QED BY <1>3, <2>1
<1>5. CallsIn(stale' \cup Elements(inbox')) \in
        {CallsIn(stale \cup Elements(inbox)),
         CallsIn(stale \cup Elements(inbox)) \cup {<<t, calls[t]>>}}
  <2>1. CASE Elements(inbox') = Elements(inbox)
    BY <1>1, <2>1
  <2>2. CASE Elements(inbox') = Elements(inbox) \cup {w}
    <3>1. stale' \cup Elements(inbox') = (stale \cup Elements(inbox)) \cup {w}
      BY <1>1, <2>2
    <3>2. CallsIn((stale \cup Elements(inbox)) \cup {w})
            = CallsIn(stale \cup Elements(inbox)) \cup CallsIn({w})
      BY CallsOfUnion
    <3>3. CallsIn({w}) = {<<t, calls[t]>>}
      BY <1>2, CallsOfOne
    <3> QED BY <3>1, <3>2, <3>3
  <2> QED BY <1>4, <2>1, <2>2
<1>6. Standing[t] = "pending" /\ Standing' = [Standing EXCEPT ![t] = "sent"]
  BY <1>1 DEF Standing, TypeOK
<1> QED BY <1>1, <1>5, <1>6 DEF Once!Send, Once!Turn, Once!Underway

LEMMA OnceStep ==
    ASSUME TypeOK, Stage, LockInv, GreetingInv, SentInv, Apart, [Next]_vars
    PROVE  [Once!Next]_(Once!vars)
<1> USE DEF TypeOK, taskVars, linkVars
<1>1. \A t \in Task : Once!Underway(t) <=> pc[t] # "idle"
  BY DEF Once!Underway, Standing, Stage
<1>2. ASSUME NEW t \in Task, NEW o \in Ops, Call(t, o)
      PROVE  Once!Ask(t)
  <2>1. Standing' = [Standing EXCEPT ![t] = "pending"]
    BY <1>2 DEF Call, Standing
  <2>2. UNCHANGED <<CallsIn(stale \cup Elements(inbox)), CallsIn(executed)>>
    BY <1>2 DEF Call
  <2>3. /\ pc[t] = "idle" /\ calls' = [calls EXCEPT ![t] = @ + 1]
        /\ ahead' = [ahead EXCEPT ![t] = {u \in Task : pc[u] # "idle"}]
    BY <1>2 DEF Call
  <2> QED BY <1>1, <2>1, <2>2, <2>3 DEF Once!Ask
<1>3. ASSUME NEW t \in Task, NEW result \in {"ok", "nack", "failed", "done", "cancelled"},
             Release(t, result), pc[t] # "idle",
             UNCHANGED <<CallsIn(stale \cup Elements(inbox)), CallsIn(executed)>>
      PROVE  Once!Leave(t, result)
  <2>1. Standing' = [Standing EXCEPT ![t] = result]
    BY <1>3 DEF Release, Standing
  <2> QED BY <1>3, <2>1 DEF Once!Leave, Release
<1>4. ASSUME NEW t \in Task, TaskStep(t), ~Write(t)
      PROVE  \/ \E result \in {"ok", "nack", "failed", "done"} : Once!Return(t, result)
             \/ UNCHANGED Once!vars
  <2>1. pc[t] # "idle" /\ ahead[t] = {}
    BY <1>4, OnlyTheHolderMoves
  <2>2. UNCHANGED <<CallsIn(stale \cup Elements(inbox)), CallsIn(executed)>>
    BY <1>4, OnceQuiet
  <2>3. \/ \E where \in {"connect", "greeting", "write", "closing"} :
              Goto(t, where) /\ pc[t] # "reply"
        \/ \E result \in {"ok", "nack", "failed", "done"} :
              Release(t, result) /\ (pc[t] = "reply" <=> result \in {"ok", "nack"})
    BY <1>4 DEF TaskStep, Begin, Close, AlreadyConnected, Open, OpenFails, GreetingFails,
                Greeted, WriteFails, AboutToWrite, Unanswered, Answered, Closed, HasLock,
                NextAttempt
  <2>4. ASSUME NEW where \in {"connect", "greeting", "write", "closing"},
               Goto(t, where), pc[t] # "reply"
        PROVE  UNCHANGED Once!vars
    <3>1. Standing' = Standing
      BY <2>4 DEF Goto, Standing
    <3> QED BY <2>2, <2>4, <3>1 DEF Goto, Once!vars
  <2>5. ASSUME NEW result \in {"ok", "nack", "failed", "done"}, Release(t, result),
               pc[t] = "reply" <=> result \in {"ok", "nack"}
        PROVE  Once!Return(t, result)
    <3>1. Once!Leave(t, result)
      BY <1>3, <2>1, <2>2, <2>5
    <3>2. Standing[t] = "sent" <=> pc[t] = "reply"
      BY DEF Standing
    <3> QED BY <1>1, <2>1, <2>5, <3>1, <3>2 DEF Once!Return, Once!Turn
  <2> QED BY <2>3, <2>4, <2>5
<1>5. ASSUME NEW t \in Task, Cancel(t)
      PROVE  Once!Withdraw(t)
  <2>1. UNCHANGED <<CallsIn(stale \cup Elements(inbox)), CallsIn(executed)>>
    BY <1>5 DEF Cancel
  <2>2. pc[t] # "idle" /\ Release(t, "cancelled")
    BY <1>5 DEF Cancel
  <2>3. Once!Leave(t, "cancelled")
    BY <1>3, <2>1, <2>2
  <2> QED BY <1>1, <2>2, <2>3 DEF Once!Withdraw
<1>6. CASE Server
  BY <1>6, OnceServer DEF Once!Next, Waiting
<1>7. CASE UNCHANGED vars
  <2>1. Standing' = Standing
    BY <1>7 DEF vars, Standing
  <2>2. UNCHANGED <<CallsIn(stale \cup Elements(inbox)), CallsIn(executed)>>
    BY <1>7 DEF vars
  <2> QED BY <1>7, <2>1, <2>2 DEF vars, Once!vars
<1> QED BY <1>2, <1>4, <1>5, <1>6, <1>7, OnceWrite DEF Next, AllDone, Once!Next

\* IcmpClient implements OnceCalls: whatever the network, the server and the
\* tasks that cancel do, calls have their turns and commands are sent once.
THEOREM Refinement == Spec => ImplementsOnceCalls
<1>1. ASSUME TypeOK, Stage, LockInv, GreetingInv, SentInv, Apart, [Next]_vars
      PROVE  [Once!Next]_(Once!vars)
  BY <1>1, OnceStep
<1> QED BY <1>1, OnceInit, TypeCorrect, StageCorrect, LockCorrect, GreetingCorrect, SentCorrect,
           PTL DEF Spec, ImplementsOnceCalls, Once!Spec
==============================================================================
