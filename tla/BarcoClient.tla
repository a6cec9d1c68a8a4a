----------------------------- MODULE BarcoClient -----------------------------
(***************************************************************************)
(* BarcoClient (protocol.py): one TCP connection to the projector, shared  *)
(* by every coroutine of the integration.  Requests are serialised by an   *)
(* asyncio.Lock, answered by position in the byte stream (a frame carries  *)
(* no request number) and retried once on a fresh connection.              *)
(*                                                                         *)
(* One step of a task runs from one await to the next.  Frames are         *)
(* abstracted to their kind plus the call they answer; the kind is all the *)
(* client looks at, the call is what the properties compare.               *)
(***************************************************************************)
EXTENDS Naturals, Sequences

CONSTANTS
    Task,      \* coroutines that use the client
    MaxCalls,  \* bound: calls each task makes
    Ops,       \* the operations the tasks make
    Cancels    \* whether a task may be cancelled while it waits

(***************************************************************************)
(* "read" and "write" are the commands of BarcoProjector: expect_answer is *)
(* set exactly for the commands the projector answers.  "raw_read" is a    *)
(* read command sent by the send_raw action, which never sets it.          *)
(***************************************************************************)
RequestOps == {"read", "write", "raw_read"}
ExpectNever(o) == FALSE  \* mutant: the read methods forget expect_answer
ExpectAnswer(o) == o = "read"
IsReadCommand(o) == o \in {"read", "raw_read"}

ASSUME OpsAssumption == Ops \subseteq RequestOps \cup {"connect", "close"}
ASSUME CallsAssumption == MaxCalls \in Nat
ASSUME CancelsAssumption == Cancels \in BOOLEAN

VARIABLES
    pc,         \* where each task waits
    op,         \* the operation of its current, or last, call
    calls,      \* how many calls it has made
    attempt,    \* the for loop of async_request
    ahead,      \* self._lock: the tasks that hold it or queued before this one
    outcome,    \* how the call ended
    settledBy,  \* the call that the frame which ended it answers
    link,       \* self._writer: see Connected
    inbox,      \* bytes written to the current socket, not yet handled
    stream,     \* frames sent on the current socket, not yet read
    stale,      \* bytes left at the projector by sockets that are gone
    executed    \* transmissions the projector has carried out

taskVars == <<pc, op, calls, attempt, ahead, outcome, settledBy>>
linkVars == <<link, inbox, stream, stale, executed>>
vars == <<taskVars, linkVars>>

Transmissions ==
    [task : Task, call : Nat, attempt : {1, 2}, op : RequestOps]
Frames == [kind : {"ack", "nack", "answer", "bad"}, for : Task \X Nat]

Frame(k, m) == [kind |-> k, for |-> <<m.task, m.call>>]
Transmission(t) ==
    [task |-> t, call |-> calls[t], attempt |-> attempt[t], op |-> op[t]]
Elements(s) == {s[i] : i \in 1 .. Len(s)}

(***************************************************************************)
(* "none": self._writer is None.  "open": usable.  "eof": the peer has     *)
(* closed; asyncio keeps the transport, so is_closing() is still false.    *)
(* "lost": the transport is gone and is_closing() is true.                 *)
(***************************************************************************)
Connected == link \in {"open", "eof"}
Holding(t) == pc[t] \in {"connect", "ack", "answer", "closing"}

Init ==
    /\ pc = [t \in Task |-> "idle"]
    /\ op = [t \in Task |-> "close"]
    /\ calls = [t \in Task |-> 0]
    /\ attempt = [t \in Task |-> 1]
    /\ ahead = [t \in Task |-> {}]
    /\ outcome = [t \in Task |-> "none"]
    /\ settledBy = [t \in Task |-> <<t, 0>>]
    /\ link = "none"
    /\ inbox = <<>>
    /\ stream = <<>>
    /\ stale = {}
    /\ executed = {}
------------------------------------------------------------------------------
(* Helpers: leaving the lock, and _close up to its await. *)

Goto(t, where) == pc' = [pc EXCEPT ![t] = where]

Release(t, result) ==
    /\ Goto(t, "idle")
    /\ ahead' = [u \in Task |-> ahead[u] \ {t}]
    /\ outcome' = [outcome EXCEPT ![t] = result]
    /\ UNCHANGED <<op, calls>>

Stay == UNCHANGED <<op, calls, ahead, outcome>>

DropLink ==
    /\ link' = "none"
    /\ stale' = stale \cup Elements(inbox)
    /\ inbox' = <<>>
    /\ stream' = <<>>

\* Mutant: tries again for ever.
AlwaysAgain(t) ==
    /\ attempt' = [attempt EXCEPT ![t] = @ + 1]
    /\ Goto(t, "connect")
    /\ Stay

\* Mutant: the last failure leaves without releasing the lock.
FailWithLock(t) ==
    /\ Goto(t, IF attempt[t] = 1 THEN "connect" ELSE "idle")
    /\ attempt' = [attempt EXCEPT ![t] = 2]
    /\ outcome' = [outcome EXCEPT ![t] = IF attempt[t] = 1 THEN @ ELSE "failed"]
    /\ UNCHANGED <<op, calls, ahead>>

NextAttempt(t) ==
    IF attempt[t] = 1
      THEN /\ attempt' = [attempt EXCEPT ![t] = 2]
           /\ Goto(t, "connect")
           /\ Stay
      ELSE /\ Release(t, "failed")
           /\ UNCHANGED attempt
------------------------------------------------------------------------------
(* async_request, async_connect and async_close, await by await. *)

\* Mutant: a call that waits does not count for those that come after it.
CallBarging(t, o) ==
    /\ pc[t] = "idle"
    /\ calls[t] < MaxCalls
    /\ Goto(t, "queued")
    /\ op' = [op EXCEPT ![t] = o]
    /\ calls' = [calls EXCEPT ![t] = @ + 1]
    /\ attempt' = [attempt EXCEPT ![t] = 1]
    /\ ahead' = [ahead EXCEPT ![t] = {u \in Task : Holding(u)}]
    /\ outcome' = [outcome EXCEPT ![t] = "pending"]
    /\ settledBy' = [settledBy EXCEPT ![t] = <<t, 0>>]
    /\ UNCHANGED linkVars

Call(t, o) ==
    /\ pc[t] = "idle"
    /\ calls[t] < MaxCalls
    /\ Goto(t, "queued")
    /\ op' = [op EXCEPT ![t] = o]
    /\ calls' = [calls EXCEPT ![t] = @ + 1]
    /\ attempt' = [attempt EXCEPT ![t] = 1]
    /\ ahead' = [ahead EXCEPT ![t] = {u \in Task : pc[u] # "idle"}]
    /\ outcome' = [outcome EXCEPT ![t] = "pending"]
    /\ settledBy' = [settledBy EXCEPT ![t] = <<t, 0>>]
    /\ UNCHANGED linkVars

NoLock(t) == pc[t] = "queued"  \* mutant: no lock
HasLock(t) == pc[t] = "queued" /\ ahead[t] = {}

Begin(t) ==
    /\ HasLock(t)
    /\ op[t] # "close"
    /\ Goto(t, "connect")
    /\ Stay
    /\ UNCHANGED <<attempt, settledBy, linkVars>>

Close(t) ==
    /\ HasLock(t)
    /\ op[t] = "close"
    /\ DropLink
    /\ IF link = "none"
         THEN Release(t, "done")
         ELSE Goto(t, "closing") /\ Stay
    /\ UNCHANGED <<attempt, settledBy, executed>>

AlreadyConnected(t) ==
    /\ pc[t] = "connect"
    /\ op[t] = "connect"
    /\ Connected
    /\ Release(t, "done")
    /\ UNCHANGED <<attempt, settledBy, linkVars>>

OpenOnly(t) ==
    /\ pc[t] = "connect"
    /\ op[t] = "connect"
    /\ ~Connected
    /\ link' = "open"
    /\ Release(t, "done")
    /\ UNCHANGED <<attempt, settledBy, inbox, stream, stale, executed>>

\* Nothing is read from a socket whose other end has closed.
Transmit(t) ==
    /\ pc[t] = "connect"
    /\ op[t] \in RequestOps
    /\ Connected
    /\ inbox' = IF link = "open" THEN Append(inbox, Transmission(t)) ELSE inbox
    /\ Goto(t, "ack")
    /\ Stay
    /\ UNCHANGED <<attempt, settledBy, link, stream, stale, executed>>

\* The streams are new: a "lost" link has left nothing in them.
OpenAndTransmit(t) ==
    /\ pc[t] = "connect"
    /\ op[t] \in RequestOps
    /\ ~Connected
    /\ link' = "open"
    /\ inbox' = <<Transmission(t)>>
    /\ Goto(t, "ack")
    /\ Stay
    /\ UNCHANGED <<attempt, settledBy, stream, stale, executed>>

OpenFails(t) ==
    /\ pc[t] = "connect"
    /\ ~Connected
    /\ link' = "none"
    /\ IF op[t] = "connect"
         THEN Release(t, "failed") /\ UNCHANGED attempt
         ELSE NextAttempt(t)
    /\ UNCHANGED <<settledBy, inbox, stream, stale, executed>>

\* The first frame ended the call, or the frame after the acknowledge did.
Settle(t, result) ==
    /\ stream' = Tail(stream)
    /\ settledBy' = [settledBy EXCEPT ![t] = Head(stream).for]
    /\ Release(t, result)
    /\ UNCHANGED <<attempt, link, inbox, stale, executed>>

\* Mutant: a refusal is taken for an acknowledge.
RejectedAsOk(t) ==
    /\ pc[t] = "ack"
    /\ stream # <<>>
    /\ Head(stream).kind = "nack"
    /\ Settle(t, "ok")

Rejected(t) ==
    /\ pc[t] = "ack"
    /\ stream # <<>>
    /\ Head(stream).kind = "nack"
    /\ Settle(t, "nack")

\* Mutant: every acknowledge ends the exchange.
AnsweredByAck(t) ==
    /\ pc[t] = "ack"
    /\ stream # <<>>
    /\ Head(stream).kind \in {"ack", "answer"}
    /\ Settle(t, "ok")

Answered(t) ==
    /\ stream # <<>>
    /\ \/ /\ pc[t] = "ack"
          /\ Head(stream).kind = "answer"
       \/ /\ pc[t] = "ack"
          /\ Head(stream).kind = "ack"
          /\ ~ExpectAnswer(op[t])
       \/ /\ pc[t] = "answer"
          /\ Head(stream).kind # "bad"
    /\ Settle(t, "ok")

Acknowledged(t) ==
    /\ pc[t] = "ack"
    /\ stream # <<>>
    /\ Head(stream).kind = "ack"
    /\ ExpectAnswer(op[t])
    /\ stream' = Tail(stream)
    /\ Goto(t, "answer")
    /\ Stay
    /\ UNCHANGED <<attempt, settledBy, link, inbox, stale, executed>>

\* Mutant: retries on the connection it has.
RetryInPlace(t) ==
    /\ pc[t] \in {"ack", "answer"}
    /\ Goto(t, "closing")
    /\ Stay
    /\ UNCHANGED <<attempt, settledBy, executed, link, inbox, stream, stale>>

\* Timeout (the frame may still be under way), end of stream, reset by the
\* peer or malformed frame: whichever it is, the socket is given up.
AttemptFails(t) ==
    /\ pc[t] \in {"ack", "answer"}
    /\ DropLink
    /\ Goto(t, "closing")
    /\ Stay
    /\ UNCHANGED <<attempt, settledBy, executed>>

Closed(t) ==
    /\ pc[t] = "closing"
    /\ IF op[t] = "close"
         THEN Release(t, "done") /\ UNCHANGED attempt
         ELSE NextAttempt(t)
    /\ UNCHANGED <<settledBy, linkVars>>

\* CancelledError passes the except clauses; leaving the with block releases
\* the lock.  Only an await can be interrupted, so not a task about to write.
Cancel(t) ==
    /\ Cancels
    /\ pc[t] # "idle"
    /\ ~(pc[t] = "connect" /\ Connected)
    /\ Release(t, "cancelled")
    /\ UNCHANGED <<attempt, settledBy, linkVars>>
------------------------------------------------------------------------------
(* The projector and the network. *)

\* What follows an executed command; <<>> is an answer that never comes.
AnswersTo(m) ==
    {<<>>, <<Frame("bad", m)>>, <<Frame("ack", m)>>} \cup
    (IF IsReadCommand(m.op)
       THEN {<<Frame("ack", m), Frame("answer", m)>>,
             <<Frame("ack", m), Frame("bad", m)>>,
             <<Frame("answer", m)>>}
       ELSE {})

Execute ==
    /\ inbox # <<>>
    /\ executed' = executed \cup {Head(inbox)}
    /\ \E frames \in AnswersTo(Head(inbox)) : stream' = stream \o frames
    /\ inbox' = Tail(inbox)
    /\ UNCHANGED <<taskVars, link, stale>>

Refuse ==
    /\ inbox # <<>>
    /\ \E frames \in {<<>>, <<Frame("nack", Head(inbox))>>} :
            stream' = stream \o frames
    /\ inbox' = Tail(inbox)
    /\ UNCHANGED <<taskVars, link, stale, executed>>

\* The idle timeout of series 2, or power off; unread commands go with it.
PeerCloses ==
    /\ link = "open"
    /\ link' = "eof"
    /\ inbox' = <<>>
    /\ UNCHANGED <<taskVars, stream, stale, executed>>

ConnectionLost ==
    /\ Connected
    /\ link' = "lost"
    /\ stale' = stale \cup Elements(inbox)
    /\ inbox' = <<>>
    /\ stream' = <<>>
    /\ UNCHANGED <<taskVars, executed>>

\* Bytes that reached the projector on a socket since given up.
HandleStale ==
    /\ \E m \in stale :
        /\ stale' = stale \ {m}
        /\ executed' \in {executed, executed \cup {m}}
    /\ UNCHANGED <<taskVars, link, inbox, stream>>
------------------------------------------------------------------------------
TaskStep(t) ==
    \/ Begin(t)
    \/ Close(t)
    \/ AlreadyConnected(t)
    \/ OpenOnly(t)
    \/ Transmit(t)
    \/ OpenAndTransmit(t)
    \/ OpenFails(t)
    \/ Rejected(t)
    \/ Answered(t)
    \/ Acknowledged(t)
    \/ AttemptFails(t)
    \/ Closed(t)

Environment ==
    \/ Execute
    \/ Refuse
    \/ PeerCloses
    \/ ConnectionLost
    \/ HandleStale

\* Every task has made its calls; nothing is left to happen.
AllDone ==
    /\ \A t \in Task : pc[t] = "idle" /\ calls[t] = MaxCalls
    /\ UNCHANGED vars

Next ==
    \/ \E t \in Task : \/ \E o \in Ops : Call(t, o)
                       \/ TaskStep(t)
                       \/ Cancel(t)
    \/ Environment
    \/ AllDone

Spec == Init /\ [][Next]_vars

\* open_connection and every read are under wait_for(self.timeout), and the
\* loop runs a task that is ready: a task that holds the lock moves on
\* whatever the projector does.  drain and wait_closed have no timeout; they
\* wait for a write buffer that never holds more than one short command.
\* Nothing is assumed of the projector.
FairSpec == Spec /\ \A t \in Task : WF_vars(TaskStep(t))
------------------------------------------------------------------------------
(* Properties. *)

\* Every variable has its type.
TypeOK ==
    /\ pc \in [Task -> {"idle", "queued", "connect", "ack", "answer", "closing"}]
    /\ op \in [Task -> RequestOps \cup {"connect", "close"}]
    /\ calls \in [Task -> Nat]
    /\ attempt \in [Task -> {1, 2}]
    /\ ahead \in [Task -> SUBSET Task]
    /\ outcome \in [Task -> {"none", "pending", "ok", "nack", "failed",
                             "done", "cancelled"}]
    /\ settledBy \in [Task -> Task \X Nat]
    /\ link \in {"none", "open", "eof", "lost"}
    /\ inbox \in Seq(Transmissions)
    /\ stream \in Seq(Frames)
    /\ stale \subseteq Transmissions
    /\ executed \subseteq Transmissions

\* "One request at a time" (protocol.py:11): at most one task is between
\* taking the lock and releasing it, also when tasks are cancelled.
OneRequestAtATime ==
    \A t, u \in Task : Holding(t) /\ Holding(u) => t = u

\* async_request reports the answer to its own command: the frame that ends
\* a call, with an answer, an acknowledge or a refusal, answers that call.
AnswerIsOwn ==
    \A t \in Task :
        outcome[t] \in {"ok", "nack"} => settledBy[t] = <<t, calls[t]>>

\* Nothing is under way on a usable connection while no task holds it, so
\* the next request starts in step with the projector.
QuietWhenFree ==
    (Connected /\ ~\E t \in Task : Holding(t)) => stream = <<>> /\ inbox = <<>>

\* A call that returned without an error was carried out, on the attempt
\* that succeeded; a refused one was not, on the attempt that was refused.
OutcomeIsTrue ==
    \A t \in Task :
        /\ outcome[t] = "ok" /\ op[t] \in RequestOps
              => Transmission(t) \in executed
        /\ outcome[t] = "nack" => Transmission(t) \notin executed

\* A second attempt never uses the socket of the first: while the attempt
\* changes, the connection is gone and both of its directions are empty.
RetryOnFreshConnection ==
    [][\A t \in Task :
        attempt[t] = 1 /\ attempt'[t] = 2
            => link' = "none" /\ stream' = <<>> /\ inbox' = <<>>]_vars

\* First come, first served: a task that takes the lock had no other task
\* queued before it, also after a cancellation in the middle of the queue.
FirstComeFirstServed ==
    [][\A t, u \in Task :
        pc[t] = "queued" /\ pc'[t] # "queued" /\ outcome'[t] # "cancelled"
            => ~(pc[u] # "idle" /\ t # u /\ t \notin ahead[u])]_vars

\* The client implements the serial calls its users rely on: turns in order
\* of arrival, at most two effects, and an effect before every "ok".
Effects == {<<m.task, m.call, m.attempt>> : m \in executed}
Serial == INSTANCE SerialCalls WITH effects <- Effects
ImplementsSerialCalls == Serial!Spec

\* Every call returns, whatever the projector does.
EveryCallReturns ==
    \A t \in Task : pc[t] # "idle" ~> pc[t] = "idle"
==============================================================================
