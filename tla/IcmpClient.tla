------------------------------ MODULE IcmpClient ------------------------------
(***************************************************************************)
(* IcmpClient (icmp.py): one TCP connection to the automation server of    *)
(* the media block.  A command is written and at most one reply is read    *)
(* back, for two seconds; no reply counts as success.  Unlike BarcoClient  *)
(* it repeats a command only while nothing of it has been written.         *)
(*                                                                         *)
(* Replies carry no command: whatever is in the buffer is taken for the    *)
(* reply to the command just written.                                      *)
(***************************************************************************)
EXTENDS Naturals, Sequences

CONSTANTS
    Task,      \* coroutines that use the client
    MaxCalls,  \* bound: calls each task makes
    Ops        \* the operations the tasks make

\* "batch" is a command of the send_automation action that holds two commands.
Commands == {"send", "batch"}

ASSUME OpsAssumption == Ops \subseteq Commands \cup {"connect", "close"}
ASSUME CallsAssumption == MaxCalls \in Nat

VARIABLES
    pc,        \* where each task waits
    op,        \* the operation of its current, or last, call
    calls,     \* how many calls it has made
    attempt,   \* the for loop of async_send
    ahead,     \* self._lock: the tasks that hold it or queued before this one
    outcome,   \* how the call ended
    refusals,  \* the calls whose NACKs were in the reply that ended it
    behind,    \* written while the reply to another command could still come
    link,      \* self._writer, as in BarcoClient
    inbox,     \* commands written to the current socket, not yet handled
    stream,    \* replies sent on the current socket, not yet read
    acking,    \* the server acknowledges commands on the current socket
    stale,     \* commands left at the server by sockets that are gone
    executed   \* commands the server has carried out

taskVars == <<pc, op, calls, attempt, ahead, outcome, refusals, behind>>
linkVars == <<link, inbox, stream, acking, stale, executed>>
vars == <<taskVars, linkVars>>

\* "greeting" is the ACK,1; that opens a connection.
Messages ==
    [task : Task, call : Nat, attempt : {1, 2}, op : Commands \cup {"greeting"}]
Replies == [kind : {"ack", "nack"}, for : Task \X Nat]

Message(t, o) == [task |-> t, call |-> calls[t], attempt |-> attempt[t], op |-> o]
Reply(k, m) == [kind |-> k, for |-> <<m.task, m.call>>]

Elements(s) == {s[i] : i \in 1 .. Len(s)}
Connected == link \in {"open", "eof"}
Holding(t) == pc[t] \in {"connect", "greeting", "write", "reply", "closing"}

Init ==
    /\ pc = [t \in Task |-> "idle"]
    /\ op = [t \in Task |-> "close"]
    /\ calls = [t \in Task |-> 0]
    /\ attempt = [t \in Task |-> 1]
    /\ ahead = [t \in Task |-> {}]
    /\ outcome = [t \in Task |-> "none"]
    /\ refusals = [t \in Task |-> {}]
    /\ behind = [t \in Task |-> FALSE]
    /\ link = "none"
    /\ inbox = <<>>
    /\ stream = <<>>
    /\ acking = FALSE
    /\ stale = {}
    /\ executed = {}
------------------------------------------------------------------------------
(* Helpers: leaving the lock, _close up to its await, the next attempt. *)

Goto(t, where) ==
    /\ pc' = [pc EXCEPT ![t] = where]
    /\ UNCHANGED <<op, calls, ahead, outcome>>

Release(t, result) ==
    /\ pc' = [pc EXCEPT ![t] = "idle"]
    /\ ahead' = [u \in Task |-> ahead[u] \ {t}]
    /\ outcome' = [outcome EXCEPT ![t] = result]
    /\ UNCHANGED <<op, calls>>

DropLink ==
    /\ link' = "none"
    /\ stale' = stale \cup Elements(inbox)
    /\ inbox' = <<>>
    /\ stream' = <<>>
    /\ UNCHANGED <<acking, executed>>

\* Mutant: tries again for ever.
AlwaysAgain(t) ==
    /\ attempt' = [attempt EXCEPT ![t] = @ + 1]
    /\ Goto(t, "connect")

\* Mutant: the last failure leaves without releasing the lock.
FailWithLock(t) ==
    /\ pc' = [pc EXCEPT ![t] = IF attempt[t] = 1 THEN "connect" ELSE "idle"]
    /\ attempt' = [attempt EXCEPT ![t] = 2]
    /\ UNCHANGED <<op, calls, ahead, outcome>>

NextAttempt(t) ==
    IF attempt[t] = 1
      THEN /\ attempt' = [attempt EXCEPT ![t] = 2]
           /\ Goto(t, "connect")
      ELSE /\ Release(t, "failed")
           /\ UNCHANGED attempt
------------------------------------------------------------------------------
(* async_send, async_connect and async_close, await by await. *)

Call(t, o) ==
    /\ pc[t] = "idle"
    /\ calls[t] < MaxCalls
    /\ pc' = [pc EXCEPT ![t] = "queued"]
    /\ op' = [op EXCEPT ![t] = o]
    /\ calls' = [calls EXCEPT ![t] = @ + 1]
    /\ attempt' = [attempt EXCEPT ![t] = 1]
    /\ ahead' = [ahead EXCEPT ![t] = {u \in Task : pc[u] # "idle"}]
    /\ outcome' = [outcome EXCEPT ![t] = "pending"]
    /\ refusals' = [refusals EXCEPT ![t] = {}]
    /\ behind' = [behind EXCEPT ![t] = FALSE]
    /\ UNCHANGED linkVars

NoLock(t) == pc[t] = "queued"  \* mutant: no lock
HasLock(t) == pc[t] = "queued" /\ ahead[t] = {}

Begin(t) ==
    /\ HasLock(t)
    /\ op[t] # "close"
    /\ Goto(t, "connect")
    /\ UNCHANGED <<attempt, refusals, behind, linkVars>>

Close(t) ==
    /\ HasLock(t)
    /\ op[t] = "close"
    /\ DropLink
    /\ IF link = "none" THEN Release(t, "done") ELSE Goto(t, "closing")
    /\ UNCHANGED <<attempt, refusals, behind>>

AlreadyConnected(t) ==
    /\ pc[t] = "connect"
    /\ op[t] = "connect"
    /\ Connected
    /\ Release(t, "done")
    /\ UNCHANGED <<attempt, refusals, behind, linkVars>>

\* Mutant: opens the socket without asking for acknowledgements.
OpenSilently(t) ==
    /\ pc[t] = "connect"
    /\ ~Connected
    /\ link' = "open"
    /\ acking' = FALSE
    /\ Goto(t, "greeting")
    /\ UNCHANGED <<attempt, refusals, behind, inbox, stream, stale, executed>>

\* The streams of a new socket are empty, and its server has the default.
Open(t) ==
    /\ pc[t] = "connect"
    /\ ~Connected
    /\ link' = "open"
    /\ acking' = FALSE
    /\ inbox' = <<Message(t, "greeting")>>
    /\ Goto(t, "greeting")
    /\ UNCHANGED <<attempt, refusals, behind, stream, stale, executed>>

OpenFails(t) ==
    /\ pc[t] = "connect"
    /\ ~Connected
    /\ link' = "none"
    /\ IF op[t] = "connect"
         THEN Release(t, "failed") /\ UNCHANGED attempt
         ELSE NextAttempt(t)
    /\ UNCHANGED <<refusals, behind, inbox, stream, acking, stale, executed>>

\* The OSError passes async_connect, which leaves the dead socket in place.
GreetingFails(t) ==
    /\ pc[t] = "connect"
    /\ ~Connected
    /\ IF op[t] = "connect"
         THEN link' = "lost" /\ Release(t, "failed")
         ELSE link' = "none" /\ Goto(t, "closing")
    /\ UNCHANGED <<attempt, refusals, behind, inbox, stream, acking, stale, executed>>

\* _read_reply gives up: timeout, end of stream, or the connection is lost.
NothingRead ==
    /\ link = "eof" => stream = <<>>
    /\ UNCHANGED linkVars

\* What has arrived, up to 128 bytes, whatever it belongs to.
ReadSome(n) ==
    /\ n \in 1 .. Len(stream)
    /\ stream' = SubSeq(stream, n + 1, Len(stream))
    /\ UNCHANGED <<link, inbox, acking, stale, executed>>

\* Whatever the reply to ACK,1; is, the connection is used.
Greeted(t) ==
    /\ pc[t] = "greeting"
    /\ NothingRead \/ \E n \in 1 .. Len(stream) : ReadSome(n)
    /\ IF op[t] = "connect" THEN Release(t, "done") ELSE Goto(t, "write")
    /\ UNCHANGED <<attempt, refusals, behind>>

AboutToWrite(t) ==
    \/ pc[t] = "write"
    \/ pc[t] = "connect" /\ Connected /\ op[t] \in Commands

\* Nothing is read from a socket whose other end has closed.
Write(t) ==
    /\ AboutToWrite(t)
    /\ Connected
    /\ inbox' = IF link = "open" THEN Append(inbox, Message(t, op[t])) ELSE inbox
    /\ behind' = [behind EXCEPT ![t] = inbox # <<>> \/ stream # <<>>]
    /\ Goto(t, "reply")
    /\ UNCHANGED <<attempt, refusals, link, stream, acking, stale, executed>>

\* The transport refuses the bytes: drain raises, and none of them was sent.
WriteFails(t) ==
    /\ AboutToWrite(t)
    /\ DropLink
    /\ Goto(t, "closing")
    /\ UNCHANGED <<attempt, refusals, behind>>

\* Mutant: a command without a reply is sent again.
RetryUnanswered(t) ==
    /\ pc[t] = "reply"
    /\ NothingRead
    /\ NextAttempt(t)
    /\ UNCHANGED <<refusals, behind>>

Unanswered(t) ==
    /\ pc[t] = "reply"
    /\ NothingRead
    /\ Release(t, "ok")
    /\ UNCHANGED <<attempt, refusals, behind>>

Answered(t) ==
    /\ pc[t] = "reply"
    /\ \E n \in 1 .. Len(stream) :
        LET nacks == {r \in Elements(SubSeq(stream, 1, n)) : r.kind = "nack"} IN
        /\ ReadSome(n)
        /\ refusals' = [refusals EXCEPT ![t] = {r.for : r \in nacks}]
        /\ Release(t, IF nacks = {} THEN "ok" ELSE "nack")
    /\ UNCHANGED <<attempt, behind>>

Closed(t) ==
    /\ pc[t] = "closing"
    /\ IF op[t] = "close"
         THEN Release(t, "done") /\ UNCHANGED attempt
         ELSE NextAttempt(t)
    /\ UNCHANGED <<refusals, behind, linkVars>>

\* Only an await can be interrupted, so not a task about to write.
Cancel(t) ==
    /\ pc[t] # "idle"
    /\ ~AboutToWrite(t)
    /\ Release(t, "cancelled")
    /\ UNCHANGED <<attempt, refusals, behind, linkVars>>
------------------------------------------------------------------------------
(* The server and the network. *)

\* At most one reply to each command, and only on request.
Answer(kind) ==
    LET m == Head(inbox)
        count == IF m.op = "batch" THEN 0 .. 2 ELSE 0 .. 1
    IN \E n \in IF acking' THEN count ELSE {0} :
          stream' = stream \o [i \in 1 .. n |-> Reply(kind, m)]

Execute ==
    /\ inbox # <<>>
    /\ acking' = (acking \/ Head(inbox).op = "greeting")
    /\ Answer("ack")
    /\ executed' = executed \cup {Head(inbox)}
    /\ inbox' = Tail(inbox)
    /\ UNCHANGED <<taskVars, link, stale>>

\* The server knows the ACK control; only commands are refused.
Refuse ==
    /\ inbox # <<>>
    /\ Head(inbox).op # "greeting"
    /\ acking' = acking
    /\ Answer("nack")
    /\ inbox' = Tail(inbox)
    /\ UNCHANGED <<taskVars, link, stale, executed>>

PeerCloses ==
    /\ link = "open"
    /\ link' = "eof"
    /\ inbox' = <<>>
    /\ UNCHANGED <<taskVars, stream, acking, stale, executed>>

ConnectionLost ==
    /\ Connected
    /\ link' = "lost"
    /\ stale' = stale \cup Elements(inbox)
    /\ inbox' = <<>>
    /\ stream' = <<>>
    /\ UNCHANGED <<taskVars, acking, executed>>

HandleStale ==
    /\ \E m \in stale :
        /\ stale' = stale \ {m}
        /\ executed' \in {executed, executed \cup {m}}
    /\ UNCHANGED <<taskVars, link, inbox, stream, acking>>
------------------------------------------------------------------------------
TaskStep(t) ==
    \/ Begin(t)
    \/ Close(t)
    \/ AlreadyConnected(t)
    \/ Open(t)
    \/ OpenFails(t)
    \/ GreetingFails(t)
    \/ Greeted(t)
    \/ Write(t)
    \/ WriteFails(t)
    \/ Unanswered(t)
    \/ Answered(t)
    \/ Closed(t)

Server ==
    \/ Execute
    \/ Refuse
    \/ PeerCloses
    \/ ConnectionLost
    \/ HandleStale

\* Every task has made its calls; nothing is left to happen.
AllDone ==
    /\ \A t \in Task : pc[t] = "idle" /\ calls[t] = MaxCalls
    /\ UNCHANGED vars

Next ==
    \/ \E t \in Task : \/ \E o \in Ops : Call(t, o)
                       \/ TaskStep(t)
                       \/ Cancel(t)
    \/ Server
    \/ AllDone

Spec == Init /\ [][Next]_vars

\* As in BarcoClient: the connection attempt and every read have a timeout.
FairSpec == Spec /\ \A t \in Task : WF_vars(TaskStep(t))
------------------------------------------------------------------------------
(* Properties. *)

\* Every variable has its type.
TypeOK ==
    /\ pc \in [Task -> {"idle", "queued", "connect", "greeting", "write", "reply", "closing"}]
    /\ op \in [Task -> Commands \cup {"connect", "close"}]
    /\ calls \in [Task -> Nat]
    /\ attempt \in [Task -> {1, 2}]
    /\ ahead \in [Task -> SUBSET Task]
    /\ outcome \in [Task -> {"none", "pending", "ok", "nack", "failed", "done", "cancelled"}]
    /\ refusals \in [Task -> SUBSET (Task \X Nat)]
    /\ behind \in [Task -> BOOLEAN]
    /\ link \in {"none", "open", "eof", "lost"}
    /\ inbox \in Seq(Messages)
    /\ stream \in Seq(Replies)
    /\ acking \in BOOLEAN
    /\ stale \subseteq Messages
    /\ executed \subseteq Messages

\* At most one task is between taking the lock and releasing it, also when
\* tasks are cancelled: replies are told apart only by the order of commands.
OneCommandAtATime ==
    \A t, u \in Task : Holding(t) /\ Holding(u) => t = u

\* A command is never carried out twice: async_send repeats it only after a
\* failed connect or write, and not after a reply that did not come.
CarriedOutOnce ==
    \A m, n \in executed :
        m.task = n.task /\ m.call = n.call /\ {m.op, n.op} \subseteq Commands => m = n

\* IcmpConnectionError means that nothing was done nor will be: no copy of
\* the command is at the server or on the way, so it is safe to send it again.
FailedIsUnsent ==
    \A t \in Task : outcome[t] = "failed" =>
        ~\E m \in executed \cup stale \cup Elements(inbox) :
            m.task = t /\ m.call = calls[t] /\ m.op \in Commands

\* _ensure_connected: no command reaches the server on a socket on which the
\* acknowledgements were not enabled before.
AcknowledgedFromTheStart ==
    inbox # <<>> /\ Head(inbox).op # "greeting" => acking

\* icmp.py:129 "{command} was rejected": the NACK that ends a call with
\* IcmpNotAcknowledged is the reply to its own command, if every command before
\* it on the same socket had had its reply when it was written.  A NACK that
\* comes after the two seconds is taken for the reply to the next command
\* (icmp.py:127): that is the case ~behind leaves out.
RejectionIsOwn ==
    [][\A t \in Task :
        /\ pc[t] = "reply"
        /\ outcome'[t] = "nack"
        /\ ~behind[t]
        => refusals'[t] = {<<t, calls[t]>>}]_vars

\* The client implements the calls its users rely on: turns in order of arrival,
\* a command sent and carried out at most once, and not at all by a failed call.
IsCommand(m) == m.op \in Commands
CallOf(m) == <<m.task, m.call>>
CallsIn(set) == {CallOf(m) : m \in {n \in set : IsCommand(n)}}
Standing == [t \in Task |-> IF pc[t] = "reply" THEN "sent" ELSE outcome[t]]
Once == INSTANCE OnceCalls WITH
    outcome <- Standing,
    sent <- CallsIn(stale \cup Elements(inbox)),
    effects <- CallsIn(executed)
ImplementsOnceCalls == Once!Spec

\* Every call returns, whatever the server does.
EveryCallReturns ==
    \A t \in Task : pc[t] # "idle" ~> pc[t] = "idle"
==============================================================================
