------------------------------ MODULE OnceCalls ------------------------------
(***************************************************************************)
(* What IcmpClient promises the entities that share it: calls are taken in *)
(* the order in which they were made, one at a time; the command of a call *)
(* is sent at most once, in its turn, and carried out at most once, perhaps *)
(* long after the call has ended or was cancelled; and a call that failed  *)
(* was not sent.  It says nothing of sockets, greetings or replies.        *)
(***************************************************************************)
EXTENDS Naturals

CONSTANT Task

VARIABLES
    calls,    \* how many calls each task has made
    ahead,    \* the tasks whose call must end before this task's turn
    outcome,  \* how the task's last call ended, or "pending", or "sent"
    sent,     \* <<task, call>>: its command may still be carried out
    effects   \* <<task, call>>: its command was carried out

vars == <<calls, ahead, outcome, sent, effects>>

Underway(t) == outcome[t] \in {"pending", "sent"}
Turn(t) == Underway(t) /\ ahead[t] = {}

Init ==
    /\ calls = [t \in Task |-> 0]
    /\ ahead = [t \in Task |-> {}]
    /\ outcome = [t \in Task |-> "none"]
    /\ sent = {}
    /\ effects = {}

Ask(t) ==
    /\ ~Underway(t)
    /\ calls' = [calls EXCEPT ![t] = @ + 1]
    /\ ahead' = [ahead EXCEPT ![t] = {u \in Task : Underway(u)}]
    /\ outcome' = [outcome EXCEPT ![t] = "pending"]
    /\ UNCHANGED <<sent, effects>>

\* A command sent to a server that has closed the connection is lost.
Send(t) ==
    /\ Turn(t)
    /\ outcome[t] = "pending"
    /\ outcome' = [outcome EXCEPT ![t] = "sent"]
    /\ sent' \in {sent, sent \cup {<<t, calls[t]>>}}
    /\ UNCHANGED <<calls, ahead, effects>>

Act(x) ==
    /\ x \in sent \ effects
    /\ sent' = sent \ {x}
    /\ effects' = effects \cup {x}
    /\ UNCHANGED <<calls, ahead, outcome>>

\* Commands are refused, or go with their connection.
Lose ==
    /\ sent' \subseteq sent
    /\ UNCHANGED <<calls, ahead, outcome, effects>>

Leave(t, result) ==
    /\ ahead' = [u \in Task |-> ahead[u] \ {t}]
    /\ outcome' = [outcome EXCEPT ![t] = result]
    /\ UNCHANGED <<calls, sent, effects>>

\* Only what was sent is reported as such.
Return(t, result) ==
    /\ Turn(t)
    /\ outcome[t] = "sent" <=> result \in {"ok", "nack"}
    /\ Leave(t, result)

\* A task may be cancelled before its turn or in it.
Withdraw(t) ==
    /\ Underway(t)
    /\ Leave(t, "cancelled")

Next ==
    \/ \E t \in Task :
          \/ Ask(t)
          \/ Send(t)
          \/ \E result \in {"ok", "nack", "failed", "done"} : Return(t, result)
          \/ Withdraw(t)
    \/ \E x \in sent : Act(x)
    \/ Lose

Spec == Init /\ [][Next]_vars
==============================================================================
