----------------------------- MODULE SerialCalls -----------------------------
(***************************************************************************)
(* What BarcoClient promises the coroutines that share it: calls are taken *)
(* in the order in which they were made, one at a time; the projector acts *)
(* on a call only once its turn has come, at most twice, and has acted     *)
(* before a request returns "ok".  It says nothing of sockets or frames.   *)
(***************************************************************************)
EXTENDS Naturals

CONSTANT Task

VARIABLES
    calls,    \* how many calls each task has made
    ahead,    \* the tasks whose call must end before this task's turn
    outcome,  \* how the task's last call ended, or "pending"
    effects   \* <<task, call, nth>>: the projector acted on that call

vars == <<calls, ahead, outcome, effects>>

Pending(t) == outcome[t] = "pending"
Turn(t) == Pending(t) /\ ahead[t] = {}

Init ==
    /\ calls = [t \in Task |-> 0]
    /\ ahead = [t \in Task |-> {}]
    /\ outcome = [t \in Task |-> "none"]
    /\ effects = {}

Ask(t) ==
    /\ ~Pending(t)
    /\ calls' = [calls EXCEPT ![t] = @ + 1]
    /\ ahead' = [ahead EXCEPT ![t] = {u \in Task : Pending(u)}]
    /\ outcome' = [outcome EXCEPT ![t] = "pending"]
    /\ UNCHANGED effects

\* The effect may come after the call has ended, but never before its turn.
Act(t, c, nth) ==
    /\ c \in 1 .. calls[t]
    /\ c = calls[t] /\ Pending(t) => Turn(t)
    /\ effects' = effects \cup {<<t, c, nth>>}
    /\ UNCHANGED <<calls, ahead, outcome>>

Leave(t, result) ==
    /\ ahead' = [u \in Task |-> ahead[u] \ {t}]
    /\ outcome' = [outcome EXCEPT ![t] = result]
    /\ UNCHANGED <<calls, effects>>

Return(t, result) ==
    /\ Turn(t)
    /\ result = "ok" => \E nth \in {1, 2} : <<t, calls[t], nth>> \in effects
    /\ Leave(t, result)

\* A task may be cancelled before its turn.
Withdraw(t) ==
    /\ Pending(t)
    /\ Leave(t, "cancelled")

Next ==
    \E t \in Task :
        \/ Ask(t)
        \/ \E c \in 1 .. calls[t], nth \in {1, 2} : Act(t, c, nth)
        \/ \E result \in {"ok", "nack", "failed", "done"} : Return(t, result)
        \/ Withdraw(t)

Spec == Init /\ [][Next]_vars
==============================================================================
