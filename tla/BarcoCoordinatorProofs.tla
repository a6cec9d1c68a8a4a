------------------------ MODULE BarcoCoordinatorProofs ------------------------
(***************************************************************************)
(* Theorems about BarcoCoordinator, for any set of coordinator objects,    *)
(* any optional reads, macros and refusals.                                *)
(***************************************************************************)
EXTENDS BarcoCoordinator, TLAPS

------------------------------------------------------------------------------
(* The order of a poll. *)

LEMMA OrderOfPoll ==
    /\ Len(OptionalReads) \in Nat
    /\ Len(PollOrder) = Len(OptionalReads) + 3
    /\ PollOrder[1] = "lamp" /\ PollOrder[2] = "shutter"
    /\ \A n \in 1 .. Len(OptionalReads) : PollOrder[n + 2] = OptionalReads[n]
    /\ PollOrder[Len(OptionalReads) + 3] = "macros"
BY OptionalAssumption DEF PollOrder

LEMMA PlaceInPoll ==
    ASSUME NEW r \in Reads
    PROVE  \E n \in 1 .. Len(PollOrder) : PollOrder[n] = r /\ (r # "macros" => n < Len(PollOrder))
<1>1. CASE r = "lamp"
  BY <1>1, OrderOfPoll
<1>2. CASE r = "shutter"
  BY <1>2, OrderOfPoll
<1>3. CASE r \in Capability
  <2>1. PICK n \in 1 .. Len(OptionalReads) : OptionalReads[n] = r
    BY <1>3 DEF Capability
  <2>2. n + 2 \in 1 .. Len(PollOrder) /\ n + 2 < Len(PollOrder) /\ PollOrder[n + 2] = r
    BY <2>1, OrderOfPoll
  <2> QED BY <2>2
<1>4. CASE r = "macros"
  BY <1>4, OrderOfPoll
<1> QED BY <1>1, <1>2, <1>3, <1>4 DEF Reads

LEMMA PollOrderType == \A n \in 1 .. Len(PollOrder) : PollOrder[n] \in Reads
<1> TAKE n \in 1 .. Len(PollOrder)
<1>1. CASE n \in {1, 2, Len(OptionalReads) + 3}
  BY <1>1, OrderOfPoll DEF Reads
<1>2. CASE n - 2 \in 1 .. Len(OptionalReads)
  <2>1. PollOrder[(n - 2) + 2] = OptionalReads[n - 2] /\ (n - 2) + 2 = n
    BY <1>2, OrderOfPoll
  <2>2. OptionalReads[n - 2] \in Capability
    BY <1>2 DEF Capability
  <2> QED BY <2>1, <2>2 DEF Reads
<1> QED BY <1>1, <1>2, OrderOfPoll

\* Every read but the last has a next one.
LEMMA NextReadType ==
    ASSUME NEW r \in Reads \ {"macros"}
    PROVE  NextRead(r) \in Reads
<1>1. PICK n \in 1 .. Len(PollOrder) : PollOrder[n] = r /\ n < Len(PollOrder)
  BY PlaceInPoll
<1>2. n \in 1 .. Len(PollOrder) - 1 /\ n + 1 \in 1 .. Len(PollOrder)
  BY <1>1, OrderOfPoll
<1>3. PollOrder[n + 1] \in Reads
  BY <1>2, PollOrderType
<1> QED BY <1>1, <1>2, <1>3 DEF NextRead

LEMMA CountedType ==
    ASSUME NEW n \in 0 .. RefreshEvery - 1
    PROVE  Counted(n) \in 0 .. RefreshEvery - 1
BY CountsAssumption DEF Counted
------------------------------------------------------------------------------
(* The types. *)

LEMMA NewType == NewCoordinator \in Coordinator
BY CountsAssumption DEF NewCoordinator, Coordinator, Polling, Lamps, Reports

LEMMA EndedType ==
    ASSUME NEW o \in Coordinator
    PROVE  Ended(o) \in Coordinator
<1>1. \A p \in {"failed", "idle"} :
         [o EXCEPT !.poll = p, !.kind = "none", !.seen = None] \in Coordinator
  BY DEF Coordinator, Lamps
<1> QED BY <1>1 DEF Ended

LEMMA RestoredType ==
    ASSUME TypeOK, NEW o \in Coordinator
    PROVE  Restored(o) \in Coordinator
<1>1. CASE disk = None
  BY <1>1 DEF Restored
<1>2. CASE disk # None
  <2>1. disk \in Reports /\ disk.macros \in SUBSET Macros /\ disk.unsupported \in SUBSET Capability
    BY <1>2 DEF TypeOK, Reports
  <2>2. [o EXCEPT !.answered = TRUE, !.stored = disk, !.macros = disk.macros,
                  !.unsupported = disk.unsupported] \in Coordinator
    BY <2>1 DEF Coordinator
  <2> QED BY <1>2, <2>2 DEF Restored
<1> QED BY <1>1, <1>2

LEMMA PublishType ==
    ASSUME NEW o \in Coordinator
    PROVE  Publish(o) \in Coordinator
<1>1. [o EXCEPT !.success = TRUE, !.data = [reachable |-> TRUE, lamp |-> o.seen]] \in Coordinator
  BY DEF Coordinator
<1> QED BY <1>1, EndedType DEF Publish

LEMMA RememberType ==
    ASSUME TypeOK, NEW i \in Instance, NEW o \in Coordinator, Remember(i, o)
    PROVE  registered' \subseteq Capability /\ c' \in [Instance -> Coordinator]
<1>1. registered' \subseteq Capability
  BY DEF Remember, Without, TypeOK
<1>2. [o EXCEPT !.poll = "saving", !.answered = TRUE, !.stored = Report(o)] \in Coordinator
  BY DEF Coordinator, Report, Reports, Polling
<1>3. c \in [Instance -> Coordinator] /\ Publish(o) \in Coordinator
  BY PublishType DEF TypeOK
<1> QED BY <1>1, <1>2, <1>3 DEF Remember

LEMMA PollStepType ==
    ASSUME TypeOK, NEW i \in Instance, PollStep(i)
    PROVE  TypeOK'
<1> USE DEF entryVars, storeVars, projectorVars
<1>1. c \in [Instance -> Coordinator] /\ c[i] \in Coordinator
  BY DEF TypeOK
<1>2. c[i].poll \in Reads \ {"macros"} => NextRead(c[i].poll) \in Reads
  BY NextReadType
<1>3. \A r \in Capability : r \in Reads \ {"macros"}
  BY OptionalAssumption DEF Reads
<1>4. CASE ReadLamp(i) \/ ReadShutter(i) \/ SkipOptional(i) \/ OptionalAnswered(i)
  <2>1. NextRead(c[i].poll) \in Reads
    BY <1>2, <1>3, <1>4
       DEF ReadLamp, ReadShutter, SkipOptional, OptionalAnswered, ReadsOptional, Reads
  <2>2. c' \in [Instance -> Coordinator]
    <3>1. CASE ReadLamp(i)
      <4>1. [c[i] EXCEPT !.poll = NextRead(@), !.seen = lamp, !.socket = TRUE] \in Coordinator
        BY <1>1, <2>1 DEF TypeOK, Coordinator, Polling, Lamps
      <4> QED BY <1>1, <3>1, <4>1 DEF ReadLamp
    <3>2. CASE ReadShutter(i) \/ OptionalAnswered(i)
      <4>1. [c[i] EXCEPT !.poll = NextRead(@), !.socket = TRUE] \in Coordinator
        BY <1>1, <2>1 DEF Coordinator, Polling
      <4> QED BY <1>1, <3>2, <4>1 DEF ReadShutter, OptionalAnswered
    <3>3. CASE SkipOptional(i)
      <4>1. [c[i] EXCEPT !.poll = NextRead(@)] \in Coordinator
        BY <1>1, <2>1 DEF Coordinator, Polling
      <4> QED BY <1>1, <3>3, <4>1 DEF SkipOptional
    <3> QED BY <1>4, <3>1, <3>2, <3>3
  <2> QED BY <1>4, <2>2 DEF ReadLamp, ReadShutter, SkipOptional, OptionalAnswered,
                            ReadsOptional, TypeOK
<1>5. CASE OptionalRefused(i)
  <2>1. c[i].poll \in Capability /\ NextRead(c[i].poll) \in Reads
    BY <1>2, <1>3, <1>5 DEF OptionalRefused, ReadsOptional
  <2>2. [c[i] EXCEPT !.poll = NextRead(@), !.socket = TRUE, !.unsupported = @ \cup {c[i].poll}]
           \in Coordinator
    BY <1>1, <2>1 DEF Coordinator, Polling
  <2>3. c' \in [Instance -> Coordinator]
    BY <1>1, <1>5, <2>2 DEF OptionalRefused
  <2> QED BY <1>5, <2>3, CountsAssumption DEF OptionalRefused, ReadsOptional, Refusal, TypeOK
<1>6. CASE RequiredRefused(i)
  <2>1. [c[i] EXCEPT !.success = FALSE, !.socket = TRUE] \in Coordinator
    BY <1>1 DEF Coordinator
  <2>2. c' \in [Instance -> Coordinator]
    BY <1>1, <1>6, <2>1, EndedType DEF RequiredRefused
  <2> QED BY <1>6, <2>2, CountsAssumption DEF RequiredRefused, Refusal, TypeOK
<1>7. CASE ReadMacros(i)
  <2>1. PICK o \in Coordinator : Remember(i, o)
    <3> DEFINE o == [c[i] EXCEPT !.count = Counted(@)]
    <3>1. Counted(c[i].count) \in 0 .. RefreshEvery - 1
      BY <1>1, CountedType DEF Coordinator
    <3>2. o \in Coordinator
      BY <1>1, <3>1 DEF Coordinator
    <3>3. \/ Remember(i, o)
          \/ \E found \in SUBSET keypad :
                Remember(i, [o EXCEPT !.socket = TRUE,
                                      !.macros = IF found = {} THEN @ ELSE found])
      BY <1>7 DEF ReadMacros
    <3> HIDE DEF o
    <3>4. \A found \in SUBSET keypad :
             [o EXCEPT !.socket = TRUE, !.macros = IF found = {} THEN @ ELSE found] \in Coordinator
      BY <3>2 DEF Coordinator, TypeOK
    <3> QED BY <3>2, <3>3, <3>4
  <2>2. registered' \subseteq Capability /\ c' \in [Instance -> Coordinator]
    BY <2>1, RememberType
  <2> QED BY <1>7, <2>2 DEF ReadMacros, TypeOK
<1>8. CASE Saved(i)
  <2>1. c[i].stored \in Reports
    BY <1>1 DEF Coordinator
  <2>2. c' \in [Instance -> Coordinator]
    BY <1>1, <1>8, PublishType DEF Saved
  <2> QED BY <1>8, <2>1, <2>2 DEF Saved, TypeOK
<1>9. CASE Unreachable(i)
  <2>1. /\ [c[i] EXCEPT !.socket = FALSE, !.success = TRUE,
                        !.data = [reachable |-> FALSE, lamp |-> None]] \in Coordinator
        /\ [c[i] EXCEPT !.socket = FALSE, !.success = FALSE] \in Coordinator
    BY <1>1 DEF Coordinator, Lamps
  <2>2. c' \in [Instance -> Coordinator]
    BY <1>1, <1>9, <2>1, EndedType DEF Unreachable
  <2> QED BY <1>9, <2>2 DEF Unreachable, TypeOK
<1> QED BY <1>4, <1>5, <1>6, <1>7, <1>8, <1>9 DEF PollStep

LEMMA TypeNext == TypeOK /\ [Next]_vars => TypeOK'
<1> SUFFICES ASSUME TypeOK, [Next]_vars PROVE TypeOK'
  OBVIOUS
<1> USE DEF entryVars, storeVars, projectorVars
<1>1. c \in [Instance -> Coordinator]
  BY DEF TypeOK
<1>2. ASSUME NEW i \in Instance, NEW o \in Coordinator, c' = [c EXCEPT ![i] = o]
      PROVE  c' \in [Instance -> Coordinator]
  BY <1>1, <1>2
<1>2a. "lamp" \in Polling
  BY DEF Polling, Reads
<1>2b. \A i \in Instance : c[i] \in Coordinator
  BY <1>1
<1>2c. {0, Followups} \subseteq 0 .. Followups
  BY CountsAssumption
<1>3. ASSUME NEW i \in Instance, SetUp(i) PROVE TypeOK'
  <2>1. [NewCoordinator EXCEPT !.phase = "setup", !.poll = "lamp"] \in Coordinator
    BY <1>2a, NewType DEF Coordinator
  <2>2. c' \in [Instance -> Coordinator]
    BY <1>2, <1>3, <2>1, RestoredType DEF SetUp
  <2> QED BY <1>3, <2>2 DEF SetUp, TypeOK
<1>4. ASSUME NEW i \in Instance, SetUpDone(i) PROVE TypeOK'
  <2>1. [c[i] EXCEPT !.phase = "running"] \in Coordinator
    BY <1>1 DEF Coordinator
  <2>2. c' \in [Instance -> Coordinator]
    BY <1>1, <1>4, <2>1 DEF SetUpDone
  <2> QED BY <1>4, <2>2 DEF SetUpDone, TypeOK, Without
<1>5. ASSUME NEW i \in Instance, SetUpFails(i) PROVE TypeOK'
  <2>1. c' \in [Instance -> Coordinator]
    BY <1>2, <1>5, NewType DEF SetUpFails
  <2> QED BY <1>5, <2>1 DEF SetUpFails, TypeOK
<1>6. ASSUME NEW i \in Instance, ScheduledPoll(i) PROVE TypeOK'
  <2>1. [c[i] EXCEPT !.poll = "lamp", !.kind = "scheduled"] \in Coordinator
    BY <1>2a, <1>2b DEF Coordinator
  <2>2. c' \in [Instance -> Coordinator]
    BY <1>1, <1>6, <2>1 DEF ScheduledPoll, StartPoll
  <2> QED BY <1>6, <2>2 DEF ScheduledPoll, TypeOK
<1>7. ASSUME NEW i \in Instance, FollowupPoll(i) PROVE TypeOK'
  <2> DEFINE o == [c[i] EXCEPT !.followups = @ - 1]
  <2>1. o \in Coordinator
    <3>1. c[i].followups - 1 \in 0 .. Followups
      BY <1>1, <1>7, CountsAssumption DEF FollowupPoll, Coordinator
    <3> QED BY <1>1, <3>1 DEF Coordinator
  <2>2. [o EXCEPT !.poll = "lamp", !.kind = "requested"] \in Coordinator
    BY <1>2a, <2>1 DEF Coordinator
  <2>3. c' \in [Instance -> Coordinator]
    BY <1>1, <1>7, <2>1, <2>2 DEF FollowupPoll
  <2> QED BY <1>7, <2>3 DEF FollowupPoll, TypeOK
<1>8. ASSUME NEW i \in Instance, CommandStep(i)
      PROVE  TypeOK'
  <2>1. \A r \in {"only", "first"} : [c[i] EXCEPT !.command = r] \in Coordinator
    BY <1>2b DEF Coordinator
  <2>2. [c[i] EXCEPT !.command = "second", !.behind = FALSE, !.socket = TRUE] \in Coordinator
    BY <1>2b DEF Coordinator
  <2>3. [c[i] EXCEPT !.command = "none", !.behind = FALSE, !.followups = Followups,
                     !.socket = TRUE] \in Coordinator
    BY <1>2b, <1>2c DEF Coordinator
  <2>4. [c[i] EXCEPT !.command = "none", !.behind = FALSE, !.socket = online] \in Coordinator
    <3>1. online \in BOOLEAN
      BY DEF TypeOK
    <3>2. /\ [c[i] EXCEPT !.command = "none", !.behind = FALSE, !.socket = TRUE] \in Coordinator
          /\ [c[i] EXCEPT !.command = "none", !.behind = FALSE, !.socket = FALSE] \in Coordinator
      BY <1>2b DEF Coordinator
    <3> QED BY <3>1, <3>2
  <2>5. CASE SendCommand(i)
    BY <1>1, <2>1, <2>5 DEF SendCommand, TypeOK
  <2>6. CASE FirstRequestDone(i)
    BY <1>1, <2>2, <2>6 DEF FirstRequestDone, TypeOK
  <2>7. CASE CommandDone(i)
    BY <1>1, <2>3, <2>7, CountsAssumption DEF CommandDone, TypeOK
  <2>8. CASE CommandFails(i)
    BY <1>1, <2>4, <2>8 DEF CommandFails, TypeOK
  <2> QED BY <1>8, <2>5, <2>6, <2>7, <2>8 DEF CommandStep
<1>9. ASSUME NEW i \in Instance, Unload(i) PROVE TypeOK'
  <2>1. Shutting(c[i]) \in Coordinator
    <3>1. [c[i] EXCEPT !.phase = "shutting", !.followups = 0, !.behind = TRUE] \in Coordinator
      BY <1>2b, <1>2c DEF Coordinator
    <3>2. [c[i] EXCEPT !.phase = "shutting", !.followups = 0, !.behind = FALSE] \in Coordinator
      BY <1>2b, <1>2c DEF Coordinator
    <3> DEFINE b == c[i].command # "none"
    <3>3. b = TRUE \/ b = FALSE
      OBVIOUS
    <3> HIDE DEF b
    <3>4. [c[i] EXCEPT !.phase = "shutting", !.followups = 0, !.behind = b] \in Coordinator
      BY <3>1, <3>2, <3>3
    <3> QED BY <3>4 DEF Shutting, b
  <2>2. c' \in [Instance -> Coordinator]
    BY <1>1, <1>9, <2>1, EndedType DEF Unload
  <2>3. disk' \in Reports \cup {None} /\ drift' \in {"none", "write", "poll"}
    BY <1>1, <1>9 DEF Unload, TypeOK, Coordinator
  <2> QED BY <1>9, <2>2, <2>3 DEF Unload, TypeOK
<1>10. ASSUME NEW i \in Instance, ShutDown(i) PROVE TypeOK'
  <2>1. [c[i] EXCEPT !.phase = "shut", !.socket = FALSE] \in Coordinator
    BY <1>2b DEF Coordinator
  <2>2. c' \in [Instance -> Coordinator]
    BY <1>1, <1>10, <2>1 DEF ShutDown
  <2> QED BY <1>10, <2>2 DEF ShutDown, LeaveEntry, TypeOK
<1>11. ASSUME NEW i \in Instance, StopWaiting(i) PROVE TypeOK'
  BY <1>11 DEF StopWaiting, LeaveEntry, TypeOK
<1>12. ASSUME NEW i \in Instance, Collect(i) PROVE TypeOK'
  <2>1. c' \in [Instance -> Coordinator]
    BY <1>2, <1>12, NewType DEF Collect
  <2> QED BY <1>12, <2>1 DEF Collect, TypeOK
<1>13. CASE RemoveEntry
  BY <1>13 DEF RemoveEntry, TypeOK
<1>14. CASE Restart
  <2>1. disk' \in Reports \cup {None}
    BY <1>1, <1>14 DEF Restart, Coordinator, TypeOK
  <2>2. drift' \in {"none", "write", "poll"} /\ c' \in [Instance -> Coordinator]
    BY <1>14, NewType DEF Restart, TypeOK
  <2> QED BY <1>14, <2>1, <2>2 DEF Restart, TypeOK
<1>15. CASE Projector
  BY <1>15, CountsAssumption DEF Projector, TypeOK
<1>16. CASE UNCHANGED vars
  BY <1>16 DEF vars, TypeOK
<1> QED BY <1>3, <1>4, <1>5, <1>6, <1>7, <1>8, <1>9, <1>10, <1>11, <1>12, <1>13, <1>14, <1>15,
           <1>16, PollStepType DEF Next

\* Every variable keeps its type, whatever the projector does.
THEOREM TypeCorrect == Spec => []TypeOK
<1>1. Init => TypeOK
  <2> SUFFICES ASSUME Init PROVE TypeOK
    OBVIOUS
  <2>1. c \in [Instance -> Coordinator]
    BY NewType DEF Init
  <2>2. 0 \in 0 .. MaxRefusals
    BY CountsAssumption
  <2> QED BY <2>1, <2>2 DEF Init, TypeOK
<1> QED BY <1>1, TypeNext, PTL DEF Spec
------------------------------------------------------------------------------
(* What the steps do, without the records.  A step of a poll goes on, fails, *)
(* remembers or has saved.                                                   *)

Elsewhere(i) == \A j \in Instance \ {i} : c'[j] = c[j]

GoesOn(i) ==
    /\ c[i].poll \in Reads
    /\ c'[i].poll \in Reads
    /\ c[i].unsupported \subseteq c'[i].unsupported
    /\ refusals' = 0 =>
          refusals = 0 /\ c'[i].unsupported \cap Supports = c[i].unsupported \cap Supports
    /\ UNCHANGED <<c[i].kind, c[i].stored, c[i].answered, disk, registered, drift>>

Fails(i) ==
    /\ c[i].poll \in Reads
    /\ c'[i].poll = IF c[i].phase = "setup" /\ ~c'[i].success THEN "failed" ELSE "idle"
    /\ c'[i].kind = "none"
    /\ c'[i].success => c[i].answered /\ ~c'[i].data.reachable
    /\ ~c'[i].success => ~c[i].answered \/ refusals' # 0
    /\ refusals' = 0 => refusals = 0
    /\ UNCHANGED <<c[i].unsupported, c[i].stored, c[i].answered, disk, registered, drift>>

Remembers(i) ==
    /\ c[i].poll = "macros"
    /\ registered' = registered \ (c[i].unsupported \ c[i].stored.unsupported)
    /\ c'[i].answered
    /\ c'[i].stored = Report(c'[i])
    /\ \/ c'[i].poll = "saving" /\ c'[i].kind = c[i].kind
       \/ /\ c'[i].poll = "idle" /\ c'[i].kind = "none"
          /\ c[i].answered /\ c'[i].stored = c[i].stored
    /\ UNCHANGED <<c[i].unsupported, disk, drift, refusals>>

Saves(i) ==
    /\ c[i].poll = "saving"
    /\ disk' = c[i].stored
    /\ c'[i].poll = "idle" /\ c'[i].kind = "none"
    /\ drift' = IF c[i].phase = "setup" THEN drift ELSE "none"
    /\ UNCHANGED <<Report(c[i]), c[i].unsupported, c[i].stored, c[i].answered, registered,
                   refusals>>

LEMMA RememberShape ==
    ASSUME TypeOK, NEW i \in Instance, NEW o \in Coordinator, Remember(i, o),
           c[i].poll = "macros", UNCHANGED <<disk, drift, refusals>>,
           o.phase = c[i].phase, o.kind = c[i].kind, o.unsupported = c[i].unsupported,
           o.stored = c[i].stored, o.answered = c[i].answered, o.command = c[i].command,
           o.behind = c[i].behind, o.followups = c[i].followups
    PROVE  /\ Elsewhere(i) /\ Remembers(i)
           /\ UNCHANGED <<c[i].phase, c[i].command, c[i].behind, c[i].followups>>
<1>1. c \in [Instance -> Coordinator]
  BY DEF TypeOK
<1>2. /\ registered' = registered \ (c[i].unsupported \ c[i].stored.unsupported)
  BY DEF Remember, Without, NewlyUnsupported
<1>3. CASE IsStored(o)
  <2>1. c' = [c EXCEPT ![i] = Publish(o)]
    BY <1>3 DEF Remember
  <2>2. /\ Publish(o).poll = "idle" /\ Publish(o).kind = "none" /\ Publish(o).phase = o.phase
        /\ Publish(o).answered = o.answered /\ Publish(o).stored = o.stored
        /\ Publish(o).unsupported = o.unsupported /\ Publish(o).macros = o.macros
        /\ Publish(o).command = o.command /\ Publish(o).behind = o.behind
        /\ Publish(o).followups = o.followups
    BY DEF Publish, Ended, Coordinator
  <2>3. c'[i] = Publish(o) /\ Elsewhere(i)
    BY <1>1, <2>1 DEF Elsewhere
  <2> QED BY <1>2, <1>3, <2>2, <2>3 DEF Remembers, IsStored, Report
<1>4. CASE ~IsStored(o)
  <2> DEFINE p == [o EXCEPT !.poll = "saving", !.answered = TRUE, !.stored = Report(o)]
  <2>1. c' = [c EXCEPT ![i] = p]
    BY <1>4 DEF Remember
  <2>2. /\ p.poll = "saving" /\ p.kind = o.kind /\ p.phase = o.phase /\ p.answered
        /\ p.stored = Report(o) /\ p.unsupported = o.unsupported /\ p.macros = o.macros
        /\ p.command = o.command /\ p.behind = o.behind /\ p.followups = o.followups
    BY DEF Coordinator
  <2>3. c'[i] = p /\ Elsewhere(i)
    BY <1>1, <2>1 DEF Elsewhere
  <2> HIDE DEF p
  <2> QED BY <1>2, <2>2, <2>3 DEF Remembers, Report
<1> QED BY <1>3, <1>4

LEMMA PollStepShape ==
    ASSUME TypeOK, NEW i \in Instance, PollStep(i)
    PROVE  /\ c[i].poll \in Polling /\ Elsewhere(i)
           /\ UNCHANGED <<entryVars, c[i].phase, c[i].command, c[i].behind, c[i].followups>>
           /\ GoesOn(i) \/ Fails(i) \/ Remembers(i) \/ Saves(i)
<1> USE DEF entryVars, storeVars, projectorVars, Elsewhere
<1>1. c \in [Instance -> Coordinator] /\ c[i] \in Coordinator /\ refusals \in Nat
  BY CountsAssumption DEF TypeOK
<1>2. \A r \in Capability : r \in Reads \ {"macros"}
  BY OptionalAssumption DEF Reads
<1>3. c[i].poll \in Reads \ {"macros"} => NextRead(c[i].poll) \in Reads
  BY NextReadType
<1>4. CASE ReadLamp(i) \/ ReadShutter(i) \/ SkipOptional(i) \/ OptionalAnswered(i)
  <2>1. c[i].poll \in Reads \ {"macros"}
    BY <1>2, <1>4 DEF ReadLamp, ReadShutter, SkipOptional, OptionalAnswered, ReadsOptional, Reads
  <2>2. /\ Elsewhere(i) /\ c'[i].poll = NextRead(c[i].poll)
        /\ UNCHANGED <<c[i].phase, c[i].command, c[i].behind, c[i].followups, c[i].kind,
                       c[i].stored,
                       c[i].answered, c[i].unsupported>>
    <3>1. CASE ReadLamp(i)
      BY <1>1, <3>1 DEF ReadLamp, Coordinator
    <3>2. CASE ReadShutter(i)
      BY <1>1, <3>2 DEF ReadShutter, Coordinator
    <3>3. CASE SkipOptional(i)
      BY <1>1, <3>3 DEF SkipOptional, Coordinator
    <3>4. CASE OptionalAnswered(i)
      BY <1>1, <3>4 DEF OptionalAnswered, Coordinator
    <3> QED BY <1>4, <3>1, <3>2, <3>3, <3>4
  <2>3. UNCHANGED <<entryVars, disk, registered, drift, refusals>>
    BY <1>4 DEF ReadLamp, ReadShutter, SkipOptional, OptionalAnswered, ReadsOptional
  <2> QED BY <1>3, <2>1, <2>2, <2>3 DEF GoesOn, Polling
<1>5. CASE OptionalRefused(i)
  <2>1. c[i].poll \in Capability /\ c[i].poll \in Reads \ {"macros"}
    BY <1>2, <1>5 DEF OptionalRefused, ReadsOptional
  <2>2. /\ Elsewhere(i) /\ c'[i].poll = NextRead(c[i].poll)
        /\ c'[i].unsupported = c[i].unsupported \cup {c[i].poll}
        /\ UNCHANGED <<c[i].phase, c[i].command, c[i].behind, c[i].followups, c[i].kind,
                       c[i].stored,
                       c[i].answered>>
    BY <1>1, <1>5 DEF OptionalRefused, Coordinator
  <2>3. UNCHANGED <<entryVars, disk, registered, drift>>
    BY <1>5 DEF OptionalRefused, ReadsOptional
  <2>4. refusals' = 0 => refusals = 0 /\ c[i].poll \notin Supports
    BY <1>1, <1>5 DEF OptionalRefused, Refusal
  <2> QED BY <1>3, <2>1, <2>2, <2>3, <2>4 DEF GoesOn, Polling
<1>6. CASE RequiredRefused(i)
  <2> DEFINE o == [c[i] EXCEPT !.success = FALSE, !.socket = TRUE]
  <2>1. /\ o \in Coordinator /\ o.phase = c[i].phase /\ o.success = FALSE
        /\ o.unsupported = c[i].unsupported /\ o.stored = c[i].stored
        /\ o.answered = c[i].answered /\ o.command = c[i].command /\ o.behind = c[i].behind
        /\ o.followups = c[i].followups
    BY <1>1 DEF Coordinator
  <2>2. c' = [c EXCEPT ![i] = Ended(o)]
    BY <1>6 DEF RequiredRefused
  <2>3. /\ c[i].poll \in Reads /\ refusals' # 0
        /\ UNCHANGED <<entryVars, disk, registered, drift>>
    BY <1>1, <1>6 DEF RequiredRefused, Answers, Refusal
  <2> HIDE DEF o
  <2>4. /\ Ended(o).poll = IF o.phase = "setup" THEN "failed" ELSE "idle"
        /\ Ended(o).kind = "none" /\ ~Ended(o).success /\ Ended(o).phase = o.phase
        /\ Ended(o).unsupported = o.unsupported /\ Ended(o).stored = o.stored
        /\ Ended(o).answered = o.answered /\ Ended(o).command = o.command
        /\ Ended(o).behind = o.behind
        /\ Ended(o).followups = o.followups
    BY <2>1 DEF Ended, Coordinator
  <2>5. c'[i] = Ended(o) /\ Elsewhere(i)
    BY <1>1, <2>2
  <2> QED BY <2>1, <2>3, <2>4, <2>5 DEF Fails, Polling
<1>7. CASE ReadMacros(i)
  <2> DEFINE o == [c[i] EXCEPT !.count = Counted(@)]
             p(found) == [o EXCEPT !.socket = TRUE, !.macros = IF found = {} THEN @ ELSE found]
  <2>1. Counted(c[i].count) \in 0 .. RefreshEvery - 1
    BY <1>1, CountedType DEF Coordinator
  <2>2. /\ o \in Coordinator /\ o.phase = c[i].phase /\ o.kind = c[i].kind
        /\ o.unsupported = c[i].unsupported /\ o.stored = c[i].stored
        /\ o.answered = c[i].answered /\ o.command = c[i].command /\ o.behind = c[i].behind
        /\ o.followups = c[i].followups
    BY <1>1, <2>1 DEF Coordinator
  <2>3. /\ c[i].poll = "macros" /\ UNCHANGED <<entryVars, disk, drift, refusals>>
        /\ Remember(i, o) \/ \E found \in SUBSET keypad : Remember(i, p(found))
    BY <1>7 DEF ReadMacros
  <2> HIDE DEF o
  <2>4. ASSUME NEW found \in SUBSET keypad
        PROVE  /\ p(found) \in Coordinator /\ p(found).phase = o.phase /\ p(found).kind = o.kind
               /\ p(found).unsupported = o.unsupported /\ p(found).stored = o.stored
               /\ p(found).answered = o.answered /\ p(found).command = o.command
               /\ p(found).behind = o.behind
               /\ p(found).followups = o.followups
    BY <2>2, <2>4 DEF Coordinator, TypeOK
  <2> HIDE DEF p
  <2>5. PICK q \in Coordinator :
           /\ Remember(i, q)
           /\ q.phase = c[i].phase /\ q.kind = c[i].kind
           /\ q.unsupported = c[i].unsupported /\ q.stored = c[i].stored
           /\ q.answered = c[i].answered /\ q.command = c[i].command /\ q.behind = c[i].behind
           /\ q.followups = c[i].followups
    BY <2>2, <2>3, <2>4
  <2>6. /\ Elsewhere(i) /\ Remembers(i)
        /\ UNCHANGED <<c[i].phase, c[i].command, c[i].behind, c[i].followups>>
    BY <2>3, <2>5, RememberShape
  <2> QED BY <2>3, <2>6 DEF Polling, Reads
<1>8. CASE Saved(i)
  <2>1. c' = [c EXCEPT ![i] = Publish(c[i])]
    BY <1>8 DEF Saved
  <2>2. /\ Publish(c[i]).poll = "idle" /\ Publish(c[i]).kind = "none"
        /\ Publish(c[i]).phase = c[i].phase
        /\ Publish(c[i]).answered = c[i].answered /\ Publish(c[i]).stored = c[i].stored
        /\ Publish(c[i]).unsupported = c[i].unsupported /\ Publish(c[i]).macros = c[i].macros
        /\ Publish(c[i]).command = c[i].command /\ Publish(c[i]).behind = c[i].behind
        /\ Publish(c[i]).followups = c[i].followups
    BY <1>1 DEF Publish, Ended, Coordinator
  <2>3. c'[i] = Publish(c[i]) /\ Elsewhere(i)
    BY <1>1, <2>1
  <2> QED BY <1>8, <2>2, <2>3 DEF Saved, Saves, Report, Polling
<1>9. CASE Unreachable(i)
  <2> DEFINE o == IF c[i].answered
                    THEN [c[i] EXCEPT !.socket = FALSE, !.success = TRUE,
                                      !.data = [reachable |-> FALSE, lamp |-> None]]
                    ELSE [c[i] EXCEPT !.socket = FALSE, !.success = FALSE]
  <2>1. /\ o \in Coordinator /\ o.phase = c[i].phase /\ o.success = c[i].answered
        /\ o.success => ~o.data.reachable
        /\ o.unsupported = c[i].unsupported /\ o.stored = c[i].stored
        /\ o.answered = c[i].answered /\ o.command = c[i].command /\ o.behind = c[i].behind
        /\ o.followups = c[i].followups
    BY <1>1 DEF Coordinator, Lamps
  <2>2. c' = [c EXCEPT ![i] = Ended(o)]
    BY <1>9 DEF Unreachable
  <2>3. c[i].poll \in Reads /\ UNCHANGED <<entryVars, disk, registered, drift, refusals>>
    BY <1>9 DEF Unreachable
  <2> HIDE DEF o
  <2>4. /\ Ended(o).poll = IF o.phase = "setup" /\ ~o.success THEN "failed" ELSE "idle"
        /\ Ended(o).kind = "none" /\ Ended(o).success = o.success /\ Ended(o).phase = o.phase
        /\ Ended(o).data = o.data
        /\ Ended(o).unsupported = o.unsupported /\ Ended(o).stored = o.stored
        /\ Ended(o).answered = o.answered /\ Ended(o).command = o.command
        /\ Ended(o).behind = o.behind
        /\ Ended(o).followups = o.followups
    BY <2>1 DEF Ended, Coordinator
  <2>5. c'[i] = Ended(o) /\ Elsewhere(i)
    BY <1>1, <2>2
  <2> QED BY <2>1, <2>3, <2>4, <2>5 DEF Fails, Polling
<1> QED BY <1>4, <1>5, <1>6, <1>7, <1>8, <1>9 DEF PollStep

\* The other steps of one object, as far as the invariants look.
LEMMA SetUpShape ==
    ASSUME TypeOK, NEW i \in Instance, SetUp(i)
    PROVE  /\ Elsewhere(i)
           /\ c'[i].phase = "setup" /\ c'[i].poll = "lamp" /\ c'[i].kind = "none"
           /\ c'[i].command = "none" /\ c'[i].followups = 0
           /\ c'[i].answered = (disk # None)
           /\ c'[i].unsupported = IF disk = None THEN {} ELSE disk.unsupported
           /\ c'[i].stored.unsupported = c'[i].unsupported
           /\ disk # None => c'[i].stored = disk
<1> DEFINE o == [NewCoordinator EXCEPT !.phase = "setup", !.poll = "lamp"]
<1>1. /\ o \in Coordinator /\ o.phase = "setup" /\ o.poll = "lamp" /\ o.kind = "none"
      /\ o.command = "none" /\ o.followups = 0 /\ o.answered = FALSE /\ o.unsupported = {}
      /\ o.stored.unsupported = {}
  <2>1. "lamp" \in Polling
    BY DEF Polling, Reads
  <2>2. o \in Coordinator
    BY <2>1, NewType DEF Coordinator
  <2> QED BY <2>2 DEF NewCoordinator
<1>2. c \in [Instance -> Coordinator] /\ c' = [c EXCEPT ![i] = Restored(o)]
  BY DEF SetUp, TypeOK
<1> HIDE DEF o
<1>3. CASE disk = None
  BY <1>1, <1>2, <1>3 DEF Restored, Elsewhere
<1>4. CASE disk # None
  <2> DEFINE p == [o EXCEPT !.answered = TRUE, !.stored = disk, !.macros = disk.macros,
                            !.unsupported = disk.unsupported]
  <2>1. /\ p.phase = "setup" /\ p.poll = "lamp" /\ p.kind = "none"
        /\ p.command = "none" /\ p.followups = 0 /\ p.answered = TRUE
        /\ p.stored = disk /\ p.unsupported = disk.unsupported
    BY <1>1 DEF Coordinator
  <2>2. Restored(o) = p
    BY <1>4 DEF Restored
  <2> HIDE DEF p
  <2> QED BY <1>2, <1>4, <2>1, <2>2 DEF Elsewhere
<1> QED BY <1>3, <1>4

LEMMA SetUpDoneShape ==
    ASSUME TypeOK, NEW i \in Instance, SetUpDone(i)
    PROVE  /\ Elsewhere(i) /\ c'[i].phase = "running"
           /\ UNCHANGED <<c[i].poll, c[i].kind, c[i].command, c[i].behind, c[i].followups,
                          c[i].socket,
                          c[i].unsupported, c[i].stored, c[i].answered, c[i].success,
                          c[i].data, c[i].macros>>
BY DEF TypeOK, SetUpDone, Elsewhere, Coordinator

LEMMA StartShape ==
    ASSUME TypeOK, NEW i \in Instance, ScheduledPoll(i) \/ FollowupPoll(i)
    PROVE  /\ Elsewhere(i)
           /\ \/ /\ c[i].phase = "running" /\ c[i].poll = "idle" /\ c'[i].poll = "lamp"
                 /\ FollowupPoll(i) \/ c'[i].kind = "scheduled"
              \/ UNCHANGED <<c[i].poll, c[i].kind>>
           /\ FollowupPoll(i) \/ UNCHANGED c[i].followups
           /\ UNCHANGED <<entryVars, storeVars, projectorVars, c[i].phase, c[i].command,
                          c[i].behind,
                          c[i].socket, c[i].unsupported, c[i].stored, c[i].answered,
                          c[i].success, c[i].data, c[i].macros>>
<1>1. c \in [Instance -> Coordinator] /\ c[i] \in Coordinator
  BY DEF TypeOK
<1>2. CASE ScheduledPoll(i)
  BY <1>1, <1>2 DEF ScheduledPoll, StartPoll, Elsewhere, Coordinator
<1>3. CASE FollowupPoll(i)
  BY <1>1, <1>3 DEF FollowupPoll, Elsewhere, Coordinator
<1> QED BY <1>2, <1>3

LEMMA CommandShape ==
    ASSUME TypeOK, NEW i \in Instance, CommandStep(i)
    PROVE  /\ Elsewhere(i)
           /\ \/ Commands /\ c[i].phase = "running" /\ UNCHANGED c[i].socket
              \/ c[i].command = "first" /\ c'[i].command = "second"
              \/ c[i].command # "none" /\ c'[i].command = "none"
           /\ c'[i].followups \in {c[i].followups, Followups}
           /\ c[i].command # "none" \/ UNCHANGED c[i].followups
           /\ UNCHANGED <<entryVars, storeVars, refusals, c[i].phase, c[i].poll, c[i].kind,
                          c[i].unsupported, c[i].stored, c[i].answered, c[i].success, c[i].data,
                          c[i].macros>>
<1>1. c \in [Instance -> Coordinator] /\ c[i] \in Coordinator
  BY DEF TypeOK
<1> USE DEF projectorVars
<1>2. CASE SendCommand(i)
  BY <1>1, <1>2 DEF SendCommand, Elsewhere, Coordinator
<1>3. CASE FirstRequestDone(i)
  BY <1>1, <1>3 DEF FirstRequestDone, Elsewhere, Coordinator
<1>4. CASE CommandDone(i)
  BY <1>1, <1>4 DEF CommandDone, Elsewhere, Coordinator
<1>5. CASE CommandFails(i)
  BY <1>1, <1>5 DEF CommandFails, Elsewhere, Coordinator
<1> QED BY <1>2, <1>3, <1>4, <1>5 DEF CommandStep

LEMMA UnloadShape ==
    ASSUME TypeOK, NEW i \in Instance, Unload(i)
    PROVE  /\ Elsewhere(i)
           /\ c'[i].phase = "shutting" /\ c'[i].followups = 0
           /\ c'[i].behind = (c[i].command # "none")
           /\ IF c[i].kind = "requested" THEN UNCHANGED <<c[i].poll, c[i].kind>>
                                         ELSE c'[i].poll = "idle" /\ c'[i].kind = "none"
           /\ \/ c[i].poll = "saving" /\ disk' = c[i].stored /\ drift' = drift
              \/ c[i].poll = "saving" /\ disk' = disk /\ drift' = "write"
              \/ (c[i].poll = "saving" => c[i].kind = "requested") /\ UNCHANGED <<disk, drift>>
           /\ UNCHANGED <<current, registered, refusals, c[i].command, c[i].socket,
                          c[i].unsupported, c[i].stored, c[i].answered, c[i].macros>>
<1> DEFINE o == Shutting(c[i])
<1>1. c \in [Instance -> Coordinator] /\ c[i] \in Coordinator /\ 0 \in 0 .. Followups
  BY CountsAssumption DEF TypeOK
<1>2. /\ o \in Coordinator /\ o.phase = "shutting" /\ o.followups = 0 /\ o.poll = c[i].poll
      /\ o.kind = c[i].kind /\ o.command = c[i].command /\ o.behind = (c[i].command # "none")
      /\ o.socket = c[i].socket
      /\ o.unsupported = c[i].unsupported /\ o.stored = c[i].stored
      /\ o.answered = c[i].answered /\ o.macros = c[i].macros
  BY <1>1 DEF Shutting, Coordinator
<1>3. c' = [c EXCEPT ![i] = IF o.kind = "requested" THEN o ELSE Ended(o)]
  BY <1>1, <1>2 DEF Unload
<1> HIDE DEF o
<1>4. /\ Ended(o).poll = "idle" /\ Ended(o).kind = "none" /\ Ended(o).phase = o.phase
      /\ Ended(o).followups = o.followups /\ Ended(o).command = o.command
      /\ Ended(o).behind = o.behind
      /\ Ended(o).socket = o.socket /\ Ended(o).unsupported = o.unsupported
      /\ Ended(o).stored = o.stored /\ Ended(o).answered = o.answered
      /\ Ended(o).macros = o.macros
  BY <1>2 DEF Ended, Coordinator
<1>5. Elsewhere(i) /\ c'[i] = IF o.kind = "requested" THEN o ELSE Ended(o)
  BY <1>1, <1>3 DEF Elsewhere
<1>6. \/ c[i].poll = "saving" /\ disk' = c[i].stored /\ drift' = drift
      \/ c[i].poll = "saving" /\ disk' = disk /\ drift' = "write"
      \/ (c[i].poll = "saving" => c[i].kind = "requested") /\ UNCHANGED <<disk, drift>>
  BY DEF Unload
<1>7. UNCHANGED <<current, registered, refusals>>
  BY DEF Unload, projectorVars
<1> QED BY <1>2, <1>4, <1>5, <1>6, <1>7

LEMMA ShutDownShape ==
    ASSUME TypeOK, NEW i \in Instance, ShutDown(i)
    PROVE  /\ Elsewhere(i)
           /\ c[i].phase = "shutting" /\ ~c[i].behind
           /\ c'[i].phase = "shut" /\ ~c'[i].socket
           /\ UNCHANGED <<c[i].poll, c[i].kind, c[i].command, c[i].behind, c[i].followups,
                          c[i].unsupported,
                          c[i].stored, c[i].answered, c[i].macros>>
BY DEF TypeOK, ShutDown, Elsewhere, Coordinator

LEMMA DropShape ==
    ASSUME TypeOK, NEW i \in Instance, SetUpFails(i) \/ Collect(i)
    PROVE  Elsewhere(i) /\ c'[i] = NewCoordinator
BY DEF TypeOK, SetUpFails, Collect, Elsewhere
------------------------------------------------------------------------------
(* The invariants. *)

\* The entry has at most one coordinator that is set up or runs.
EntryInv ==
    /\ entry \in {"not_loaded", "setup_retry", "removed"} => current = None
    /\ \A i \in Instance :
          /\ c[i].phase = "none" => c[i] = NewCoordinator
          /\ c[i].phase = "setup" => entry = "setup_in_progress" /\ current = i
          /\ c[i].phase = "running" => entry = "loaded" /\ current = i

\* Until the entry is removed a coordinator that got through its set-up has
\* left a file behind, and one that still is in it has answered if there is one.
KnownInv ==
    \A i \in Instance :
        /\ c[i].poll = "saving" => c[i].answered
        /\ c[i].phase \in {"running", "shutting", "shut"} =>
              c[i].answered /\ (entry # "removed" => disk # None)
        /\ c[i].phase = "setup" =>
              /\ ~c[i].answered => disk = None
              /\ c[i].answered /\ c[i].poll # "saving" => disk # None
              /\ c[i].poll = "idle" => c[i].answered
              /\ c[i].poll = "failed" => ~c[i].answered \/ refusals # 0

\* Without refusals nothing of what the projector supports is unsupported.
TaughtInv ==
    refusals = 0 =>
        /\ \A i \in Instance :
              (c[i].unsupported \cup c[i].stored.unsupported) \cap Supports = {}
        /\ disk # None => disk.unsupported \cap Supports = {}

\* What is stored is part of what is known, and all of it after a poll that
\* ended well; and what it rules out has no entities.
StoredInv ==
    \A i \in Instance :
        /\ c[i].stored.unsupported \subseteq c[i].unsupported
        /\ c[i].phase = "running" => registered \cap c[i].stored.unsupported = {}
        /\ c[i].poll = "saving" => c[i].stored = Report(c[i])
        /\ /\ c[i].phase \in {"setup", "running"} /\ c[i].poll = "idle"
           /\ c[i].success /\ c[i].data.reachable
           => c[i].stored = Report(c[i])

\* What an object that is shutting down or shut still has under way: a poll that
\* was requested, and of its commands the second request of one.
LateInv ==
    \A i \in Instance :
        /\ c[i].phase \in {"shutting", "shut"} /\ c[i].poll \in Polling =>
              c[i].kind = "requested"
        /\ c[i].phase = "shutting" /\ c[i].command \in {"only", "first"} => c[i].behind
        /\ c[i].phase = "shut" => c[i].command \in {"none", "second"}

\* Follow-up polls are not cancelled when the entry is unloaded; here there are
\* none: entities send no commands, or nothing follows them.
Scheduled == ~Commands \/ Followups = 0

\* Then the polls end with the entry.
QuietInv ==
    \A i \in Instance :
        /\ c[i].kind # "requested"
        /\ c[i].followups = 0
        /\ ~Commands => c[i].command = "none"
        /\ c[i].phase \in {"shutting", "shut"} => c[i].poll = "idle"

\* The file has what the coordinator takes for stored.
FileInv ==
    /\ entry = "removed" => disk = None
    /\ \A i \in Instance :
          c[i].phase \in {"setup", "running"} /\ c[i].poll # "saving" /\ c[i].answered
             => disk = c[i].stored

\* The registry has the entities of all that is not unsupported: according to
\* the file, or to what is about to be written to it.
Registers(unsupported) == registered = Capability \ unsupported
RegistryInv ==
    /\ \A i \in Instance : c[i].phase = "running" =>
          Capability \ c[i].unsupported \subseteq registered
    /\ entry # "removed" /\ drift = "none" /\ registered # {} =>
          /\ \A i \in Instance : c[i].poll = "saving" => Registers(c[i].stored.unsupported)
          /\ (\A i \in Instance : c[i].poll # "saving") =>
                disk # None /\ Registers(disk.unsupported)
------------------------------------------------------------------------------
(* They are inductive. *)

LEMMA EntryNext == TypeOK /\ EntryInv /\ [Next]_vars => EntryInv'
<1> SUFFICES ASSUME TypeOK, EntryInv, [Next]_vars PROVE EntryInv'
  OBVIOUS
<1> USE NoneAssumption DEF EntryInv, Elsewhere, entryVars, storeVars, projectorVars
<1>1. ASSUME NEW i \in Instance, PollStep(i) PROVE EntryInv'
  <2>1. /\ Elsewhere(i) /\ UNCHANGED <<entryVars, c[i].phase>> /\ c[i].poll \in Polling
    BY <1>1, PollStepShape
  <2>2. c[i] # NewCoordinator
    BY <2>1, OptionalAssumption DEF NewCoordinator, Polling, Reads
  <2> QED BY <2>1, <2>2
<1>2. ASSUME NEW i \in Instance, SetUp(i) PROVE EntryInv'
  <2>1. Elsewhere(i) /\ c'[i].phase = "setup"
    BY <1>2, SetUpShape
  <2> QED BY <1>2, <2>1 DEF SetUp
<1>3. ASSUME NEW i \in Instance, SetUpDone(i) PROVE EntryInv'
  <2>1. Elsewhere(i) /\ c'[i].phase = "running"
    BY <1>3, SetUpDoneShape
  <2> QED BY <1>3, <2>1 DEF SetUpDone
<1>4. ASSUME NEW i \in Instance, SetUpFails(i) \/ Collect(i) PROVE EntryInv'
  <2>1. Elsewhere(i) /\ c'[i] = NewCoordinator
    BY <1>4, DropShape
  <2>2. NewCoordinator.phase = "none"
    BY DEF NewCoordinator
  <2> QED BY <1>4, <2>1, <2>2 DEF SetUpFails, Collect
<1>5. ASSUME NEW i \in Instance, ScheduledPoll(i) \/ FollowupPoll(i) PROVE EntryInv'
  <2>1. c[i].phase # "none"
    BY <1>5 DEF ScheduledPoll, FollowupPoll, NewCoordinator
  <2> QED BY <1>5, <2>1, StartShape
<1>6. ASSUME NEW i \in Instance, CommandStep(i)
      PROVE  EntryInv'
  <2>1. c[i].phase # "none"
    BY <1>6 DEF CommandStep, SendCommand, FirstRequestDone, CommandDone, CommandFails,
                EntryInv, NewCoordinator
  <2> QED BY <1>6, <2>1, CommandShape
<1>7. ASSUME NEW i \in Instance, Unload(i) PROVE EntryInv'
  <2>1. Elsewhere(i) /\ c'[i].phase = "shutting"
    BY <1>7, UnloadShape
  <2> QED BY <1>7, <2>1 DEF Unload
<1>8. ASSUME NEW i \in Instance, ShutDown(i) PROVE EntryInv'
  <2>1. Elsewhere(i) /\ c'[i].phase = "shut"
    BY <1>8, ShutDownShape
  <2> QED BY <1>8, <2>1 DEF ShutDown, LeaveEntry
<1>9. ASSUME NEW i \in Instance, StopWaiting(i) PROVE EntryInv'
  BY <1>9 DEF StopWaiting, LeaveEntry
<1>10. CASE RemoveEntry
  BY <1>10 DEF RemoveEntry
<1>11. CASE Restart
  BY <1>11 DEF Restart, NewCoordinator
<1>12. CASE Projector \/ UNCHANGED vars
  BY <1>12 DEF Projector, vars
<1> QED BY <1>1, <1>2, <1>3, <1>4, <1>5, <1>6, <1>7, <1>8, <1>9, <1>10, <1>11, <1>12 DEF Next

LEMMA KnownNext == TypeOK /\ EntryInv /\ KnownInv /\ [Next]_vars => KnownInv'
<1> SUFFICES ASSUME TypeOK, EntryInv, KnownInv, [Next]_vars PROVE KnownInv'
  OBVIOUS
<1> USE NoneAssumption DEF Elsewhere, entryVars, storeVars, projectorVars
<1>0. /\ NewCoordinator.poll = "idle" /\ NewCoordinator.phase = "none"
      /\ \A i \in Instance : c[i].poll \in Polling => c[i].poll \notin {"idle", "failed"}
      /\ \A r \in Reads : r \notin {"saving", "idle", "failed"}
  BY OptionalAssumption DEF NewCoordinator, Polling, Reads
<1>1. ASSUME NEW i \in Instance, PollStep(i) PROVE KnownInv'
  <2>1. /\ c[i].poll \in Polling /\ Elsewhere(i) /\ UNCHANGED <<entryVars, c[i].phase>>
        /\ GoesOn(i) \/ Fails(i) \/ Remembers(i) \/ Saves(i)
    BY <1>1, PollStepShape
  <2>2. c[i].phase # "none"
    BY <1>0, <2>1 DEF EntryInv
  <2>3. c[i].phase \in {"setup", "running", "shutting", "shut"} /\ c[i].stored # None
    BY <2>2 DEF TypeOK, Coordinator
  <2>4. CASE GoesOn(i)
    BY <1>0, <2>1, <2>4 DEF GoesOn, KnownInv
  <2>5. CASE Fails(i)
    BY <1>0, <2>1, <2>5 DEF Fails, KnownInv
  <2>6. CASE Remembers(i)
    BY <1>0, <2>1, <2>6 DEF Remembers, KnownInv
  <2>7. CASE Saves(i)
    <3>1. \A j \in Instance \ {i} : c[j].phase = "setup" => c[j].answered
      <4> SUFFICES ASSUME NEW j \in Instance \ {i}, c[j].phase = "setup", ~c[j].answered
                   PROVE  FALSE
        OBVIOUS
      <4>1. disk = None /\ entry = "setup_in_progress" /\ current = j
        BY DEF KnownInv, EntryInv
      <4> QED BY <2>3, <4>1 DEF KnownInv, EntryInv
    <3> QED BY <2>1, <2>3, <2>7, <3>1 DEF Saves, KnownInv
  <2> QED BY <2>1, <2>4, <2>5, <2>6, <2>7
<1>2. ASSUME NEW i \in Instance, SetUp(i) PROVE KnownInv'
  <2>1. UNCHANGED <<disk, refusals>> /\ entry # "removed" /\ entry' # "removed"
    BY <1>2 DEF SetUp
  <2>2. /\ Elsewhere(i) /\ c'[i].phase = "setup" /\ c'[i].poll = "lamp"
        /\ c'[i].answered = (disk # None)
    BY <1>2, SetUpShape
  <2> QED BY <2>1, <2>2 DEF KnownInv
<1>3. ASSUME NEW i \in Instance, SetUpDone(i) PROVE KnownInv'
  <2>1. /\ Elsewhere(i) /\ c'[i].phase = "running" /\ UNCHANGED <<c[i].poll, c[i].answered>>
    BY <1>3, SetUpDoneShape
  <2>2. c[i].phase = "setup" /\ c[i].poll = "idle" /\ UNCHANGED <<disk, refusals>>
    BY <1>3 DEF SetUpDone
  <2>3. entry # "removed" /\ entry' # "removed"
    BY <1>3, <2>2 DEF SetUpDone, EntryInv
  <2> QED BY <2>1, <2>2, <2>3 DEF KnownInv
<1>4. ASSUME NEW i \in Instance, SetUpFails(i) \/ Collect(i) PROVE KnownInv'
  <2>1. /\ Elsewhere(i) /\ c'[i] = NewCoordinator
    BY <1>4, DropShape
  <2>2. UNCHANGED <<disk, refusals>> /\ (entry = "removed" => entry' = "removed")
    BY <1>4 DEF SetUpFails, Collect, EntryInv
  <2> QED BY <1>0, <2>1, <2>2 DEF KnownInv
<1>5. ASSUME NEW i \in Instance, ScheduledPoll(i) \/ FollowupPoll(i) PROVE KnownInv'
  BY <1>5, StartShape DEF KnownInv
<1>6. ASSUME NEW i \in Instance, CommandStep(i)
      PROVE  KnownInv'
  BY <1>6, CommandShape DEF KnownInv
<1>7. ASSUME NEW i \in Instance, Unload(i) PROVE KnownInv'
  <2>1. /\ Elsewhere(i) /\ c'[i].phase = "shutting" /\ c'[i].poll \in {"idle", c[i].poll}
        /\ disk' \in {disk, c[i].stored} /\ UNCHANGED <<c[i].answered, refusals>>
    BY <1>7, UnloadShape
  <2>2. c[i].phase = "running" /\ entry = "loaded" /\ entry' = "unload_in_progress"
        /\ c[i].stored # None
    BY <1>7 DEF Unload, EntryInv, TypeOK, Coordinator
  <2>3. disk # None /\ disk' # None /\ c[i].answered
    BY <2>1, <2>2 DEF KnownInv
  <2>4. \A j \in Instance : c[j].phase # "setup"
    BY <2>2 DEF EntryInv
  <2> QED BY <2>1, <2>2, <2>3, <2>4 DEF KnownInv
<1>8. ASSUME NEW i \in Instance, ShutDown(i) PROVE KnownInv'
  <2>1. /\ Elsewhere(i) /\ c'[i].phase = "shut" /\ UNCHANGED <<c[i].poll, c[i].answered>>
    BY <1>8, ShutDownShape
  <2>2. /\ c[i].phase = "shutting" /\ UNCHANGED <<disk, refusals>>
        /\ (entry = "removed" => entry' = "removed")
    BY <1>8 DEF ShutDown, LeaveEntry, EntryInv
  <2> QED BY <2>1, <2>2 DEF KnownInv
<1>9. ASSUME NEW i \in Instance, StopWaiting(i) PROVE KnownInv'
  BY <1>9 DEF StopWaiting, LeaveEntry, EntryInv, KnownInv
<1>10. CASE RemoveEntry
  BY <1>10 DEF RemoveEntry, KnownInv, EntryInv
<1>11. CASE Restart
  BY <1>0, <1>11 DEF Restart, KnownInv
<1>12. CASE Projector \/ UNCHANGED vars
  BY <1>12 DEF Projector, vars, KnownInv
<1> QED BY <1>1, <1>2, <1>3, <1>4, <1>5, <1>6, <1>7, <1>8, <1>9, <1>10, <1>11, <1>12 DEF Next

LEMMA TaughtNext == TypeOK /\ TaughtInv /\ [Next]_vars => TaughtInv'
<1> SUFFICES ASSUME TypeOK, TaughtInv, [Next]_vars, refusals' = 0
             PROVE  /\ \A i \in Instance :
                          (c[i].unsupported \cup c[i].stored.unsupported)' \cap Supports = {}
                    /\ disk' # None => disk'.unsupported \cap Supports = {}
  BY DEF TaughtInv
<1> DEFINE Spared(i) == (c[i].unsupported \cup c[i].stored.unsupported) \cap Supports = {}
           Goal == /\ \A i \in Instance : Spared(i)'
                   /\ disk' # None => disk'.unsupported \cap Supports = {}
<1>0. /\ NewCoordinator.unsupported = {} /\ NewCoordinator.stored.unsupported = {}
  BY DEF NewCoordinator
<1> USE DEF Elsewhere, entryVars, storeVars, projectorVars
<1>1. ASSUME refusals = 0
      PROVE  /\ \A i \in Instance : Spared(i)
             /\ disk # None => disk.unsupported \cap Supports = {}
  BY <1>1 DEF TaughtInv
<1>2. ASSUME NEW i \in Instance, PollStep(i) PROVE Goal
  <2>1. Elsewhere(i) /\ (GoesOn(i) \/ Fails(i) \/ Remembers(i) \/ Saves(i))
    BY <1>2, PollStepShape
  <2>2. CASE GoesOn(i)
    BY <1>1, <2>1, <2>2 DEF GoesOn
  <2>3. CASE Fails(i)
    BY <1>1, <2>1, <2>3 DEF Fails
  <2>4. CASE Remembers(i)
    <3>1. refusals = 0 /\ c'[i].stored.unsupported = c[i].unsupported /\ UNCHANGED disk
          /\ c'[i].unsupported = c[i].unsupported
      BY <2>4 DEF Remembers, Report
    <3> QED BY <1>1, <2>1, <3>1
  <2>5. CASE Saves(i)
    BY <1>1, <2>1, <2>5 DEF Saves
  <2> QED BY <2>1, <2>2, <2>3, <2>4, <2>5
<1>3. ASSUME NEW i \in Instance, SetUp(i) PROVE Goal
  <2>1. /\ Elsewhere(i)
        /\ c'[i].unsupported = IF disk = None THEN {} ELSE disk.unsupported
        /\ c'[i].stored.unsupported = c'[i].unsupported
    BY <1>3, SetUpShape
  <2>2. UNCHANGED <<disk, refusals>>
    BY <1>3 DEF SetUp
  <2> QED BY <1>1, <2>1, <2>2
<1>4. ASSUME NEW i \in Instance, SetUpDone(i) PROVE Goal
  <2>1. Elsewhere(i) /\ UNCHANGED <<c[i].unsupported, c[i].stored>>
    BY <1>4, SetUpDoneShape
  <2> QED BY <1>1, <1>4, <2>1 DEF SetUpDone
<1>5. ASSUME NEW i \in Instance, SetUpFails(i) \/ Collect(i) PROVE Goal
  <2>1. Elsewhere(i) /\ c'[i] = NewCoordinator
    BY <1>5, DropShape
  <2>2. UNCHANGED <<disk, refusals>>
    BY <1>5 DEF SetUpFails, Collect
  <2> QED BY <1>0, <1>1, <2>1, <2>2
<1>6. ASSUME NEW i \in Instance, ScheduledPoll(i) \/ FollowupPoll(i) PROVE Goal
  <2>1. Elsewhere(i) /\ UNCHANGED <<c[i].unsupported, c[i].stored, disk, refusals>>
    BY <1>6, StartShape
  <2> QED BY <1>1, <2>1
<1>7. ASSUME NEW i \in Instance, CommandStep(i)
      PROVE  Goal
  <2>1. Elsewhere(i) /\ UNCHANGED <<c[i].unsupported, c[i].stored, disk, refusals>>
    BY <1>7, CommandShape
  <2> QED BY <1>1, <2>1
<1>8. ASSUME NEW i \in Instance, Unload(i) PROVE Goal
  <2>1. /\ Elsewhere(i) /\ UNCHANGED <<c[i].unsupported, c[i].stored, refusals>>
        /\ disk' \in {disk, c[i].stored}
    BY <1>8, UnloadShape
  <2> QED BY <1>1, <2>1
<1>9. ASSUME NEW i \in Instance, ShutDown(i) PROVE Goal
  <2>1. Elsewhere(i) /\ UNCHANGED <<c[i].unsupported, c[i].stored>>
    BY <1>9, ShutDownShape
  <2> QED BY <1>1, <1>9, <2>1 DEF ShutDown
<1>10. CASE RemoveEntry
  BY <1>1, <1>10 DEF RemoveEntry
<1>11. CASE Restart
  <2>1. /\ disk' \in {disk} \cup {c[i].stored : i \in Instance} /\ UNCHANGED refusals
        /\ \A i \in Instance : c'[i] = NewCoordinator
    BY <1>11 DEF Restart
  <2> QED BY <1>0, <1>1, <2>1
<1>12. CASE Projector \/ UNCHANGED vars \/ \E i \in Instance : StopWaiting(i)
  BY <1>1, <1>12 DEF Projector, vars, StopWaiting
<1> QED BY <1>2, <1>3, <1>4, <1>5, <1>6, <1>7, <1>8, <1>9, <1>10, <1>11, <1>12 DEF Next

LEMMA StoredNext == TypeOK /\ EntryInv /\ StoredInv /\ [Next]_vars => StoredInv'
<1> SUFFICES ASSUME TypeOK, EntryInv, StoredInv, [Next]_vars PROVE StoredInv'
  OBVIOUS
<1>0. /\ NewCoordinator.poll = "idle" /\ NewCoordinator.phase = "none"
      /\ NewCoordinator.stored.unsupported = {}
      /\ "lamp" # "saving" /\ \A r \in Reads : r \notin {"saving", "idle", "failed"}
  BY OptionalAssumption DEF NewCoordinator, Reads
<1> USE DEF Elsewhere, entryVars, storeVars, projectorVars
<1>1. ASSUME NEW i \in Instance, PollStep(i) PROVE StoredInv'
  <2>1. /\ Elsewhere(i) /\ UNCHANGED c[i].phase
        /\ GoesOn(i) \/ Fails(i) \/ Remembers(i) \/ Saves(i)
    BY <1>1, PollStepShape
  <2>2. CASE GoesOn(i)
    BY <1>0, <2>1, <2>2 DEF GoesOn, StoredInv
  <2>3. CASE Fails(i)
    BY <1>0, <2>1, <2>3 DEF Fails, StoredInv
  <2>4. CASE Remembers(i)
    <3>1. /\ registered' = registered \ (c[i].unsupported \ c[i].stored.unsupported)
          /\ c'[i].stored = Report(c'[i]) /\ c'[i].stored.unsupported = c[i].unsupported
          /\ c'[i].unsupported = c[i].unsupported
      BY <2>4 DEF Remembers, Report
    <3>2. c[i].phase = "running" => registered' \cap c'[i].stored.unsupported = {}
      BY <3>1 DEF StoredInv
    <3> QED BY <2>1, <3>1, <3>2 DEF StoredInv, Report
  <2>5. CASE Saves(i)
    BY <2>1, <2>5 DEF Saves, StoredInv
  <2> QED BY <2>1, <2>2, <2>3, <2>4, <2>5
<1>2. ASSUME NEW i \in Instance, SetUp(i) PROVE StoredInv'
  <2>1. /\ Elsewhere(i) /\ c'[i].phase = "setup" /\ c'[i].poll = "lamp"
        /\ c'[i].stored.unsupported = c'[i].unsupported
    BY <1>2, SetUpShape
  <2> QED BY <1>2, <2>1 DEF SetUp, StoredInv, Report
<1>3. ASSUME NEW i \in Instance, SetUpDone(i) PROVE StoredInv'
  <2>1. /\ Elsewhere(i) /\ c'[i].phase = "running"
        /\ UNCHANGED <<c[i].poll, c[i].unsupported, c[i].stored, c[i].success, c[i].data,
                       c[i].macros>>
    BY <1>3, SetUpDoneShape
  <2>2. /\ c[i].phase = "setup" /\ c[i].poll = "idle"
        /\ registered' = Capability \ c[i].unsupported
    BY <1>3 DEF SetUpDone, Without
  <2>3. \A j \in Instance \ {i} : c[j].phase # "running"
    BY <2>2 DEF EntryInv
  <2> QED BY <2>1, <2>2, <2>3 DEF StoredInv, Report
<1>4. ASSUME NEW i \in Instance, SetUpFails(i) \/ Collect(i) PROVE StoredInv'
  <2>1. Elsewhere(i) /\ c'[i] = NewCoordinator
    BY <1>4, DropShape
  <2>2. UNCHANGED registered
    BY <1>4 DEF SetUpFails, Collect
  <2> QED BY <1>0, <2>1, <2>2 DEF StoredInv, Report
<1>5. ASSUME NEW i \in Instance, ScheduledPoll(i) \/ FollowupPoll(i) PROVE StoredInv'
  <2>1. /\ Elsewhere(i) /\ (c'[i].poll = "lamp" \/ UNCHANGED c[i].poll)
        /\ UNCHANGED <<registered, c[i].phase, c[i].unsupported, c[i].stored, c[i].success,
                       c[i].data, c[i].macros>>
    BY <1>5, StartShape
  <2> QED BY <2>1 DEF StoredInv, Report
<1>6. ASSUME NEW i \in Instance, CommandStep(i)
      PROVE  StoredInv'
  <2>1. /\ Elsewhere(i)
        /\ UNCHANGED <<registered, c[i].phase, c[i].poll, c[i].unsupported, c[i].stored,
                       c[i].success, c[i].data, c[i].macros>>
    BY <1>6, CommandShape
  <2> QED BY <2>1 DEF StoredInv, Report
<1>7. ASSUME NEW i \in Instance, Unload(i) PROVE StoredInv'
  <2>1. /\ Elsewhere(i) /\ c'[i].phase = "shutting" /\ c'[i].poll \in {"idle", c[i].poll}
        /\ UNCHANGED <<registered, c[i].unsupported, c[i].stored, c[i].macros>>
    BY <1>7, UnloadShape
  <2> QED BY <2>1 DEF StoredInv, Report
<1>8. ASSUME NEW i \in Instance, ShutDown(i) PROVE StoredInv'
  <2>1. /\ Elsewhere(i) /\ c'[i].phase = "shut"
        /\ UNCHANGED <<c[i].poll, c[i].unsupported, c[i].stored, c[i].macros>>
    BY <1>8, ShutDownShape
  <2>2. UNCHANGED registered
    BY <1>8 DEF ShutDown
  <2> QED BY <2>1, <2>2 DEF StoredInv, Report
<1>9. CASE RemoveEntry
  BY <1>9 DEF RemoveEntry, StoredInv, Report
<1>10. CASE Restart
  BY <1>0, <1>10 DEF Restart, StoredInv, Report
<1>11. CASE Projector \/ UNCHANGED vars \/ \E i \in Instance : StopWaiting(i)
  BY <1>11 DEF Projector, vars, StopWaiting, StoredInv, Report
<1> QED BY <1>1, <1>2, <1>3, <1>4, <1>5, <1>6, <1>7, <1>8, <1>9, <1>10, <1>11 DEF Next

LEMMA InvCorrect == Spec => [](EntryInv /\ KnownInv /\ TaughtInv /\ StoredInv)
<1>1. Init => EntryInv /\ KnownInv /\ TaughtInv /\ StoredInv
  <2> SUFFICES ASSUME Init PROVE EntryInv /\ KnownInv /\ TaughtInv /\ StoredInv
    OBVIOUS
  <2>1. /\ NewCoordinator.phase = "none" /\ NewCoordinator.poll = "idle"
        /\ NewCoordinator.unsupported = {} /\ NewCoordinator.stored.unsupported = {}
    BY DEF NewCoordinator
  <2>2. /\ \A i \in Instance : c[i] = NewCoordinator
        /\ disk = None /\ current = None
    BY DEF Init
  <2> QED BY <2>1, <2>2 DEF EntryInv, KnownInv, TaughtInv, StoredInv
<1>2. /\ TypeOK /\ EntryInv /\ KnownInv /\ TaughtInv /\ StoredInv /\ [Next]_vars
      => (EntryInv /\ KnownInv /\ TaughtInv /\ StoredInv)'
  BY EntryNext, KnownNext, TaughtNext, StoredNext
<1> QED BY <1>1, <1>2, TypeCorrect, PTL DEF Spec
------------------------------------------------------------------------------
(* What holds whatever entities and follow-up polls do. *)

\* Outages, restarts and reloads alone never make a capability unsupported.
THEOREM OutagesTeachNothing == Spec => []OutageTeachesNothing
<1>1. TaughtInv => OutageTeachesNothing
  BY DEF TaughtInv, OutageTeachesNothing
<1> QED BY <1>1, InvCorrect, PTL

\* What a finished poll found unsupported has no entities.
THEOREM NoEntityIsDead == Spec => []NoDeadEntities
<1>1. StoredInv => NoDeadEntities
  <2> SUFFICES ASSUME StoredInv, NEW i \in Instance, Settled(i)
               PROVE  registered \cap c[i].unsupported = {}
    BY DEF NoDeadEntities
  <2>1. c[i].stored = Report(c[i]) /\ registered \cap c[i].stored.unsupported = {}
    BY DEF StoredInv, Settled
  <2> QED BY <2>1 DEF Report
<1> QED BY <1>1, InvCorrect, PTL

\* Only refusals, never outages, make an entry with a file wait for its set-up.
THEOREM NobodyIsKeptWaiting == Spec => OutageKeepsNobodyWaiting
<1>1. EntryInv /\ KnownInv /\ [Next]_vars =>
         [/\ entry # "setup_retry" /\ entry' = "setup_retry"
          /\ refusals = 0
          => disk = None]_vars
  <2> SUFFICES ASSUME EntryInv, KnownInv, [Next]_vars, entry # "setup_retry",
                      entry' = "setup_retry", refusals = 0
               PROVE  disk = None
    OBVIOUS
  <2>1. PICK i \in Instance : SetUpFails(i)
    BY DEF Next, vars, entryVars, SetUp, SetUpDone, ScheduledPoll, FollowupPoll, PollStep,
           ReadLamp, ReadShutter, RequiredRefused, SkipOptional, OptionalAnswered,
           OptionalRefused, ReadsOptional, ReadMacros, Saved, Unreachable, CommandStep,
           SendCommand, FirstRequestDone, CommandDone, CommandFails, Unload, ShutDown,
           StopWaiting, LeaveEntry, Collect,
           RemoveEntry, Restart, Projector
  <2> QED BY <2>1 DEF SetUpFails, EntryInv, KnownInv
<1> QED BY <1>1, InvCorrect, PTL DEF Spec, OutageKeepsNobodyWaiting
------------------------------------------------------------------------------
(* What an object does after its entry has been unloaded. *)

LEMMA LateNext == TypeOK /\ LateInv /\ [Next]_vars => LateInv'
<1> SUFFICES ASSUME TypeOK, LateInv, [Next]_vars PROVE LateInv'
  OBVIOUS
<1>0. /\ NewCoordinator.phase = "none"
      /\ "idle" \notin Polling /\ "failed" \notin Polling
  BY OptionalAssumption DEF NewCoordinator, Polling, Reads
<1> USE DEF Elsewhere, entryVars, storeVars, projectorVars
<1>1. ASSUME NEW i \in Instance, PollStep(i) PROVE LateInv'
  <2>1. /\ c[i].poll \in Polling /\ Elsewhere(i)
        /\ UNCHANGED <<c[i].phase, c[i].command, c[i].behind>>
        /\ GoesOn(i) \/ Fails(i) \/ Remembers(i) \/ Saves(i)
    BY <1>1, PollStepShape
  <2>2. c'[i].poll \in Polling => c'[i].kind = c[i].kind
    BY <1>0, <2>1 DEF GoesOn, Fails, Remembers, Saves
  <2> QED BY <2>1, <2>2 DEF LateInv
<1>2. ASSUME NEW i \in Instance, SetUp(i) PROVE LateInv'
  <2>1. Elsewhere(i) /\ c'[i].phase = "setup"
    BY <1>2, SetUpShape
  <2> QED BY <2>1 DEF LateInv
<1>3. ASSUME NEW i \in Instance, SetUpDone(i) PROVE LateInv'
  <2>1. Elsewhere(i) /\ c'[i].phase = "running"
    BY <1>3, SetUpDoneShape
  <2> QED BY <2>1 DEF LateInv
<1>4. ASSUME NEW i \in Instance, SetUpFails(i) \/ Collect(i) PROVE LateInv'
  <2>1. Elsewhere(i) /\ c'[i] = NewCoordinator
    BY <1>4, DropShape
  <2> QED BY <1>0, <2>1 DEF LateInv
<1>5. ASSUME NEW i \in Instance, ScheduledPoll(i) \/ FollowupPoll(i) PROVE LateInv'
  <2>1. /\ Elsewhere(i)
        /\ c[i].phase = "running" \/ UNCHANGED <<c[i].poll, c[i].kind>>
        /\ UNCHANGED <<c[i].phase, c[i].command, c[i].behind>>
    BY <1>5, StartShape
  <2> QED BY <2>1 DEF LateInv
<1>6. ASSUME NEW i \in Instance, CommandStep(i) PROVE LateInv'
  <2>1. /\ Elsewhere(i)
        /\ c[i].phase = "running" \/ c'[i].command \in {"none", "second"}
        /\ UNCHANGED <<c[i].phase, c[i].poll, c[i].kind>>
    BY <1>6, CommandShape
  <2> QED BY <2>1 DEF LateInv
<1>7. ASSUME NEW i \in Instance, Unload(i) PROVE LateInv'
  <2>1. /\ Elsewhere(i) /\ c'[i].phase = "shutting"
        /\ c'[i].command # "none" => c'[i].behind
        /\ c'[i].poll = "idle" \/ c'[i].kind = "requested"
    BY <1>7, UnloadShape
  <2> QED BY <1>0, <2>1 DEF LateInv
<1>8. ASSUME NEW i \in Instance, ShutDown(i) PROVE LateInv'
  <2>1. /\ Elsewhere(i) /\ c[i].phase = "shutting" /\ ~c[i].behind /\ c'[i].phase = "shut"
        /\ UNCHANGED <<c[i].poll, c[i].kind, c[i].command>>
    BY <1>8, ShutDownShape
  <2>2. c[i].command \in {"none", "only", "first", "second"}
    BY DEF TypeOK, Coordinator
  <2> QED BY <2>1, <2>2 DEF LateInv
<1>9. CASE Restart
  BY <1>0, <1>9 DEF Restart, LateInv
<1>10. CASE RemoveEntry \/ Projector \/ UNCHANGED vars \/ \E i \in Instance : StopWaiting(i)
  BY <1>10 DEF RemoveEntry, Projector, vars, StopWaiting, LateInv
<1> QED BY <1>1, <1>2, <1>3, <1>4, <1>5, <1>6, <1>7, <1>8, <1>9, <1>10 DEF Next

LEMMA LateCorrect == Spec => []LateInv
<1>1. Init => LateInv
  <2>1. NewCoordinator.phase = "none"
    BY DEF NewCoordinator
  <2>2. Init => \A i \in Instance : c[i] = NewCoordinator
    BY DEF Init
  <2> QED BY <2>1, <2>2 DEF LateInv
<1> QED BY <1>1, LateNext, TypeCorrect, PTL DEF Spec

\* Whoever saves holds the entry, or is in a follow-up poll.
LEMMA Savers ==
    ASSUME TypeOK, EntryInv, LateInv, NEW i \in Instance, c[i].poll = "saving"
    PROVE  Holds(i) \/ c[i].kind = "requested"
<1>1. c[i].phase \in {"none", "setup", "running", "shutting", "shut"}
  BY DEF TypeOK, Coordinator
<1>2. c[i].phase # "none"
  BY OptionalAssumption DEF EntryInv, NewCoordinator
<1> QED BY <1>1, <1>2 DEF EntryInv, LateInv, Holds, Polling

\* Whatever the entry goes through, only its coordinator writes the file, or a
\* follow-up poll that was under way when the entry was unloaded.
THEOREM LateWritersAreFollowups == Spec => LateWriteIsFollowup
<1> DEFINE Writer == \E i \in Instance :
                        /\ c[i].poll = "saving"
                        /\ c[i].stored = disk'
                        /\ Holds(i) \/ c[i].kind = "requested"
<1>1. ASSUME TypeOK, EntryInv, LateInv, [Next]_vars, disk' \notin {disk, None}
      PROVE  Writer
  <2>1. PICK i \in Instance : c[i].poll = "saving" /\ c[i].stored = disk'
    <3>1. CASE \E i \in Instance : PollStep(i)
      <4>1. PICK i \in Instance : PollStep(i)
        BY <3>1
      <4>2. GoesOn(i) \/ Fails(i) \/ Remembers(i) \/ Saves(i)
        BY <1>1, <4>1, PollStepShape
      <4>3. UNCHANGED disk \/ Saves(i)
        BY <4>2 DEF GoesOn, Fails, Remembers
      <4>4. disk' # disk
        BY <1>1
      <4>5. c[i].poll = "saving" /\ disk' = c[i].stored
        BY <4>3, <4>4 DEF Saves
      <4> QED BY <4>5
    <3>2. CASE \E i \in Instance : Unload(i)
      <4>1. PICK i \in Instance : Unload(i)
        BY <3>2
      <4> QED BY <1>1, <4>1, UnloadShape
    <3>3. CASE Restart
      BY <1>1, <3>3 DEF Restart
    <3>4. CASE \E i \in Instance : SetUp(i) \/ SetUpDone(i) \/ SetUpFails(i)
      BY <1>1, <3>4 DEF SetUp, SetUpDone, SetUpFails, storeVars
    <3>5. CASE \E i \in Instance : ScheduledPoll(i) \/ FollowupPoll(i)
      BY <1>1, <3>5 DEF ScheduledPoll, FollowupPoll, storeVars
    <3>6. CASE \E i \in Instance : CommandStep(i)
      BY <1>1, <3>6 DEF CommandStep, SendCommand, FirstRequestDone, CommandDone, CommandFails,
                        storeVars
    <3>7. CASE \E i \in Instance : ShutDown(i) \/ StopWaiting(i) \/ Collect(i)
      BY <1>1, <3>7 DEF ShutDown, StopWaiting, Collect, storeVars
    <3>8. CASE RemoveEntry \/ Projector \/ UNCHANGED vars
      BY <1>1, <3>8 DEF RemoveEntry, Projector, vars, storeVars
    <3> QED BY <1>1, <3>1, <3>2, <3>3, <3>4, <3>5, <3>6, <3>7, <3>8 DEF Next
  <2> QED BY <1>1, <2>1, Savers
<1>2. TypeOK /\ EntryInv /\ LateInv /\ [Next]_vars => [disk' \notin {disk, None} => Writer]_vars
  BY <1>1
<1> QED BY <1>2, TypeCorrect, InvCorrect, LateCorrect, PTL DEF Spec, LateWriteIsFollowup

\* The socket of an object that is shut is opened by a follow-up poll that was
\* under way, or by the second request of a command, and by nothing else.
THEOREM LateReopening == Spec => ReopenedLate
<1> DEFINE Reopens(i) == c[i].phase = "shut" /\ ~c[i].socket /\ c'[i].socket
           Late(i) == c[i].kind = "requested" \/ c[i].command = "second"
<1>1. ASSUME TypeOK, EntryInv, LateInv, [Next]_vars, NEW i \in Instance, Reopens(i)
      PROVE  Late(i)
  <2>0. c[i].phase = "shut" /\ ~c[i].socket /\ c'[i].socket /\ c'[i] # c[i]
    BY <1>1
  <2> USE DEF Elsewhere
  <2>1. CASE \E j \in Instance : PollStep(j)
    <3>1. PICK j \in Instance : PollStep(j)
      BY <2>1
    <3>2. i = j /\ c[i].poll \in Polling
      BY <1>1, <2>0, <3>1, PollStepShape
    <3> QED BY <1>1, <2>0, <3>2 DEF LateInv
  <2>2. CASE \E j \in Instance : CommandStep(j)
    <3>1. PICK j \in Instance : CommandStep(j)
      BY <2>2
    <3>2. i = j
      BY <1>1, <2>0, <3>1, CommandShape
    <3>3. c[i].phase = "running" \/ c[i].command # "none"
      BY <1>1, <3>1, <3>2, CommandShape
    <3>4. c[i].command \in {"none", "second"}
      BY <1>1, <2>0 DEF LateInv
    <3> QED BY <2>0, <3>3, <3>4
  <2>3. \A j \in Instance : ~SetUp(j)
    <3> SUFFICES ASSUME NEW j \in Instance, SetUp(j) PROVE FALSE
      OBVIOUS
    <3>1. c[j].phase = "none" /\ Elsewhere(j)
      BY <1>1, SetUpShape DEF SetUp
    <3> QED BY <2>0, <3>1
  <2>4. \A j \in Instance : ~SetUpDone(j)
    BY <1>1, <2>0, SetUpDoneShape DEF SetUpDone
  <2>5. \A j \in Instance : ~SetUpFails(j) /\ ~Collect(j)
    BY <1>1, <2>0, DropShape DEF NewCoordinator
  <2>6. \A j \in Instance : ~ScheduledPoll(j) /\ ~FollowupPoll(j)
    BY <1>1, <2>0, StartShape
  <2>7. \A j \in Instance : ~Unload(j)
    BY <1>1, <2>0, UnloadShape DEF Unload
  <2>8. \A j \in Instance : ~ShutDown(j)
    BY <1>1, <2>0, ShutDownShape
  <2>9. /\ ~RemoveEntry /\ ~Projector /\ ~UNCHANGED vars
        /\ \A j \in Instance : ~StopWaiting(j)
    BY <2>0 DEF RemoveEntry, Projector, vars, StopWaiting
  <2>10. ~Restart
    <3>1. ~NewCoordinator.socket
      BY DEF NewCoordinator
    <3> QED BY <1>1, <2>0, <3>1 DEF Restart
  <2> QED BY <1>1, <2>0, <2>1, <2>2, <2>3, <2>4, <2>5, <2>6, <2>7, <2>8, <2>9, <2>10 DEF Next
<1>2. TypeOK /\ EntryInv /\ LateInv /\ [Next]_vars
      => [\A i \in Instance : Reopens(i) => Late(i)]_vars
  BY <1>1
<1> QED BY <1>2, TypeCorrect, InvCorrect, LateCorrect, PTL DEF Spec, ReopenedLate
------------------------------------------------------------------------------
(* What holds as long as only scheduled polls run. *)

LEMMA QuietNext ==
    ASSUME Scheduled, TypeOK, EntryInv, QuietInv, [Next]_vars
    PROVE  QuietInv'
<1>0. /\ NewCoordinator.phase = "none" /\ NewCoordinator.kind = "none"
      /\ NewCoordinator.followups = 0 /\ NewCoordinator.command = "none"
      /\ "idle" \notin Polling
  BY OptionalAssumption DEF NewCoordinator, Polling, Reads
<1> USE DEF Elsewhere, entryVars, storeVars, projectorVars
<1>1. ASSUME NEW i \in Instance, PollStep(i) PROVE QuietInv'
  <2>1. /\ c[i].poll \in Polling /\ Elsewhere(i)
        /\ UNCHANGED <<c[i].phase, c[i].command, c[i].behind, c[i].followups>>
        /\ GoesOn(i) \/ Fails(i) \/ Remembers(i) \/ Saves(i)
    BY <1>1, PollStepShape
  <2>2. c[i].phase \notin {"shutting", "shut"}
    BY <1>0, <2>1 DEF QuietInv
  <2>3. c'[i].kind \in {c[i].kind, "none"}
    BY <2>1 DEF GoesOn, Fails, Remembers, Saves
  <2> QED BY <2>1, <2>2, <2>3 DEF QuietInv
<1>2. ASSUME NEW i \in Instance, SetUp(i) PROVE QuietInv'
  <2>1. /\ Elsewhere(i) /\ c'[i].phase = "setup" /\ c'[i].kind = "none" /\ c'[i].command = "none"
        /\ c'[i].followups = 0
    BY <1>2, SetUpShape
  <2> QED BY <2>1 DEF QuietInv
<1>3. ASSUME NEW i \in Instance, SetUpDone(i) PROVE QuietInv'
  <2>1. /\ Elsewhere(i) /\ c'[i].phase = "running"
        /\ UNCHANGED <<c[i].kind, c[i].command, c[i].behind, c[i].followups>>
    BY <1>3, SetUpDoneShape
  <2> QED BY <2>1 DEF QuietInv
<1>4. ASSUME NEW i \in Instance, SetUpFails(i) \/ Collect(i) PROVE QuietInv'
  <2>1. Elsewhere(i) /\ c'[i] = NewCoordinator
    BY <1>4, DropShape
  <2> QED BY <1>0, <2>1 DEF QuietInv
<1>5. ASSUME NEW i \in Instance, ScheduledPoll(i) \/ FollowupPoll(i) PROVE QuietInv'
  <2>1. ~FollowupPoll(i) /\ c[i].phase = "running"
    BY <1>5 DEF FollowupPoll, ScheduledPoll, QuietInv
  <2>2. /\ Elsewhere(i) /\ c'[i].kind \in {c[i].kind, "scheduled"}
        /\ UNCHANGED <<c[i].phase, c[i].command, c[i].behind, c[i].followups>>
    BY <1>5, <2>1, StartShape
  <2> QED BY <2>1, <2>2 DEF QuietInv
<1>6. ASSUME NEW i \in Instance, CommandStep(i)
      PROVE  QuietInv'
  <2>1. /\ Elsewhere(i)
        /\ Commands \/ c[i].command # "none"
        /\ c'[i].followups \in {c[i].followups, Followups}
        /\ UNCHANGED <<c[i].phase, c[i].poll, c[i].kind>>
    BY <1>6, CommandShape
  <2>2. Commands
    BY <2>1 DEF QuietInv
  <2>3. Followups = 0
    BY <2>2 DEF Scheduled
  <2> QED BY <2>1, <2>2, <2>3 DEF QuietInv
<1>7. ASSUME NEW i \in Instance, Unload(i) PROVE QuietInv'
  <2>1. c[i].kind # "requested"
    BY DEF QuietInv
  <2>2. /\ Elsewhere(i) /\ c'[i].phase = "shutting" /\ c'[i].followups = 0
        /\ c'[i].poll = "idle" /\ c'[i].kind = "none" /\ UNCHANGED c[i].command
    BY <1>7, <2>1, UnloadShape
  <2> QED BY <2>2 DEF QuietInv
<1>8. ASSUME NEW i \in Instance, ShutDown(i) PROVE QuietInv'
  <2>1. /\ Elsewhere(i) /\ c[i].phase = "shutting" /\ c'[i].phase = "shut"
        /\ UNCHANGED <<c[i].poll, c[i].kind, c[i].command, c[i].followups>>
    BY <1>8, ShutDownShape
  <2> QED BY <2>1 DEF QuietInv
<1>9. CASE Restart
  BY <1>0, <1>9 DEF Restart, QuietInv
<1>10. CASE RemoveEntry \/ Projector \/ UNCHANGED vars \/ \E i \in Instance : StopWaiting(i)
  BY <1>10 DEF RemoveEntry, Projector, vars, StopWaiting, QuietInv
<1> QED BY <1>1, <1>2, <1>3, <1>4, <1>5, <1>6, <1>7, <1>8, <1>9, <1>10 DEF Next

\* A poll runs for the coordinator of the entry only.
LEMMA OnePoll ==
    ASSUME TypeOK, EntryInv, QuietInv, NEW i \in Instance, c[i].poll \in Polling
    PROVE  /\ c[i].phase \in {"setup", "running"} /\ entry # "removed"
           /\ \A j \in Instance \ {i} :
                 c[j].phase \notin {"setup", "running"} /\ c[j].poll \notin Polling
<1>1. "idle" \notin Polling /\ NewCoordinator.poll = "idle"
  BY OptionalAssumption DEF NewCoordinator, Polling, Reads
<1>2. \A j \in Instance : c[j].poll \in Polling => c[j].phase \in {"setup", "running"}
  BY <1>1 DEF EntryInv, QuietInv, TypeOK, Coordinator
<1> QED BY <1>2 DEF EntryInv

LEMMA FileNext ==
    ASSUME TypeOK, EntryInv, QuietInv, FileInv, [Next]_vars
    PROVE  FileInv'
<1>0. /\ NewCoordinator.phase = "none" /\ \A r \in Reads : r # "saving"
  BY OptionalAssumption DEF NewCoordinator, Reads
<1> USE DEF Elsewhere, entryVars, storeVars, projectorVars
<1>1. ASSUME NEW i \in Instance, PollStep(i) PROVE FileInv'
  <2>1. /\ c[i].poll \in Polling /\ Elsewhere(i) /\ UNCHANGED <<entryVars, c[i].phase>>
        /\ GoesOn(i) \/ Fails(i) \/ Remembers(i) \/ Saves(i)
    BY <1>1, PollStepShape
  <2>2. /\ c[i].phase \in {"setup", "running"} /\ entry # "removed"
        /\ \A j \in Instance \ {i} : c[j].phase \notin {"setup", "running"}
    BY <2>1, OnePoll
  <2>3. c'[i].poll # "saving" /\ c'[i].answered => disk' = c'[i].stored
    <3>1. CASE GoesOn(i)
      BY <1>0, <2>2, <3>1 DEF GoesOn, FileInv
    <3>2. CASE Fails(i)
      BY <1>0, <2>2, <3>2 DEF Fails, FileInv
    <3>3. CASE Remembers(i)
      BY <2>2, <3>3 DEF Remembers, FileInv
    <3>4. CASE Saves(i)
      BY <3>4 DEF Saves
    <3> QED BY <2>1, <3>1, <3>2, <3>3, <3>4
  <2> QED BY <2>1, <2>2, <2>3 DEF FileInv
<1>2. ASSUME NEW i \in Instance, SetUp(i) PROVE FileInv'
  <2>1. /\ Elsewhere(i) /\ c'[i].answered = (disk # None) /\ (disk # None => c'[i].stored = disk)
    BY <1>2, SetUpShape
  <2>2. /\ UNCHANGED disk /\ entry' # "removed"
        /\ \A j \in Instance : c[j].phase \notin {"setup", "running"}
    BY <1>2 DEF SetUp, EntryInv
  <2> QED BY <2>1, <2>2 DEF FileInv
<1>3. ASSUME NEW i \in Instance, SetUpDone(i) PROVE FileInv'
  <2>1. Elsewhere(i) /\ UNCHANGED <<c[i].poll, c[i].answered, c[i].stored>>
    BY <1>3, SetUpDoneShape
  <2>2. c[i].phase = "setup" /\ UNCHANGED disk /\ entry' # "removed"
    BY <1>3 DEF SetUpDone
  <2> QED BY <2>1, <2>2 DEF FileInv
<1>4. ASSUME NEW i \in Instance, SetUpFails(i) \/ Collect(i) PROVE FileInv'
  <2>1. Elsewhere(i) /\ c'[i] = NewCoordinator
    BY <1>4, DropShape
  <2>2. UNCHANGED disk /\ (entry' = "removed" => entry = "removed")
    BY <1>4 DEF SetUpFails, Collect
  <2> QED BY <1>0, <2>1, <2>2 DEF FileInv
<1>5. ASSUME NEW i \in Instance, ScheduledPoll(i) \/ FollowupPoll(i) PROVE FileInv'
  <2>1. /\ Elsewhere(i)
        /\ UNCHANGED <<entry, disk, c[i].phase, c[i].answered, c[i].stored>>
        /\ UNCHANGED c[i].poll \/ c[i].poll = "idle"
    BY <1>5, StartShape
  <2> QED BY <2>1 DEF FileInv
<1>6. ASSUME NEW i \in Instance, CommandStep(i)
      PROVE  FileInv'
  <2>1. /\ Elsewhere(i)
        /\ UNCHANGED <<entry, disk, c[i].phase, c[i].poll, c[i].answered, c[i].stored>>
    BY <1>6, CommandShape
  <2> QED BY <2>1 DEF FileInv
<1>7. ASSUME NEW i \in Instance, Unload(i) PROVE FileInv'
  <2>1. Elsewhere(i) /\ c'[i].phase = "shutting"
    BY <1>7, UnloadShape
  <2>2. /\ entry' = "unload_in_progress"
        /\ \A j \in Instance \ {i} : c[j].phase \notin {"setup", "running"}
    BY <1>7 DEF Unload, EntryInv
  <2> QED BY <2>1, <2>2 DEF FileInv
<1>8. ASSUME NEW i \in Instance, ShutDown(i) PROVE FileInv'
  <2>1. Elsewhere(i) /\ c'[i].phase = "shut"
    BY <1>8, ShutDownShape
  <2>2. UNCHANGED disk /\ (entry' = "removed" => entry = "removed")
    BY <1>8 DEF ShutDown, LeaveEntry
  <2> QED BY <2>1, <2>2 DEF FileInv
<1>9. ASSUME NEW i \in Instance, StopWaiting(i) PROVE FileInv'
  BY <1>9 DEF StopWaiting, LeaveEntry, FileInv
<1>10. CASE RemoveEntry
  BY <1>10 DEF RemoveEntry, FileInv, EntryInv
<1>11. CASE Restart
  BY <1>0, <1>11 DEF Restart, FileInv
<1>12. CASE Projector \/ UNCHANGED vars
  BY <1>12 DEF Projector, vars, FileInv
<1> QED BY <1>1, <1>2, <1>3, <1>4, <1>5, <1>6, <1>7, <1>8, <1>9, <1>10, <1>11, <1>12 DEF Next

\* What a step of a poll does to the registry and the file.
LEMMA RegistryPoll ==
    ASSUME TypeOK, EntryInv, KnownInv, StoredInv, QuietInv, FileInv, RegistryInv,
           NEW i \in Instance, PollStep(i)
    PROVE  RegistryInv'
<1> USE DEF Elsewhere, entryVars
<1>1. /\ c[i].poll \in Polling /\ Elsewhere(i) /\ UNCHANGED <<entryVars, c[i].phase>>
      /\ GoesOn(i) \/ Fails(i) \/ Remembers(i) \/ Saves(i)
  BY PollStepShape
<1>2. /\ c[i].phase \in {"setup", "running"} /\ entry # "removed"
      /\ \A j \in Instance \ {i} :
            c[j].phase \notin {"setup", "running"} /\ c[j].poll \notin Polling
  BY <1>1, OnePoll
<1>3. "saving" \in Polling /\ \A r \in Reads : r # "saving"
  BY OptionalAssumption DEF Polling, Reads
<1>4. \A j \in Instance \ {i} : c'[j].phase # "running" /\ c'[j].poll # "saving"
  BY <1>1, <1>2, <1>3
<1>5. CASE GoesOn(i) \/ Fails(i)
  <2>1. /\ c[i].poll # "saving" /\ c'[i].poll # "saving"
        /\ c[i].unsupported \subseteq c'[i].unsupported /\ UNCHANGED <<disk, registered, drift>>
    BY <1>3, <1>5 DEF GoesOn, Fails
  <2>2. \A j \in Instance : c[j].poll # "saving"
    BY <1>2, <1>3, <2>1
  <2> QED BY <1>1, <1>4, <2>1, <2>2 DEF RegistryInv, Registers
<1>6. CASE Remembers(i)
  <2>1. /\ c[i].poll = "macros" /\ c'[i].unsupported = c[i].unsupported
        /\ registered' = registered \ (c[i].unsupported \ c[i].stored.unsupported)
        /\ c'[i].stored.unsupported = c[i].unsupported
        /\ \/ c'[i].poll = "saving"
           \/ c'[i].poll = "idle" /\ c[i].answered /\ c'[i].stored = c[i].stored
        /\ UNCHANGED <<disk, drift>>
    BY <1>6 DEF Remembers, Report
  <2>2. \A j \in Instance : c[j].poll # "saving"
    BY <1>2, <1>3, <2>1
  <2>3. c[i].phase = "running" => Capability \ c'[i].unsupported \subseteq registered'
    BY <2>1 DEF RegistryInv
  <2>4. ASSUME drift = "none", registered' # {}
        PROVE  /\ registered' = Capability \ c'[i].stored.unsupported
               /\ c'[i].poll # "saving" =>
                     disk # None /\ disk.unsupported = c'[i].stored.unsupported
    <3>1. disk # None /\ registered = Capability \ disk.unsupported
      BY <1>2, <2>1, <2>2, <2>4 DEF RegistryInv, Registers
    <3>2. c[i].answered
      BY <1>2, <3>1 DEF KnownInv
    <3>3. disk = c[i].stored /\ c[i].stored.unsupported \subseteq c[i].unsupported
      BY <1>2, <2>2, <3>2 DEF FileInv, StoredInv
    <3> QED BY <2>1, <3>1, <3>3
  <2> QED BY <1>1, <1>4, <2>1, <2>3, <2>4 DEF RegistryInv, Registers
<1>7. CASE Saves(i)
  <2>1. /\ c[i].poll = "saving" /\ c'[i].poll = "idle" /\ disk' = c[i].stored
        /\ drift' = IF c[i].phase = "setup" THEN drift ELSE "none"
        /\ UNCHANGED <<c[i].unsupported, c[i].stored, registered>>
    BY <1>7 DEF Saves
  <2>2. c[i].stored # None /\ registered \subseteq Capability
    BY NoneAssumption DEF TypeOK, Coordinator
  <2>3. c[i].phase = "running" => registered = Capability \ c[i].stored.unsupported
    <3> SUFFICES ASSUME c[i].phase = "running"
                 PROVE  registered = Capability \ c[i].stored.unsupported
      OBVIOUS
    <3>1. Capability \ c[i].unsupported \subseteq registered
      BY DEF RegistryInv
    <3>2. registered \cap c[i].stored.unsupported = {} /\ c[i].stored = Report(c[i])
      BY <2>1 DEF StoredInv
    <3> QED BY <2>2, <3>1, <3>2 DEF Report
  <2>4. drift' = "none" /\ registered # {} => registered = Capability \ c[i].stored.unsupported
    BY <1>2, <2>1, <2>3 DEF RegistryInv, Registers
  <2> QED BY <1>1, <1>4, <2>1, <2>2, <2>4 DEF RegistryInv, Registers
<1> QED BY <1>1, <1>5, <1>6, <1>7

LEMMA RegistryNext ==
    ASSUME TypeOK, EntryInv, KnownInv, StoredInv, QuietInv, FileInv, RegistryInv, [Next]_vars
    PROVE  RegistryInv'
<1>0. /\ NewCoordinator.phase = "none" /\ NewCoordinator.poll = "idle"
      /\ "saving" \in Polling /\ "lamp" # "saving"
  BY OptionalAssumption DEF NewCoordinator, Polling, Reads
<1> USE DEF Elsewhere, entryVars, storeVars, projectorVars
<1>1. ASSUME NEW i \in Instance, PollStep(i) PROVE RegistryInv'
  BY <1>1, RegistryPoll
<1>2. ASSUME NEW i \in Instance, SetUp(i) PROVE RegistryInv'
  <2>1. Elsewhere(i) /\ c'[i].phase = "setup" /\ c'[i].poll = "lamp"
    BY <1>2, SetUpShape
  <2>2. UNCHANGED <<disk, registered, drift>> /\ c[i].poll = "idle" /\ entry # "removed"
    BY <1>0, <1>2 DEF SetUp, EntryInv
  <2> QED BY <1>0, <2>1, <2>2 DEF RegistryInv, Registers
<1>3. ASSUME NEW i \in Instance, SetUpDone(i) PROVE RegistryInv'
  <2>1. /\ Elsewhere(i) /\ c'[i].phase = "running"
        /\ UNCHANGED <<c[i].poll, c[i].unsupported, c[i].stored>>
    BY <1>3, SetUpDoneShape
  <2>2. /\ c[i].phase = "setup" /\ c[i].poll = "idle" /\ UNCHANGED disk
        /\ registered' = Capability \ c[i].unsupported
        /\ drift' = IF c[i].unsupported = c[i].stored.unsupported THEN "none" ELSE "poll"
    BY <1>3 DEF SetUpDone, Without
  <2>3. \A j \in Instance \ {i} : c[j].phase # "running" /\ c[j].poll # "saving"
    <3>1. \A j \in Instance \ {i} : c[j].phase \notin {"setup", "running"}
      BY <2>2 DEF EntryInv
    <3> QED BY <1>0, <3>1, OnePoll
  <2>4. c[i].answered /\ disk # None /\ disk = c[i].stored
    BY <2>2 DEF KnownInv, FileInv
  <2> QED BY <2>1, <2>2, <2>3, <2>4 DEF RegistryInv, Registers
<1>4. ASSUME NEW i \in Instance, SetUpFails(i) \/ Collect(i) PROVE RegistryInv'
  <2>1. Elsewhere(i) /\ c'[i] = NewCoordinator
    BY <1>4, DropShape
  <2>2. /\ UNCHANGED <<disk, registered, drift>> /\ c[i].poll \in {"idle", "failed"}
        /\ (entry' # "removed" => entry # "removed")
    BY <1>4 DEF SetUpFails, Collect, EntryInv
  <2> QED BY <1>0, <2>1, <2>2 DEF RegistryInv, Registers
<1>5. ASSUME NEW i \in Instance, ScheduledPoll(i) \/ FollowupPoll(i) PROVE RegistryInv'
  <2>1. /\ Elsewhere(i)
        /\ UNCHANGED <<entry, disk, registered, drift, c[i].phase, c[i].unsupported,
                       c[i].stored>>
        /\ UNCHANGED c[i].poll \/ (c[i].poll = "idle" /\ c'[i].poll = "lamp")
    BY <1>5, StartShape
  <2> QED BY <1>0, <2>1 DEF RegistryInv, Registers
<1>6. ASSUME NEW i \in Instance, CommandStep(i)
      PROVE  RegistryInv'
  <2>1. /\ Elsewhere(i)
        /\ UNCHANGED <<entry, disk, registered, drift, c[i].phase, c[i].poll, c[i].unsupported,
                       c[i].stored>>
    BY <1>6, CommandShape
  <2> QED BY <2>1 DEF RegistryInv, Registers
<1>7. ASSUME NEW i \in Instance, Unload(i) PROVE RegistryInv'
  <2>1. c[i].kind # "requested"
    BY DEF QuietInv
  <2>2. /\ Elsewhere(i) /\ c'[i].phase = "shutting" /\ c'[i].poll = "idle"
        /\ \/ c[i].poll = "saving" /\ disk' = c[i].stored /\ drift' = drift
           \/ c[i].poll = "saving" /\ disk' = disk /\ drift' = "write"
           \/ c[i].poll # "saving" /\ UNCHANGED <<disk, drift>>
        /\ UNCHANGED <<registered, c[i].unsupported, c[i].stored>>
    BY <1>7, <2>1, UnloadShape
  <2>3. /\ c[i].phase = "running" /\ entry = "loaded"
        /\ \A j \in Instance \ {i} : c[j].phase \notin {"setup", "running"}
    BY <1>7 DEF Unload, EntryInv
  <2>4. \A j \in Instance \ {i} : c[j].poll # "saving"
    BY <1>0, <2>3, OnePoll
  <2>5. c[i].stored # None
    BY NoneAssumption DEF TypeOK, Coordinator
  <2> QED BY <2>2, <2>3, <2>4, <2>5 DEF RegistryInv, Registers
<1>8. ASSUME NEW i \in Instance, ShutDown(i) PROVE RegistryInv'
  <2>1. /\ Elsewhere(i) /\ c'[i].phase = "shut"
        /\ UNCHANGED <<c[i].poll, c[i].unsupported, c[i].stored>>
    BY <1>8, ShutDownShape
  <2>2. /\ UNCHANGED <<disk, registered, drift>> /\ (entry' # "removed" => entry # "removed")
    <3>1. current = i => entry # "removed"
      BY NoneAssumption DEF EntryInv
    <3> QED BY <1>8, <3>1 DEF ShutDown, LeaveEntry
  <2> QED BY <2>1, <2>2 DEF RegistryInv, Registers
<1>9. ASSUME NEW i \in Instance, StopWaiting(i) PROVE RegistryInv'
  BY <1>9, NoneAssumption DEF StopWaiting, LeaveEntry, RegistryInv, Registers, EntryInv
<1>10. CASE RemoveEntry
  BY <1>10 DEF RemoveEntry, RegistryInv, EntryInv
<1>11. CASE Restart
  <2>1. /\ entry # "removed" /\ UNCHANGED registered
        /\ \A i \in Instance : c'[i].poll # "saving" /\ c'[i].phase # "running"
    BY <1>0, <1>11 DEF Restart
  <2>2. ASSUME drift' = "none", registered # {}
        PROVE  disk' # None /\ registered = Capability \ disk'.unsupported
    <3>1. drift = "none" /\ \A i \in Instance : c[i].poll = "saving" => disk' = c[i].stored
      BY <1>11, <2>2 DEF Restart
    <3>2. CASE \E i \in Instance : c[i].poll = "saving"
      <4>1. PICK i \in Instance : c[i].poll = "saving"
        BY <3>2
      <4>2. c[i].stored # None /\ registered = Capability \ c[i].stored.unsupported
        BY <2>1, <2>2, <3>1, <4>1, NoneAssumption DEF TypeOK, Coordinator, RegistryInv, Registers
      <4> QED BY <3>1, <4>1, <4>2
    <3>3. CASE \A i \in Instance : c[i].poll # "saving"
      <4>1. disk' = disk
        BY <1>11, <3>3 DEF Restart
      <4> QED BY <2>1, <2>2, <3>1, <3>3, <4>1 DEF RegistryInv, Registers
    <3> QED BY <3>2, <3>3
  <2> QED BY <2>1, <2>2 DEF RegistryInv, Registers
<1>12. CASE Projector \/ UNCHANGED vars
  BY <1>12 DEF Projector, vars, RegistryInv, Registers
<1> QED BY <1>1, <1>2, <1>3, <1>4, <1>5, <1>6, <1>7, <1>8, <1>9, <1>10, <1>11, <1>12 DEF Next

LEMMA QuietCorrect ==
    ASSUME Scheduled
    PROVE  Spec => [](QuietInv /\ FileInv /\ RegistryInv)
<1>1. Init => QuietInv /\ FileInv /\ RegistryInv
  <2> SUFFICES ASSUME Init PROVE QuietInv /\ FileInv /\ RegistryInv
    OBVIOUS
  <2>1. /\ NewCoordinator.phase = "none" /\ NewCoordinator.kind = "none"
        /\ NewCoordinator.followups = 0 /\ NewCoordinator.command = "none"
    BY DEF NewCoordinator
  <2>2. /\ \A i \in Instance : c[i] = NewCoordinator
        /\ entry = "not_loaded" /\ registered = {}
    BY DEF Init
  <2> QED BY <2>1, <2>2 DEF QuietInv, FileInv, RegistryInv
<1>2. ASSUME TypeOK, EntryInv, KnownInv, StoredInv, QuietInv, FileInv, RegistryInv, [Next]_vars
      PROVE  (QuietInv /\ FileInv /\ RegistryInv)'
  BY <1>2, QuietNext, FileNext, RegistryNext
<1> QED BY <1>1, <1>2, TypeCorrect, InvCorrect, PTL DEF Spec

\* After a poll that ended well the file holds what the coordinator knows.
THEOREM FileKeptCurrent == ASSUME Scheduled PROVE Spec => []FileIsCurrent
<1>1. KnownInv /\ StoredInv /\ FileInv => FileIsCurrent
  <2> SUFFICES ASSUME KnownInv, StoredInv, FileInv, NEW i \in Instance, Settled(i)
               PROVE  disk = Report(c[i])
    BY DEF FileIsCurrent
  <2>1. c[i].phase = "running" /\ c[i].poll = "idle" /\ c[i].success /\ c[i].data.reachable
    BY DEF Settled
  <2>2. c[i].stored = Report(c[i]) /\ c[i].answered
    BY <2>1 DEF StoredInv, KnownInv
  <2> QED BY <2>1, <2>2 DEF FileInv
<1> QED BY <1>1, InvCorrect, QuietCorrect, PTL

\* An entry set up from its file, with the projector off, gets the entities it
\* had before.
THEOREM OfflineRestart == ASSUME Scheduled PROVE Spec => SameEntitiesOffline
<1>1. TypeOK /\ EntryInv /\ KnownInv /\ QuietInv /\ FileInv /\ RegistryInv /\ [Next]_vars =>
         [\A i \in Instance :
            /\ c[i].phase = "setup" /\ c'[i].phase = "running"
            /\ ~c[i].data.reachable
            /\ c[i].unsupported = c[i].stored.unsupported
            /\ registered # {}
            /\ drift = "none"
            => registered' = registered]_vars
  <2> SUFFICES ASSUME TypeOK, EntryInv, KnownInv, QuietInv, FileInv, RegistryInv, [Next]_vars,
                      NEW i \in Instance,
                      c[i].phase = "setup", c'[i].phase = "running",
                      c[i].unsupported = c[i].stored.unsupported,
                      registered # {}, drift = "none"
               PROVE  registered' = registered
    OBVIOUS
  <2>1. SetUpDone(i)
    <3>1. \A j \in Instance : ~PollStep(j)
      BY PollStepShape DEF Elsewhere
    <3>2. \A j \in Instance : ~SetUp(j) /\ ~SetUpFails(j) /\ ~Collect(j)
      BY SetUpShape, DropShape DEF Elsewhere, NewCoordinator
    <3>3. \A j \in Instance : ~ScheduledPoll(j) /\ ~FollowupPoll(j)
      BY StartShape DEF Elsewhere
    <3>4. \A j \in Instance : ~CommandStep(j)
      BY CommandShape DEF Elsewhere
    <3>5. \A j \in Instance : ~Unload(j) /\ ~ShutDown(j) /\ ~StopWaiting(j)
      BY UnloadShape, ShutDownShape DEF Elsewhere, StopWaiting
    <3>6. \A j \in Instance \ {i} : ~SetUpDone(j)
      BY SetUpDoneShape DEF Elsewhere
    <3>7. ~RemoveEntry /\ ~Projector /\ ~UNCHANGED vars
      BY DEF RemoveEntry, Projector, vars
    <3>8. ~Restart
      <4>1. NewCoordinator.phase = "none"
        BY DEF NewCoordinator
      <4> QED BY <4>1 DEF Restart
    <3> QED BY <3>8, <3>1, <3>2, <3>3, <3>4, <3>5, <3>6, <3>7 DEF Next
  <2>2. /\ c[i].poll = "idle" /\ entry # "removed"
        /\ registered' = Capability \ c[i].stored.unsupported
    BY <2>1 DEF SetUpDone, Without, EntryInv
  <2>3. \A j \in Instance : c[j].poll # "saving"
    <3>1. \A j \in Instance \ {i} : c[j].phase \notin {"setup", "running"}
      BY DEF EntryInv
    <3>2. "saving" \in Polling
      BY DEF Polling
    <3> QED BY <2>2, <3>1, <3>2, OnePoll
  <2>4. disk = c[i].stored
    BY <2>2 DEF KnownInv, FileInv
  <2> QED BY <2>2, <2>3, <2>4 DEF RegistryInv, Registers
<1> QED BY <1>1, TypeCorrect, InvCorrect, QuietCorrect, PTL DEF Spec, SameEntitiesOffline
==============================================================================
