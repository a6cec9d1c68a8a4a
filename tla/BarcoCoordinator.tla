--------------------------- MODULE BarcoCoordinator ---------------------------
(***************************************************************************)
(* BarcoCoordinator (coordinator.py) through the life of a config entry    *)
(* (__init__.py): setting up from memory, polling, remembering, unloading, *)
(* removal, and a restart of Home Assistant at any moment.                 *)
(*                                                                         *)
(* One coordinator object is one member of Instance; after a reload the    *)
(* poll of the old object can still be running beside the new one.  A read *)
(* of the projector is one step: BarcoClient serialises them and SerialCalls *)
(* says what a caller may rely on.  Of the polled values only the lamp is  *)
(* kept; the others are read and published with it.                        *)
(***************************************************************************)
EXTENDS Naturals, Sequences

CONSTANTS
    Instance,       \* coordinator objects that may exist at the same time
    OptionalReads,  \* the optional read commands, in the order of a poll
    Supports,       \* those the projector answers
    Macros,         \* macros the keypad may hold; a list of them is a set here
    RefreshEvery,   \* MACRO_REFRESH_EVERY
    Followups,      \* the number of FOLLOWUP_REFRESH_DELAYS
    Commands,       \* whether entities send commands
    LampStates,     \* bound: the states of the lamp
    MaxRefusals,    \* bound: commands refused although the projector answers them
    None

Capability == {OptionalReads[n] : n \in 1 .. Len(OptionalReads)}

\* The reads of a poll in their order, and the one that follows a read.
PollOrder == <<"lamp", "shutter">> \o OptionalReads \o <<"macros">>
Reads == {"lamp", "shutter", "macros"} \cup Capability
NextRead(r) == CHOOSE s \in Reads :
                 \E n \in 1 .. Len(PollOrder) - 1 : PollOrder[n] = r /\ PollOrder[n + 1] = s

ASSUME OptionalAssumption ==
    /\ OptionalReads \in Seq(STRING)
    /\ Capability \cap {"lamp", "shutter", "macros", "idle", "failed", "saving"} = {}
    /\ \A m, n \in 1 .. Len(OptionalReads) : OptionalReads[m] = OptionalReads[n] => m = n
ASSUME SupportsAssumption == Supports \subseteq Capability
ASSUME CountsAssumption ==
    /\ RefreshEvery \in Nat \ {0}
    /\ Followups \in Nat
    /\ MaxRefusals \in Nat
    /\ Commands \in BOOLEAN
    /\ FALSE \in LampStates /\ LampStates \subseteq BOOLEAN

VARIABLES
    entry,       \* the state of the config entry
    current,     \* its coordinator
    c,           \* the coordinator objects
    disk,        \* the file of self._store
    registered,  \* capabilities with entities in the entity registry
    drift,       \* why registered and disk disagree, if they do: a write cut off,
                 \* or a poll of the set-up that an outage ended
    online,      \* whether the projector is on and the network reaches it
    lamp,        \* its lamp
    keypad,      \* its macros
    refusals     \* how many supported commands it has refused

entryVars == <<entry, current>>
storeVars == <<disk, registered, drift>>
projectorVars == <<online, lamp, keypad, refusals>>
vars == <<entryVars, c, storeVars, projectorVars>>

Polling == Reads \cup {"saving"}
Lamps == BOOLEAN \cup {None}
Reports == [macros : SUBSET Macros, unsupported : SUBSET Capability]

Coordinator ==
    [phase : {"none", "setup", "running", "shutting", "shut"},
     poll : Polling \cup {"idle", "failed"},
     kind : {"none", "scheduled", "requested"},  \* the task that runs the poll
     seen : Lamps,                          \* data.lamp of the running poll
     unsupported : SUBSET Capability,
     macros : SUBSET Macros,
     count : 0 .. RefreshEvery - 1,         \* self._poll_count; only its remainder counts
     answered : BOOLEAN,                    \* self._answered_before
     stored : Reports,                      \* self._stored_macros, _unsupported
     success : BOOLEAN,                     \* self.last_update_success
     data : [reachable : BOOLEAN, lamp : Lamps],
     command : {"none", "only", "first", "second"},
                                            \* the request of a command that is under way
     behind : BOOLEAN,                      \* the close of the shutdown waits behind it
     followups : 0 .. Followups,            \* self._followups
     socket : BOOLEAN]                      \* self.projector.client.connected

ASSUME NoneAssumption == None \notin Instance \cup Reports

NewCoordinator ==
    [phase |-> "none", poll |-> "idle", kind |-> "none", seen |-> None,
     unsupported |-> {}, macros |-> {}, count |-> 0, answered |-> FALSE,
     stored |-> [macros |-> {}, unsupported |-> {}],
     success |-> TRUE,
     data |-> [reachable |-> TRUE, lamp |-> None],
     command |-> "none", behind |-> FALSE, followups |-> 0, socket |-> FALSE]

Init ==
    /\ entry = "not_loaded"
    /\ current = None
    /\ c = [i \in Instance |-> NewCoordinator]
    /\ disk = None
    /\ registered = {}
    /\ drift = "none"
    /\ online \in BOOLEAN
    /\ lamp = FALSE
    /\ keypad \in SUBSET Macros
    /\ refusals = 0
------------------------------------------------------------------------------
(* Setting the entry up: async_setup_entry. *)

\* async_remove_unsupported_entities.
Without(entities, unsupported) == entities \ unsupported

\* Mutants: the stored file only tells that the projector has answered before;
\* or only what it does not support.
RestoredAnswered(o) == [o EXCEPT !.answered = disk # None]
RestoredUnsupported(o) == [o EXCEPT !.unsupported = IF disk = None THEN {} ELSE disk.unsupported]

\* async_load_stored.
Restored(o) ==
    IF disk = None THEN o
    ELSE [o EXCEPT !.answered = TRUE, !.stored = disk,
                   !.macros = disk.macros, !.unsupported = disk.unsupported]

SetUp(i) ==
    /\ entry \in {"not_loaded", "setup_retry"}
    /\ c[i].phase = "none"
    /\ entry' = "setup_in_progress"
    /\ current' = i
    /\ c' = [c EXCEPT ![i] = Restored([NewCoordinator EXCEPT !.phase = "setup", !.poll = "lamp"])]
    /\ UNCHANGED <<storeVars, projectorVars>>

\* The first refresh succeeded: the entities of unsupported capabilities go
\* from the registry, and the platforms add those of all the others.
SetUpDone(i) ==
    /\ c[i].phase = "setup"
    /\ c[i].poll = "idle"
    /\ entry' = "loaded"
    /\ registered' = Without(Capability, c[i].unsupported)
    /\ drift' = IF c[i].unsupported = c[i].stored.unsupported THEN "none" ELSE "poll"
    /\ c' = [c EXCEPT ![i].phase = "running"]
    /\ UNCHANGED <<current, disk, projectorVars>>

\* The first refresh raised: ConfigEntryNotReady, and the coordinator that
\* registered itself for the unload is shut down.
SetUpFails(i) ==
    /\ c[i].phase = "setup"
    /\ c[i].poll = "failed"
    /\ entry' = "setup_retry"
    /\ current' = None
    /\ c' = [c EXCEPT ![i] = NewCoordinator]
    /\ UNCHANGED <<storeVars, projectorVars>>
------------------------------------------------------------------------------
(* One poll: _async_update_data, read by read. *)

\* The poll of object o ends, and its task with it.
Ended(o) ==
    [o EXCEPT !.poll = IF o.phase = "setup" /\ ~o.success THEN "failed" ELSE "idle",
              !.kind = "none", !.seen = None]

StartPoll(i, kind) == c' = [c EXCEPT ![i].poll = "lamp", ![i].kind = kind]

ScheduledPoll(i) ==
    /\ c[i].phase = "running"
    /\ c[i].poll = "idle"
    /\ StartPoll(i, "scheduled")
    /\ UNCHANGED <<entryVars, storeVars, projectorVars>>

\* A follow-up that comes while a poll runs is served by that poll; one that
\* comes after the shutdown is ignored.
FollowupPoll(i) ==
    /\ c[i].followups > 0
    /\ LET o == [c[i] EXCEPT !.followups = @ - 1] IN
       c' = [c EXCEPT ![i] = IF o.phase = "running" /\ o.poll = "idle"
                               THEN [o EXCEPT !.poll = "lamp", !.kind = "requested"]
                               ELSE o]
    /\ UNCHANGED <<entryVars, storeVars, projectorVars>>

\* A read answered by a projector that is on opens the socket if need be.
Answers(i) == c[i].poll \in Reads /\ online

ReadLamp(i) ==
    /\ Answers(i)
    /\ c[i].poll = "lamp"
    /\ c' = [c EXCEPT ![i].poll = NextRead(@), ![i].seen = lamp, ![i].socket = TRUE]
    /\ UNCHANGED <<entryVars, storeVars, projectorVars>>

ReadShutter(i) ==
    /\ Answers(i)
    /\ c[i].poll = "shutter"
    /\ c' = [c EXCEPT ![i].poll = NextRead(@), ![i].socket = TRUE]
    /\ UNCHANGED <<entryVars, storeVars, projectorVars>>

\* BarcoNotAcknowledged, or an answer that is too short, to a command that the
\* projector does answer as a rule.
Refusal ==
    /\ refusals < MaxRefusals
    /\ refusals' = refusals + 1
    /\ UNCHANGED <<online, lamp, keypad>>

\* Mutant: the lamp and the dowser are read like the optional values.
RequiredAsOptional(i) ==
    /\ Answers(i)
    /\ c[i].poll \in {"lamp", "shutter"}
    /\ Refusal
    /\ c' = [c EXCEPT ![i].poll = NextRead(@), ![i].socket = TRUE,
                      ![i].unsupported = @ \cup {c[i].poll}]
    /\ UNCHANGED <<entryVars, storeVars>>

\* UpdateFailed, whatever the projector answered before.
RequiredRefused(i) ==
    /\ Answers(i)
    /\ c[i].poll \in {"lamp", "shutter"}
    /\ Refusal
    /\ c' = [c EXCEPT ![i] = Ended([@ EXCEPT !.success = FALSE, !.socket = TRUE])]
    /\ UNCHANGED <<entryVars, storeVars>>

SkipOptional(i) ==
    /\ c[i].poll \in Capability
    /\ c[i].poll \in c[i].unsupported
    /\ c' = [c EXCEPT ![i].poll = NextRead(@)]
    /\ UNCHANGED <<entryVars, storeVars, projectorVars>>

ReadsOptional(i) ==
    /\ Answers(i)
    /\ c[i].poll \in Capability
    /\ c[i].poll \notin c[i].unsupported
    /\ UNCHANGED <<entryVars, storeVars>>

OptionalAnswered(i) ==
    /\ ReadsOptional(i)
    /\ c[i].poll \in Supports
    /\ c' = [c EXCEPT ![i].poll = NextRead(@), ![i].socket = TRUE]
    /\ UNCHANGED projectorVars

\* Mutant: a connection error is taken for a refusal.
OptionalLost(i) ==
    /\ c[i].poll \in Capability
    /\ c[i].poll \notin c[i].unsupported
    /\ IF c[i].poll \in Supports /\ online THEN Refusal ELSE UNCHANGED projectorVars
    /\ c' = [c EXCEPT ![i].poll = NextRead(@), ![i].unsupported = @ \cup {c[i].poll}]
    /\ UNCHANGED <<entryVars, storeVars>>

OptionalRefused(i) ==
    /\ ReadsOptional(i)
    /\ IF c[i].poll \in Supports THEN Refusal ELSE UNCHANGED projectorVars
    /\ c' = [c EXCEPT ![i].poll = NextRead(@), ![i].socket = TRUE,
                      ![i].unsupported = @ \cup {c[i].poll}]

\* The code counts on and looks at the remainder.
Counted(n) == (n + 1) % RefreshEvery

\* Mutant: a lamp that was shown once is shown for ever.
PublishOnce(o) ==
    Ended([o EXCEPT !.success = TRUE,
                    !.data = [reachable |-> TRUE,
                              lamp |-> IF o.data.lamp = None THEN o.seen ELSE o.data.lamp]])

\* The poll has read everything: self._last_seen, then _async_remember up to
\* its await.  "o" is the object with the macros this poll found.
Publish(o) ==
    Ended([o EXCEPT !.success = TRUE, !.data = [reachable |-> TRUE, lamp |-> o.seen]])

Report(o) == [macros |-> o.macros, unsupported |-> o.unsupported]

\* Mutant: the entities of an unsupported capability are not removed.
NewlyUnsupportedNone(o) == {}
NewlyUnsupported(o) == o.unsupported \ o.stored.unsupported

\* Mutant: only the first answer is saved.
IsStoredAlready(o) == o.answered
IsStored(o) == o.answered /\ o.stored = Report(o)

Remember(i, o) ==
    /\ registered' = Without(registered, NewlyUnsupported(o))
    /\ c' = [c EXCEPT ![i] =
               IF IsStored(o)
                 THEN Publish(o)
                 ELSE [o EXCEPT !.poll = "saving", !.answered = TRUE, !.stored = Report(o)]]

\* A button that is refused only shortens the list; an empty one does not
\* replace the list of an earlier poll (MacroButtons).
ReadMacros(i) ==
    /\ c[i].poll = "macros"
    /\ LET o == [c[i] EXCEPT !.count = Counted(@)]
       IN IF c[i].count = 0 \/ c[i].macros = {}
            THEN /\ online
                 /\ \E found \in SUBSET keypad :
                       Remember(i, [o EXCEPT !.socket = TRUE,
                                             !.macros = IF found = {} THEN @ ELSE found])
            ELSE Remember(i, o)
    /\ UNCHANGED <<entryVars, disk, drift, projectorVars>>

Saved(i) ==
    /\ c[i].poll = "saving"
    /\ disk' = c[i].stored
    /\ drift' = IF c[i].phase = "setup" THEN drift ELSE "none"
    /\ c' = [c EXCEPT ![i] = Publish(@)]
    /\ UNCHANGED <<entryVars, registered, projectorVars>>

\* BarcoConnectionError.
Unreachable(i) ==
    /\ c[i].poll \in Reads
    /\ ~online
    /\ c' = [c EXCEPT ![i] =
               IF @.answered
                 THEN Ended([@ EXCEPT !.socket = FALSE, !.success = TRUE,
                                      !.data = [reachable |-> FALSE, lamp |-> None]])
                 ELSE Ended([@ EXCEPT !.socket = FALSE, !.success = FALSE])]
    /\ UNCHANGED <<entryVars, storeVars, projectorVars>>
------------------------------------------------------------------------------
(* Commands, unloading, removal, restart. *)

\* A command of an entity waits for the client's lock and for the projector:
\* one request, or two of async_turn_on when it finds the projector asleep.
\* Unloading the entry stops neither.  Bound: one command at a time.
SendCommand(i) ==
    /\ Commands
    /\ c[i].phase = "running"
    /\ c[i].command = "none"
    /\ \E request \in {"only", "first"} : c' = [c EXCEPT ![i].command = request]
    /\ UNCHANGED <<entryVars, storeVars, projectorVars>>

\* The second request is asked for when the first is over, behind a close that
\* has been waiting meanwhile.
FirstRequestDone(i) ==
    /\ c[i].command = "first"
    /\ online
    /\ c' = [c EXCEPT ![i].command = "second", ![i].behind = FALSE, ![i].socket = TRUE]
    /\ UNCHANGED <<entryVars, storeVars, projectorVars>>

CommandDone(i) ==
    /\ c[i].command \in {"only", "second"}
    /\ online
    /\ lamp' \in LampStates
    /\ c' = [c EXCEPT ![i].command = "none", ![i].behind = FALSE,
                      ![i].followups = Followups, ![i].socket = TRUE]
    /\ UNCHANGED <<entryVars, storeVars, online, keypad, refusals>>

\* The connection fails, or the projector rejects a request; no follow-ups.
CommandFails(i) ==
    /\ c[i].command # "none"
    /\ c' = [c EXCEPT ![i].command = "none", ![i].behind = FALSE, ![i].socket = online]
    /\ UNCHANGED <<entryVars, storeVars, projectorVars>>

\* The shutdown begins: the follow-up timers end, and the close asks for the
\* client's lock.
Shutting(o) ==
    [o EXCEPT !.phase = "shutting", !.followups = 0, !.behind = (o.command # "none")]

\* Mutant: a write that has begun is shielded from the cancellation.
UnloadShieldsSave(i) ==
    /\ c[i].phase = "running"
    /\ entry' = "unload_in_progress"
    /\ c' = [c EXCEPT ![i] = IF @.kind = "requested" \/ @.poll = "saving"
                               THEN Shutting(@) ELSE Ended(Shutting(@))]
    /\ UNCHANGED <<current, storeVars, projectorVars>>

\* async_shutdown up to its wait for the lock.  Home Assistant cancels the
\* scheduled poll, a task of the entry; a requested one is not.
Unload(i) ==
    /\ c[i].phase = "running"
    /\ entry' = "unload_in_progress"
    /\ c' = [c EXCEPT ![i] = IF @.kind = "requested" THEN Shutting(@) ELSE Ended(Shutting(@))]
    /\ IF c[i].poll = "saving" /\ c[i].kind # "requested"
         THEN /\ disk' \in {disk, c[i].stored}
              /\ drift' = IF disk' = c[i].stored THEN drift ELSE "write"
         ELSE UNCHANGED <<disk, drift>>
    /\ UNCHANGED <<current, registered, projectorVars>>

LeaveEntry(i) ==
    IF current = i
      THEN entry' = "not_loaded" /\ current' = None
      ELSE UNCHANGED entryVars

\* Mutant: the close does not wait for the client's lock.
ShutDownAtOnce(i) ==
    /\ c[i].phase = "shutting"
    /\ c' = [c EXCEPT ![i].phase = "shut", ![i].socket = FALSE]
    /\ LeaveEntry(i)
    /\ UNCHANGED <<storeVars, projectorVars>>

\* The client serves calls in their order (SerialCalls): the close comes after
\* a request that was already waiting, but between two reads of a poll, and
\* between the two requests of a command.
ShutDown(i) ==
    /\ c[i].phase = "shutting"
    /\ ~c[i].behind
    /\ c' = [c EXCEPT ![i].phase = "shut", ![i].socket = FALSE]
    /\ LeaveEntry(i)
    /\ UNCHANGED <<storeVars, projectorVars>>

\* Home Assistant waits ten seconds for the shutdown, which a projector that
\* is slow to answer can exceed.
StopWaiting(i) ==
    /\ c[i].phase = "shutting"
    /\ c[i].poll \in Reads \/ c[i].behind
    /\ current = i
    /\ LeaveEntry(i)
    /\ UNCHANGED <<c, storeVars, projectorVars>>

\* Nothing refers to an object that is shut, has nothing under way and no socket.
Collect(i) ==
    /\ c[i].phase = "shut"
    /\ c[i].poll = "idle"
    /\ c[i].command = "none"
    /\ c[i].followups = 0
    /\ ~c[i].socket
    /\ c' = [c EXCEPT ![i] = NewCoordinator]
    /\ UNCHANGED <<entryVars, storeVars, projectorVars>>

\* async_remove_entry; Home Assistant drops the entities.
RemoveEntry ==
    /\ entry \in {"not_loaded", "setup_retry"}
    /\ entry' = "removed"
    /\ disk' = None
    /\ registered' = {}
    /\ UNCHANGED <<current, c, drift, projectorVars>>

\* Home Assistant ends, in good order or not, and starts again.
Restart ==
    /\ entry # "removed"
    /\ entry' = "not_loaded"
    /\ current' = None
    /\ c' = [i \in Instance |-> NewCoordinator]
    /\ disk' \in {disk} \cup {c[i].stored : i \in {j \in Instance : c[j].poll = "saving"}}
    /\ drift' = IF \E i \in Instance : c[i].poll = "saving" /\ disk' # c[i].stored
                  THEN "write" ELSE drift
    /\ UNCHANGED <<registered, projectorVars>>

\* The projector, its keypad, its mains switch and the network.
Projector ==
    /\ \/ online' = ~online /\ lamp' \in {lamp, FALSE} /\ UNCHANGED keypad
       \/ lamp' \in LampStates /\ UNCHANGED <<online, keypad>>
       \/ keypad' \in SUBSET Macros /\ UNCHANGED <<online, lamp>>
    /\ UNCHANGED <<entryVars, c, storeVars, refusals>>
------------------------------------------------------------------------------
PollStep(i) ==
    \/ ReadLamp(i)
    \/ ReadShutter(i)
    \/ RequiredRefused(i)
    \/ SkipOptional(i)
    \/ OptionalAnswered(i)
    \/ OptionalRefused(i)
    \/ ReadMacros(i)
    \/ Saved(i)
    \/ Unreachable(i)

CommandStep(i) ==
    \/ SendCommand(i)
    \/ FirstRequestDone(i)
    \/ CommandDone(i)
    \/ CommandFails(i)

Next ==
    \/ \E i \in Instance :
          \/ SetUp(i)
          \/ SetUpDone(i)
          \/ SetUpFails(i)
          \/ ScheduledPoll(i)
          \/ FollowupPoll(i)
          \/ PollStep(i)
          \/ CommandStep(i)
          \/ Unload(i)
          \/ ShutDown(i)
          \/ StopWaiting(i)
          \/ Collect(i)
    \/ RemoveEntry
    \/ Restart
    \/ Projector

Spec == Init /\ [][Next]_vars

\* The timer of the update interval is armed again after every poll, and every
\* read ends with an answer or a timeout.
FairSpec ==
    Spec /\ \A i \in Instance : WF_vars(PollStep(i)) /\ WF_vars(ScheduledPoll(i))
------------------------------------------------------------------------------
(* Properties. *)

\* Every variable has its type.
TypeOK ==
    /\ entry \in {"not_loaded", "setup_in_progress", "setup_retry", "loaded",
                  "unload_in_progress", "removed"}
    /\ current \in Instance \cup {None}
    /\ c \in [Instance -> Coordinator]
    /\ disk \in Reports \cup {None}
    /\ registered \subseteq Capability
    /\ drift \in {"none", "write", "poll"}
    /\ online \in BOOLEAN
    /\ lamp \in BOOLEAN
    /\ keypad \in SUBSET Macros
    /\ refusals \in 0 .. MaxRefusals

\* An outage, whenever it comes, never makes a capability unsupported: what
\* the projector never refused is neither dropped nor stored as unsupported.
\* Refusals are left out: one of them does, by intention, and for good
\* (coordinator.py:263-272).
OutageTeachesNothing ==
    refusals = 0 =>
        /\ \A i \in Instance : c[i].unsupported \cap Supports = {}
        /\ disk # None => disk.unsupported \cap Supports = {}

\* A poll has ended well, and none is under way.
Settled(i) ==
    /\ c[i].phase = "running" /\ c[i].poll = "idle"
    /\ c[i].success /\ c[i].data.reachable

\* coordinator.py:71-73: no entity stays for a command the projector does not
\* answer, once a poll has found that out and ended well.
NoDeadEntities == \A i \in Instance : Settled(i) => registered \cap c[i].unsupported = {}

\* coordinator.py:224 "Store what the projector reported": after a poll that ended
\* well the file holds what the coordinator knows, whichever polls failed, learnt
\* something or were cut off before it.
FileIsCurrent == \A i \in Instance : Settled(i) => disk = Report(c[i])

\* README.md:51 "with the same entities as before": an entry set up while its
\* projector is off, and told it nothing new, gets the entities it had, unless a
\* write of the file was cut off, or an outage ended the poll of an earlier set-up
\* that had learnt something.
SameEntitiesOffline ==
    [][\A i \in Instance :
        /\ c[i].phase = "setup" /\ c'[i].phase = "running"
        /\ ~c[i].data.reachable
        /\ c[i].unsupported = c[i].stored.unsupported
        /\ registered # {}
        /\ drift = "none"
        => registered' = registered]_vars

\* README.md:35 "measured state": what is shown becomes, and stays, what the lamp
\* does, once the lamp and the connection are left alone.
Shown(i) == c[i].success /\ c[i].data.reachable /\ c[i].data.lamp = lamp
EventuallyMeasured ==
    \A i \in Instance, b \in BOOLEAN :
        <>[](online /\ c[i].phase = "running" /\ lamp = b) => <>[]Shown(i)

\* README.md:51 for outages alone: a known projector that is off, whenever it
\* goes off, does not keep its entry waiting.  Refusals are left out: a refused
\* lamp or dowser read in the first poll does (coordinator.py:191-193).
OutageKeepsNobodyWaiting ==
    [][/\ entry # "setup_retry" /\ entry' = "setup_retry"
       /\ refusals = 0
       => disk = None]_vars

\* __init__.py:190 "Forget what the projector reported once its entry is
\* deleted".
RemovedIsForgotten == entry = "removed" => disk = None

\* The file is written for the coordinator of the entry, while it is set up or
\* runs; by anyone else only in a follow-up poll that outlives the one it belongs
\* to, whether its entry has been unloaded, loaded anew or removed, and however
\* its commands and the shutdown have come between (coordinator.py:239).
Holds(i) == current = i /\ c[i].phase \in {"setup", "running"}
LateWriteIsFollowup ==
    [][disk' \notin {disk, None} =>
         \E i \in Instance :
            /\ c[i].poll = "saving"
            /\ c[i].stored = disk'
            /\ Holds(i) \/ c[i].kind = "requested"]_vars

\* coordinator.py:152 "close the socket when the entry is unloaded": once closed
\* it is opened again only by a follow-up poll that was under way, or by the
\* second request of turn_on, which is asked for after the close.  A request
\* that was waiting is served before the close, and a scheduled poll has ended.
ReopenedLate ==
    [][\A i \in Instance :
        c[i].phase = "shut" /\ ~c[i].socket /\ c'[i].socket
        => c[i].kind = "requested" \/ c[i].command = "second"]_vars
==============================================================================
