-------------------------- MODULE ProjectorEntities --------------------------
(***************************************************************************)
(* What the entities of the projector show and do (entity.py,              *)
(* media_player.py, switch.py, select.py, sensor.py, binary_sensor.py):    *)
(* they show the snapshot of the last poll, decide by it, and send commands *)
(* between the requests of a poll that is under way.                       *)
(*                                                                         *)
(* A request is one step (BarcoClient serves one at a time, SerialCalls).  *)
(* The projector may refuse any read: for good where the read is optional. *)
(* What the coordinator makes of that on disk and in the registry, and the *)
(* entry that waits for a first answer, are BarcoCoordinator's part.       *)
(***************************************************************************)
EXTENDS MacroButtons

CONSTANTS
    KeypadsUsed,   \* the keypads the projector may have
    RefreshEvery,  \* MACRO_REFRESH_EVERY, 20 in the code
    Followups,     \* the number of FOLLOWUP_REFRESH_DELAYS, 4 in the code
    MaxChanges,    \* bound: commands, changes at the projector and refused reads
    None

ASSUME KeypadsAssumption == KeypadsUsed \subseteq Keypads
ASSUME CountsAssumption ==
    RefreshEvery \in Nat \ {0} /\ Followups \in Nat /\ MaxChanges \in Nat

VARIABLES
    projector,  \* the projector and the network
    poll,       \* the read the running poll waits for
    button,     \* the button it asks for
    names,      \* the names the single reads have brought
    snapshot,   \* the BarcoData of the running poll
    known,      \* self._macros of the coordinator
    count,      \* self._poll_count, modulo RefreshEvery
    unsupported, \* self.unsupported of the coordinator
    data,       \* self.data of the coordinator
    success,    \* self.last_update_success of the coordinator
    turnOn,     \* what async_turn_on of the media player is about to send
    followups,  \* timers of follow-up polls
    changes,    \* how much of MaxChanges is used
    overtaken   \* holders of a reading of the sleep mode after which the
                \* projector has fallen asleep

pollVars == <<poll, button, names, snapshot, known, count, unsupported, data, success>>
vars == <<projector, pollVars, turnOn, followups, changes, overtaken>>

Dowser == {"closed", "open", "undetermined"}

BarcoData ==
    [reachable |-> TRUE, lamp |-> None, shutter |-> None, last_macro |-> None,
     sleep |-> None, macros |-> <<>>]
Unreached == [BarcoData EXCEPT !.reachable = FALSE]

\* The entry has been set up from memory while its projector was off.
Init ==
    /\ \E keypad \in KeypadsUsed, online, asleep \in BOOLEAN :
         projector = [online |-> online, lamp |-> FALSE, dowser |-> "closed",
                      asleep |-> asleep, last |-> None, keypad |-> keypad]
    /\ poll = "idle"
    /\ button = 0
    /\ names = <<>>
    /\ snapshot = BarcoData
    /\ known = <<>>
    /\ count = 0
    /\ unsupported = {}
    /\ data = Unreached
    /\ success = TRUE
    /\ turnOn = "idle"
    /\ followups = 0
    /\ changes = 0
    /\ overtaken = {}
------------------------------------------------------------------------------
(* What the entities show, of the data d. *)

\* Every entity of the projector is available, and the connectivity sensor on.
Available == success /\ data.reachable

Sensors(d) == [lamp |-> d.lamp, dowser_state |-> d.shutter, last_macro |-> d.last_macro]

PlayerState(d) ==
    IF d.lamp = None THEN None
    ELSE IF d.lamp THEN "on"
    ELSE IF d.sleep = TRUE THEN "standby" ELSE "off"

DowserIsOn(d) == IF d.shutter = None THEN None ELSE d.shutter = "open"

CurrentOption(d) ==
    IF d.last_macro # None /\ Contains(d.macros, d.last_macro) THEN d.last_macro ELSE None
------------------------------------------------------------------------------
(* One poll, request by request. *)

\* Timers of the interval and of the follow-ups; a follow-up that comes while a
\* poll runs is served by that poll.
ScheduledPoll ==
    /\ poll = "idle"
    /\ poll' = "lamp"
    /\ UNCHANGED <<projector, button, names, snapshot, known, count, unsupported, data,
                   success, turnOn, followups, changes, overtaken>>

FollowupPoll ==
    /\ followups > 0
    /\ followups' = followups - 1
    /\ poll' = IF poll = "idle" THEN "lamp" ELSE poll
    /\ UNCHANGED <<projector, button, names, snapshot, known, count, unsupported, data,
                   success, turnOn, changes, overtaken>>

Measured == [lamp |-> projector.lamp, shutter |-> projector.dowser,
             last_macro |-> projector.last, sleep |-> projector.asleep]
NextRead == [lamp |-> "shutter", shutter |-> "last_macro", last_macro |-> "sleep"]

\* Mutant: macros are read until there are some.
DueOnce == known = <<>>
Due == count = 0 \/ known = <<>>

Counted(n) == (n + 1) % RefreshEvery

\* Mutant: the macro executed last is only read for the first time.
SnapshotOnce(d, list) ==
    [d EXCEPT !.macros = list,
              !.last_macro = IF data.last_macro = None THEN @ ELSE data.last_macro]
Snapshot(d, list) == [d EXCEPT !.macros = list]

\* The poll ends with the data d and the macros of the list.
Publish(d, list) ==
    /\ data' = Snapshot(d, list)
    /\ success' = TRUE
    /\ known' = list
    /\ count' = Counted(count)
    /\ poll' = "idle"
    /\ button' = 0
    /\ names' = <<>>
    /\ snapshot' = BarcoData

\* An empty list does not replace the one of an earlier poll.
PublishMacros(list) == Publish(snapshot, IF list = <<>> THEN known ELSE list)

Answered == projector.online /\ UNCHANGED <<projector, turnOn, followups>>

Change == changes < MaxChanges /\ changes' = changes + 1

ReadRequired ==
    /\ poll \in {"lamp", "shutter"}
    /\ Answered
    /\ snapshot' = [snapshot EXCEPT ![poll] = Measured[poll]]
    /\ poll' = NextRead[poll]
    /\ UNCHANGED <<button, names, known, count, unsupported, data, success, changes, overtaken>>

\* UpdateFailed: what this poll has read is lost, and the data kept.
RequiredRefused ==
    /\ poll \in {"lamp", "shutter"}
    /\ Answered
    /\ Change
    /\ success' = FALSE
    /\ poll' = "idle"
    /\ snapshot' = BarcoData
    /\ UNCHANGED <<button, names, known, count, unsupported, data, overtaken>>

\* _optional gives the value v: nothing for one that is not asked for any more,
\* the answer, or nothing for one that is refused.
Optional(value, v) ==
    /\ \/ /\ value \in unsupported
          /\ v = None
          /\ UNCHANGED <<unsupported, changes>>
       \/ /\ value \notin unsupported /\ projector.online
          /\ v = Measured[value]
          /\ UNCHANGED <<unsupported, changes>>
       \/ /\ value \notin unsupported /\ projector.online
          /\ Change
          /\ v = None
          /\ unsupported' = unsupported \cup {value}
    /\ UNCHANGED <<projector, turnOn, followups>>

ReadLastMacro ==
    /\ poll = "last_macro"
    /\ \E v \in {None, projector.last} :
          /\ Optional("last_macro", v)
          /\ snapshot' = [snapshot EXCEPT !.last_macro = v]
    /\ poll' = NextRead[poll]
    /\ UNCHANGED <<button, names, known, count, data, success, overtaken>>

\* overtaken: a new reading of the sleep mode, which is published at once when
\* the macros are not due.
ReadSleep ==
    /\ poll = "sleep"
    /\ \E v \in {None, projector.asleep} :
          /\ Optional("sleep", v)
          /\ LET d == [snapshot EXCEPT !.sleep = v] IN
             IF Due
               THEN /\ snapshot' = d
                    /\ poll' = "range"
                    /\ overtaken' = overtaken \ {"poll"}
                    /\ UNCHANGED <<button, names, known, count, data, success>>
               ELSE /\ Publish(d, known)
                    /\ overtaken' = overtaken \ {"poll", "data"}

MacrosRead(list) ==
    /\ PublishMacros(list)
    /\ overtaken' = IF "poll" \in overtaken THEN overtaken \cup {"data"} ELSE overtaken \ {"data"}

\* The range is answered, unless no button has a macro or the projector rejects
\* ranges.
ReadRange ==
    /\ poll = "range"
    /\ Answered
    /\ LET found == split_c_strings(projector.keypad) IN
       \/ /\ found # <<>>
          /\ MacrosRead(_dedupe(found))
       \/ /\ poll' = "button"
          /\ button' = 1
          /\ UNCHANGED <<names, snapshot, known, count, data, success, overtaken>>
    /\ UNCHANGED <<unsupported, changes>>

\* A refused button is skipped.  The projector refuses one that has no macro, or
\* answers it with the empty name.
ReadButton ==
    /\ poll = "button"
    /\ Answered
    /\ \E refused \in BOOLEAN :
        LET answer == IF refused THEN <<>> ELSE split_c_strings(<<projector.keypad[button]>>)
        IN /\ IF refused /\ projector.keypad[button] # Empty
                THEN Change
                ELSE UNCHANGED changes
           /\ IF button = Buttons
                THEN MacrosRead(_dedupe(names \o answer))
                ELSE /\ names' = names \o answer
                     /\ button' = button + 1
                     /\ UNCHANGED <<poll, snapshot, known, count, data, success, overtaken>>
    /\ UNCHANGED unsupported

\* BarcoConnectionError, in any of the reads: what this poll has read is lost.
Unreachable ==
    /\ poll # "idle"
    /\ ~projector.online
    /\ poll \notin unsupported
    /\ data' = [Unreached EXCEPT !.macros = known]
    /\ success' = TRUE
    /\ poll' = "idle"
    /\ button' = 0
    /\ names' = <<>>
    /\ snapshot' = BarcoData
    /\ UNCHANGED <<projector, known, count, unsupported, turnOn, followups, changes, overtaken>>
------------------------------------------------------------------------------
(* Commands. *)

\* Whoever holds a reading from before the projector fell asleep.
FallsAsleep ==
    overtaken' = IF ~projector.asleep /\ projector'.asleep
                   THEN {"poll", "data", "turn_on"} ELSE overtaken

WithLamp(p, on) == IF p.asleep THEN p ELSE [p EXCEPT !.lamp = on]
WithSleep(p, asleep) == [p EXCEPT !.asleep = asleep, !.lamp = @ /\ ~asleep]
WithDowser(p, position) == [p EXCEPT !.dowser = position]
WithMacro(p, name) == [p EXCEPT !.last = name]

\* A request that makes the projector p: it succeeds; or it is refused or cannot
\* be sent; or the connection goes before its answer.
Succeeds(p) == projector.online /\ projector' = p
Fails(p) ==
    \/ UNCHANGED projector
    \/ projector.online /\ projector' = [p EXCEPT !.online = FALSE]

\* A command of one request; Home Assistant does not call unavailable entities.
Command(p) ==
    /\ Available
    /\ Change
    /\ \/ Succeeds(p) /\ followups' = Followups
       \/ Fails(p) /\ UNCHANGED followups
    /\ FallsAsleep
    /\ UNCHANGED <<pollVars, turnOn>>

TurnOff == Command(WithLamp(projector, FALSE))
DowserSet(open_shutter) ==
    Command(WithDowser(projector, IF open_shutter THEN "open" ELSE "closed"))
\* The switch is not available when its reading has been refused.
SleepSet(sleep) == "sleep" \notin unsupported /\ Command(WithSleep(projector, sleep))
SelectOption(option) == Command(WithMacro(projector, option))

\* Mutant: the media player leaves the projector asleep.
FirstRequestIgnites == "ignite"
FirstRequest == IF data.sleep = TRUE THEN "wake" ELSE "ignite"

\* async_turn_on up to its first request.  Bound: one at a time.
TurnOn ==
    /\ turnOn = "idle"
    /\ Available
    /\ Change
    /\ turnOn' = FirstRequest
    /\ overtaken' = IF "data" \in overtaken
                      THEN overtaken \cup {"turn_on"} ELSE overtaken \ {"turn_on"}
    /\ UNCHANGED <<projector, pollVars, followups>>

TurnOnWakes ==
    /\ turnOn = "wake"
    /\ LET p == WithSleep(projector, FALSE) IN
       \/ Succeeds(p) /\ turnOn' = "ignite"
       \/ Fails(p) /\ turnOn' = "idle"
    /\ UNCHANGED <<pollVars, followups, changes, overtaken>>

TurnOnIgnites ==
    /\ turnOn = "ignite"
    /\ LET p == WithLamp(projector, TRUE) IN
       \/ Succeeds(p) /\ followups' = Followups
       \/ Fails(p) /\ UNCHANGED followups
    /\ turnOn' = "idle"
    /\ UNCHANGED <<pollVars, changes, overtaken>>

\* What one touch of its keypad, the projector itself, a raw command, or a
\* macro of the media block changes.
Touched(p) ==
    {WithLamp(p, ~p.lamp), WithSleep(p, ~p.asleep)}
    \cup {WithDowser(p, position) : position \in Dowser}
    \cup {WithMacro(p, p.keypad[b]) : b \in {a \in 1 .. Buttons : strip(p.keypad[a]) # Empty}}

SendRaw == \E p \in Touched(projector) : Command(p)

Projector ==
    /\ Change
    /\ \/ projector' \in Touched(projector)
       \/ projector' \in {[projector EXCEPT !.keypad = keypad] : keypad \in KeypadsUsed}
       \/ projector' = [projector EXCEPT !.online = ~@]
       \/ projector' = [projector EXCEPT !.online = FALSE, !.lamp = FALSE, !.last = None]
    /\ projector' # projector
    /\ FallsAsleep
    /\ UNCHANGED <<pollVars, turnOn, followups>>
------------------------------------------------------------------------------
PollStep ==
    \/ ReadRequired
    \/ RequiredRefused
    \/ ReadLastMacro
    \/ ReadSleep
    \/ ReadRange
    \/ ReadButton
    \/ Unreachable

Next ==
    \/ ScheduledPoll
    \/ FollowupPoll
    \/ PollStep
    \/ TurnOff
    \/ \E b \in BOOLEAN : DowserSet(b) \/ SleepSet(b)
    \/ \E option \in ToSet(data.macros) : SelectOption(option)
    \/ TurnOn
    \/ TurnOnWakes
    \/ TurnOnIgnites
    \/ SendRaw
    \/ Projector

Spec == Init /\ [][Next]_vars

\* The timer of the update interval is armed again after every poll, and every
\* read ends with an answer or a timeout.
FairSpec == Spec /\ WF_vars(PollStep) /\ WF_vars(ScheduledPoll)
------------------------------------------------------------------------------
(* Properties. *)

\* The step in which the lamp command of the media player is over.
Ignites == turnOn = "ignite" /\ turnOn' = "idle"


\* It does so only when the projector fell asleep after the reading of the sleep
\* mode it went by, however polls, failed ones too, and other commands come
\* between; or when the projector has refused that reading, for then the media
\* player goes to the lamp at once (media_player.py:96, coordinator.py:263-272).
WakesWhenShownAsleep ==
    [][Ignites /\ projector.asleep => "turn_on" \in overtaken \/ "sleep" \in unsupported]_vars

\* What is not supported has no value, and a sleeping projector that is not asked
\* is shown as off.
Supported(value, v) == IF value \in unsupported THEN None ELSE v
Shown ==
    IF projector.online
      THEN LET asleep == Supported("sleep", projector.asleep) IN
           /\ Available
           /\ Sensors(data) = [lamp |-> projector.lamp, dowser_state |-> projector.dowser,
                                last_macro |-> Supported("last_macro", projector.last)]
           /\ PlayerState(data) = IF projector.lamp THEN "on"
                                  ELSE IF asleep = TRUE THEN "standby" ELSE "off"
           /\ DowserIsOn(data) = (projector.dowser = "open")
           /\ data.sleep = asleep
           /\ CurrentOption(data) \in {None, projector.last}
      ELSE ~Available /\ PlayerState(data) = None /\ DowserIsOn(data) = None

LeftAlone == <>[][UNCHANGED projector]_vars

\* README.md:23 polled state: once the projector and the network are left alone,
\* the entities come to show it, or that it cannot be reached, whatever commands
\* succeeded, failed or half succeeded while polls were under way, and whatever
\* reads were refused.
EventuallyShown == LeftAlone => <>[]Shown

\* README.md:159 "The source list is built from the macros bound to keypad
\* buttons": it comes to be the list of the keypad, in either way of reading it,
\* unless the keypad is cleared.
EventuallyListed ==
    LeftAlone /\ <>[](projector.online
                        /\ \E b \in 1 .. Buttons : strip(projector.keypad[b]) # Empty)
        => <>[]IsSourceList(data.macros, projector.keypad)
==============================================================================
