------------------------------ MODULE IcmpPlayer ------------------------------
(***************************************************************************)
(* The entities of the media block (media_player.py, switch.py, button.py): *)
(* the optimistic player and one on/off switch, and the buttons and actions *)
(* that show nothing, which share an IcmpClient.  Their actions are        *)
(* coroutines: what they read before the client's lock may be old when     *)
(* their command is sent, and what they show is set after it.              *)
(*                                                                         *)
(* The client is what IcmpClient shows it to be: a queue in order of       *)
(* arrival that serves one command at a time, a connection error only for  *)
(* a command that was not sent, and refusals that can be misplaced.        *)
(***************************************************************************)
EXTENDS Naturals, Sequences

CONSTANT
    MaxQueue   \* bound: actions under way at the same time

ASSUME BoundAssumption == MaxQueue \in Nat

\* What a command of the player makes it do; the others leave playback alone.
Shows == [Play |-> "playing", Resume |-> "playing", Pause |-> "paused", Stop |-> "idle"]
Playback == DOMAIN Shows
Skips == {"Next", "Previous"}
Toggles == [Enable |-> TRUE, Disable |-> FALSE]
\* A button such as "Emergency Stop"; the actions for automation commands, GPIO
\* and macros, which are called on the player.
Others == {"button", "service"}

VARIABLES
    queue,      \* the actions under way, in order: the command of each, and how
                \* it was chosen, which no code reads
    state,      \* self._attr_state of the player
    available,  \* self._attr_available of the player
    shown,      \* the state Home Assistant shows for the player
    isOn,       \* self._attr_is_on of the switch, which is shown at once
    misled,     \* a command was sent and its action cancelled, or told that it failed;
                \* or one of the others told the media block to play or to stop
    playback,   \* what the player was last told to do
    toggled     \* what the switch was last told

vars == <<queue, state, available, shown, isOn, misled, playback, toggled>>

Init ==
    /\ queue = <<>>
    /\ state = "idle"
    /\ available = TRUE
    /\ shown = "idle"
    /\ isOn = FALSE
    /\ misled = FALSE
    /\ playback = "idle"
    /\ toggled = FALSE
------------------------------------------------------------------------------
\* An action is chosen alone, or behind a command that starts, pauses or stops
\* playback; when that is sent the one behind it has been overtaken.
Choices == {"alone", "behind", "overtaken"}
Chosen(action) ==
    [action |-> action,
     choice |-> IF \E n \in 1 .. Len(queue) : queue[n].action \in Playback
                  THEN "behind" ELSE "alone"]
Overtaken(asked) == [asked EXCEPT !.choice = IF @ = "behind" THEN "overtaken" ELSE @]

\* Mutant: the state is set when a command is asked for.
AskOptimistically(action) ==
    /\ Len(queue) < MaxQueue
    /\ queue' = Append(queue, Chosen(action))
    /\ state' = IF action \in Playback THEN Shows[action] ELSE state
    /\ UNCHANGED <<available, shown, isOn, misled, playback, toggled>>

Ask(action) ==
    /\ Len(queue) < MaxQueue
    /\ queue' = Append(queue, Chosen(action))
    /\ UNCHANGED <<state, available, shown, isOn, misled, playback, toggled>>

\* async_media_play picks its command before it waits for the client.
PlayAction == IF state = "paused" THEN "Resume" ELSE "Play"

\* Home Assistant does not call an entity that is unavailable.
AskPlayer ==
    /\ available
    /\ \E action \in {PlayAction, "Pause", "Stop", "service"} \cup Skips : Ask(action)

AskSwitch == \E action \in DOMAIN Toggles : Ask(action)

PressButton == Ask("button")

\* The command reaches the media block.
Told(action) ==
    /\ playback' = IF action \in Playback THEN Shows[action] ELSE playback
    /\ toggled' = IF action \in DOMAIN Toggles THEN Toggles[action] ELSE toggled

\* The queue without its n-th action.
Without(n) == SubSeq(queue, 1, n - 1) \o SubSeq(queue, n + 1, Len(queue))

Served == Head(queue).action
Serves(actions) == queue # <<>> /\ Served \in actions

\* Mutant: stopping the player does not write its state.
WrittenUnlessStopped(action) == IF action = "Stop" THEN shown ELSE Shows[action]
Written(action) == Shows[action]

\* The call that is served first returns to its entity, which goes on without
\* an await: nothing comes between the answer and what is shown.
PlayerSent ==
    /\ Serves(Playback \cup Skips)
    /\ Told(Served)
    /\ available' = TRUE
    /\ IF Served \in Playback
         THEN /\ queue' = [n \in 1 .. Len(queue) - 1 |-> Overtaken(queue[n + 1])]
              /\ state' = Shows[Served]
              /\ shown' = Written(Served)
         ELSE queue' = Tail(queue) /\ UNCHANGED <<state, shown>>
    /\ UNCHANGED <<isOn, misled>>

SwitchSent ==
    /\ Serves(DOMAIN Toggles)
    /\ queue' = Tail(queue)
    /\ Told(Served)
    /\ isOn' = Toggles[Served]
    /\ UNCHANGED <<state, available, shown, misled>>

\* Whether the media block plays then, no entity knows.
OtherSent ==
    /\ Serves(Others)
    /\ queue' = Tail(queue)
    /\ playback' \in {playback, "playing", "idle"}
    /\ misled' = (misled \/ playback' # playback)
    /\ UNCHANGED <<state, available, shown, isOn, toggled>>

\* IcmpConnectionError: not sent.  IcmpNotAcknowledged: refused, or blamed for
\* a refusal of an earlier command.  Only the player shows it.
Failed ==
    /\ queue # <<>>
    /\ queue' = Tail(queue)
    /\ \/ UNCHANGED <<playback, toggled, misled>>
       \/ Told(Served) /\ misled' = TRUE
    /\ IF Served \in Playback \cup Skips
         THEN available' = FALSE /\ shown' = "unavailable"
         ELSE UNCHANGED <<available, shown>>
    /\ UNCHANGED <<state, isOn>>

\* An action is cancelled while it waits, for its turn or for the reply, as when
\* the script that called it is stopped.
Cancelled ==
    /\ \E n \in 1 .. Len(queue) :
        /\ queue' = Without(n)
        /\ \/ UNCHANGED <<playback, toggled, misled>>
           \/ n = 1 /\ Told(Served) /\ misled' = TRUE
    /\ UNCHANGED <<state, available, shown, isOn>>

Next ==
    \/ AskPlayer
    \/ AskSwitch
    \/ PressButton
    \/ PlayerSent
    \/ SwitchSent
    \/ OtherSent
    \/ Failed
    \/ Cancelled

Spec == Init /\ [][Next]_vars
------------------------------------------------------------------------------
(* Properties. *)

\* README.md:38 "they show what was last sent": the player, unless it is shown
\* as unavailable, and the switch agree with the last command that was sent to
\* the media block, however the actions overlap and fail, unless an action never
\* heard that its command had been carried out, or playback was changed behind
\* the player.  A player that has failed is shown as unavailable, whatever
\* commands end in between.
ShownIsLastSent ==
    /\ ~misled => shown \in {playback, "unavailable"} /\ isOn = toggled
    /\ ~available => shown = "unavailable"

\* media_player.py:182 "resume when the player was paused", although the choice
\* is made before the wait for the client: an action that waits to be sent still
\* fits what the player does then, whatever was asked for, failed or was cancelled
\* since it was chosen.  Those that were chosen behind a command that has been
\* sent since are the only ones that need not.
Fits(action) ==
    /\ action = "Resume" => playback = "paused"
    /\ action = "Play" => playback # "paused"
ChoiceFits ==
    ~misled => \A n \in 1 .. Len(queue) :
                  queue[n].choice # "overtaken" => Fits(queue[n].action)
==============================================================================
