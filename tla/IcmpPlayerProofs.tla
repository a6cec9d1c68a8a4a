--------------------------- MODULE IcmpPlayerProofs ---------------------------
(***************************************************************************)
(* Proofs about IcmpPlayer, for any number of actions under way.           *)
(***************************************************************************)
EXTENDS IcmpPlayer, TLAPS

Action == Playback \cup Skips \cup DOMAIN Toggles \cup Others
Asked == [action : Action, choice : Choices]

\* The states the player can have, and what it can show.
PlayerStates == {"playing", "paused", "idle"}

TypeInv ==
    /\ queue \in Seq(Asked)
    /\ state \in PlayerStates
    /\ available \in BOOLEAN
    /\ misled \in BOOLEAN
    /\ playback \in PlayerStates

\* What is shown is the state, or still the failure that a later success of an
\* action that shows nothing has not written over.
ShownInv ==
    /\ ~misled => state = playback /\ isOn = toggled
    /\ shown \in {state, "unavailable"}
    /\ ~available => shown = "unavailable"

\* An action was chosen by the state that still is, until it is overtaken; and one
\* that was chosen alone has nothing in front of it that could overtake it.
Suits(action) ==
    /\ action = "Resume" => state = "paused"
    /\ action = "Play" => state # "paused"
ChoiceInv ==
    \A n \in 1 .. Len(queue) :
        /\ queue[n].choice # "overtaken" => Suits(queue[n].action)
        /\ queue[n].choice = "alone" => \A m \in 1 .. n - 1 : queue[m].action \notin Playback

IInv == TypeInv /\ ShownInv /\ ChoiceInv

\* The queue loses its n-th action, and the state stays.
LEMMA LossKeepsChoices ==
    ASSUME TypeInv, ChoiceInv, state' = state, NEW n \in 1 .. Len(queue),
           queue' \in Seq(Asked), Len(queue') = Len(queue) - 1,
           \A k \in 1 .. Len(queue') : queue'[k] = queue[IF k < n THEN k ELSE k + 1]
    PROVE  ChoiceInv'
<1>1. Len(queue) \in Nat
  BY DEF TypeInv
<1> DEFINE old(k) == IF k < n THEN k ELSE k + 1
<1>2. ASSUME NEW k \in 1 .. Len(queue')
      PROVE  /\ old(k) \in 1 .. Len(queue) /\ queue'[k] = queue[old(k)]
             /\ \A m \in 1 .. k - 1 :
                   m \in 1 .. Len(queue') /\ old(m) \in 1 .. old(k) - 1
  BY <1>1
<1> HIDE DEF old
<1>3. ASSUME NEW k \in 1 .. Len(queue'), queue'[k].choice # "overtaken"
      PROVE  Suits(queue[k].action)'
  <2>1. Suits(queue[old(k)].action)
    BY <1>2, <1>3 DEF ChoiceInv
  <2> QED BY <1>2, <2>1 DEF Suits
<1>4. ASSUME NEW k \in 1 .. Len(queue'), queue'[k].choice = "alone", NEW m \in 1 .. k - 1
      PROVE  queue'[m].action \notin Playback
  <2>1. /\ m \in 1 .. Len(queue') /\ old(m) \in 1 .. old(k) - 1
        /\ queue'[k] = queue[old(k)] /\ old(k) \in 1 .. Len(queue)
    BY <1>2
  <2>2. queue'[m] = queue[old(m)]
    BY <1>2, <2>1
  <2>3. queue[old(m)].action \notin Playback
    BY <1>4, <2>1 DEF ChoiceInv
  <2> QED BY <2>2, <2>3
<1> QED BY <1>3, <1>4 DEF ChoiceInv

LEMMA TailKeepsChoices ==
    ASSUME TypeInv, ChoiceInv, state' = state, queue # <<>>, queue' = Tail(queue)
    PROVE  queue' \in Seq(Asked) /\ ChoiceInv'
<1>1. queue \in Seq(Asked) /\ Len(queue) \in Nat /\ 1 \in 1 .. Len(queue)
  BY DEF TypeInv
<1>2. /\ queue' \in Seq(Asked) /\ Len(queue') = Len(queue) - 1
      /\ \A k \in 1 .. Len(queue') : queue'[k] = queue[k + 1]
  BY <1>1
<1>3. \A k \in 1 .. Len(queue') : queue'[k] = queue[IF k < 1 THEN k ELSE k + 1]
  BY <1>1, <1>2
<1> QED BY <1>1, <1>2, <1>3, LossKeepsChoices

LEMMA WithoutKeepsChoices ==
    ASSUME TypeInv, ChoiceInv, state' = state, NEW n \in 1 .. Len(queue), queue' = Without(n)
    PROVE  queue' \in Seq(Asked) /\ ChoiceInv'
<1>1. queue \in Seq(Asked) /\ Len(queue) \in Nat
  BY DEF TypeInv
<1> DEFINE before == SubSeq(queue, 1, n - 1)
           after == SubSeq(queue, n + 1, Len(queue))
<1>2. /\ before \in Seq(Asked) /\ Len(before) = n - 1
      /\ \A k \in 1 .. n - 1 : before[k] = queue[k]
  BY <1>1
<1>3. /\ after \in Seq(Asked) /\ Len(after) = Len(queue) - n
      /\ \A k \in 1 .. Len(queue) - n : after[k] = queue[n + k]
  BY <1>1
<1>4. queue' = before \o after
  BY DEF Without
<1> HIDE DEF before, after
<1>5. queue' \in Seq(Asked) /\ Len(queue') = Len(queue) - 1
  BY <1>1, <1>2, <1>3, <1>4
<1>6. ASSUME NEW k \in 1 .. Len(queue')
      PROVE  queue'[k] = queue[IF k < n THEN k ELSE k + 1]
  <2>1. CASE k < n
    BY <1>1, <1>2, <1>3, <1>4, <1>5, <2>1
  <2>2. CASE k >= n
    <3>1. queue'[k] = after[k - (n - 1)]
      BY <1>1, <1>2, <1>3, <1>4, <1>5, <2>2
    <3>2. k - (n - 1) \in 1 .. Len(queue) - n /\ n + (k - (n - 1)) = k + 1
      BY <1>1, <1>5, <2>2
    <3> QED BY <1>1, <1>3, <1>5, <2>2, <3>1, <3>2
  <2> QED BY <1>1, <1>5, <2>1, <2>2
<1> QED BY <1>1, <1>5, <1>6, LossKeepsChoices

LEMMA InitInv == Init => IInv
<1> SUFFICES ASSUME Init PROVE IInv
  OBVIOUS
<1>1. queue \in Seq(Asked) /\ Len(queue) = 0
  BY DEF Init
<1>2. TypeInv
  BY <1>1 DEF Init, TypeInv, PlayerStates
<1>3. ShownInv
  BY DEF Init, ShownInv
<1>4. ChoiceInv
  BY <1>1 DEF ChoiceInv
<1> QED BY <1>2, <1>3, <1>4 DEF IInv

LEMMA AskInv ==
    ASSUME IInv, NEW action \in Action, Ask(action), Suits(action)
    PROVE  IInv'
<1> USE DEF IInv
<1>1. queue \in Seq(Asked) /\ Len(queue) \in Nat
  BY DEF TypeInv
<1>2. /\ queue' = Append(queue, Chosen(action))
      /\ UNCHANGED <<state, available, shown, isOn, misled, playback, toggled>>
  BY DEF Ask
<1>3. /\ Chosen(action) \in Asked /\ Chosen(action).action = action
      /\ Chosen(action).choice = "alone" =>
            \A m \in 1 .. Len(queue) : queue[m].action \notin Playback
  BY DEF Chosen, Asked, Choices
<1>4. /\ queue' \in Seq(Asked) /\ Len(queue') = Len(queue) + 1
      /\ queue'[Len(queue) + 1] = Chosen(action)
      /\ \A k \in 1 .. Len(queue) : queue'[k] = queue[k]
  BY <1>1, <1>2, <1>3
<1>5. TypeInv'
  BY <1>2, <1>4 DEF TypeInv
<1>6. ShownInv'
  BY <1>2 DEF ShownInv
<1>7. ChoiceInv'
  <2> SUFFICES ASSUME NEW k \in 1 .. Len(queue')
               PROVE  /\ queue'[k].choice # "overtaken" => Suits(queue[k].action)'
                      /\ queue'[k].choice = "alone" =>
                            \A m \in 1 .. k - 1 : queue'[m].action \notin Playback
    BY DEF ChoiceInv
  <2>1. CASE k = Len(queue) + 1
    BY <1>1, <1>2, <1>3, <1>4, <2>1 DEF Suits
  <2>2. CASE k \in 1 .. Len(queue)
    <3>1. queue'[k] = queue[k] /\ \A m \in 1 .. k - 1 : queue'[m] = queue[m]
      BY <1>1, <1>4, <2>2
    <3> QED BY <1>2, <2>2, <3>1 DEF ChoiceInv, Suits
  <2> QED BY <1>1, <1>4, <2>1, <2>2
<1> QED BY <1>5, <1>6, <1>7

\* When a command of playback is sent, all behind it are overtaken.
LEMMA PlaybackInv ==
    ASSUME TypeInv, ChoiceInv, queue # <<>>, Served \in Playback,
           queue' = [n \in 1 .. Len(queue) - 1 |-> Overtaken(queue[n + 1])]
    PROVE  queue' \in Seq(Asked) /\ ChoiceInv'
<1>1. queue \in Seq(Asked) /\ Len(queue) \in Nat \ {0} /\ Head(queue) = queue[1]
  BY DEF TypeInv
<1>2. \A n \in 1 .. Len(queue) - 1 :
         /\ queue[n + 1] \in Asked
         /\ queue[n + 1].choice # "alone"
  BY <1>1 DEF ChoiceInv, Served
<1>3. ASSUME NEW asked \in Asked, asked.choice # "alone"
      PROVE  Overtaken(asked) \in Asked /\ Overtaken(asked).choice = "overtaken"
  BY <1>3 DEF Asked, Choices, Overtaken
<1>4. Len(queue) - 1 \in Nat
  BY <1>1
<1>5. queue' \in Seq(Asked) /\ Len(queue') = Len(queue) - 1
  BY <1>2, <1>3, <1>4
<1>6. \A n \in 1 .. Len(queue') : queue'[n].choice = "overtaken"
  BY <1>2, <1>3, <1>5
<1> QED BY <1>5, <1>6 DEF ChoiceInv

\* One step, action by action.
LEMMA StepInv == IInv /\ [Next]_vars => IInv'
<1> SUFFICES ASSUME IInv, [Next]_vars PROVE IInv'
  OBVIOUS
<1>t. TypeInv /\ ShownInv /\ ChoiceInv
  BY DEF IInv
<1>1. CASE AskPlayer
  <2>1. PICK action \in {PlayAction, "Pause", "Stop", "service"} \cup Skips : Ask(action)
    BY <1>1 DEF AskPlayer
  <2>2. action \in Action
    BY <2>1 DEF PlayAction, Action, Playback, Shows, Skips, Others
  <2>3. Suits(action)
    BY <2>1 DEF PlayAction, Skips, Suits
  <2> QED BY <2>1, <2>2, <2>3, AskInv
<1>2. CASE AskSwitch
  <2>1. PICK action \in DOMAIN Toggles : Ask(action)
    BY <1>2 DEF AskSwitch
  <2>2. action \in Action /\ Suits(action)
    BY <2>1 DEF Action, Toggles, Suits
  <2> QED BY <2>1, <2>2, AskInv
<1>3. CASE PressButton
  <2>1. "button" \in Action /\ Suits("button")
    BY DEF Action, Others, Suits
  <2> QED BY <1>3, <2>1, AskInv DEF PressButton
<1>4. ASSUME queue # <<>>, queue' = Tail(queue), UNCHANGED state, misled' \in BOOLEAN,
             available' \in BOOLEAN, playback' \in PlayerStates
      PROVE  TypeInv' /\ ChoiceInv'
  BY <1>4, <1>t, TailKeepsChoices DEF TypeInv
<1>5. ASSUME NEW action, Told(action) PROVE playback' \in PlayerStates
  BY <1>5, <1>t DEF Told, Playback, Shows, PlayerStates, TypeInv
<1>6. CASE PlayerSent
  <2>1. queue # <<>> /\ Served \in Playback \cup Skips
    BY <1>6 DEF PlayerSent, Serves
  <2>2. CASE Served \in Playback
    <3>1. Shows[Served] \in PlayerStates
      BY <2>2 DEF Playback, Shows, PlayerStates
    <3>2. Served \notin DOMAIN Toggles
      BY <2>2 DEF Playback, Shows, Toggles
    <3>3. /\ playback' = Shows[Served] /\ state' = Shows[Served]
          /\ shown' = Shows[Served] /\ available' = TRUE
          /\ misled' = misled /\ isOn' = isOn /\ toggled' = toggled
          /\ queue' = [n \in 1 .. Len(queue) - 1 |-> Overtaken(queue[n + 1])]
      BY <1>6, <2>2, <3>2 DEF PlayerSent, Told, Written
    <3>4. ShownInv'
      BY <1>t, <3>3 DEF ShownInv
    <3>5. queue' \in Seq(Asked) /\ ChoiceInv'
      BY <1>t, <2>1, <2>2, <3>3, PlaybackInv
    <3>6. TypeInv'
      BY <1>t, <3>1, <3>3, <3>5 DEF TypeInv
    <3> QED BY <3>4, <3>5, <3>6 DEF IInv
  <2>3. CASE Served \notin Playback
    <3>1. Served \notin DOMAIN Toggles
      BY <2>1, <2>3 DEF Skips, Toggles
    <3>2. /\ available' = TRUE /\ queue' = Tail(queue)
          /\ UNCHANGED <<playback, toggled, state, shown, isOn, misled>>
      BY <1>6, <2>3, <3>1 DEF PlayerSent, Told
    <3>3. ShownInv'
      BY <1>t, <3>2 DEF ShownInv
    <3> QED BY <1>4, <1>t, <2>1, <3>2, <3>3 DEF IInv, TypeInv
  <2> QED BY <2>2, <2>3
<1>7. CASE SwitchSent
  <2>1. queue # <<>> /\ Served \in DOMAIN Toggles
    BY <1>7 DEF SwitchSent, Serves
  <2>2. Served \notin Playback
    BY <2>1 DEF Playback, Shows, Toggles
  <2>3. /\ toggled' = Toggles[Served] /\ isOn' = Toggles[Served] /\ queue' = Tail(queue)
        /\ UNCHANGED <<playback, state, available, shown, misled>>
    BY <1>7, <2>1, <2>2 DEF SwitchSent, Told
  <2>4. ShownInv'
    BY <1>t, <2>3 DEF ShownInv
  <2> QED BY <1>4, <1>t, <2>1, <2>3, <2>4 DEF IInv, TypeInv
<1>8. CASE OtherSent
  <2>1. queue # <<>> /\ queue' = Tail(queue)
    BY <1>8 DEF OtherSent, Serves
  <2>2. ShownInv'
    BY <1>t, <1>8 DEF ShownInv, OtherSent
  <2>3. playback' \in PlayerStates /\ misled' \in BOOLEAN
        /\ UNCHANGED state /\ available' \in BOOLEAN
    BY <1>t, <1>8 DEF OtherSent, TypeInv, PlayerStates
  <2> QED BY <1>4, <2>1, <2>2, <2>3 DEF IInv
<1>9. CASE Failed
  <2>1. queue # <<>> /\ queue' = Tail(queue)
    BY <1>9 DEF Failed
  <2>2. ShownInv'
    BY <1>t, <1>9 DEF ShownInv, Failed
  <2>3. playback' \in PlayerStates /\ misled' \in BOOLEAN
    BY <1>t, <1>5, <1>9 DEF Failed, TypeInv
  <2>4. UNCHANGED state /\ available' \in BOOLEAN
    BY <1>t, <1>9 DEF Failed, TypeInv
  <2> QED BY <1>4, <2>1, <2>2, <2>3, <2>4 DEF IInv
<1>10. CASE Cancelled
  <2>1. PICK n \in 1 .. Len(queue) :
          /\ queue' = Without(n)
          /\ \/ UNCHANGED <<playback, toggled, misled>>
             \/ n = 1 /\ Told(Served) /\ misled' = TRUE
    BY <1>10 DEF Cancelled
  <2>2. UNCHANGED <<state, available, shown, isOn>>
    BY <1>10 DEF Cancelled
  <2>3. ShownInv'
    BY <1>t, <2>1, <2>2 DEF ShownInv
  <2>4. playback' \in PlayerStates /\ misled' \in BOOLEAN
    BY <1>t, <1>5, <2>1 DEF TypeInv
  <2>5. queue' \in Seq(Asked) /\ ChoiceInv'
    BY <1>t, <2>1, <2>2, WithoutKeepsChoices
  <2>6. TypeInv'
    BY <1>t, <2>2, <2>4, <2>5 DEF TypeInv
  <2> QED BY <2>3, <2>5, <2>6 DEF IInv
<1>11. CASE UNCHANGED vars
  BY <1>11 DEF IInv, TypeInv, ShownInv, ChoiceInv, Suits, vars
<1> QED BY <1>1, <1>2, <1>3, <1>6, <1>7, <1>8, <1>9, <1>10, <1>11 DEF Next

LEMMA Invariance == Spec => []IInv
BY InitInv, StepInv, PTL DEF Spec

\* The player and the switch show what was last sent, however many actions are
\* under way, fail or are cancelled.
THEOREM LastSentIsShown == Spec => []ShownIsLastSent
<1>1. IInv => ShownIsLastSent
  BY DEF IInv, ShownInv, ShownIsLastSent
<1> QED BY <1>1, Invariance, PTL

\* An action that waits still fits what the player does, unless a command of
\* playback that was in front of it when it was chosen has been sent since.
THEOREM ChoiceKeepsFitting == Spec => []ChoiceFits
<1>1. IInv => ChoiceFits
  BY DEF IInv, ShownInv, ChoiceInv, Suits, ChoiceFits, Fits
<1> QED BY <1>1, Invariance, PTL
==============================================================================
