----------------------- MODULE ProjectorEntitiesProofs -----------------------
(***************************************************************************)
(* The media player goes by the latest reading of the sleep mode, for any  *)
(* keypads, any number of polls, follow-ups, commands, changes and refused *)
(* reads.                                                                  *)
(***************************************************************************)
EXTENDS ProjectorEntities, TLAPS

\* What the records of a projector and of a poll have.
Fields ==
    /\ {"online", "lamp", "dowser", "asleep", "last", "keypad"} \subseteq DOMAIN projector
    /\ {"reachable", "sleep", "macros"} \subseteq DOMAIN snapshot

\* Whoever holds the reading that the projector is not asleep, though it is, has
\* been overtaken: the poll that has read the sleep mode, the data, and the media
\* player that has not found it necessary to wake the projector.  A projector that
\* has refused the reading is not asked again, and nobody holds one in the end.
ReadingsInv ==
    projector.asleep /\ "sleep" \notin unsupported =>
        /\ poll \in {"range", "button"} /\ snapshot.sleep # TRUE => "poll" \in overtaken
        /\ data.reachable /\ data.sleep # TRUE => "data" \in overtaken
        /\ turnOn = "ignite" => "turn_on" \in overtaken

Inv == Fields /\ ReadingsInv

LEMMA FreshSnapshot ==
    {"reachable", "sleep", "macros"} \subseteq DOMAIN BarcoData
BY DEF BarcoData

LEMMA UnreachedIsUnreached ==
    \A list : ~[Unreached EXCEPT !.macros = list].reachable
BY DEF Unreached, BarcoData

\* Of what a command or a touch of the keypad changes, only WithSleep is about
\* the sleep mode.
LEMMA WithKeepsFields ==
    ASSUME Fields, NEW value
    PROVE  LET fields == {"online", "lamp", "dowser", "asleep", "last", "keypad"} IN
           /\ fields \subseteq DOMAIN WithLamp(projector, value)
           /\ fields \subseteq DOMAIN WithSleep(projector, value)
           /\ fields \subseteq DOMAIN WithDowser(projector, value)
           /\ fields \subseteq DOMAIN WithMacro(projector, value)
           /\ WithLamp(projector, value).asleep = projector.asleep
           /\ WithSleep(projector, value).asleep = value
BY DEF Fields, WithLamp, WithSleep, WithDowser, WithMacro

LEMMA TouchedKeepsFields ==
    ASSUME Fields, NEW p \in Touched(projector)
    PROVE  {"online", "lamp", "dowser", "asleep", "last", "keypad"} \subseteq DOMAIN p
BY WithKeepsFields DEF Touched

LEMMA InitInv == Init => Inv
<1> SUFFICES ASSUME Init PROVE Inv
  OBVIOUS
<1>1. {"online", "lamp", "dowser", "asleep", "last", "keypad"} \subseteq DOMAIN projector
  BY DEF Init
<1>2. ~data.reachable
  BY DEF Init, Unreached, BarcoData
<1>3. snapshot = BarcoData /\ poll = "idle" /\ turnOn = "idle"
  BY DEF Init
<1> QED BY <1>1, <1>2, <1>3, FreshSnapshot DEF Inv, Fields, ReadingsInv

\* A step of a poll.
LEMMA PollInv == Inv /\ PollStep => Inv'
<1> SUFFICES ASSUME Fields, ReadingsInv, PollStep PROVE Inv'
  BY DEF Inv
<1> USE DEF Inv, Fields, ReadingsInv
<1>1. CASE ReadRequired \/ RequiredRefused
  <2>1. /\ UNCHANGED <<projector, unsupported, turnOn, data, overtaken>>
        /\ poll' \notin {"range", "button"}
        /\ DOMAIN snapshot' = DOMAIN snapshot \/ snapshot' = BarcoData
    BY <1>1 DEF ReadRequired, RequiredRefused, Answered, NextRead
  <2> QED BY <2>1, FreshSnapshot
<1>1a. CASE ReadLastMacro
  <2>1. PICK v \in {None, projector.last} :
          Optional("last_macro", v) /\ snapshot' = [snapshot EXCEPT !.last_macro = v]
    BY <1>1a DEF ReadLastMacro
  <2>2. UNCHANGED projector /\ UNCHANGED turnOn /\ unsupported \subseteq unsupported'
    BY <2>1 DEF Optional
  <2>3. /\ poll' = "sleep" /\ UNCHANGED <<data, overtaken>>
        /\ DOMAIN snapshot' = DOMAIN snapshot
    BY <1>1a, <2>1 DEF ReadLastMacro, NextRead
  <2> QED BY <2>2, <2>3
<1>2. CASE ReadSleep
  <2>1. PICK v \in {None, projector.asleep} :
          /\ Optional("sleep", v)
          /\ LET d == [snapshot EXCEPT !.sleep = v] IN
             IF Due
               THEN /\ snapshot' = d
                    /\ poll' = "range"
                    /\ overtaken' = overtaken \ {"poll"}
                    /\ UNCHANGED <<button, names, known, count, data, success>>
               ELSE /\ Publish(d, known)
                    /\ overtaken' = overtaken \ {"poll", "data"}
    BY <1>2 DEF ReadSleep
  <2>2. /\ UNCHANGED <<projector, turnOn>>
        /\ "sleep" \in unsupported' \/ (v = projector.asleep /\ UNCHANGED unsupported)
    BY <2>1 DEF Optional, Measured
  <2> DEFINE d == [snapshot EXCEPT !.sleep = v]
  <2>3. DOMAIN d = DOMAIN snapshot /\ d.sleep = v
    OBVIOUS
  <2>4. CASE Due
    <3>1. snapshot' = d /\ overtaken' = overtaken \ {"poll"} /\ UNCHANGED data
      BY <2>1, <2>4
    <3> HIDE DEF d
    <3> QED BY <2>2, <2>3, <3>1
  <2>5. CASE ~Due
    <3>1. /\ data' = [d EXCEPT !.macros = known] /\ snapshot' = BarcoData /\ poll' = "idle"
          /\ overtaken' = overtaken \ {"poll", "data"}
      BY <2>1, <2>5 DEF Publish, Snapshot
    <3>2. data'.sleep = v
      BY <2>3, <3>1
    <3> HIDE DEF d
    <3> QED BY <2>2, <2>3, <3>1, <3>2, FreshSnapshot
  <2> QED BY <2>4, <2>5
<1>3. ASSUME NEW list, MacrosRead(list), poll \in {"range", "button"},
             UNCHANGED <<projector, unsupported, turnOn>>
      PROVE  Inv'
  <2>1. PICK macros : Publish(snapshot, macros)
    BY <1>3 DEF MacrosRead, PublishMacros
  <2>2. data'.sleep = snapshot.sleep /\ snapshot' = BarcoData /\ poll' = "idle"
    BY <2>1 DEF Publish, Snapshot
  <2> QED BY <1>3, <2>2, FreshSnapshot DEF MacrosRead
<1>4. CASE ReadRange
  <2>1. CASE \E list : MacrosRead(list)
    BY <1>3, <1>4, <2>1 DEF ReadRange, Answered
  <2>2. CASE UNCHANGED <<snapshot, data, overtaken>>
    BY <1>4, <2>2 DEF ReadRange, Answered
  <2> QED BY <1>4, <2>1, <2>2 DEF ReadRange
<1>5. CASE ReadButton
  <2>1. CASE \E list : MacrosRead(list)
    BY <1>3, <1>5, <2>1 DEF ReadButton, Answered
  <2>2. CASE UNCHANGED <<poll, snapshot, data, overtaken>>
    BY <1>5, <2>2 DEF ReadButton, Answered
  <2> QED BY <1>5, <2>1, <2>2 DEF ReadButton
<1>6. CASE Unreachable
  <2>1. ~data'.reachable
    BY <1>6, UnreachedIsUnreached DEF Unreachable
  <2> QED BY <1>6, <2>1, FreshSnapshot DEF Unreachable
<1> QED BY <1>1, <1>1a, <1>2, <1>4, <1>5, <1>6 DEF PollStep

\* A command, or a change of the projector itself.
LEMMA ChangeInv ==
    ASSUME Inv, UNCHANGED <<pollVars, turnOn>>, FallsAsleep,
           {"online", "lamp", "dowser", "asleep", "last", "keypad"} \subseteq DOMAIN projector'
    PROVE  Inv'
BY DEF Inv, Fields, ReadingsInv, FallsAsleep, pollVars

LEMMA CommandInv ==
    ASSUME Inv, NEW p, Command(p),
           {"online", "lamp", "dowser", "asleep", "last", "keypad"} \subseteq DOMAIN p
    PROVE  Inv'
<1>1. {"online", "lamp", "dowser", "asleep", "last", "keypad"} \subseteq DOMAIN projector'
  BY DEF Command, Succeeds, Fails, Inv, Fields
<1> QED BY <1>1, ChangeInv DEF Command

LEMMA TurnOnInv == Inv /\ (TurnOn \/ TurnOnWakes \/ TurnOnIgnites) => Inv'
<1> SUFFICES ASSUME Fields, ReadingsInv, TurnOn \/ TurnOnWakes \/ TurnOnIgnites PROVE Inv'
  BY DEF Inv
<1> USE DEF Inv, Fields, ReadingsInv, pollVars, Available
<1>1. CASE TurnOn
  BY <1>1 DEF TurnOn, FirstRequest
<1>2. CASE TurnOnWakes
  <2> DEFINE p == WithSleep(projector, FALSE)
  <2>1. /\ {"online", "lamp", "dowser", "asleep", "last", "keypad"} \subseteq DOMAIN p
        /\ ~p.asleep
    BY WithKeepsFields
  <2>2. /\ \/ projector' = p /\ turnOn' = "ignite"
           \/ UNCHANGED projector /\ turnOn' = "idle"
           \/ projector' = [p EXCEPT !.online = FALSE] /\ turnOn' = "idle"
        /\ UNCHANGED <<pollVars, overtaken>>
    BY <1>2 DEF TurnOnWakes, Succeeds, Fails
  <2> HIDE DEF p
  <2> QED BY <2>1, <2>2
<1>3. CASE TurnOnIgnites
  <2> DEFINE p == WithLamp(projector, TRUE)
  <2>1. /\ {"online", "lamp", "dowser", "asleep", "last", "keypad"} \subseteq DOMAIN p
        /\ p.asleep = projector.asleep
    BY WithKeepsFields
  <2>2. /\ projector' \in {p, projector, [p EXCEPT !.online = FALSE]}
        /\ turnOn' = "idle" /\ UNCHANGED <<pollVars, overtaken>>
    BY <1>3 DEF TurnOnIgnites, Succeeds, Fails
  <2> HIDE DEF p
  <2> QED BY <2>1, <2>2
<1> QED BY <1>1, <1>2, <1>3

LEMMA NextInv == Inv /\ [Next]_vars => Inv'
<1> SUFFICES ASSUME Inv, [Next]_vars PROVE Inv'
  OBVIOUS
<1>0. Fields
  BY DEF Inv
<1>1. CASE ScheduledPoll \/ FollowupPoll
  BY <1>1 DEF ScheduledPoll, FollowupPoll, Inv, Fields, ReadingsInv
<1>2. CASE PollStep
  BY <1>2, PollInv
<1>3. CASE TurnOff
  BY <1>0, <1>3, CommandInv, WithKeepsFields DEF TurnOff
<1>4. ASSUME NEW b \in BOOLEAN, DowserSet(b) \/ SleepSet(b) PROVE Inv'
  BY <1>0, <1>4, CommandInv, WithKeepsFields DEF DowserSet, SleepSet
<1>5. ASSUME NEW option, SelectOption(option) PROVE Inv'
  BY <1>0, <1>5, CommandInv, WithKeepsFields DEF SelectOption
<1>6. CASE TurnOn \/ TurnOnWakes \/ TurnOnIgnites
  BY <1>6, TurnOnInv
<1>7. CASE SendRaw
  BY <1>0, <1>7, CommandInv, TouchedKeepsFields DEF SendRaw
<1>8. CASE Projector
  <2>1. {"online", "lamp", "dowser", "asleep", "last", "keypad"} \subseteq DOMAIN projector'
    BY <1>0, <1>8, TouchedKeepsFields DEF Projector, Fields
  <2> QED BY <1>8, <2>1, ChangeInv DEF Projector
<1>9. CASE UNCHANGED vars
  BY <1>9 DEF vars, pollVars, Inv, Fields, ReadingsInv
<1> QED BY <1>1, <1>2, <1>3, <1>4, <1>5, <1>6, <1>7, <1>8, <1>9 DEF Next

\* The media player sends the lamp command to a sleeping projector only when it
\* fell asleep after the reading of the sleep mode that the player went by, or has
\* refused that reading.
THEOREM LatestReadingCounts == Spec => WakesWhenShownAsleep
<1>1. Inv => (Ignites /\ projector.asleep =>
               "turn_on" \in overtaken \/ "sleep" \in unsupported)
  BY DEF Inv, ReadingsInv, Ignites
<1>2. Inv /\ [Next]_vars => 
         [Ignites /\ projector.asleep =>
             "turn_on" \in overtaken \/ "sleep" \in unsupported]_vars
  BY <1>1
<1> QED BY <1>2, InitInv, NextInv, PTL DEF Spec, WakesWhenShownAsleep
==============================================================================
