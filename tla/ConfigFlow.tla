----------------------------- MODULE ConfigFlow -----------------------------
(***************************************************************************)
(* The config and the options flow (config_flow.py) with the discovery they *)
(* use (discovery.py), and the config entries they make and change, from   *)
(* the options a set-up reads to the listener it ends with (__init__.py).  *)
(*                                                                         *)
(* Several flows can be open at once: connection tests and discoveries are *)
(* awaits.  Home Assistant's part: a flow that sets the unique id of        *)
(* another flow in progress is aborted, an entry made with the unique id of *)
(* another entry replaces it, and a changed entry calls its listener.      *)
(***************************************************************************)
EXTENDS Naturals, FiniteSets

CONSTANTS
    Flow,       \* flows that may be open at the same time
    Address,    \* "host:port", the unique ids
    HostOf,     \* the host of an address
    Model,      \* what the projector at a host answers as its type, or None
    MaxStarted, \* bound: flows started
    None

Host == {HostOf[a] : a \in Address}

ASSUME AddressAssumption == HostOf \in [Address -> Host]
ASSUME ModelAssumption == DOMAIN Model = Host
ASSUME HostAssumption == {"none", "same"} \cap Host = {}
ASSUME BoundAssumption == MaxStarted \in Nat

VARIABLES
    flow,      \* the flows
    entries,   \* the config entries, by unique id
    created,   \* how many entries have been made for an address
    answered,  \* hosts whose ICMP server has answered a connection test
    started    \* flows started

vars == <<flow, entries, created, answered, started>>

\* No media block, one in the projector's address (an empty field), or its host.
Media == {"none", "same"} \cup Host
MediaBlockHost(a, media) == IF media = "same" THEN HostOf[a] ELSE media

\* The type of a projector, when it is known.
Models == {None} \cup {Model[h] : h \in Host}

\* A config entry.
Entry ==
    [state : {"setup", "loaded", "retry"},
     model : Models,
     media : Media,                    \* what the config flow has made
     options : Media \cup {None},
     used : Media,                     \* the options the running set-up went by
     pending : Nat,                    \* tasks of async_reload_entry
     reloads : Nat,                    \* how many there have been
     saves : Nat,                      \* options flows that have ended well
     missed : BOOLEAN]                 \* changed after its set-up has read the options

ASSUME NoneAssumption == None \notin Address \cup Entry

NoFlow ==
    [step |-> "none",
     id |-> None,          \* the unique id of a config flow
     entry |-> None,       \* the entry of an options flow
     configured |-> {},    \* hosts of the entries when the discovery began
     found |-> {},         \* hosts that answered the discovery
     selected |-> None,    \* self._selected
     model |-> None,       \* self._data[CONF_MODEL]
     media |-> "none"]     \* the media block in the form that was submitted

Init ==
    /\ flow = [f \in Flow |-> NoFlow]
    /\ entries = [a \in Address |-> None]
    /\ created = [a \in Address |-> 0]
    /\ answered = {}
    /\ started = 0

InProgress(f) == flow[f].step # "none"
Entries == {a \in Address : entries[a] # None}

Start(f, state) ==
    /\ ~InProgress(f)
    /\ started < MaxStarted
    /\ started' = started + 1
    /\ flow' = [flow EXCEPT ![f] = state]
    /\ UNCHANGED <<entries, created, answered>>
------------------------------------------------------------------------------
(* Setting an entry up, and changing it. *)

\* Mutant: what was set up first goes before the options.
MergedDataFirst(e) == e.media
\* {**entry.data, **entry.options}.
Merged(e) == IF e.options = None THEN e.media ELSE e.options

\* async_setup_entry: the options are read first.
SettingUp(e) == [e EXCEPT !.state = "setup", !.used = Merged(e), !.missed = FALSE]

NewEntry(model, media) ==
    SettingUp([state |-> "setup", model |-> model, media |-> media, options |-> None,
               used |-> "none", pending |-> 0, reloads |-> 0, saves |-> 0,
               missed |-> FALSE])

SetUpStep(a, from, new) ==
    /\ a \in Entries
    /\ entries[a].state \in from
    /\ entries' = [entries EXCEPT ![a] = new]
    /\ UNCHANGED <<flow, created, answered, started>>

\* The listener for updates is added last.
SetUpDone(a) == SetUpStep(a, {"setup"}, [entries[a] EXCEPT !.state = "loaded"])
NotReady(a) == SetUpStep(a, {"setup"}, [entries[a] EXCEPT !.state = "retry"])
Retry(a) == SetUpStep(a, {"retry"}, SettingUp(entries[a]))

\* async_reload_entry waits for a set-up that is under way.
Reload(a) ==
    /\ a \in Entries
    /\ entries[a].pending > 0
    /\ SetUpStep(a, {"loaded", "retry"}, SettingUp([entries[a] EXCEPT !.pending = @ - 1]))

\* async_update_entry calls the listener of a changed entry, which a loaded one has.
Updated(e, model, options) ==
    LET new == [e EXCEPT !.model = model, !.options = options]
    IN IF new = e THEN e
       ELSE IF e.state = "loaded" THEN [new EXCEPT !.pending = @ + 1, !.reloads = @ + 1]
       ELSE [new EXCEPT !.missed = TRUE]

\* Mutant: data and options are written one after the other.
SavedTwice(e, model, options) ==
    [Updated(Updated(e, model, e.options), model, options) EXCEPT !.saves = @ + 1]
\* The options flow ends; its result changes nothing after an update in
\* _async_fill_in_model.
Saved(e, model, options) ==
    [Updated(Updated(e, model, options), model, options) EXCEPT !.saves = @ + 1]
------------------------------------------------------------------------------
(* Discovery, for either flow. *)

Discovering == {"discovering", "model"}

\* datagram_received: a projector answers once, more often, or never, and for
\* itself: an answer that claims the address of another (discovery.py:64) would
\* be taken for that one's, and is left out.
DatagramReceived(f, h) ==
    /\ flow[f].step \in Discovering
    /\ flow' = [flow EXCEPT ![f].found = @ \cup {h}]
    /\ UNCHANGED <<entries, created, answered, started>>
------------------------------------------------------------------------------
(* The config flow. *)

Step(f, state) ==
    /\ flow' = [flow EXCEPT ![f] = state]
    /\ UNCHANGED <<entries, created, answered, started>>

StepUser(f) ==
    Start(f, [NoFlow EXCEPT !.step = "discovering",
                            !.configured = {HostOf[a] : a \in Entries}])

\* The discovery's time is over.
StepUserDiscovered(f) ==
    /\ flow[f].step = "discovering"
    /\ LET found == flow[f].found \ flow[f].configured IN
       Step(f, [flow[f] EXCEPT !.found = found, !.configured = {},
                               !.step = IF found # {} THEN "pick" ELSE "manual"])

StepPick(f) ==
    /\ flow[f].step = "pick"
    /\ \E choice \in flow[f].found \cup {None} :
         Step(f, [flow[f] EXCEPT !.selected = choice, !.step = "manual"])

\* Mutant: the unique id is only compared with those of other flows.
AbortsIfInProgress(f, a) == \E g \in Flow \ {f} : InProgress(g) /\ flow[g].id = a
\* async_set_unique_id, _abort_if_unique_id_configured.  An options flow has no
\* unique id.
Aborts(f, a) ==
    \/ a \in Entries
    \/ \E g \in Flow \ {f} : InProgress(g) /\ flow[g].id = a

\* The address is the discovered one or any other.
StepManual(f) ==
    /\ flow[f].step = "manual"
    /\ \E a \in Address, media \in {"none", "icmp"} :
         Step(f, IF Aborts(f, a) THEN NoFlow
                 ELSE [flow[f] EXCEPT !.step = "testing", !.id = a, !.media = media])

\* Mutant: the model is that of the projector that was picked.
_model_for_selected(f, host) ==
    IF flow[f].selected = None THEN None ELSE Model[flow[f].selected]
_model_for(f, host) == IF host \in flow[f].found THEN Model[host] ELSE None

\* async_create_entry; Home Assistant sets the entry up.
CreateEntry(f, a, model, media) ==
    /\ flow' = [flow EXCEPT ![f] = NoFlow]
    /\ entries' = [entries EXCEPT ![a] = NewEntry(model, media)]
    /\ created' = [created EXCEPT ![a] = @ + 1]

\* _async_test_projector, and what the step does with its result.
ProjectorTested(f) ==
    /\ flow[f].step = "testing"
    /\ LET a == flow[f].id
           model == _model_for(f, HostOf[a])
       IN \/ Step(f, [flow[f] EXCEPT !.step = "manual"])
          \/ /\ flow[f].media = "icmp"
             /\ Step(f, [flow[f] EXCEPT !.step = "media_block", !.model = model])
          \/ /\ flow[f].media = "none"
             /\ CreateEntry(f, a, model, "none")
             /\ UNCHANGED <<answered, started>>

StepMediaBlock(f) ==
    /\ flow[f].step = "media_block"
    /\ \E media \in Media \ {"none"} :
         Step(f, [flow[f] EXCEPT !.step = "testing_icmp", !.media = media])

\* Mutant: the projector's own address is tested.
TestedHostOwn(a, media) == HostOf[a]
TestedHost(a, media) == MediaBlockHost(a, media)

\* _async_test_icmp, in the config flow.
IcmpTested(f) ==
    /\ flow[f].step = "testing_icmp"
    /\ \/ Step(f, [flow[f] EXCEPT !.step = "media_block"])
       \/ /\ answered' = answered \cup {TestedHost(flow[f].id, flow[f].media)}
          /\ CreateEntry(f, flow[f].id, flow[f].model, flow[f].media)
          /\ UNCHANGED started
------------------------------------------------------------------------------
(* The options flow. *)

OpenOptions(f, a) ==
    a \in Entries /\ Start(f, [NoFlow EXCEPT !.step = "init", !.entry = a])

\* The options are in order: _async_fill_in_model up to its discovery.
FillInModel(f, media) ==
    LET a == flow[f].entry IN
    IF entries[a].model # None
      THEN /\ entries' = [entries EXCEPT ![a] = Saved(@, entries[a].model, media)]
           /\ flow' = [flow EXCEPT ![f] = NoFlow]
      ELSE /\ flow' = [flow EXCEPT ![f] = [@ EXCEPT !.step = "model", !.media = media]]
           /\ UNCHANGED entries

StepInit(f) ==
    /\ flow[f].step = "init"
    /\ \/ /\ FillInModel(f, "none")
          /\ UNCHANGED <<created, answered, started>>
       \/ \E media \in Media \ {"none"} :
            Step(f, [flow[f] EXCEPT !.step = "init_icmp", !.media = media])

OptionsTested(f) ==
    /\ flow[f].step = "init_icmp"
    /\ \/ Step(f, [flow[f] EXCEPT !.step = "init"])
       \/ /\ answered' = answered \cup {TestedHost(flow[f].entry, flow[f].media)}
          /\ FillInModel(f, flow[f].media)
          /\ UNCHANGED <<created, started>>

\* async_discover_model has returned.
ModelLookedUp(f) ==
    /\ flow[f].step = "model"
    /\ LET a == flow[f].entry
           model == _model_for(f, HostOf[a])
       IN entries' = [entries EXCEPT
                       ![a] = Saved(@, IF model = None THEN @.model ELSE model, flow[f].media)]
    /\ flow' = [flow EXCEPT ![f] = NoFlow]
    /\ UNCHANGED <<created, answered, started>>

\* The user closes a form.
Close(f) ==
    /\ flow[f].step \in {"pick", "manual", "media_block", "init"}
    /\ Step(f, NoFlow)

\* Home Assistant ends and starts again: the flows are gone.
Restart ==
    /\ flow' = [f \in Flow |-> NoFlow]
    /\ entries' = [a \in Address |->
                     IF entries[a] = None THEN None
                     ELSE SettingUp([entries[a] EXCEPT !.pending = 0])]
    /\ UNCHANGED <<created, answered, started>>
------------------------------------------------------------------------------
ConfigStep(f) ==
    \/ StepUser(f)
    \/ StepUserDiscovered(f)
    \/ StepPick(f)
    \/ StepManual(f)
    \/ ProjectorTested(f)
    \/ StepMediaBlock(f)
    \/ IcmpTested(f)

OptionsStep(f) ==
    \/ \E a \in Address : OpenOptions(f, a)
    \/ StepInit(f)
    \/ OptionsTested(f)
    \/ ModelLookedUp(f)

EntryStep(a) == SetUpDone(a) \/ NotReady(a) \/ Retry(a) \/ Reload(a)

Next ==
    \/ \E f \in Flow :
          \/ ConfigStep(f)
          \/ OptionsStep(f)
          \/ \E h \in Host : DatagramReceived(f, h)
          \/ Close(f)
    \/ \E a \in Address : EntryStep(a)
    \/ Restart

Spec == Init /\ [][Next]_vars
------------------------------------------------------------------------------
(* Properties. *)

\* config_flow.py:165: two entries would poll one projector through two sockets,
\* and Home Assistant would replace the first one: an address gets one entry,
\* however the flows for it overlap.
OneEntryPerAddress == \A a \in Address : created[a] <= 1

\* config_flow.py:222 "the discovered model for this address, if any": an entry
\* never gets the model of another projector, such as the one that was picked
\* before another address was typed, as long as every answer to a discovery
\* tells the address it comes from.
ModelIsOfItsHost == \A a \in Entries : entries[a].model \in {None, Model[HostOf[a]]}

\* config_flow.py:251 "check before saving instead of creating entities that can
\* only fail": the media block an entry is set up with has answered a test.
MediaBlockAnswered ==
    \A a \in Entries : entries[a].used # "none" =>
        MediaBlockHost(a, entries[a].used) \in answered

\* config_flow.py:299 "Data and options are written in one update, so the entry
\* reloads once": a save of the options reloads the entry once, or not at all.
ReloadsOncePerSave == \A a \in Entries : entries[a].reloads <= entries[a].saves

\* __init__.py:185 "Reload the entry when its options change": an entry that is
\* loaded, and not about to be reloaded, goes by its options.  Options saved
\* while it is being set up are left out: they are missed, since the listener is
\* added last (__init__.py:168).
OptionsInUseUnlessMissed ==
    \A a \in Entries :
        LET e == entries[a] IN
        e.state = "loaded" /\ e.pending = 0 /\ ~e.missed =>
            e.used = IF e.options = None THEN e.media ELSE e.options
==============================================================================
