--------------------------- MODULE ConfigFlowProofs ---------------------------
(***************************************************************************)
(* Proofs about ConfigFlow, for any number of flows, addresses and hosts.  *)
(*                                                                         *)
(* The invariant has a part for each entry (EntryOK), a part for each flow *)
(* (FlowOK), and one for each pair of flows (ApartInv): what makes an      *)
(* address have one entry is that a flow keeps its unique id to itself     *)
(* from the check to the creation of the entry.                            *)
(***************************************************************************)
EXTENDS ConfigFlow, TLAPS

Steps == {"none", "discovering", "pick", "manual", "testing", "media_block",
          "testing_icmp", "init", "init_icmp", "model"}

ModelsOf(a) == {None, Model[HostOf[a]]}

FlowState ==
    [step : Steps, id : Address \cup {None}, entry : Address \cup {None},
     configured : SUBSET Host, found : SUBSET Host, selected : Host \cup {None},
     model : Models, media : Media \cup {"icmp"}]

\* Steps in which a config flow has checked its unique id; those in which it has
\* a model; those of an options flow; those in which the media block is chosen.
Checked == {"testing", "media_block", "testing_icmp"}
WithModel == {"media_block", "testing_icmp"}
OfOptions == {"init", "init_icmp", "model"}
WithMedia == {"testing_icmp", "init_icmp", "model"}

Tested(a, media, hosts) == media # "none" => MediaBlockHost(a, media) \in hosts

\* A flow in state s beside the entries of the addresses "taken", when the media
\* blocks of "hosts" have answered.
FlowOK(s, taken, hosts) ==
    /\ s \in FlowState
    /\ s.step \in Checked => s.id \in Address \ taken
    /\ s.step \in WithModel => s.model \in ModelsOf(s.id)
    /\ s.step \in OfOptions => s.entry \in taken
    /\ s.step \in WithMedia => s.media \in Media
    /\ s.step = "model" => Tested(s.entry, s.media, hosts)

\* The entry e of address a.
EntryOK(a, e, hosts) ==
    /\ e \in Entry
    /\ e.model \in ModelsOf(a)
    /\ Tested(a, e.media, hosts)
    /\ e.options # None => Tested(a, e.options, hosts)
    /\ Tested(a, e.used, hosts)
    /\ e.reloads <= e.saves
    /\ ~e.missed /\ e.pending = 0 => e.used = Merged(e)

FlowsInv ==
    /\ flow \in [Flow -> FlowState]
    /\ \A f \in Flow : FlowOK(flow[f], Entries, answered)

\* No other flow in progress has the unique id.
Unclaimed(f, id) == \A g \in Flow \ {f} : InProgress(g) => flow[g].id # id

ApartInv ==
    \A f \in Flow : InProgress(f) /\ flow[f].id \in Address => Unclaimed(f, flow[f].id)

EntriesInv ==
    /\ entries \in [Address -> Entry \cup {None}]
    /\ \A a \in Entries : EntryOK(a, entries[a], answered)

CreatedInv == created = [a \in Address |-> IF a \in Entries THEN 1 ELSE 0]

IInv == FlowsInv /\ ApartInv /\ EntriesInv /\ CreatedInv
------------------------------------------------------------------------------
(* What the steps do to one entry. *)

LEMMA NewEntryOK ==
    ASSUME NEW a \in Address, NEW hosts, NEW model \in ModelsOf(a), NEW media \in Media,
           Tested(a, media, hosts)
    PROVE  EntryOK(a, NewEntry(model, media), hosts)
<1> DEFINE e == [state |-> "setup", model |-> model, media |-> media, options |-> None,
                 used |-> "none", pending |-> 0, reloads |-> 0, saves |-> 0,
                 missed |-> FALSE]
<1>1. Merged(e) = media
  BY DEF Merged
<1>2. SettingUp(e) = [e EXCEPT !.state = "setup", !.used = media, !.missed = FALSE]
  BY <1>1 DEF SettingUp
<1>3. model \in Models
  BY AddressAssumption DEF ModelsOf, Models
<1>4. /\ SettingUp(e) \in Entry
      /\ SettingUp(e).model = model /\ SettingUp(e).media = media
      /\ SettingUp(e).options = None /\ SettingUp(e).used = media
      /\ SettingUp(e).reloads = 0 /\ SettingUp(e).saves = 0
  <2>1. Merged(e) = media /\ None \in Media \cup {None} /\ "none" \in Media
    BY <1>1 DEF Media
  <2> DEFINE new == [state |-> "setup", model |-> model, media |-> media, options |-> None,
                     used |-> media, pending |-> 0, reloads |-> 0, saves |-> 0,
                     missed |-> FALSE]
  <2>2. SettingUp(e) = new
    BY <1>2
  <2>3. new \in Entry
    BY <1>3, <2>1 DEF Entry
  <2>4. /\ SettingUp(e).model = model /\ SettingUp(e).media = media
        /\ SettingUp(e).options = None /\ SettingUp(e).used = media
        /\ SettingUp(e).reloads = 0 /\ SettingUp(e).saves = 0
    BY <2>2
  <2> QED BY <2>2, <2>3, <2>4
<1>5. NewEntry(model, media) = SettingUp(e)
  BY DEF NewEntry
<1> HIDE DEF e
<1>6. Merged(SettingUp(e)) = media
  BY <1>4 DEF Merged
<1> QED BY <1>4, <1>5, <1>6 DEF EntryOK

LEMMA MergedTested ==
    ASSUME NEW a, NEW e, NEW hosts, EntryOK(a, e, hosts)
    PROVE  Merged(e) \in Media /\ Tested(a, Merged(e), hosts)
BY DEF EntryOK, Merged, Entry

LEMMA SettingUpOK ==
    ASSUME NEW a, NEW e, NEW hosts, EntryOK(a, e, hosts), NEW n \in Nat
    PROVE  EntryOK(a, SettingUp([e EXCEPT !.pending = n]), hosts)
<1> DEFINE d == [e EXCEPT !.pending = n]
<1>1. e \in Entry
  BY DEF EntryOK
<1>2. Merged(d) = Merged(e)
  BY <1>1 DEF Merged, Entry
<1>3. SettingUp(d) = [d EXCEPT !.state = "setup", !.used = Merged(e), !.missed = FALSE]
  BY <1>2 DEF SettingUp
<1>m. Merged(e) \in Media /\ Tested(a, Merged(e), hosts)
  BY MergedTested
<1>4. SettingUp(d) \in Entry
  BY <1>1, <1>3, <1>m DEF Entry
<1>5. /\ SettingUp(d).used = Merged(e)
      /\ SettingUp(d).model = e.model /\ SettingUp(d).media = e.media
      /\ SettingUp(d).options = e.options
      /\ SettingUp(d).reloads = e.reloads /\ SettingUp(d).saves = e.saves
  BY <1>1, <1>3 DEF Entry
<1>6. Merged(SettingUp(d)) = Merged(e)
  BY <1>5 DEF Merged
<1> HIDE DEF d
<1>7. EntryOK(a, SettingUp(d), hosts)
  BY <1>4, <1>5, <1>6, <1>m DEF EntryOK
<1> QED BY <1>7 DEF d

LEMMA StateOK ==
    ASSUME NEW a, NEW e, NEW hosts, EntryOK(a, e, hosts), NEW s \in {"setup", "loaded", "retry"}
    PROVE  EntryOK(a, [e EXCEPT !.state = s], hosts)
<1> DEFINE d == [e EXCEPT !.state = s]
<1>1. e \in Entry
  BY DEF EntryOK
<1>2. d \in Entry
  BY <1>1 DEF Entry
<1>3. /\ d.model = e.model /\ d.media = e.media /\ d.options = e.options /\ d.used = e.used
      /\ d.pending = e.pending /\ d.reloads = e.reloads /\ d.saves = e.saves
      /\ d.missed = e.missed
  BY <1>1 DEF Entry
<1>4. Merged(d) = Merged(e)
  BY <1>3 DEF Merged
<1> HIDE DEF d
<1>5. EntryOK(a, d, hosts)
  BY <1>2, <1>3, <1>4 DEF EntryOK
<1> QED BY <1>5 DEF d

\* An update with the same values as the one before changes nothing, so the two
\* of a save reload the entry at most once.
LEMMA UpdatedTwice ==
    ASSUME NEW e \in Entry, NEW model \in Models, NEW options \in Media
    PROVE  Updated(Updated(e, model, options), model, options) = Updated(e, model, options)
<1> DEFINE new == [e EXCEPT !.model = model, !.options = options]
           up == Updated(e, model, options)
<1>1. new \in Entry /\ new.model = model /\ new.options = options
  BY DEF Entry
<1>2. up = IF new = e THEN e
           ELSE IF e.state = "loaded" THEN [new EXCEPT !.pending = @ + 1, !.reloads = @ + 1]
           ELSE [new EXCEPT !.missed = TRUE]
  BY DEF Updated
<1>3. up \in Entry /\ up.model = model /\ up.options = options
  <2> HIDE DEF new, up
  <2>1. CASE new = e
    BY <1>1, <1>2, <2>1
  <2>2. CASE new # e /\ e.state = "loaded"
    <3>1. up = [new EXCEPT !.pending = @ + 1, !.reloads = @ + 1]
      BY <1>2, <2>2
    <3>2. new.pending + 1 \in Nat /\ new.reloads + 1 \in Nat
      BY <1>1 DEF Entry
    <3> QED BY <1>1, <3>1, <3>2 DEF Entry
  <2>3. CASE new # e /\ e.state # "loaded"
    <3>1. up = [new EXCEPT !.missed = TRUE]
      BY <1>2, <2>3
    <3>2. [new EXCEPT !.missed = TRUE] \in Entry
      BY <1>1 DEF Entry
    <3>3. up.model = model /\ up.options = options
      BY <1>1, <3>1 DEF Entry
    <3> QED BY <3>1, <3>2, <3>3
  <2> QED BY <2>1, <2>2, <2>3
<1>4. [up EXCEPT !.model = model, !.options = options] = up
  <2> HIDE DEF up
  <2> QED BY <1>3 DEF Entry
<1> HIDE DEF up
<1>5. Updated(up, model, options) = up
  BY <1>4 DEF Updated
<1> QED BY <1>5 DEF up

LEMMA SavedOK ==
    ASSUME NEW a \in Address, NEW e, NEW hosts, EntryOK(a, e, hosts),
           NEW model \in ModelsOf(a), NEW options \in Media, Tested(a, options, hosts)
    PROVE  EntryOK(a, Saved(e, model, options), hosts)
<1> DEFINE new == [e EXCEPT !.model = model, !.options = options]
           up == Updated(e, model, options)
           d == [up EXCEPT !.saves = @ + 1]
<1>1. e \in Entry /\ model \in Models
  BY AddressAssumption DEF EntryOK, ModelsOf, Models
<1>2. Saved(e, model, options) = d
  BY <1>1, UpdatedTwice DEF Saved
<1>3. /\ new \in Entry /\ new.model = model /\ new.options = options
      /\ new.media = e.media /\ new.used = e.used /\ new.pending = e.pending
      /\ new.reloads = e.reloads /\ new.saves = e.saves /\ new.missed = e.missed
  BY <1>1 DEF Entry
<1>4. up = IF new = e THEN e
           ELSE IF e.state = "loaded" THEN [new EXCEPT !.pending = @ + 1, !.reloads = @ + 1]
           ELSE [new EXCEPT !.missed = TRUE]
  BY DEF Updated
<1>5. /\ e.pending \in Nat /\ e.reloads \in Nat /\ e.saves \in Nat /\ e.missed \in BOOLEAN
      /\ e.reloads <= e.saves
  BY <1>1 DEF Entry, EntryOK
<1> HIDE DEF new
<1>6. /\ up \in Entry /\ up.model = model /\ up.options = options
      /\ up.media = e.media /\ up.used = e.used /\ up.saves = e.saves
      /\ up.reloads <= e.reloads + 1
      /\ up = e \/ up.pending = e.pending + 1 \/ up.missed
  <2>1. CASE new = e
    BY <1>1, <1>3, <1>4, <1>5, <2>1
  <2>2. CASE new # e /\ e.state = "loaded"
    <3>1. up = [new EXCEPT !.pending = @ + 1, !.reloads = @ + 1]
      BY <1>4, <2>2
    <3>2. up.pending = e.pending + 1 /\ up.reloads = e.reloads + 1
      BY <1>3, <3>1 DEF Entry
    <3>3. new.pending + 1 \in Nat /\ new.reloads + 1 \in Nat
      BY <1>3 DEF Entry
    <3>4. up \in Entry
      BY <1>3, <3>1, <3>3 DEF Entry
    <3>5. /\ up.model = model /\ up.options = options
          /\ up.media = e.media /\ up.used = e.used /\ up.saves = e.saves
      BY <1>3, <3>1 DEF Entry
    <3> QED BY <1>5, <3>2, <3>4, <3>5
  <2>3. CASE new # e /\ e.state # "loaded"
    <3>1. up = [new EXCEPT !.missed = TRUE]
      BY <1>4, <2>3
    <3>2. up \in Entry /\ up.missed
      BY <1>3, <3>1 DEF Entry
    <3>3. /\ up.model = model /\ up.options = options
          /\ up.media = e.media /\ up.used = e.used
          /\ up.saves = e.saves /\ up.reloads = e.reloads
      BY <1>3, <3>1 DEF Entry
    <3> QED BY <1>5, <3>2, <3>3
  <2> QED BY <2>1, <2>2, <2>3
<1>8. ~up.missed /\ up.pending = 0 => up = e
  BY <1>5, <1>6
<1> HIDE DEF up
<1>9. /\ d \in Entry /\ d.model = model /\ d.options = options
      /\ d.media = e.media /\ d.used = up.used /\ d.saves = e.saves + 1
      /\ d.reloads = up.reloads /\ d.pending = up.pending /\ d.missed = up.missed
  BY <1>5, <1>6 DEF Entry
<1>10. d.reloads <= d.saves
  BY <1>5, <1>6, <1>9 DEF Entry
<1>11. ~d.missed /\ d.pending = 0 => d.used = Merged(d)
  <2> SUFFICES ASSUME ~d.missed, d.pending = 0 PROVE d.used = Merged(d)
    OBVIOUS
  <2>1. up = e
    BY <1>8, <1>9
  <2>2. e.used = Merged(e)
    BY <1>9, <2>1 DEF EntryOK
  <2>3. d.media = e.media /\ d.options = e.options
    BY <1>6, <1>9, <2>1
  <2> HIDE DEF d
  <2> QED BY <1>9, <2>1, <2>2, <2>3 DEF Merged
<1> HIDE DEF d
<1>12. EntryOK(a, d, hosts)
  BY <1>6, <1>9, <1>10, <1>11 DEF EntryOK
<1> QED BY <1>2, <1>12
------------------------------------------------------------------------------
(* How the parts of the invariant survive a step. *)

LEMMA NoneIsNoEntry == None \notin Entry /\ None \notin Address
BY NoneAssumption

\* The hosts that have answered a test only become more.
LEMMA EntryStaysOK ==
    ASSUME NEW a, NEW e, NEW hosts, NEW more, hosts \subseteq more, EntryOK(a, e, hosts)
    PROVE  EntryOK(a, e, more)
BY DEF EntryOK, Tested

LEMMA FlowStaysOK ==
    ASSUME NEW s, NEW taken, NEW hosts, NEW more, hosts \subseteq more, FlowOK(s, taken, hosts)
    PROVE  FlowOK(s, taken, more)
BY DEF FlowOK, Tested

LEMMA EntriesUnchanged ==
    ASSUME EntriesInv, UNCHANGED entries, answered \subseteq answered'
    PROVE  EntriesInv' /\ Entries' = Entries
<1>1. Entries' = Entries
  BY DEF Entries
<1>2. \A a \in Entries' : EntryOK(a, entries'[a], answered')
  BY <1>1, EntryStaysOK DEF EntriesInv
<1> QED BY <1>1, <1>2 DEF EntriesInv

LEMMA EntryChanged ==
    ASSUME EntriesInv, NEW a \in Address, NEW e, EntryOK(a, e, answered'),
           entries' = [entries EXCEPT ![a] = e], answered \subseteq answered'
    PROVE  EntriesInv' /\ Entries' = Entries \cup {a}
<1>1. e \in Entry /\ e # None
  BY NoneIsNoEntry DEF EntryOK
<1>2. entries' \in [Address -> Entry \cup {None}]
  BY <1>1 DEF EntriesInv
<1>3. \A b \in Address : entries'[b] = IF b = a THEN e ELSE entries[b]
  BY DEF EntriesInv
<1>4. Entries' = Entries \cup {a}
  BY <1>1, <1>3 DEF Entries
<1>5. \A b \in Entries' : EntryOK(b, entries'[b], answered')
  BY <1>3, <1>4, EntryStaysOK DEF EntriesInv, Entries
<1> QED BY <1>2, <1>4, <1>5 DEF EntriesInv

LEMMA FlowChanged ==
    ASSUME FlowsInv, ApartInv, NEW f \in Flow, NEW s, flow' = [flow EXCEPT ![f] = s],
           FlowOK(s, Entries', answered'),
           \A g \in Flow \ {f} : FlowOK(flow[g], Entries', answered'),
           s.step = "none" \/ s.id \notin Address \/ Unclaimed(f, s.id)
    PROVE  FlowsInv' /\ ApartInv'
<1>1. s \in FlowState
  BY DEF FlowOK
<1>2. flow' \in [Flow -> FlowState]
  BY <1>1 DEF FlowsInv
<1>3. \A g \in Flow : flow'[g] = IF g = f THEN s ELSE flow[g]
  BY DEF FlowsInv
<1>4. FlowsInv'
  BY <1>2, <1>3 DEF FlowsInv
<1>5. ASSUME NEW g \in Flow, NEW h \in Flow, g # h, InProgress(g)', InProgress(h)',
             flow'[g].id \in Address
      PROVE  flow'[h].id # flow'[g].id
  <2>1. CASE g = f
    BY <1>3, <1>5, <2>1 DEF Unclaimed, InProgress
  <2>2. CASE h = f
    BY <1>3, <1>5, <2>2 DEF Unclaimed, InProgress
  <2>3. CASE g # f /\ h # f
    BY <1>3, <1>5, <2>3 DEF ApartInv, Unclaimed, InProgress
  <2> QED BY <2>1, <2>2, <2>3
<1>6. ApartInv'
  BY <1>5 DEF ApartInv, Unclaimed
<1> QED BY <1>4, <1>6

\* A step of one flow that leaves the entries alone.
LEMMA FlowAlone ==
    ASSUME IInv, NEW f \in Flow, NEW s, flow' = [flow EXCEPT ![f] = s],
           UNCHANGED <<entries, created>>, answered \subseteq answered',
           FlowOK(s, Entries, answered'),
           s.step = "none" \/ s.id \notin Address \/ Unclaimed(f, s.id)
    PROVE  IInv'
<1>1. EntriesInv' /\ Entries' = Entries
  BY EntriesUnchanged DEF IInv
<1>2. CreatedInv'
  BY <1>1 DEF IInv, CreatedInv
<1>3. \A g \in Flow : FlowOK(flow[g], Entries', answered')
  BY <1>1, FlowStaysOK DEF IInv, FlowsInv
<1>4. FlowOK(s, Entries', answered')
  BY <1>1
<1>5. FlowsInv' /\ ApartInv'
  BY <1>3, <1>4, FlowChanged DEF IInv
<1> QED BY <1>1, <1>2, <1>5 DEF IInv

\* A flow keeps its own unique id.
LEMMA KeepsId ==
    ASSUME IInv, NEW f \in Flow, InProgress(f)
    PROVE  flow[f].id \notin Address \/ Unclaimed(f, flow[f].id)
BY DEF IInv, ApartInv

LEMMA NoFlowOK ==
    ASSUME NEW taken, NEW hosts
    PROVE  FlowOK(NoFlow, taken, hosts) /\ NoFlow.step = "none" /\ NoFlow \in FlowState
<1>1. NoFlow \in FlowState
  BY DEF NoFlow, FlowState, Steps, Models, Media
<1> QED BY <1>1 DEF FlowOK, NoFlow, Checked, WithModel, OfOptions, WithMedia

\* A change of an entry that is there, beside which a flow may end.
LEMMA EntryAlone ==
    ASSUME IInv, NEW a \in Entries, NEW e, EntryOK(a, e, answered'),
           entries' = [entries EXCEPT ![a] = e],
           UNCHANGED created, answered \subseteq answered',
           flow' = flow \/ \E f \in Flow : flow' = [flow EXCEPT ![f] = NoFlow]
    PROVE  IInv'
<1>1. EntriesInv' /\ Entries' = Entries
  BY EntryChanged DEF IInv, Entries
<1>2. CreatedInv'
  BY <1>1 DEF IInv, CreatedInv
<1>3. \A g \in Flow : FlowOK(flow[g], Entries', answered')
  BY <1>1, FlowStaysOK DEF IInv, FlowsInv
<1>4. CASE flow' = flow
  BY <1>1, <1>2, <1>3, <1>4 DEF IInv, FlowsInv, ApartInv, Unclaimed, InProgress
<1>5. ASSUME NEW f \in Flow, flow' = [flow EXCEPT ![f] = NoFlow]
      PROVE  IInv'
  <2>1. FlowsInv' /\ ApartInv'
    BY <1>3, <1>5, FlowChanged, NoFlowOK DEF IInv
  <2> QED BY <1>1, <1>2, <2>1 DEF IInv
<1> QED BY <1>4, <1>5

\* The creation of an entry for a unique id that has been checked.
LEMMA CreateInv ==
    ASSUME IInv, NEW f \in Flow, flow[f].step \in Checked, NEW model \in ModelsOf(flow[f].id),
           NEW media \in Media, Tested(flow[f].id, media, answered'),
           answered \subseteq answered', CreateEntry(f, flow[f].id, model, media)
    PROVE  IInv'
<1> DEFINE a == flow[f].id
<1>1. a \in Address /\ a \notin Entries
  BY DEF IInv, FlowsInv, FlowOK
<1>2. EntriesInv' /\ Entries' = Entries \cup {a}
  <2>1. EntryOK(a, NewEntry(model, media), answered')
    BY <1>1, NewEntryOK
  <2> QED BY <1>1, <2>1, EntryChanged DEF IInv, CreateEntry
<1>3. CreatedInv'
  BY <1>1, <1>2 DEF IInv, CreatedInv, CreateEntry
<1>4. ASSUME NEW g \in Flow \ {f}
      PROVE  FlowOK(flow[g], Entries', answered')
  <2>1. InProgress(f)
    BY DEF Checked, InProgress
  <2>2. Unclaimed(f, a)
    BY <1>1, <2>1, KeepsId
  <2>3. FlowOK(flow[g], Entries, answered')
    BY FlowStaysOK DEF IInv, FlowsInv
  <2>4. flow[g].step \in Checked => flow[g].id # a
    BY <2>2 DEF Unclaimed, InProgress, Checked
  <2> QED BY <1>2, <2>3, <2>4 DEF FlowOK
<1>5. FlowsInv' /\ ApartInv'
  BY <1>4, FlowChanged, NoFlowOK DEF IInv, CreateEntry
<1> QED BY <1>2, <1>3, <1>5 DEF IInv
------------------------------------------------------------------------------
(* The steps. *)

LEMMA InitInv == Init => IInv
<1> SUFFICES ASSUME Init PROVE IInv
  OBVIOUS
<1>1. Entries = {}
  BY DEF Init, Entries
<1>2. FlowsInv
  BY NoFlowOK DEF Init, FlowsInv
<1>3. ApartInv
  BY DEF Init, ApartInv, InProgress, NoFlow
<1>4. EntriesInv
  BY <1>1 DEF Init, EntriesInv
<1>5. CreatedInv
  BY <1>1 DEF Init, CreatedInv
<1> QED BY <1>2, <1>3, <1>4, <1>5 DEF IInv

\* A step of the flow f, which is in progress, to the state s with its own
\* unique id.
LEMMA FlowGoesOn ==
    ASSUME IInv, NEW f \in Flow, InProgress(f), NEW s, s.id = flow[f].id,
           flow' = [flow EXCEPT ![f] = s], UNCHANGED <<entries, created>>,
           answered \subseteq answered', FlowOK(s, Entries, answered')
    PROVE  IInv'
BY KeepsId, FlowAlone

LEMMA FlowEnds ==
    ASSUME IInv, NEW f \in Flow, flow' = [flow EXCEPT ![f] = NoFlow],
           UNCHANGED <<entries, created>>, answered \subseteq answered'
    PROVE  IInv'
BY NoFlowOK, FlowAlone

LEMMA StartInv ==
    ASSUME IInv, NEW f \in Flow, NEW s, Start(f, s), s.id = None, FlowOK(s, Entries, answered)
    PROVE  IInv'
BY FlowAlone, NoneIsNoEntry DEF Start

LEMMA DatagramInv ==
    ASSUME IInv, NEW f \in Flow, NEW h \in Host, DatagramReceived(f, h)
    PROVE  IInv'
<1> DEFINE s == [flow[f] EXCEPT !.found = @ \cup {h}]
<1>1. flow[f] \in FlowState /\ FlowOK(flow[f], Entries, answered)
  BY DEF IInv, FlowsInv
<1>2. s \in FlowState /\ s.step = flow[f].step /\ s.id = flow[f].id
      /\ s.model = flow[f].model /\ s.entry = flow[f].entry /\ s.media = flow[f].media
  BY <1>1 DEF FlowState
<1>3. flow' = [flow EXCEPT ![f] = s] /\ UNCHANGED <<entries, created, answered>>
  BY DEF DatagramReceived
<1>4. InProgress(f)
  BY DEF DatagramReceived, Discovering, InProgress
<1> HIDE DEF s
<1>5. FlowOK(s, Entries, answered)
  BY <1>1, <1>2 DEF FlowOK
<1> QED BY <1>2, <1>3, <1>4, <1>5, FlowGoesOn

LEMMA ModelForInv ==
    ASSUME NEW f \in Flow, NEW a \in Address
    PROVE  _model_for(f, HostOf[a]) \in ModelsOf(a) /\ _model_for(f, HostOf[a]) \in Models
BY AddressAssumption DEF _model_for, ModelsOf, Models

LEMMA StepUserInv == ASSUME IInv, NEW f \in Flow, StepUser(f) PROVE IInv'
<1> DEFINE s == [NoFlow EXCEPT !.step = "discovering",
                               !.configured = {HostOf[a] : a \in Entries}]
<1>1. {HostOf[a] : a \in Entries} \in SUBSET Host
  BY AddressAssumption DEF Entries
<1>2. s \in FlowState /\ s.step = "discovering" /\ s.id = None
  BY <1>1 DEF NoFlow, FlowState, Steps, Models, Media
<1>3. Start(f, s)
  BY DEF StepUser
<1> HIDE DEF s
<1>4. FlowOK(s, Entries, answered)
  BY <1>2 DEF FlowOK, Checked, WithModel, OfOptions, WithMedia
<1> QED BY <1>2, <1>3, <1>4, StartInv

\* The steps of a config flow that neither check a unique id nor make an entry.
LEMMA FormInv ==
    ASSUME IInv, NEW f \in Flow, NEW s \in FlowState, InProgress(f), s.id = flow[f].id,
           s.step \in {"pick", "manual"}, Step(f, s)
    PROVE  IInv'
<1>1. FlowOK(s, Entries, answered)
  BY DEF FlowOK, Checked, WithModel, OfOptions, WithMedia
<1> QED BY <1>1, FlowGoesOn DEF Step

LEMMA DiscoveredInv == ASSUME IInv, NEW f \in Flow, StepUserDiscovered(f) PROVE IInv'
<1> DEFINE found == flow[f].found \ flow[f].configured
           s == [flow[f] EXCEPT !.found = found, !.configured = {},
                                !.step = IF found # {} THEN "pick" ELSE "manual"]
<1>1. flow[f] \in FlowState
  BY DEF IInv, FlowsInv
<1>2. found \in SUBSET Host
  BY <1>1 DEF FlowState
<1>3. Step(f, s) /\ InProgress(f)
  BY DEF StepUserDiscovered, InProgress
<1> HIDE DEF found
<1>4. s \in FlowState /\ s.id = flow[f].id /\ s.step \in {"pick", "manual"}
  BY <1>1, <1>2 DEF FlowState, Steps
<1> HIDE DEF s
<1> QED BY <1>3, <1>4, FormInv

LEMMA StepPickInv == ASSUME IInv, NEW f \in Flow, StepPick(f) PROVE IInv'
<1>1. PICK choice \in flow[f].found \cup {None} :
        Step(f, [flow[f] EXCEPT !.selected = choice, !.step = "manual"])
  BY DEF StepPick
<1> DEFINE s == [flow[f] EXCEPT !.selected = choice, !.step = "manual"]
<1>2. flow[f] \in FlowState /\ InProgress(f)
  BY DEF IInv, FlowsInv, StepPick, InProgress
<1>3. choice \in Host \cup {None}
  BY <1>2 DEF FlowState
<1>4. s \in FlowState /\ s.id = flow[f].id /\ s.step = "manual"
  BY <1>2, <1>3 DEF FlowState, Steps
<1> HIDE DEF s
<1>5. Step(f, s)
  BY <1>1 DEF s
<1> QED BY <1>2, <1>4, <1>5, FormInv

\* The check of the unique id.
LEMMA StepManualInv == ASSUME IInv, NEW f \in Flow, StepManual(f) PROVE IInv'
<1>1. PICK a \in Address, media \in {"none", "icmp"} :
        Step(f, IF Aborts(f, a) THEN NoFlow
                ELSE [flow[f] EXCEPT !.step = "testing", !.id = a, !.media = media])
  BY DEF StepManual
<1>2. CASE Aborts(f, a)
  BY <1>1, <1>2, FlowEnds DEF Step
<1>3. CASE ~Aborts(f, a)
  <2> DEFINE s == [flow[f] EXCEPT !.step = "testing", !.id = a, !.media = media]
  <2>1. flow[f] \in FlowState
    BY DEF IInv, FlowsInv
  <2>2. media \in Media \cup {"icmp"}
    BY DEF Media
  <2>3. s \in FlowState /\ s.step = "testing" /\ s.id = a
    BY <2>1, <2>2 DEF FlowState, Steps
  <2>4. a \notin Entries /\ Unclaimed(f, a)
    BY <1>3 DEF Aborts, Unclaimed
  <2>5. Step(f, s)
    BY <1>1, <1>3
  <2> HIDE DEF s
  <2>6. FlowOK(s, Entries, answered)
    BY <2>3, <2>4 DEF FlowOK, Checked, WithModel, OfOptions, WithMedia
  <2> QED BY <2>3, <2>4, <2>5, <2>6, FlowAlone DEF Step
<1> QED BY <1>2, <1>3

LEMMA ProjectorTestedInv == ASSUME IInv, NEW f \in Flow, ProjectorTested(f) PROVE IInv'
<1> DEFINE a == flow[f].id
           model == _model_for(f, HostOf[a])
<1>1. flow[f] \in FlowState /\ FlowOK(flow[f], Entries, answered)
  BY DEF IInv, FlowsInv
<1>2. flow[f].step = "testing" /\ InProgress(f) /\ a \in Address \ Entries
  BY <1>1 DEF ProjectorTested, InProgress, FlowOK, Checked
<1>3. model \in ModelsOf(a) /\ model \in Models
  BY <1>2, ModelForInv
<1> HIDE DEF model
<1>4. CASE Step(f, [flow[f] EXCEPT !.step = "manual"])
  <2> DEFINE s == [flow[f] EXCEPT !.step = "manual"]
  <2>1. s \in FlowState /\ s.id = flow[f].id /\ s.step = "manual"
    BY <1>1 DEF FlowState, Steps
  <2> QED BY <1>2, <1>4, <2>1, FormInv
<1>5. CASE Step(f, [flow[f] EXCEPT !.step = "media_block", !.model = model])
  <2> DEFINE s == [flow[f] EXCEPT !.step = "media_block", !.model = model]
  <2>1. s \in FlowState /\ s.id = a /\ s.step = "media_block" /\ s.model = model
    BY <1>1, <1>3 DEF FlowState, Steps
  <2>2. Step(f, s)
    BY <1>5
  <2> HIDE DEF s
  <2>3. FlowOK(s, Entries, answered)
    BY <1>2, <1>3, <2>1 DEF FlowOK, Checked, WithModel, OfOptions, WithMedia
  <2> QED BY <1>2, <2>1, <2>2, <2>3, FlowGoesOn DEF Step
<1>6. CASE CreateEntry(f, a, model, "none") /\ UNCHANGED <<answered, started>>
  <2>1. flow[f].step \in Checked /\ "none" \in Media /\ Tested(a, "none", answered')
    BY <1>2 DEF Checked, Media, Tested
  <2> QED BY <1>3, <1>6, <2>1, CreateInv
<1>7. \/ Step(f, [flow[f] EXCEPT !.step = "manual"])
      \/ Step(f, [flow[f] EXCEPT !.step = "media_block", !.model = model])
      \/ CreateEntry(f, a, model, "none") /\ UNCHANGED <<answered, started>>
  BY DEF ProjectorTested, model
<1> QED BY <1>4, <1>5, <1>6, <1>7

LEMMA StepMediaBlockInv == ASSUME IInv, NEW f \in Flow, StepMediaBlock(f) PROVE IInv'
<1>1. PICK media \in Media \ {"none"} :
        Step(f, [flow[f] EXCEPT !.step = "testing_icmp", !.media = media])
  BY DEF StepMediaBlock
<1> DEFINE s == [flow[f] EXCEPT !.step = "testing_icmp", !.media = media]
<1>2. flow[f] \in FlowState /\ FlowOK(flow[f], Entries, answered)
  BY DEF IInv, FlowsInv
<1>3. flow[f].step = "media_block" /\ InProgress(f)
  BY DEF StepMediaBlock, InProgress
<1>4. s \in FlowState /\ s.step = "testing_icmp" /\ s.id = flow[f].id
      /\ s.model = flow[f].model /\ s.media = media
  BY <1>2 DEF FlowState, Steps
<1> HIDE DEF s
<1>5. FlowOK(s, Entries, answered)
  BY <1>2, <1>3, <1>4 DEF FlowOK, Checked, WithModel, OfOptions, WithMedia
<1> QED BY <1>1, <1>3, <1>4, <1>5, FlowGoesOn DEF Step, s

LEMMA IcmpTestedInv == ASSUME IInv, NEW f \in Flow, IcmpTested(f) PROVE IInv'
<1>1. flow[f] \in FlowState /\ FlowOK(flow[f], Entries, answered)
  BY DEF IInv, FlowsInv
<1>2. flow[f].step = "testing_icmp" /\ InProgress(f)
  BY DEF IcmpTested, InProgress
<1>3. CASE Step(f, [flow[f] EXCEPT !.step = "media_block"])
  <2> DEFINE s == [flow[f] EXCEPT !.step = "media_block"]
  <2>1. s \in FlowState /\ s.step = "media_block" /\ s.id = flow[f].id
        /\ s.model = flow[f].model
    BY <1>1 DEF FlowState, Steps
  <2>2. Step(f, s)
    BY <1>3
  <2> HIDE DEF s
  <2>3. FlowOK(s, Entries, answered)
    BY <1>1, <1>2, <2>1 DEF FlowOK, Checked, WithModel, OfOptions, WithMedia
  <2> QED BY <1>2, <2>1, <2>2, <2>3, FlowGoesOn DEF Step
<1>4. CASE /\ answered' = answered \cup {TestedHost(flow[f].id, flow[f].media)}
           /\ CreateEntry(f, flow[f].id, flow[f].model, flow[f].media)
  <2>1. flow[f].step \in Checked /\ flow[f].model \in ModelsOf(flow[f].id)
        /\ flow[f].media \in Media
    BY <1>1, <1>2 DEF FlowOK, Checked, WithModel, WithMedia
  <2>2. Tested(flow[f].id, flow[f].media, answered')
    BY <1>4 DEF Tested, TestedHost
  <2> QED BY <1>4, <2>1, <2>2, CreateInv
<1> QED BY <1>3, <1>4 DEF IcmpTested

LEMMA OpenOptionsInv ==
    ASSUME IInv, NEW f \in Flow, NEW a \in Address, OpenOptions(f, a)
    PROVE  IInv'
<1> DEFINE s == [NoFlow EXCEPT !.step = "init", !.entry = a]
<1>1. s \in FlowState /\ s.step = "init" /\ s.id = None /\ s.entry = a
  BY DEF NoFlow, FlowState, Steps, Models, Media
<1>2. Start(f, s) /\ a \in Entries
  BY DEF OpenOptions
<1> HIDE DEF s
<1>3. FlowOK(s, Entries, answered)
  BY <1>1, <1>2 DEF FlowOK, Checked, WithModel, OfOptions, WithMedia
<1> QED BY <1>1, <1>2, <1>3, StartInv

\* A save of the options, with which the flow ends.
LEMMA SaveInv ==
    ASSUME IInv, NEW f \in Flow, NEW a \in Entries, NEW model \in ModelsOf(a),
           NEW media \in Media, Tested(a, media, answered'), answered \subseteq answered',
           entries' = [entries EXCEPT ![a] = Saved(@, model, media)],
           flow' = [flow EXCEPT ![f] = NoFlow], UNCHANGED created
    PROVE  IInv'
<1>1. EntryOK(a, entries[a], answered')
  BY EntryStaysOK DEF IInv, EntriesInv
<1>2. EntryOK(a, Saved(entries[a], model, media), answered')
  BY <1>1, SavedOK DEF Entries
<1> QED BY <1>2, EntryAlone

LEMMA FillInInv ==
    ASSUME IInv, NEW f \in Flow, flow[f].step \in OfOptions, NEW media \in Media,
           Tested(flow[f].entry, media, answered'), answered \subseteq answered',
           FillInModel(f, media), UNCHANGED created
    PROVE  IInv'
<1> DEFINE a == flow[f].entry
<1>1. flow[f] \in FlowState /\ a \in Entries /\ InProgress(f)
  BY DEF IInv, FlowsInv, FlowOK, OfOptions, InProgress
<1>2. CASE entries[a].model # None
  <2>1. entries[a].model \in ModelsOf(a)
    BY <1>1 DEF IInv, EntriesInv, EntryOK
  <2>2. /\ entries' = [entries EXCEPT ![a] = Saved(@, entries[a].model, media)]
        /\ flow' = [flow EXCEPT ![f] = NoFlow]
    BY <1>2 DEF FillInModel
  <2> QED BY <1>1, <2>1, <2>2, SaveInv
<1>3. CASE entries[a].model = None
  <2> DEFINE s == [flow[f] EXCEPT !.step = "model", !.media = media]
  <2>1. s \in FlowState /\ s.step = "model" /\ s.id = flow[f].id /\ s.entry = a
        /\ s.media = media
    BY <1>1 DEF FlowState, Steps
  <2>2. flow' = [flow EXCEPT ![f] = s] /\ UNCHANGED entries
    BY <1>3 DEF FillInModel
  <2> HIDE DEF s
  <2>3. FlowOK(s, Entries, answered')
    BY <1>1, <2>1 DEF FlowOK, Checked, WithModel, OfOptions, WithMedia
  <2> QED BY <1>1, <2>1, <2>2, <2>3, FlowGoesOn
<1> QED BY <1>2, <1>3

LEMMA StepInitInv == ASSUME IInv, NEW f \in Flow, StepInit(f) PROVE IInv'
<1>1. flow[f].step = "init" /\ flow[f].step \in OfOptions /\ InProgress(f)
  BY DEF StepInit, OfOptions, InProgress
<1>2. CASE FillInModel(f, "none") /\ UNCHANGED <<created, answered, started>>
  <2>1. "none" \in Media /\ Tested(flow[f].entry, "none", answered')
    BY DEF Media, Tested
  <2> QED BY <1>1, <1>2, <2>1, FillInInv
<1>3. ASSUME NEW media \in Media \ {"none"},
             Step(f, [flow[f] EXCEPT !.step = "init_icmp", !.media = media])
      PROVE  IInv'
  <2> DEFINE s == [flow[f] EXCEPT !.step = "init_icmp", !.media = media]
  <2>1. flow[f] \in FlowState /\ FlowOK(flow[f], Entries, answered)
    BY DEF IInv, FlowsInv
  <2>2. s \in FlowState /\ s.step = "init_icmp" /\ s.id = flow[f].id
        /\ s.entry = flow[f].entry /\ s.media = media
    BY <2>1 DEF FlowState, Steps
  <2>3. Step(f, s)
    BY <1>3
  <2> HIDE DEF s
  <2>4. FlowOK(s, Entries, answered)
    BY <1>1, <2>1, <2>2 DEF FlowOK, Checked, WithModel, OfOptions, WithMedia
  <2> QED BY <1>1, <2>2, <2>3, <2>4, FlowGoesOn DEF Step
<1> QED BY <1>2, <1>3 DEF StepInit

LEMMA OptionsTestedInv == ASSUME IInv, NEW f \in Flow, OptionsTested(f) PROVE IInv'
<1>1. flow[f] \in FlowState /\ FlowOK(flow[f], Entries, answered)
  BY DEF IInv, FlowsInv
<1>2. flow[f].step = "init_icmp" /\ flow[f].step \in OfOptions /\ InProgress(f)
  BY DEF OptionsTested, OfOptions, InProgress
<1>3. CASE Step(f, [flow[f] EXCEPT !.step = "init"])
  <2> DEFINE s == [flow[f] EXCEPT !.step = "init"]
  <2>1. s \in FlowState /\ s.step = "init" /\ s.id = flow[f].id /\ s.entry = flow[f].entry
    BY <1>1 DEF FlowState, Steps
  <2>2. Step(f, s)
    BY <1>3
  <2> HIDE DEF s
  <2>3. FlowOK(s, Entries, answered)
    BY <1>1, <1>2, <2>1 DEF FlowOK, Checked, WithModel, OfOptions, WithMedia
  <2> QED BY <1>2, <2>1, <2>2, <2>3, FlowGoesOn DEF Step
<1>4. CASE /\ answered' = answered \cup {TestedHost(flow[f].entry, flow[f].media)}
           /\ FillInModel(f, flow[f].media)
           /\ UNCHANGED <<created, started>>
  <2>1. flow[f].media \in Media
    BY <1>1, <1>2 DEF FlowOK, WithMedia
  <2>2. Tested(flow[f].entry, flow[f].media, answered')
    BY <1>4 DEF Tested, TestedHost
  <2> QED BY <1>2, <1>4, <2>1, <2>2, FillInInv
<1> QED BY <1>3, <1>4 DEF OptionsTested

LEMMA ModelLookedUpInv == ASSUME IInv, NEW f \in Flow, ModelLookedUp(f) PROVE IInv'
<1> DEFINE a == flow[f].entry
           found == _model_for(f, HostOf[a])
           model == IF found = None THEN entries[a].model ELSE found
<1>1. flow[f].step = "model" /\ FlowOK(flow[f], Entries, answered)
  BY DEF ModelLookedUp, IInv, FlowsInv
<1>2. a \in Entries /\ a \in Address /\ flow[f].media \in Media
      /\ Tested(a, flow[f].media, answered)
  BY <1>1 DEF FlowOK, OfOptions, WithMedia, Entries
<1>3. found \in ModelsOf(a) /\ entries[a].model \in ModelsOf(a)
  BY <1>2, ModelForInv DEF IInv, EntriesInv, EntryOK
<1> HIDE DEF found
<1>4. model \in ModelsOf(a)
  BY <1>3
<1>5. /\ entries' = [entries EXCEPT ![a] = Saved(@, model, flow[f].media)]
      /\ flow' = [flow EXCEPT ![f] = NoFlow] /\ UNCHANGED <<created, answered>>
  BY DEF ModelLookedUp, found
<1> HIDE DEF model
<1> QED BY <1>2, <1>4, <1>5, SaveInv

\* A step of the set-up of an entry.
LEMMA SetUpStepInv ==
    ASSUME IInv, NEW a \in Address, NEW from, NEW e, SetUpStep(a, from, e),
           EntryOK(a, entries[a], answered) => EntryOK(a, e, answered)
    PROVE  IInv'
<1>1. a \in Entries /\ EntryOK(a, e, answered)
  BY DEF SetUpStep, IInv, EntriesInv
<1> QED BY <1>1, EntryAlone DEF SetUpStep

LEMMA EntryStepInv == ASSUME IInv, NEW a \in Address, EntryStep(a) PROVE IInv'
<1> DEFINE e == entries[a]
           ok == EntryOK(a, e, answered)
<1>1. CASE SetUpDone(a)
  <2>1. ok => EntryOK(a, [e EXCEPT !.state = "loaded"], answered)
    BY StateOK
  <2> QED BY <1>1, <2>1, SetUpStepInv DEF SetUpDone
<1>2. CASE NotReady(a)
  <2>1. ok => EntryOK(a, [e EXCEPT !.state = "retry"], answered)
    BY StateOK
  <2> QED BY <1>2, <2>1, SetUpStepInv DEF NotReady
<1>3. CASE Retry(a)
  <2>1. ASSUME ok PROVE e.pending \in Nat /\ [e EXCEPT !.pending = e.pending] = e
    BY <2>1 DEF EntryOK, Entry
  <2>2. ok => EntryOK(a, SettingUp([e EXCEPT !.pending = e.pending]), answered)
    BY <2>1, SettingUpOK
  <2>3. ok => EntryOK(a, SettingUp(e), answered)
    BY <2>1, <2>2
  <2> QED BY <1>3, <2>3, SetUpStepInv DEF Retry
<1>4. CASE Reload(a)
  <2>1. e.pending > 0 /\ SetUpStep(a, {"loaded", "retry"},
                                   SettingUp([e EXCEPT !.pending = @ - 1]))
    BY <1>4 DEF Reload
  <2>2. ok => e.pending - 1 \in Nat
    BY <2>1 DEF EntryOK, Entry
  <2>3. ok => EntryOK(a, SettingUp([e EXCEPT !.pending = @ - 1]), answered)
    BY <2>2, SettingUpOK
  <2> QED BY <2>1, <2>3, SetUpStepInv
<1> QED BY <1>1, <1>2, <1>3, <1>4 DEF EntryStep

LEMMA RestartInv == ASSUME IInv, Restart PROVE IInv'
<1> DEFINE new(a) == SettingUp([entries[a] EXCEPT !.pending = 0])
<1>1. \A a \in Entries : EntryOK(a, new(a), answered)
  BY SettingUpOK DEF IInv, EntriesInv
<1>2. \A a \in Entries : new(a) \in Entry /\ new(a) # None
  BY <1>1, NoneIsNoEntry DEF EntryOK
<1>3. entries' = [a \in Address |-> IF entries[a] = None THEN None ELSE new(a)]
  BY DEF Restart
<1> HIDE DEF new
<1>4. Entries' = Entries
  BY <1>2, <1>3 DEF Entries
<1>5. entries' \in [Address -> Entry \cup {None}]
  BY <1>2, <1>3 DEF Entries
<1>6. \A a \in Entries' : EntryOK(a, entries'[a], answered')
  BY <1>1, <1>3, <1>4 DEF Restart, Entries
<1>7. EntriesInv'
  BY <1>5, <1>6 DEF EntriesInv
<1>8. CreatedInv'
  BY <1>4 DEF IInv, CreatedInv, Restart
<1>9. FlowsInv'
  BY NoFlowOK DEF Restart, FlowsInv
<1>10. ApartInv'
  BY DEF Restart, ApartInv, InProgress, NoFlow
<1> QED BY <1>7, <1>8, <1>9, <1>10 DEF IInv

LEMMA StepInv == IInv /\ [Next]_vars => IInv'
<1> SUFFICES ASSUME IInv, [Next]_vars PROVE IInv'
  OBVIOUS
<1>1. ASSUME NEW f \in Flow, ConfigStep(f) PROVE IInv'
  BY <1>1, StepUserInv, DiscoveredInv, StepPickInv, StepManualInv, ProjectorTestedInv,
     StepMediaBlockInv, IcmpTestedInv DEF ConfigStep
<1>2. ASSUME NEW f \in Flow, OptionsStep(f) PROVE IInv'
  BY <1>2, OpenOptionsInv, StepInitInv, OptionsTestedInv, ModelLookedUpInv DEF OptionsStep
<1>3. ASSUME NEW f \in Flow, NEW h \in Host, DatagramReceived(f, h) PROVE IInv'
  BY <1>3, DatagramInv
<1>4. ASSUME NEW f \in Flow, Close(f) PROVE IInv'
  BY <1>4, FlowEnds DEF Close, Step
<1>5. ASSUME NEW a \in Address, EntryStep(a) PROVE IInv'
  BY <1>5, EntryStepInv
<1>6. CASE Restart
  BY <1>6, RestartInv
<1>7. CASE UNCHANGED vars
  BY <1>7 DEF vars, IInv, FlowsInv, ApartInv, EntriesInv, CreatedInv, Unclaimed,
              InProgress, Entries
<1> QED BY <1>1, <1>2, <1>3, <1>4, <1>5, <1>6, <1>7 DEF Next

LEMMA Invariance == Spec => []IInv
BY InitInv, StepInv, PTL DEF Spec
------------------------------------------------------------------------------
(* The theorems. *)

\* However many flows overlap, none makes a second entry for an address.
THEOREM OneEntry == Spec => []OneEntryPerAddress
<1>1. IInv => OneEntryPerAddress
  BY DEF IInv, CreatedInv, OneEntryPerAddress
<1> QED BY <1>1, Invariance, PTL

\* No entry has the model of another projector.
THEOREM OwnModel == Spec => []ModelIsOfItsHost
<1>1. IInv => ModelIsOfItsHost
  BY DEF IInv, EntriesInv, EntryOK, ModelsOf, ModelIsOfItsHost
<1> QED BY <1>1, Invariance, PTL

\* The media block an entry goes by has answered a test.
THEOREM MediaBlockTested == Spec => []MediaBlockAnswered
<1>1. IInv => MediaBlockAnswered
  BY DEF IInv, EntriesInv, EntryOK, Tested, MediaBlockAnswered
<1> QED BY <1>1, Invariance, PTL

\* A save never reloads its entry twice.
THEOREM OneReload == Spec => []ReloadsOncePerSave
<1>1. IInv => ReloadsOncePerSave
  BY DEF IInv, EntriesInv, EntryOK, ReloadsOncePerSave
<1> QED BY <1>1, Invariance, PTL

\* A loaded entry goes by the options that were saved last, unless they were
\* saved during its set-up.
THEOREM SavedOptionsInUse == Spec => []OptionsInUseUnlessMissed
<1>1. IInv => OptionsInUseUnlessMissed
  BY DEF IInv, EntriesInv, EntryOK, Merged, OptionsInUseUnlessMissed
<1> QED BY <1>1, Invariance, PTL
==============================================================================
