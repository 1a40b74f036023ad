----------------------------- MODULE Workspace -----------------------------
(***************************************************************************)
(* The views in the device tabs and the settings they are saved to.  A tab *)
(* saves its views when it is closed, under an id that outlives the device *)
(* and the program; the next tab for that id restores them, as far as what *)
(* they show is there by then.  This is on top of SessionDevices, which    *)
(* has the devices and the tabs.                                           *)
(*                                                                         *)
(* A device has one configurable with a property, and one channel, with a  *)
(* signal from the first sample on.                                        *)
(***************************************************************************)
EXTENDS SessionDevices, Sequences, SequencesExt

CONSTANTS
  SourceSinkSerials, (* of devices with signals before the first sample    *)
  Kinds,        (* bound: the kinds of views the user adds                 *)
  MaxViews,     (* bound: views the user adds or closes                    *)
  MaxRestarts   (* bound: starts of the program                            *)

ASSUME WorkspaceConstantsOK == SourceSinkSerials \subseteq Serials /\ Copies \subseteq Nat

SourceSinks == {d \in Hardware : Serial(d) \in SourceSinkSerials}

VARIABLES
  views,        (* view_docks_map_ of all tabs: [tab, id, kind, of], of    *)
                (* being what the view shows, [dev, what]                  *)
  settings,     (* the groups of QSettings: [sid, views]                   *)
  received,     (* devices whose channel has its signal                    *)
  clean,        (* started with -c                                         *)
  left,         (* what the user last left in the tabs: [sid, views]       *)
  restored,     (* the tab that the last step restored, or 0               *)
  changes,      (* views added or closed so far                            *)
  restarts      (* starts of the program so far                            *)

viewVars == <<views, settings, received, clean, left, restored, changes, restarts>>
allVars  == <<vars, viewVars>>

Pairs == {"xyplot", "powerpanel"}

Of(d, what) == [dev |-> d, what |-> what]
View(tab, id, kind, of) == [tab |-> tab, id |-> id, kind |-> kind, of |-> of]
ViewsOf(n) == {v \in views : v.tab = n}

InitViews ==
  /\ views = {} /\ settings = {} /\ left = {} /\ restored = 0
  /\ received = {} /\ clean = FALSE
  /\ changes = 0 /\ restarts = 0

-----------------------------------------------------------------------------
(* Saving.                                                                 *)

(* Demo devices of one model share their settings.                         *)
SettingsId(d) == IF d \in Demos THEN <<"demo", 0>> ELSE Id(d, 1)

HasSignal(d) == d \in received \cup SourceSinks

(* Mutant: no device is stored.                                            *)
SaveRefWithoutDevice(ref, origin) == [dev |-> <<>>, what |-> ref.what]
(* The device is stored if it is not the one the tab belongs to.           *)
SaveRef(ref, origin) ==
  [dev |-> IF SettingsId(ref.dev) = SettingsId(origin) THEN <<>> ELSE <<SettingsId(ref.dev)>>,
   what |-> ref.what]

(* A panel that follows a channel saves the signal it follows just now; a  *)
(* plot that follows one saves the channel and no curves.                  *)
ShownByPanel(view) ==
  IF HasSignal(view.of[1].dev)
  THEN <<Of(view.of[1].dev, "signal")>> ELSE view.of
SaveView(view, origin) ==
  LET shown == IF view.kind = "valuepanel" THEN ShownByPanel(view) ELSE view.of
  IN  [id |-> view.id, kind |-> view.kind,
       of |-> [i \in DOMAIN shown |-> SaveRef(shown[i], origin)]]

(* A panel with neither signal nor channel dereferences its channel.       *)
CannotSave(tab) == \E v \in ViewsOf(tab.n) : v.kind = "valuepanel" /\ v.of = <<>>

Has(groups, sid) == \E g \in groups : g.sid = sid
Get(groups, sid) == (CHOOSE g \in groups : g.sid = sid).views
Put(groups, sid, saved) == {g \in groups : g.sid # sid} \cup {[sid |-> sid, views |-> saved]}

Saves(tab) == tab.dev \in Hardware \cup Demos
SaveSettings(groups, tab) ==
  IF ~Saves(tab) THEN groups
  ELSE Put(groups, SettingsId(tab.dev), {SaveView(v, tab.dev) : v \in ViewsOf(tab.n)})
Leave(groups, tab) ==
  IF ~Saves(tab) THEN groups ELSE Put(groups, SettingsId(tab.dev), ViewsOf(tab.n))

(* After the first k tabs of those that are closed                         *)
Saving(closed) ==
  LET f[k \in 0 .. Len(closed)] ==
        IF k = 0 THEN [settings |-> settings, left |-> left]
        ELSE [settings |-> SaveSettings(f[k - 1].settings, closed[k]),
              left     |-> Leave(f[k - 1].left, closed[k])]
  IN  f
CloseEvents(closed) ==
  LET saved == Saving(closed)[Len(closed)]
  IN  settings' = saved.settings /\ left' = saved.left

-----------------------------------------------------------------------------
(* Restoring.                                                              *)

(* A tab of a demo device takes everything from its own device.            *)
RestoreDevice(saved, origin) ==
  IF saved.dev = <<>> \/ origin \in Demos THEN {origin}
  ELSE {e.dev : e \in {f \in deviceMap' : f.id = saved.dev[1]}}

RestoreRef(saved, origin) ==
  {Of(d, saved.what) : d \in {x \in RestoreDevice(saved, origin) :
     saved.what = "signal" => x \in received' \cup SourceSinks}}

Found(saved, origin) ==
  FlattenSeq([i \in DOMAIN saved.of |-> SetToSeq(RestoreRef(saved.of[i], origin))])
AllFound(saved, origin) == Len(Found(saved, origin)) = Len(saved.of)

(* A control is made for its configurable or not at all; the other views   *)
(* come back, with what is there of their signals or property.             *)
InitControl(tab, saved, origin) ==
  IF AllFound(saved, origin) THEN {View(tab, saved.id, saved.kind, Found(saved, origin))} ELSE {}
RestoreTable(tab, saved, origin)    == {View(tab, saved.id, saved.kind, Found(saved, origin))}
RestoreTimePlot(tab, saved, origin) == {View(tab, saved.id, saved.kind, Found(saved, origin))}
RestorePair(tab, saved, origin) ==
  {View(tab, saved.id, saved.kind,
        IF AllFound(saved, origin) THEN Found(saved, origin) ELSE <<>>)}
RestoreSequence(tab, saved, origin) == {View(tab, saved.id, saved.kind, Found(saved, origin))}

(* A panel falls back to the channel of its signal.                        *)
RestorePanel(tab, saved, origin) ==
  LET channel(ref) == RestoreRef([ref EXCEPT !.what = "channel"], origin)
  IN  {View(tab, saved.id, saved.kind,
            IF AllFound(saved, origin) THEN Found(saved, origin)
                                       ELSE SetToSeq(channel(saved.of[1])))}

RestoreView(saved, tab, origin) ==
  CASE saved.kind = "control"        -> InitControl(tab, saved, origin)
    [] saved.kind = "data"           -> RestoreTable(tab, saved, origin)
    [] saved.kind = "timeplot"       -> RestoreTimePlot(tab, saved, origin)
    [] saved.kind \in Pairs          -> RestorePair(tab, saved, origin)
    [] saved.kind = "sequenceoutput" -> RestoreSequence(tab, saved, origin)
    [] saved.kind = "valuepanel"     -> RestorePanel(tab, saved, origin)

(* setup_ui() of the tabs, when there is nothing to restore.               *)
SourceSinkTab(tab, d) ==
  {View(tab, <<tab, 1>>, "control", <<Of(d, "configurable")>>),
   View(tab, <<tab, 2>>, "timeplot", <<Of(d, "signal")>>),
   View(tab, <<tab, 3>>, "powerpanel", <<Of(d, "signal"), Of(d, "signal")>>)}
MeasurementTab(tab, d) ==
  {View(tab, <<tab, 1>>, "control", <<Of(d, "configurable")>>),
   View(tab, <<tab, 2>>, "valuepanel", <<Of(d, "channel")>>),
   View(tab, <<tab, 3>>, "timeplot", <<Of(d, "channel")>>)}
UserTab(tab, d) == {}

TabForDevice(tab, d) ==
  CASE d \in Users       -> UserTab(tab, d)
    [] d \in SourceSinks -> SourceSinkTab(tab, d)
    [] OTHER             -> MeasurementTab(tab, d)

Restores(d) == ~clean /\ d \notin Users /\ Has(settings, SettingsId(d))

OpenViews(tab, d) ==
  /\ views' = views \cup
       (IF Restores(d)
        THEN UNION {RestoreView(saved, tab, d) : saved \in Get(settings, SettingsId(d))}
        ELSE TabForDevice(tab, d))
  /\ restored' = IF Restores(d) THEN tab ELSE 0

-----------------------------------------------------------------------------
Unseen(d) == \A v \in views : \A i \in DOMAIN v.of : v.of[i].dev # d

(* Bound: the last device that is added had a tab before, and the run ends *)
(* with it.  The objects of one serial number are taken in order.          *)
Again(d) == /\ adds + 1 = MaxAdds => Has(left, SettingsId(d))
            /\ d \in Hardware => \A c \in Copies :
                 c < d[2] => ~(Fresh(<<d[1], c>>) /\ Unseen(<<d[1], c>>))

(* The first sample comes before the tab or after it.                      *)
OpenTab(d) ==
  /\ Again(d) /\ Unseen(d) /\ AddDevice(d)
  /\ d \notin SourceSinks => \E early \in SUBSET {d} : received' = (received \ {d}) \cup early
  /\ d \in SourceSinks => UNCHANGED received
  /\ OpenViews(NewTab(tabs), d)
  /\ UNCHANGED <<settings, clean, left, changes, restarts>>

Receive(d) ==
  /\ Alive /\ d \in open \ SourceSinks /\ d \notin received
  /\ received' = received \cup {d} /\ restored' = 0
  /\ UNCHANGED <<vars, views, settings, clean, left, changes, restarts>>

ConnectOnly(d) ==
  /\ Again(d) /\ Unseen(d) /\ ScriptAdds(d)
  /\ received' = received \ {d} /\ restored' = 0
  /\ UNCHANGED <<views, settings, clean, left, changes, restarts>>

(* What the tab that goes has saved, if any goes.                          *)
Gone == tabs \ tabs'
Close ==
  /\ \A t \in Gone : ~CannotSave(t)
  /\ CloseEvents(SetToSeq(Gone))
  /\ views' = {v \in views : \A t \in Gone : v.tab # t.n} /\ restored' = 0
  /\ UNCHANGED <<received, clean, changes, restarts>>

Disconnect(d) == (DisconnectDevice(d) \/ ScriptRemoves(d)) /\ Close
CloseTabOf(t) == CloseTab(t) /\ Close

(* closeEvent() of the main window, in the order of the ids of the tabs.   *)
Quit ==
  /\ EndSession
  /\ \A t \in tabMap : ~CannotSave(t)
  /\ \E order \in SetToSeqs(tabMap) : CloseEvents(order)
  /\ views' = {} /\ restored' = 0
  /\ UNCHANGED <<received, clean, changes, restarts>>

(* The program ends where a tab cannot be saved; that QSettings may have   *)
(* written the tabs before it is left out.                                 *)
Crash ==
  /\ EndSession
  /\ \E t \in tabs : CannotSave(t)
  /\ views' = {} /\ restored' = 0
  /\ UNCHANGED <<settings, received, clean, left, changes, restarts>>

Restart ==
  /\ ended /\ restarts < MaxRestarts /\ restarts' = restarts + 1
  /\ ended' = FALSE
  /\ open' = {} /\ deviceMap' = {} /\ tree' = {}
  /\ tabs' = {WelcomeTab(1)} /\ tabMap' = tabs'
  /\ clean' \in BOOLEAN /\ received' = {} /\ restored' = 0 /\ shared' = {}
  /\ UNCHANGED <<scripted, ids, adds, views, settings, left, changes>>

-----------------------------------------------------------------------------
(* What the boxes and trees of the dialog for a new view list, for the     *)
(* devices in the map of the session.  (A user device has no configurable  *)
(* that can be controlled.)                                                *)
DeviceBox                   == {e.dev : e \in deviceMap}
ConfigurableBox(d)          == IF d \in Users THEN {} ELSE {Of(d, "configurable")}
ConfigKeyBox(configurable)  == {[configurable EXCEPT !.what = "property"]}
SelectConfigurableForm      == UNION {ConfigurableBox(d) : d \in DeviceBox}
SelectPropertyForm          == UNION {ConfigKeyBox(c) : c \in SelectConfigurableForm}
SelectSignalWidget          == {Of(d, "signal") : d \in {x \in DeviceBox : HasSignal(x)}}
CheckedChannels             == {Of(d, "channel") : d \in DeviceBox}
CheckedSignals              == {Of(d, "signal") : d \in {x \in DeviceBox : HasSignal(x)}}

(* The tabs of the dialog                                                  *)
Offer(kind, ofs) == {[kind |-> kind, of |-> of] : of \in ofs}
ControlTab    == Offer("control", {<<c>> : c \in SelectConfigurableForm})
SequenceTab   == Offer("sequenceoutput", {<<p>> : p \in SelectPropertyForm})
PanelTab      == Offer("valuepanel", {<<c>> : c \in CheckedChannels})
TimePlotTab   == Offer("timeplot", {<<r>> : r \in CheckedChannels \cup CheckedSignals})
XYPlotTab     == Offer("xyplot", SelectSignalWidget \X SelectSignalWidget)
DataTableTab  == Offer("data", {SetToSeq(s) : s \in SUBSET CheckedSignals \ {{}}})
PowerPanelTab == Offer("powerpanel", SelectSignalWidget \X SelectSignalWidget)

Accept == UNION {ControlTab, SequenceTab, PanelTab, TimePlotTab, XYPlotTab, DataTableTab,
                 PowerPanelTab}

AddView(t, offer) ==
  /\ Alive /\ t.dev # Welcome /\ changes < MaxViews /\ changes' = changes + 1
  /\ offer.kind \in Kinds
  /\ views' = views \cup {View(t.n, <<t.n, 3 + changes'>>, offer.kind, offer.of)}
  /\ restored' = 0
  /\ UNCHANGED <<vars, settings, received, clean, left, restarts>>

RemoveView(view) ==
  /\ Alive /\ changes < MaxViews /\ changes' = changes + 1
  /\ views' = views \ {view} /\ restored' = 0
  /\ UNCHANGED <<vars, settings, received, clean, left, restarts>>

WorkspaceNext ==
  /\ adds < MaxAdds
  /\ \/ \E d \in Devices : OpenTab(d) \/ ConnectOnly(d) \/ Disconnect(d) \/ Receive(d)
     \/ \E t \in tabs : CloseTabOf(t) \/ \E offer \in Accept : AddView(t, offer)
     \/ \E view \in views : RemoveView(view)
     \/ Quit \/ Crash \/ Restart

WorkspaceInit == Init /\ InitViews
WorkspaceSpec == WorkspaceInit /\ [][WorkspaceNext]_allVars

-----------------------------------------------------------------------------
Restored == CHOOSE t \in tabs : t.n = restored
Before   == Get(left, SettingsId(Restored.dev))

(* What a view of the restored tab was on is there again: the device with  *)
(* the same id, and its signal.                                            *)
Now(dev) == IF SettingsId(dev) = SettingsId(Restored.dev) THEN {Restored.dev}
            ELSE {e.dev : e \in {f \in deviceMap : f.id = SettingsId(dev)}}
There(ref) == \E d \in Now(ref.dev) : ref.what = "signal" => HasSignal(d)

SameRef(r, q) == SettingsId(r.dev) = SettingsId(q.dev) /\ r.what = q.what
Same(v, w) ==
  /\ v.id = w.id /\ v.kind = w.kind
  /\ IF v.kind = "valuepanel"
     THEN \A i \in DOMAIN v.of : SettingsId(v.of[i].dev) = SettingsId(w.of[i].dev)
     ELSE DOMAIN v.of = DOMAIN w.of /\ \A i \in DOMAIN v.of : SameRef(v.of[i], w.of[i])
Part(v, w) ==
  /\ v.id = w.id /\ v.kind = w.kind
  /\ {SettingsId(r.dev) : r \in Range(v.of)} \subseteq {SettingsId(r.dev) : r \in Range(w.of)}

(* However tabs, devices and the program come and go, and whichever device *)
(* a view was on: a restored tab of a device has only views that the user  *)
(* left in the last one, on devices with the same id, and it has all of    *)
(* them just as they were when everything they show is there.  (A tab of a *)
(* demo device takes its own channels for those of others, and other tabs  *)
(* never find a demo device; user devices all have one id.)                *)
RestoredAsLeft ==
  restored # 0 /\ Restored.dev \in Hardware =>
    /\ \A v \in ViewsOf(restored) : \E w \in Before : Part(v, w)
    /\ (\A w \in Before : \A i \in DOMAIN w.of : w.of[i].dev \in Hardware /\ There(w.of[i])) =>
         \A w \in Before : \E v \in ViewsOf(restored) : Same(v, w)
=============================================================================
