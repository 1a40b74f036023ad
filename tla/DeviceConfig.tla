----------------------------- MODULE DeviceConfig -----------------------------
(***************************************************************************)
(* The controls of a device: Configurable, its properties and the widgets  *)
(* of the control views.  A device has a configurable of its own and one   *)
(* per channel group; "owners" are the configurables that have the config  *)
(* key which is looked at, and the views are open for the first of them.   *)
(*                                                                         *)
(* The GUI thread lets the user edit widgets and handles the queued calls  *)
(* of on_value_changed().  The acquisition thread takes the meta packets   *)
(* of the device and emits value_changed, receiver by receiver.  A script  *)
(* sets the key behind the back of the properties.                         *)
(***************************************************************************)
EXTENDS DataTypeWidgets, Sequences, SequencesExt

CONSTANTS
    MaxChanges,    \* changes at the front panel of the device
    MaxPosted      \* queued calls, and changes of a device whose driver fails

VARIABLES
    key,           \* [name, type, list, init, get, set]: the property shown
    widgets,       \* the widgets of the open views, in the order of connect()
    shown,         \* per widget: what it shows
    typed,         \* per box: the value being typed, not yet sent
    owners,        \* the configurables with this key, in the order of the map
    register,      \* per owner: the value in the device
    emitting,      \* what the acquisition thread still has to post
    posted,        \* calls of on_value_changed() queued for the GUI thread
    changes,       \* changes made at the device so far
    trusted        \* history: the last news of the key came undisturbed

controlsVars == <<key, widgets, shown, typed, owners, register, emitting, posted, changes, trusted>>

First == Head(owners)

-----------------------------------------------------------------------------
(* The control views: which widgets they have for which config key, and    *)
(* the data type libsigrok gives the key.                                  *)
SourceSinkControlView ==
    {<<"Enabled", {"BoolButton"}>>, <<"Regulation", {"StringComboBox"}>>,
     <<"Range", {"StringComboBox"}>>, <<"Regulation", {"StringLed"}>>,
     <<"OverVoltageProtectionActive", {"BoolLed"}>>,
     <<"VoltageTarget", DoubleControl>>, <<"CurrentLimit", DoubleControl>>,
     <<"OverVoltageProtectionThreshold", ThresholdControl.value>>,
     <<"OverVoltageProtectionEnabled", ThresholdControl.enable>>}
DemoControlView ==
    {<<"PatternMode", {"StringComboBox"}>>, <<"Amplitude", DoubleControl>>, <<"Offset", DoubleControl>>}
MeasurementControlView ==
    {<<"MeasuredQuantity", {"MeasuredQuantityComboBox"}>>, <<"Range", {"StringComboBox"}>>,
     <<"Digits", {"StringComboBox"}>>}
ScopeHorizontalControlView ==
    {<<"Samplerate", {"UInt64Label"}>>, <<"TimeBase", {"RationalComboBox"}>>,
     <<"BufferSize", {"UInt64ComboBox"}>>, <<"Averaging", {"BoolCheckBox"}>>,
     <<"AvgSamples", {"UInt64SpinBox"}>>}
ScopeTriggerControlView ==
    {<<"TriggerSource", {"StringComboBox"}>>, <<"TriggerSlope", {"StringComboBox"}>>,
     <<"TriggerLevel", {"DoubleSpinBox"}>>, <<"HorizTriggerPos", {"DoubleSpinBox"}>>}
ScopeVerticalControlView ==
    {<<"Enabled", {"BoolCheckBox"}>>, <<"VDiv", {"RationalComboBox"}>>,
     <<"Coupling", {"StringComboBox"}>>, <<"Filter", {"BoolCheckBox"}>>,
     <<"ProbeFactor", {"UInt64ComboBox"}>>}

TypeOfKey(name) ==
    CASE name \in {"Enabled", "OverVoltageProtectionActive", "OverVoltageProtectionEnabled",
                   "Averaging", "Filter"} -> "Bool"
      [] name \in {"Regulation", "Range", "PatternMode", "Digits", "TriggerSource",
                   "TriggerSlope", "Coupling"} -> "String"
      [] name \in {"VoltageTarget", "CurrentLimit", "OverVoltageProtectionThreshold", "Amplitude",
                   "Offset", "TriggerLevel", "HorizTriggerPos"} -> "Double"
      [] name \in {"Samplerate", "SampleInterval", "BufferSize", "AvgSamples", "ProbeFactor"} -> "UInt64"
      [] name = "TimeBase" -> "RationalPeriod"
      [] name = "VDiv" -> "RationalVolt"
      [] name = "MeasuredQuantity" -> "MQ"
      [] name = "VoltageThreshold" -> "DoubleRange"
      [] name = "SplMeasurementRange" -> "UInt64Range"
      [] name = "NumVDiv" -> "Int32"

\* Keys which only the generic control view shows.
GenericKeys == {"SampleInterval", "VoltageThreshold", "SplMeasurementRange", "NumVDiv"}

(* get_views_for_configurable(): a device has the views made for its type, *)
(* or else the generic one, which any device can have beside them.         *)
Measuring == {"Multimeter", "SoundLevelMeter", "Thermometer", "Hygrometer", "Energymeter",
              "LcrMeter", "Scale", "Powermeter", "Multiplexer"}
ViewsForConfigurable(type) ==
    CASE type \in {"PowerSupply", "ElectronicLoad"} -> SourceSinkControlView
      [] type = "Oscilloscope"
           -> ScopeVerticalControlView \cup ScopeTriggerControlView \cup ScopeHorizontalControlView
      [] type = "DemoDev"     -> DemoControlView
      [] type \in Measuring   -> MeasurementControlView
      [] OTHER -> {<<name, {}>> : name \in GenericKeys}

DeviceTypes == Measuring \cup
    {"PowerSupply", "ElectronicLoad", "Oscilloscope", "DemoDev", "SignalGenerator"}
ControlViews == UNION {ViewsForConfigurable(type) : type \in DeviceTypes}

\* GenericControlView: one widget for every property.
GenericControlView(p) == {WidgetFor(p.type, p.list)}

\* Keys that differ in nothing but their name behave alike: one of each kind.
KindOf(view) == <<TypeOfKey(view[1]), view[2], ListOf(view[1], TypeOfKey(view[1]))>>
Kinds == {KindOf(view) : view \in ControlViews}
OneOfEachKind == {CHOOSE view \in ControlViews : KindOf(view) = kind : kind \in Kinds}

InType(type) == IF type = "Bool" THEN {0, 1} ELSE Values

\* A property cannot be listable and still give a box its default range.
ListsOf(name) == {"none"} \cup ListOf(name, TypeOfKey(name))

-----------------------------------------------------------------------------
(* Configurable::init() and the opening of the views: every widget reads   *)
(* the property once.  The special control view and the generic one are    *)
(* both open.  A read that fails leaves "init" to the memory it was not    *)
(* written to; for a pair it throws, and no view is opened.                *)
FirstShown(class, p) ==
    LET start == CASE Class[class].shows = "item" /\ ~Editable(class, p)
                        -> IF Items(p) = {} THEN None ELSE Min(Items(p))
                   [] OTHER -> 0
    IN  IF p.get THEN Shows(class, p, start, p.init) ELSE start

Reads(p, value) ==
    IF ~p.get THEN {None}
    ELSE CASE PropertyOf[p.type].unread = "any"    -> {Max(InType(p.type)), value}
           [] PropertyOf[p.type].unread = "empty"  -> {0, value}
           [] PropertyOf[p.type].unread = "throws" -> {value}

Opened(p, boxes, value) ==
    /\ key = p
    /\ widgets = SetToSeq(boxes)
    /\ shown = [w \in boxes |-> FirstShown(w, p)]
    /\ typed = [w \in boxes |-> None]
    /\ trusted = (p.get /\ p.init = value)
    /\ \/ owners = <<"1">> /\ register = [o \in {"1"} |-> value]
       \/ owners = <<"1", "2">> /\ register = [o \in {"1", "2"} |-> IF o = "1" THEN value ELSE 0]

InitControls ==
    /\ \E view \in OneOfEachKind, get, set \in BOOLEAN :
       \E list \in ListsOf(view[1]), value \in InType(TypeOfKey(view[1])) :
       \E init \in Reads([type |-> TypeOfKey(view[1]), get |-> get], value) :
          LET p == [name |-> view[1], type |-> TypeOfKey(view[1]), list |-> list,
                    init |-> init, get |-> get, set |-> set]
          IN  Opened(p, view[2] \cup GenericControlView(p), value)
    /\ emitting = <<>>
    /\ posted = <<>>
    /\ changes = 0

-----------------------------------------------------------------------------
(* Configurable::set_config(): an error of the driver is swallowed.        *)
SetConfig(owner, value, driverFails) ==
    register' = IF driverFails THEN register ELSE [register EXCEPT ![owner] = value]

\* The slots of the GUI thread are called at once, the sender's included.
ShowEverywhere(value, before) ==
    [w \in DOMAIN before |-> Shows(w, key, before[w], value)]

\* Mutant: the value is sent and not announced.
ChangeValueSilently(value, before, driverFails) ==
    /\ SetConfig(First, Sent(key.name, value), driverFails)
    /\ shown' = before
    /\ trusted' = (~driverFails /\ posted = <<>> /\ emitting = <<>>)

(* BaseProperty::change_value(): set the config, and announce the value,   *)
(* whatever the driver said.  It counts as news if no older news is still  *)
(* on its way to the widgets.                                              *)
ChangeValue(value, before, driverFails) ==
    LET sent == Sent(key.name, value)
    IN  /\ SetConfig(First, sent, driverFails)
        /\ shown' = ShowEverywhere(sent, before)
        /\ trusted' = (~driverFails /\ posted = <<>> /\ emitting = <<>>)

Usable(w) == key.set /\ Class[w].commits # "never"

(* The user moves, toggles or selects: value_changed() of a widget that    *)
(* commits every change.                                                   *)
Pickable(w) ==
    CASE Class[w].shows = "range" -> BoxRange(w, key)
      [] Class[w].shows = "item"  -> IF Editable(w, key) THEN Values ELSE Items(key)
      [] OTHER -> InType(key.type)

Pick(w, value, driverFails) ==
    /\ Usable(w) /\ Class[w].commits = "change"
    /\ value \in Pickable(w) /\ value # shown[w]
    /\ ChangeValue(Commits(w, key, value), [shown EXCEPT ![w] = value], driverFails)
    /\ UNCHANGED <<key, widgets, typed, owners, emitting, posted, changes>>

\* The user types into a box: nothing is sent before the end of the edit.
Type(w, value) ==
    /\ Usable(w) /\ Class[w].commits = "finish"
    /\ value \in BoxRange(w, key) /\ value # shown[w]
    /\ shown' = [shown EXCEPT ![w] = value]
    /\ typed' = [typed EXCEPT ![w] = value]
    /\ trusted' = FALSE
    /\ UNCHANGED <<key, widgets, owners, register, emitting, posted, changes>>

(* editingFinished: Enter, or the box loses the focus, typed in or not.    *)
FinishEdit(w, driverFails) ==
    /\ Usable(w) /\ Class[w].commits = "finish"
    /\ ChangeValue(shown[w], shown, driverFails)
    /\ typed' = [typed EXCEPT ![w] = None]
    /\ UNCHANGED <<key, widgets, owners, emitting, posted, changes>>

(* A script calls set_config() of a configurable itself: no signal.  A     *)
(* std::string becomes a variant the driver does not take for a string.    *)
ScriptSetsConfig(owner, value) ==
    /\ key.set /\ value \in InType(key.type)
    /\ SetConfig(owner, value, key.type = "String")
    /\ trusted' = (trusted /\ register' = register)
    /\ UNCHANGED <<key, widgets, shown, typed, owners, emitting, posted, changes>>

-----------------------------------------------------------------------------
(* Configurable::feed_in_meta(): every entry up to the first unknown key   *)
(* is announced by its property; the packet is taken if all are known.     *)
Has(owner, name) == name = key.name /\ owner \in Range(owners)

TakesAll(owner, packet) == \A i \in DOMAIN packet : Has(owner, packet[i][1])

KnownPart(owner, packet) ==
    LET unknown == {i \in DOMAIN packet : ~Has(owner, packet[i][1])}
    IN  SubSeq(packet, 1, IF unknown = {} THEN Len(packet) ELSE Min(unknown) - 1)

(* HardwareDevice::feed_in_meta(): the configurable of the device, which   *)
(* does not have the key, and then the others, until one takes the packet. *)
(* The packet does not say which of them it is for.                        *)
Announced(packet) ==
    LET takers == {i \in DOMAIN owners : TakesAll(owners[i], packet)}
        last == IF takers = {} THEN Len(owners) ELSE Min(takers)
    IN  [i \in 1 .. last |-> <<owners[i], KnownPart(owners[i], packet)>>]

\* on_value_changed() of the property: the value that value_changed carries.
FromMeta(value) == IF PropertyOf[key.type].meta = "empty" THEN 0 ELSE value

\* The widgets are connected to the property of the first owner.
ToPost(packet) ==
    FlattenSeq([i \in DOMAIN Announced(packet) |->
        IF Announced(packet)[i][1] # First THEN <<>>
        ELSE FlattenSeq([j \in DOMAIN Announced(packet)[i][2] |->
                [k \in DOMAIN widgets |-> <<widgets[k], FromMeta(Announced(packet)[i][2][j][2])>>]])])

\* libsigrok: the value of an owner changes at the device, which sends it,
\* maybe in one packet with a key the configurables do not have.
DeviceChanges(owner, value, withUnknown) ==
    LET entry == <<key.name, value>>
        packet == IF withUnknown = "before" THEN <<<<"Unknown", 0>>, entry>>
                  ELSE IF withUnknown = "after" THEN <<entry, <<"Unknown", 0>>>> ELSE <<entry>>
    IN  /\ changes < MaxChanges /\ emitting = <<>>
        /\ value \in InType(key.type) /\ value # register[owner]
        /\ register' = [register EXCEPT ![owner] = value]
        /\ emitting' = ToPost(packet)
        /\ changes' = changes + 1
        /\ trusted' = (owner = First /\ posted = <<>> /\ withUnknown # "before"
                        /\ key.type # "MQ" /\ \A w \in Range(widgets) : typed[w] = None)
        /\ UNCHANGED <<key, widgets, shown, typed, owners, posted>>

(* value_changed is emitted in the acquisition thread: one queued call per *)
(* widget, and the GUI thread runs between them.                           *)
PostNext ==
    /\ emitting # <<>> /\ Len(posted) < MaxPosted
    /\ posted' = Append(posted, Head(emitting))
    /\ emitting' = Tail(emitting)
    /\ UNCHANGED <<key, widgets, shown, typed, owners, register, changes, trusted>>

(* on_value_changed() of a widget.  What it shows changes; the connection  *)
(* to the property is cut meanwhile, else a widget that commits changes    *)
(* would send the value back.                                              *)
OnValueChanged(w, value) ==
    LET now == Shows(w, key, shown[w], value)
    IN  /\ typed' = [typed EXCEPT ![w] = None]
        /\ IF Class[w].quiet \/ ~Usable(w) \/ Class[w].commits # "change" \/ now = shown[w]
           THEN /\ shown' = [shown EXCEPT ![w] = now]
                /\ UNCHANGED <<register, trusted>>
           ELSE ChangeValue(Commits(w, key, now), [shown EXCEPT ![w] = now], FALSE)

Deliver ==
    /\ posted # <<>>
    /\ OnValueChanged(Head(posted)[1], Head(posted)[2])
    /\ posted' = Tail(posted)
    /\ UNCHANGED <<key, widgets, owners, emitting, changes>>

-----------------------------------------------------------------------------
UserActs ==
    \E w \in Range(widgets), driverFails \in BOOLEAN :
        \/ \E value \in Values : Pick(w, value, driverFails)
        \/ \E value \in Values : Type(w, value)
        \/ FinishEdit(w, driverFails)

ScriptActs == \E owner \in Range(owners), value \in Values : ScriptSetsConfig(owner, value)

DeviceActs ==
    \E owner \in Range(owners), value \in Values, withUnknown \in {"no", "before", "after"} :
        DeviceChanges(owner, value, withUnknown)

ControlsNext == UserActs \/ ScriptActs \/ DeviceActs \/ PostNext \/ Deliver

ControlsSpec == InitControls /\ [][ControlsNext]_controlsVars /\ WF_controlsVars(PostNext) /\ WF_controlsVars(Deliver)

-----------------------------------------------------------------------------
Property ==
    [name : STRING, type : DataTypes, list : {"none", "range", "values", "dropped"},
     init : Values \cup {None}, get : BOOLEAN, set : BOOLEAN]

(* Once the queued calls are handled, every widget for the key, whichever  *)
(* view it is in, shows the value the device has, as far as the widget can *)
(* show it: unless the last news was disturbed (the driver failed, a       *)
(* script went behind the property's back, the packet was dropped or was   *)
(* for another channel group, or the user was faster than the news).       *)
ShowsTheDevice ==
    (trusted /\ posted = <<>> /\ emitting = <<>>) =>
        \A w \in Range(widgets) :
            shown[w] = Shows(w, key, shown[w], register[First])

(* News from the device is never sent back to the device: handling a       *)
(* queued on_value_changed() writes no register, in whatever order the     *)
(* widgets get theirs and whatever they can show of the value.             *)
NoEcho == [][Deliver => register' = register]_controlsVars
=============================================================================
