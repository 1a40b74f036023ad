---------------------------- MODULE DeviceProofs ----------------------------
(***************************************************************************)
(* Proofs about Acquisition for every driver (framing or not) and every    *)
(* bound: the safety properties follow from one inductive invariant, which *)
(* says how the place of the GUI thread determines what the acquisition    *)
(* thread and the sigrok session can be doing.  And about DeviceConfig,    *)
(* for every range of the values and every bound: the queued calls and     *)
(* those still to be posted are the end of one round of news, and the      *)
(* widgets before it show what the device has.  And about SequenceOutput,  *)
(* for every table and repeat count: the row the sequence is at and the    *)
(* cycles counted say how many values were played.                         *)
(***************************************************************************)
EXTENDS Acquisition, DeviceConfig, SequenceOutput, FiniteSetTheorems, SequenceTheorems,
        NaturalsInduction, WellFoundedInduction, TLAPS


(* Before the thread is spawned and after it has been joined there is no   *)
(* thread and no callback; a user device never has any.                    *)
QuietInv ==
  /\ ~crashed
  /\ caller = "open" => ~isOpen
  /\ caller = "init" => ~isOpen /\ kind = "hardware"
  /\ (caller = "open" \/ (caller = "idle" /\ ~isOpen) \/ kind = "user") =>
       thread = "none" /\ callbacks = 0
  /\ caller = "join" => isOpen
  /\ (caller = "open" \/ (caller = "idle" /\ ~isOpen)) => ~inSession /\ ~deviceOpen
  /\ (kind = "hardware" /\ (isOpen \/ caller = "init")) => callbacks = 1 /\ inSession

(* A session is started exactly while the thread is inside it, on a device *)
(* that is open; only a running thread is in the middle of a packet.       *)
ThreadInv ==
  /\ srSession # "idle" <=> thread \in {"started", "running"}
  /\ thread \in {"started", "running"} => deviceOpen
  /\ feeding => thread = "running"
  /\ thread = "running" => state # "Stopped"

(* The frame the driver is in is the one the next sample is stamped with.  *)
FrameInv ==
  /\ StampOfOwnFrame
  /\ driverFrame # NoFrame => thread = "running" /\ frameBegan /\ frameStart = driverFrame
  /\ ~UsesFrames => ~frameBegan
  /\ feeding => (UsesFrames => driverFrame # NoFrame)

(* Since a pause, one packet at most was past the test of the state.       *)
PauseInv == state = "Paused" => IF feeding THEN sincePause = 0 ELSE sincePause <= 1

IInv == TypeOK /\ QuietInv /\ ThreadInv /\ FrameInv /\ PauseInv

LEMMA InitIInv == Init => IInv
<1> SUFFICES ASSUME Init PROVE IInv
  OBVIOUS
<1>1. TypeOK
  <2>1. stored \in Seq(Sample)
    BY DEF Init
  <2> QED
    BY <2>1 DEF Init, TypeOK, States, NoFrame
<1>2. stored = <<>> => StampOfOwnFrame
  BY DEF StampOfOwnFrame
<1>3. QuietInv /\ ThreadInv /\ FrameInv /\ PauseInv
  BY <1>2 DEF Init, QuietInv, ThreadInv, FrameInv, PauseInv, NoFrame
<1> QED
  BY <1>1, <1>3 DEF IInv

(* What every step but FeedInAnalog leaves alone.                          *)
LEMMA StampKept == StampOfOwnFrame /\ stored' = stored => StampOfOwnFrame'
  BY DEF StampOfOwnFrame

(* A step of neither open(), close() nor the thread's own life.            *)
LEMMA QuietKept ==
  QuietInv /\ UNCHANGED <<kind, caller, isOpen, thread, crashed, callbacks,
                          inSession, deviceOpen>> => QuietInv'
  BY DEF QuietInv

LEMMA StepIInv == IInv /\ [Next]_vars => IInv'
<1> SUFFICES ASSUME IInv, [Next]_vars PROVE IInv'
  OBVIOUS
<1> USE ConstantsOK, StampKept
    DEF IInv, TypeOK, QuietInv, ThreadInv, FrameInv, PauseInv, States, NoFrame,
        guiVars, sigrokVars, frameVars, dataVars
<1>1. CASE CallOpen
  <2>1. CASE isOpen
    BY <1>1, <2>1 DEF CallOpen, MustCloseFirst, StopSession
  <2>2. CASE ~isOpen
    BY <1>1, <2>2 DEF CallOpen, MustCloseFirst
  <2> QED
    BY <2>1, <2>2
<1>2. CASE OpenDevice
  <2>1. thread = "none" /\ callbacks = 0 /\ ~crashed
    BY <1>2 DEF OpenDevice
  <2>2. CASE kind = "user"
    BY <1>2, <2>1, <2>2 DEF OpenDevice
  <2>3. CASE kind = "hardware"
    <3>1. crashed' = FALSE
      BY <1>2, <2>1, <2>3 DEF OpenDevice
    <3>2. /\ callbacks' = 1 /\ thread' = "starting" /\ caller' = "init"
          /\ inSession' = TRUE /\ deviceOpen' \in BOOLEAN /\ reopen' = FALSE
          /\ UNCHANGED <<kind, isOpen, state, srSession, frameVars, dataVars>>
          /\ ~isOpen
      BY <1>2, <2>1, <2>3 DEF OpenDevice
    <3> QED
      BY <2>3, <2>1, <3>1, <3>2
  <2> QED
    BY <2>2, <2>3
<1>3. CASE FinishOpen
  BY <1>3 DEF FinishOpen
<1>4. CASE CallClose
  BY <1>4 DEF CallClose, StopSession
<1>5. CASE FinishClose
  BY <1>5 DEF FinishClose, Joined, RemoveCallbacks
<1>6. CASE StartAquisition
  BY <1>6 DEF StartAquisition
<1>7. CASE PauseAquisition
  BY <1>7 DEF PauseAquisition
<1>8. CASE StartSession
  BY <1>8 DEF StartSession
<1>9. CASE StartSessionFails
  BY <1>9 DEF StartSessionFails
<1>10. CASE SetRunning
  BY <1>10 DEF SetRunning, ReportRunning
<1>11. CASE RunReturns
  BY <1>11 DEF RunReturns
<1>12. CASE SetStopped
  BY <1>12 DEF SetStopped
<1>13. CASE FrameBegin
  BY <1>13 DEF FrameBegin, Delivering, FeedInFrameBegin
<1>14. CASE FrameEnd
  BY <1>14 DEF FrameEnd, Delivering
<1>15. CASE AnalogPacket
  BY <1>15 DEF AnalogPacket, Delivering, Accepting
<1>16. CASE FeedInAnalog
  <2> DEFINE sample == [frame |-> driverFrame,
                        stamp |-> IF frameBegan THEN frameStart ELSE NoFrame]
  <2>1. sample \in Sample /\ stored' = Append(stored, sample)
    BY <1>16 DEF FeedInAnalog, Sample
  <2>2. stored' \in Seq(Sample)
    BY <2>1
  <2>3. sample.stamp = sample.frame
    BY <1>16 DEF FeedInAnalog
  <2>4. StampOfOwnFrame'
    BY <2>1, <2>3 DEF StampOfOwnFrame
  <2>5. /\ feeding /\ feeding' = FALSE
        /\ sincePause' = IF state = "Paused" THEN sincePause + 1 ELSE sincePause
        /\ UNCHANGED <<kind, guiVars, state, thread, crashed, sigrokVars, frameVars>>
    BY <1>16 DEF FeedInAnalog
  <2>6. TypeOK'
    <3>1. sincePause \in Nat
      OBVIOUS
    <3>2. sincePause' \in Nat
      BY ONLY <2>5, <3>1
    <3> QED
      BY <2>2, <2>5, <3>2
  <2>7. QuietInv'
    BY <2>5, QuietKept
  <2>8. ThreadInv'
    BY <2>5
  <2>9. FrameInv'
    BY <2>4, <2>5
  <2>10. PauseInv'
    BY <2>5
  <2> QED
    BY <2>6, <2>7, <2>8, <2>9, <2>10
<1>17. CASE UNCHANGED vars
  BY <1>17 DEF vars
<1> QED
  BY <1>1, <1>2, <1>3, <1>4, <1>5, <1>6, <1>7, <1>8, <1>9, <1>10, <1>11, <1>12, <1>13, <1>14, <1>15, <1>16, <1>17 DEF Next, Gui, Thread

(* Every reachable state satisfies the inductive invariant.                *)
THEOREM Invariance == Spec => []IInv
  BY InitIInv, StepIInv, PTL DEF Spec

-----------------------------------------------------------------------------
(* Every variable keeps its type.                                          *)
THEOREM TypeCorrect == Spec => []TypeOK
  BY Invariance, PTL DEF IInv

(* open() never overwrites the handle of a thread that was not joined.     *)
THEOREM HandleSafe == Spec => []NeverTerminates
<1>1. IInv => NeverTerminates
  BY DEF IInv, QuietInv, NeverTerminates
<1> QED
  BY <1>1, Invariance, PTL

(* After close() nothing of the acquisition is left.                       *)
THEOREM QuietAfterClose == Spec => []ClosedIsQuiet
<1>1. IInv => ClosedIsQuiet
  BY DEF IInv, TypeOK, QuietInv, ThreadInv, ClosedIsQuiet
<1> QED
  BY <1>1, Invariance, PTL

(* The session only runs with the device open and one callback.            *)
THEOREM SessionHasDevice == Spec => []RunsOnOpenDevice
<1>1. IInv => RunsOnOpenDevice
  BY DEF IInv, TypeOK, QuietInv, ThreadInv, RunsOnOpenDevice
<1> QED
  BY <1>1, Invariance, PTL

(* A running session is never shown as stopped.                            *)
THEOREM NoSilentDrop == Spec => []LiveIsNotStopped
<1>1. IInv => LiveIsNotStopped
  BY DEF IInv, ThreadInv, LiveIsNotStopped
<1> QED
  BY <1>1, Invariance, PTL

(* At most one packet overtakes a pause.                                   *)
THEOREM PauseOvertakenOnce == Spec => []AtMostOneAfterPause
<1>1. IInv => AtMostOneAfterPause
  BY DEF IInv, TypeOK, PauseInv, AtMostOneAfterPause
<1> QED
  BY <1>1, Invariance, PTL

(* Every sample carries the stamp of the frame it was measured in.         *)
THEOREM OwnStamps == Spec => []StampOfOwnFrame
<1>1. IInv => StampOfOwnFrame
  BY DEF IInv, FrameInv
<1> QED
  BY <1>1, Invariance, PTL

(* A device implements the recorder: it records only between the           *)
(* registration and the removal of its callback, and only appends.         *)
THEOREM Refinement == Spec => ImplementsRecorder
<1>1. Init => Abstract!Init
  BY DEF Init, Abstract!Init
<1>2. IInv /\ [Next]_vars => [Abstract!Next]_(Abstract!recorderVars)
  <2> SUFFICES ASSUME IInv, [Next]_vars
               PROVE  [Abstract!Next]_(Abstract!recorderVars)
    OBVIOUS
  <2> USE DEF IInv, TypeOK, QuietInv, ThreadInv, Abstract!recorderVars,
              guiVars, sigrokVars, dataVars
  <2>1. CASE OpenDevice
    <3>1. callbacks = 0 /\ callbacks' \in {0, 1} /\ stored' = stored
      BY <2>1 DEF OpenDevice
    <3> QED
      BY <3>1 DEF Abstract!Next, Abstract!Open
  <2>2. CASE FinishClose
    <3>1. callbacks \in {0, 1} /\ callbacks' = 0 /\ stored' = stored
      BY <2>2 DEF FinishClose, RemoveCallbacks
    <3> QED
      BY <3>1 DEF Abstract!Next, Abstract!Close
  <2>3. CASE FeedInAnalog
    <3>1. callbacks = 1 /\ callbacks' = callbacks
      BY <2>3 DEF FeedInAnalog
    <3>2. PICK sample \in Sample : stored' = Append(stored, sample)
      BY <2>3 DEF FeedInAnalog, Sample, NoFrame
    <3>3. Len(stored') = Len(stored) + 1 /\ SubSeq(stored', 1, Len(stored)) = stored
      BY <3>2
    <3> QED
      BY <3>1, <3>3 DEF Abstract!Next, Abstract!Record
  <2>4. CASE \/ CallOpen \/ FinishOpen \/ CallClose \/ StartAquisition
             \/ PauseAquisition \/ StartSession \/ StartSessionFails
             \/ SetRunning \/ RunReturns \/ SetStopped \/ FrameBegin
             \/ FrameEnd \/ AnalogPacket \/ UNCHANGED vars
    BY <2>4 DEF CallOpen, FinishOpen, CallClose, StartAquisition,
       PauseAquisition, StartSession, StartSessionFails, SetRunning,
       RunReturns, SetStopped, FrameBegin, FrameEnd, AnalogPacket, vars
  <2> QED
    BY <2>1, <2>2, <2>3, <2>4 DEF Next, Gui, Thread
<1> QED
  BY <1>1, <1>2, Invariance, PTL DEF Spec, ImplementsRecorder, Abstract!Spec

-----------------------------------------------------------------------------
(* The controls of a device.                                               *)

ClassNames == DOMAIN Class
Note == ClassNames \X Values

\* The queued and the unposted calls are the end of one round of news, and
\* the widgets before it show what the device has.
UpTo(j) ==
  /\ j \in 0..Len(widgets)
  /\ posted \o emitting = [i \in 1..(Len(widgets) - j) |-> <<widgets[j + i], register[First]>>]
  /\ \A i \in 1..j : shown[widgets[i]] = Shows(widgets[i], key, shown[widgets[i]], register[First])

ControlsTypes ==
  /\ key.name # "Unknown"
  /\ key.type \in DataTypes
  /\ widgets \in Seq(ClassNames)
  /\ \A i \in 1..Len(widgets) : widgets[i] \in DOMAIN shown
  /\ owners \in {<<"1">>, <<"1", "2">>}
  /\ \A i \in DOMAIN owners : owners[i] \in DOMAIN register
  /\ emitting \in Seq(Note)
  /\ posted \in Seq(Note)

ControlsInv ==
  /\ ControlsTypes
  /\ trusted => \E j \in 0..Len(widgets) : UpTo(j)

(* A widget that is told the same value again shows the same.              *)
LEMMA ShownStays ==
  ASSUME NEW class, NEW p, NEW old, NEW value
  PROVE  Shows(class, p, Shows(class, p, old, value), value) = Shows(class, p, old, value)
<1>1. CASE Class[class].shows = "item"
  <2>1. Shows(class, p, old, value) = ItemFor(class, p, old, value)
    BY <1>1 DEF Shows
  <2>2. Shows(class, p, ItemFor(class, p, old, value), value)
          = ItemFor(class, p, ItemFor(class, p, old, value), value)
    BY <1>1 DEF Shows
  <2>3. ItemFor(class, p, ItemFor(class, p, old, value), value) = ItemFor(class, p, old, value)
    BY DEF ItemFor
  <2> QED BY <2>1, <2>2, <2>3
<1>2. CASE Class[class].shows # "item"
  BY <1>2 DEF Shows
<1> QED BY <1>1, <1>2

(* Every class cuts its connection while it shows a value.                 *)
LEMMA AllQuiet == \A w \in ClassNames : Class[w].quiet
BY DEF ClassNames, Class, BoolButton, BoolCheckBox, BoolLed, DoubleDisplay, DoubleKnob,
   DoubleSlider, DoubleSpinBox, Int32SpinBox, UInt64SpinBox, UInt64ComboBox, UInt64Label,
   StringComboBox, StringLabel, StringLed, RationalComboBox, DoubleRangeComboBox,
   UInt64RangeComboBox, MeasuredQuantityComboBox

(* Sequences: what FlattenSeq makes of two sequences at most, and when two *)
(* sequences are the same.                                                 *)
LEMMA FlattenShort ==
  ASSUME NEW S, NEW c \in Seq(Seq(S)), Len(c) <= 2
  PROVE  FlattenSeq(c) = IF Len(c) = 0 THEN <<>> ELSE IF Len(c) = 1 THEN c[1] ELSE c[1] \o c[2]
<1> DEFINE n == Len(c)
<1>a. n \in Nat /\ DOMAIN c = 1..n
  BY LenProperties
<1>b. n <= 2
  OBVIOUS
<1>1. n \in 0..2 /\ DOMAIN c = 1..n
  <2> HIDE DEF n
  <2> QED BY <1>a, <1>b
<1>2. CASE n = 0
  <2>1. c = <<>>
    BY <1>2
  <2> QED BY <1>2, <2>1 DEF FlattenSeq
<1>3. CASE n # 0
  <2> DEFINE Eq(g) == g = [i \in 1..n |-> IF i = 1 THEN c[i] ELSE g[i - 1] \o c[i]]
             g == CHOOSE g : Eq(g)
             F == [i \in 1..n |-> IF i = 1 THEN c[1] ELSE c[1] \o c[2]]
  <2>1. Eq(F)
    <3>1. ASSUME NEW i \in 1..n
          PROVE  F[i] = IF i = 1 THEN c[i] ELSE F[i - 1] \o c[i]
      <4>1. i = 1 \/ (i = 2 /\ 1 \in 1..n)
        BY <1>1
      <4> QED BY <1>1, <4>1
    <3> HIDE DEF n
    <3> QED BY <3>1, Zenon
  <2>2. Eq(g)
    <3> HIDE DEF F, Eq
    <3> QED BY <2>1, Zenon
  <2>3. FlattenSeq(c) = g[n]
    BY <1>3 DEF FlattenSeq
  <2>4. n \in 1..2 /\ n - 1 \in 0..1
    BY <1>1, <1>3
  <2>5. g[1] = c[1]
    <3> HIDE DEF g
    <3> QED BY <1>1, <2>2, <2>4
  <2>6. CASE n = 2
    <3> HIDE DEF g
    <3>1. g[2] = g[1] \o c[2]
      <4>1. 2 \in 1..n /\ n \in Nat
        BY <1>1, <2>6
      <4> HIDE DEF n
      <4>2. g[2] = IF 2 = 1 THEN c[2] ELSE g[2 - 1] \o c[2]
        BY <2>2, <4>1, Zenon
      <4>3. 2 - 1 = 1 /\ 2 # 1
        OBVIOUS
      <4> QED BY <4>2, <4>3, Zenon
    <3>2. FlattenSeq(c) = c[1] \o c[2] /\ Len(c) = 2
      BY <2>3, <2>5, <2>6, <3>1
    <3> QED BY <3>2
  <2>7. CASE n = 1
    <3> HIDE DEF g
    <3>1. FlattenSeq(c) = c[1] /\ Len(c) = 1
      BY <2>3, <2>5, <2>7
    <3> QED BY <3>1
  <2>8. n = 1 \/ n = 2
    BY <2>4
  <2> QED BY <2>6, <2>7, <2>8
<1> QED BY <1>2, <1>3

-----------------------------------------------------------------------------
(* The keys of the control views and their widgets: every key has a type,  *)
(* every view has finitely many widgets.                                   *)
KeyNames ==
  {"Enabled", "OverVoltageProtectionActive", "OverVoltageProtectionEnabled", "Averaging", "Filter",
   "Regulation", "Range", "PatternMode", "Digits", "TriggerSource", "TriggerSlope", "Coupling",
   "VoltageTarget", "CurrentLimit", "OverVoltageProtectionThreshold", "Amplitude", "Offset",
   "TriggerLevel", "HorizTriggerPos", "Samplerate", "SampleInterval", "BufferSize", "AvgSamples",
   "ProbeFactor", "TimeBase", "VDiv", "MeasuredQuantity", "VoltageThreshold",
   "SplMeasurementRange", "NumVDiv"}

LEMMA TypesOfKeys == \A name \in KeyNames : TypeOfKey(name) \in DataTypes /\ name # "Unknown"
BY DEF KeyNames, TypeOfKey, DataTypes, PropertyOf

LEMMA WidgetsForTypes == \A type \in DataTypes : \A list : WidgetFor(type, list) \in ClassNames
BY DEF WidgetFor, DataTypes, PropertyOf, ClassNames, Class

\* The widgets a control view can have for a key.
ControlsOfKeys ==
  {{}, DoubleControl, {"BoolButton"}, {"BoolCheckBox"}, {"BoolLed"}, {"StringComboBox"},
   {"StringLed"}, {"MeasuredQuantityComboBox"}, {"UInt64Label"}, {"UInt64ComboBox"},
   {"UInt64SpinBox"}, {"RationalComboBox"}, {"DoubleSpinBox"}}

LEMMA SmallSets == \A S \in ControlsOfKeys : S \subseteq ClassNames /\ IsFiniteSet(S)
<1>1. \A a : IsFiniteSet({a})
  BY FS_Singleton
<1> DEFINE two == {"DoubleDisplay"} \cup {"DoubleSpinBox"}
           three == two \cup {"DoubleSlider"}
<1>2. IsFiniteSet(two)
  <2>1. IsFiniteSet({"DoubleDisplay"})
    BY <1>1
  <2> QED BY <2>1, FS_AddElement
<1>3. IsFiniteSet(three)
  <2> HIDE DEF two
  <2> QED BY <1>2, FS_AddElement
<1>4. three = DoubleControl
  BY DEF DoubleControl
<1>5. IsFiniteSet(DoubleControl)
  <2> HIDE DEF three
  <2> QED BY <1>3, <1>4
<1>6. \A S \in ControlsOfKeys : IsFiniteSet(S)
  BY <1>1, <1>5, FS_EmptySet DEF ControlsOfKeys
<1>7. \A S \in ControlsOfKeys : S \subseteq ClassNames
  BY DEF ControlsOfKeys, DoubleControl, ClassNames, Class
<1> QED BY <1>6, <1>7

LEMMA ViewsAreMade ==
  ASSUME NEW view \in OneOfEachKind
  PROVE  view[1] \in KeyNames /\ view[2] \subseteq ClassNames /\ IsFiniteSet(view[2])
<1>1. PICK k \in Kinds : view = CHOOSE v \in ControlViews : KindOf(v) = k
  BY Zenon DEF OneOfEachKind
<1>2. \E v \in ControlViews : KindOf(v) = k
  BY <1>1, Zenon DEF Kinds
<1>3. view \in ControlViews
  BY <1>1, <1>2, Zenon
<1>4. PICK type \in DeviceTypes : view \in ViewsForConfigurable(type)
  BY <1>3, Zenon DEF ControlViews
<1> DEFINE Made(v) == v[1] \in KeyNames /\ v[2] \in ControlsOfKeys
<1>5. /\ \A v \in SourceSinkControlView : Made(v)
      /\ \A v \in DemoControlView : Made(v)
      /\ \A v \in MeasurementControlView : Made(v)
      /\ \A v \in ScopeHorizontalControlView : Made(v)
      /\ \A v \in ScopeTriggerControlView : Made(v)
      /\ \A v \in ScopeVerticalControlView : Made(v)
  <2>1. \A v \in SourceSinkControlView : Made(v)
    BY DEF SourceSinkControlView, ThresholdControl, KeyNames, ControlsOfKeys
  <2>2. \A v \in DemoControlView : Made(v)
    BY DEF DemoControlView, ThresholdControl, KeyNames, ControlsOfKeys
  <2>3. \A v \in MeasurementControlView : Made(v)
    BY DEF MeasurementControlView, ThresholdControl, KeyNames, ControlsOfKeys
  <2>4. \A v \in ScopeHorizontalControlView : Made(v)
    BY DEF ScopeHorizontalControlView, ThresholdControl, KeyNames, ControlsOfKeys
  <2>5. \A v \in ScopeTriggerControlView : Made(v)
    BY DEF ScopeTriggerControlView, ThresholdControl, KeyNames, ControlsOfKeys
  <2>6. \A v \in ScopeVerticalControlView : Made(v)
    BY DEF ScopeVerticalControlView, ThresholdControl, KeyNames, ControlsOfKeys
  <2> HIDE DEF Made
  <2> QED BY <2>1, <2>2, <2>3, <2>4, <2>5, <2>6
<1>6. \A v \in {<<name, {}>> : name \in GenericKeys} : Made(v)
  BY DEF GenericKeys, KeyNames, ControlsOfKeys
<1>7. Made(view)
  <2> HIDE DEF Made
  <2> QED BY <1>4, <1>5, <1>6 DEF ViewsForConfigurable
<1> QED
  BY <1>7, SmallSets

(* The widgets of the open views, in some order.                           *)
LEMMA WidgetsAreListed ==
  ASSUME NEW S \in SUBSET ClassNames, IsFiniteSet(S)
  PROVE  SetToSeq(S) \in Seq(ClassNames) /\ \A i \in 1..Len(SetToSeq(S)) : SetToSeq(S)[i] \in S
<1> DEFINE n == Cardinality(S)
<1>1. n \in Nat /\ ExistsBijection(1..n, S)
  BY FS_CardinalityType
<1> HIDE DEF n
<1>2. \E f \in [1..n -> S] : IsInjective(f)
  BY <1>1 DEF ExistsBijection, Bijection, Injection, IsInjective
<1>3. SetToSeq(S) \in [1..n -> S]
  BY <1>2 DEF SetToSeq, n
<1> HIDE DEF ClassNames
<1> QED
  BY <1>1, <1>3

(* The views are opened: every widget has read the value.                  *)
LEMMA ControlsInitInv == InitControls => ControlsInv
<1> SUFFICES ASSUME InitControls PROVE ControlsInv
  OBVIOUS
<1>1. PICK view \in OneOfEachKind, get \in BOOLEAN, set \in BOOLEAN :
      \E list \in ListsOf(view[1]), value \in InType(TypeOfKey(view[1])) :
      \E init \in Reads([type |-> TypeOfKey(view[1]), get |-> get], value) :
          LET p == [name |-> view[1], type |-> TypeOfKey(view[1]), list |-> list,
                    init |-> init, get |-> get, set |-> set]
          IN  Opened(p, view[2] \cup GenericControlView(p), value)
  BY DEF InitControls
<1>2. PICK p, value :
        /\ p.name = view[1] /\ p.type = TypeOfKey(view[1])
        /\ Opened(p, view[2] \cup GenericControlView(p), value)
  BY <1>1
<1> DEFINE S == view[2] \cup GenericControlView(key)
<1>3. /\ key = p
      /\ widgets = SetToSeq(S)
      /\ shown = [w \in S |-> FirstShown(w, key)]
      /\ trusted = (p.get /\ p.init = value)
      /\ \/ owners = <<"1">> /\ register = [o \in {"1"} |-> value]
         \/ owners = <<"1", "2">> /\ register = [o \in {"1", "2"} |-> IF o = "1" THEN value ELSE 0]
  BY <1>2 DEF Opened
<1>4. key.name = view[1] /\ key.type = TypeOfKey(view[1])
  BY <1>2, <1>3
<1>5. key.name # "Unknown" /\ key.type \in DataTypes
  BY <1>4, ViewsAreMade, TypesOfKeys
<1>6. S \in SUBSET ClassNames /\ IsFiniteSet(S)
  <2>1. GenericControlView(key) = {WidgetFor(key.type, key.list)}
    BY DEF GenericControlView
  <2>2. S = view[2] \cup {WidgetFor(key.type, key.list)}
    BY <2>1
  <2>3. view[2] \subseteq ClassNames /\ IsFiniteSet(view[2])
    BY ViewsAreMade
  <2>4. WidgetFor(key.type, key.list) \in ClassNames
    BY <1>5, WidgetsForTypes
  <2> HIDE DEF S
  <2> QED BY <2>2, <2>3, <2>4, FS_AddElement
<1> HIDE DEF S
<1>7. widgets \in Seq(ClassNames) /\ \A i \in 1..Len(widgets) : widgets[i] \in S
  BY <1>3, <1>6, WidgetsAreListed
<1>8. /\ owners \in {<<"1">>, <<"1", "2">>}
      /\ \A i \in DOMAIN owners : owners[i] \in DOMAIN register
      /\ register["1"] = value
      /\ First = "1"
  <2>1. CASE owners = <<"1">> /\ register = [o \in {"1"} |-> value]
    BY <2>1 DEF First
  <2>2. CASE owners = <<"1", "2">> /\ register = [o \in {"1", "2"} |-> IF o = "1" THEN value ELSE 0]
    BY <2>2 DEF First
  <2> QED BY <1>3, <2>1, <2>2
<1>9. posted = <<>> /\ emitting = <<>> /\ posted \in Seq(Note) /\ emitting \in Seq(Note)
  BY DEF InitControls
<1>10. ControlsTypes
  BY <1>3, <1>5, <1>7, <1>8, <1>9 DEF ControlsTypes
<1>11. ASSUME trusted PROVE UpTo(Len(widgets)) /\ Len(widgets) \in 0..Len(widgets)
  <2>1. key.get /\ key.init = value
    BY <1>3, <1>11
  <2>2. ASSUME NEW w \in S PROVE shown[w] = Shows(w, key, shown[w], value)
    <3>1. shown[w] = FirstShown(w, key)
      BY <1>3
    <3>2. PICK start : FirstShown(w, key) = Shows(w, key, start, value)
      BY <2>1 DEF FirstShown
    <3> QED BY <3>1, <3>2, ShownStays
  <2>3. Len(widgets) \in Nat
    BY <1>7, LenProperties
  <2>4. posted \o emitting = <<>> /\ Len(widgets) - Len(widgets) = 0
    BY <1>9, <2>3
  <2>5. [i \in 1..(Len(widgets) - Len(widgets)) |-> <<widgets[Len(widgets) + i], register[First]>>] = <<>>
    BY <2>4
  <2>6. \A i \in 1..Len(widgets) : shown[widgets[i]] = Shows(widgets[i], key, shown[widgets[i]], register[First])
    BY <1>7, <1>8, <2>2
  <2> QED BY <2>3, <2>4, <2>5, <2>6 DEF UpTo
<1> QED
  BY <1>10, <1>11 DEF ControlsInv

-----------------------------------------------------------------------------
LEMMA FunctionIsSeq ==
  ASSUME NEW T, NEW m \in Nat, NEW a \in [1..m -> T]
  PROVE  a \in Seq(T) /\ Len(a) = m
OBVIOUS

LEMMA SameElements ==
  ASSUME NEW T, NEW a \in Seq(T), NEW b \in Seq(T), Len(a) = Len(b),
         \A i \in 1..Len(a) : a[i] = b[i]
  PROVE  a = b
BY LenProperties

LEMMA FirstOwner ==
  ASSUME ControlsTypes
  PROVE  First = "1" /\ owners[1] = First /\ 1 \in DOMAIN owners /\ First \in DOMAIN register
<1>1. CASE owners = <<"1">>
  BY <1>1 DEF First, ControlsTypes
<1>2. CASE owners = <<"1", "2">>
  BY <1>2 DEF First, ControlsTypes
<1> QED BY <1>1, <1>2 DEF ControlsTypes

(* A change that the user makes is announced to all widgets at once: if    *)
(* nothing older is on its way they all show it, else nothing is claimed.  *)
LEMMA ChangeValueInv ==
  ASSUME ControlsTypes, NEW value, NEW before, DOMAIN before = DOMAIN shown, NEW fails \in BOOLEAN,
         ChangeValue(value, before, fails),
         UNCHANGED <<key, widgets, owners, emitting, posted>>
  PROVE  ControlsInv'
<1> DEFINE sent == Sent(key.name, value)
<1>1. /\ register' = IF fails THEN register ELSE [register EXCEPT ![First] = sent]
      /\ shown' = [w \in DOMAIN before |-> Shows(w, key, before[w], sent)]
      /\ trusted' = (~fails /\ posted = <<>> /\ emitting = <<>>)
  BY DEF ChangeValue, SetConfig, ShowEverywhere
<1>2. DOMAIN register' = DOMAIN register /\ DOMAIN shown' = DOMAIN shown
  BY <1>1
<1>3. ControlsTypes'
  BY <1>2 DEF ControlsTypes
<1> HIDE DEF sent
<1>4. ASSUME trusted' PROVE (\E j \in 0..Len(widgets) : UpTo(j))'
  <2>1. register'[First] = sent /\ First' = First
    BY <1>1, <1>4, FirstOwner DEF First
  <2>2. posted' = <<>> /\ emitting' = <<>>
    BY <1>1, <1>4
  <2>3. ASSUME NEW w \in DOMAIN shown PROVE shown'[w] = Shows(w, key, shown'[w], sent)
    BY <1>1, ShownStays
  <2>4. \A i \in 1..Len(widgets) :
            shown'[widgets[i]] = Shows(widgets[i], key, shown'[widgets[i]], sent)
    BY <2>3 DEF ControlsTypes
  <2>5. (\A i \in 1..Len(widgets) :
            shown[widgets[i]] = Shows(widgets[i], key, shown[widgets[i]], register[First]))'
    BY <2>1, <2>4
  <2>6. Len(widgets) \in Nat /\ widgets' = widgets
    BY LenProperties DEF ControlsTypes
  <2>7. /\ (posted \o emitting)' = <<>> /\ Len(widgets) - Len(widgets) = 0
        /\ Len(widgets) \in 0..Len(widgets)
    BY <2>2, <2>6
  <2>8. [i \in 1..(Len(widgets) - Len(widgets)) |-> <<widgets[Len(widgets) + i], register'[First']>>] = <<>>
    BY <2>7
  <2>9. UpTo(Len(widgets))'
    BY <2>5, <2>6, <2>7, <2>8 DEF UpTo
  <2> QED BY <2>6, <2>7, <2>9
<1> QED BY <1>3, <1>4 DEF ControlsInv

LEMMA PickInv ==
  ASSUME ControlsInv, NEW w, NEW value, NEW fails \in BOOLEAN, Pick(w, value, fails)
  PROVE  ControlsInv'
<1> DEFINE before == [shown EXCEPT ![w] = value]
<1>1. DOMAIN before = DOMAIN shown
  OBVIOUS
<1>2. ChangeValue(Commits(w, key, value), before, fails)
  BY DEF Pick
<1> HIDE DEF before
<1> QED
  BY <1>1, <1>2, ChangeValueInv DEF Pick, ControlsInv

LEMMA FinishEditInv ==
  ASSUME ControlsInv, NEW w, NEW fails \in BOOLEAN, FinishEdit(w, fails)
  PROVE  ControlsInv'
BY ChangeValueInv DEF FinishEdit, ControlsInv

LEMMA TypeInv ==
  ASSUME ControlsInv, NEW w, NEW value, Type(w, value)
  PROVE  ControlsInv'
BY DEF Type, ControlsInv, ControlsTypes

LEMMA ScriptSetsInv ==
  ASSUME ControlsInv, NEW owner, NEW value, ScriptSetsConfig(owner, value)
  PROVE  ControlsInv'
<1>1. DOMAIN register' = DOMAIN register
  BY DEF ScriptSetsConfig, SetConfig
<1>2. UNCHANGED <<key, widgets, shown, owners, emitting, posted>>
  BY DEF ScriptSetsConfig
<1>3. ControlsTypes'
  BY <1>1, <1>2 DEF ControlsInv, ControlsTypes
<1>4. ASSUME trusted' PROVE (\E j \in 0..Len(widgets) : UpTo(j))'
  <2>1. trusted /\ register' = register
    BY <1>4 DEF ScriptSetsConfig
  <2> QED BY <1>2, <2>1 DEF ControlsInv, UpTo, First
<1> QED BY <1>3, <1>4 DEF ControlsInv

(* A call that is posted is still behind all those posted before it.       *)
LEMMA PostNextInv ==
  ASSUME ControlsInv, PostNext
  PROVE  ControlsInv'
<1>1. UNCHANGED <<key, widgets, shown, owners, register, trusted>>
  BY DEF PostNext
<1>2. emitting \in Seq(Note) /\ posted \in Seq(Note) /\ emitting # <<>>
  BY DEF PostNext, ControlsInv, ControlsTypes
<1>3. /\ Head(emitting) \in Note /\ Tail(emitting) \in Seq(Note)
      /\ posted \o emitting = Append(posted, Head(emitting)) \o Tail(emitting)
  <2> HIDE DEF Note
  <2>1. Head(emitting) \in Note /\ Tail(emitting) \in Seq(Note)
    BY <1>2
  <2>2. emitting = <<Head(emitting)>> \o Tail(emitting)
    BY <1>2
  <2> QED BY <1>2, <2>1, <2>2
<1>4. emitting' \in Seq(Note) /\ posted' \in Seq(Note) /\ posted' \o emitting' = posted \o emitting
  BY <1>2, <1>3 DEF PostNext
<1>5. ControlsTypes'
  BY <1>1, <1>4 DEF ControlsInv, ControlsTypes
<1>6. \A j \in 0..Len(widgets) : UpTo(j) => UpTo(j)'
  BY <1>1, <1>4 DEF UpTo, First
<1> QED BY <1>1, <1>5, <1>6 DEF ControlsInv

(* No class sends back what it was told.                                   *)
LEMMA DeliverQuiet ==
  ASSUME ControlsInv, Deliver
  PROVE  /\ Head(posted) \in Note /\ Tail(posted) \in Seq(Note)
         /\ UNCHANGED <<register, trusted>>
         /\ LET w == Head(posted)[1]
            IN  shown' = [shown EXCEPT ![w] = Shows(w, key, shown[w], Head(posted)[2])]
<1>1. posted \in Seq(Note) /\ posted # <<>>
  BY DEF ControlsInv, ControlsTypes, Deliver
<1>2. Head(posted) \in Note /\ Tail(posted) \in Seq(Note)
  <2> HIDE DEF Note
  <2> QED BY <1>1
<1>3. Class[Head(posted)[1]].quiet
  BY <1>2, AllQuiet DEF Note
<1>4. OnValueChanged(Head(posted)[1], Head(posted)[2])
  BY DEF Deliver
<1> QED BY <1>2, <1>3, <1>4 DEF OnValueChanged

(* The next widget shows the news; those before it still do.               *)
LEMMA DeliverInv ==
  ASSUME ControlsInv, Deliver
  PROVE  ControlsInv'
<1> DEFINE w == Head(posted)[1]
           v == Head(posted)[2]
<1>1. UNCHANGED <<key, widgets, owners, emitting, register, trusted>> /\ posted' = Tail(posted)
  BY DeliverQuiet DEF Deliver
<1>2. shown' = [shown EXCEPT ![w] = Shows(w, key, shown[w], v)]
  BY DeliverQuiet
<1>3. ControlsTypes'
  BY <1>1, <1>2, DeliverQuiet DEF ControlsInv, ControlsTypes
<1>4. ASSUME trusted' PROVE (\E j \in 0..Len(widgets) : UpTo(j))'
  <2>1. PICK j \in 0..Len(widgets) : UpTo(j)
    BY <1>1, <1>4 DEF ControlsInv
  <2> DEFINE n == Len(widgets)
             news == [i \in 1..(n - j) |-> <<widgets[j + i], register[First]>>]
  <2>2. n \in Nat /\ j \in Nat /\ j <= n
    BY LenProperties DEF ControlsInv, ControlsTypes
  <2>3. posted \in Seq(Note) /\ emitting \in Seq(Note) /\ posted # <<>>
    BY DEF ControlsInv, ControlsTypes, Deliver
  <2>4. posted \o emitting = news
    BY <2>1 DEF UpTo
  <2>5. /\ posted \o emitting \in Seq(Note) /\ Len(posted \o emitting) > 0
        /\ Head(posted) = (posted \o emitting)[1]
        /\ Tail(posted) \o emitting = Tail(posted \o emitting)
    <3> HIDE DEF Note
    <3>1. Len(posted) \in Nat /\ Len(posted) > 0 /\ Len(emitting) \in Nat
      BY <2>3, LenProperties
    <3>2. posted \o emitting \in Seq(Note) /\ Len(posted \o emitting) = Len(posted) + Len(emitting)
      BY <2>3
    <3>3. Head(posted) = (posted \o emitting)[1]
      BY <2>3, <3>1
    <3>4. posted = <<Head(posted)>> \o Tail(posted) /\ Tail(posted) \in Seq(Note) /\ Head(posted) \in Note
      BY <2>3
    <3>5. posted \o emitting = <<Head(posted)>> \o (Tail(posted) \o emitting)
      BY <2>3, <3>4
    <3>6. Tail(<<Head(posted)>> \o (Tail(posted) \o emitting)) = Tail(posted) \o emitting
      BY <2>3, <3>4
    <3>7. Tail(posted) \o emitting = Tail(posted \o emitting)
      BY <3>5, <3>6, Zenon
    <3>8. Len(posted \o emitting) > 0
      BY <3>1, <3>2
    <3> QED BY <3>2, <3>3, <3>7, <3>8, Zenon
  <2>6. Len(news) = n - j /\ j < n
    <3>1. n - j \in Int
      BY <2>2
    <3> HIDE DEF n
    <3>2. n - j > 0
      <4>1. CASE n - j <= 0
        <5>1. 1..(n - j) = {}
          BY <3>1, <4>1
        <5>2. news = <<>>
          BY <5>1
        <5>3. Len(news) > 0
          BY <2>4, <2>5, Zenon
        <5> HIDE DEF news
        <5>4. Len(news) = 0
          BY <5>2
        <5> QED BY <5>3, <5>4
      <4> QED BY <3>1, <4>1
    <3> QED BY <2>2, <3>1, <3>2
  <2>7. w = widgets[j + 1] /\ v = register[First]
    <3>1. 1 \in 1..(n - j)
      BY <2>2, <2>6
    <3>2. Head(posted) = <<widgets[j + 1], register[First]>>
      BY <2>4, <2>5, <3>1
    <3> QED BY <3>2
  <2>8. Tail(news) = [i \in 1..(n - (j + 1)) |-> <<widgets[(j + 1) + i], register[First]>>]
    <3> HIDE DEF n, news
    <3>1. news \in Seq(Note) /\ Len(news) = n - j /\ n - j > 0
      BY <2>2, <2>4, <2>5, <2>6
    <3>2. /\ Tail(news) \in Seq(Note) /\ Len(Tail(news)) = Len(news) - 1
          /\ \A i \in 1..Len(Tail(news)) : Tail(news)[i] = news[i + 1]
      <4> HIDE DEF Note
      <4>1. news # <<>>
        BY <3>1
      <4> QED BY <3>1, <4>1, HeadTailProperties
    <3>3. Len(news) - 1 = n - (j + 1)
      BY <2>2, <3>1
    <3>4. ASSUME NEW i \in 1..(n - (j + 1))
          PROVE  news[i + 1] = <<widgets[(j + 1) + i], register[First]>>
      <4>1. i + 1 \in 1..(n - j) /\ j + (i + 1) = (j + 1) + i
        BY <2>2
      <4> QED BY <4>1 DEF news
    <3> DEFINE rest == [i \in 1..(n - (j + 1)) |-> <<widgets[(j + 1) + i], register[First]>>]
    <3>5. rest = [i \in 1..(n - (j + 1)) |-> news[i + 1]]
      BY <3>4
    <3>6. \A i \in 1..Len(Tail(news)) : Tail(news)[i] = rest[i]
      BY <3>2, <3>3, <3>5
    <3>7. rest \in [1..(n - (j + 1)) -> Note]
      <4> HIDE DEF Note
      <4>1. \A i \in 1..Len(Tail(news)) : Tail(news)[i] \in Note
        BY <3>2, ElementOfSeq
      <4>2. \A i \in 1..(n - (j + 1)) : news[i + 1] \in Note
        BY <3>2, <3>3, <4>1
      <4> QED BY <3>5, <4>2
    <3>8. n - (j + 1) \in Nat
      BY <2>2, <2>6
    <3> HIDE DEF rest, Note
    <3>9. rest \in Seq(Note) /\ Len(rest) = n - (j + 1)
      BY <3>7, <3>8, FunctionIsSeq
    <3>10. Tail(news) = rest
      BY <3>2, <3>3, <3>6, <3>9, SameElements
    <3> QED BY <3>10 DEF rest
  <2>9. (posted \o emitting)' = [i \in 1..(n - (j + 1)) |-> <<widgets[(j + 1) + i], register[First]>>]
    BY <1>1, <2>4, <2>5, <2>8
  <2>10. w \in DOMAIN shown
    <3>1. j + 1 \in 1..n
      BY <2>2, <2>6
    <3> QED BY <2>7, <3>1 DEF ControlsInv, ControlsTypes
  <2> HIDE DEF w, v
  <2>11. ASSUME NEW i \in 1..(j + 1)
         PROVE  shown'[widgets[i]] = Shows(widgets[i], key, shown'[widgets[i]], register[First])
    <3>1. CASE widgets[i] = w
      BY <1>2, <2>7, <2>10, <3>1, ShownStays
    <3>2. CASE widgets[i] # w
      <4>1. i \in 1..j
        BY <2>2, <2>7, <3>2
      <4>2. shown'[widgets[i]] = shown[widgets[i]]
        <5>1. widgets[i] \in DOMAIN shown
          BY <2>2, <4>1 DEF ControlsInv, ControlsTypes
        <5> QED BY <1>2, <3>2, <5>1
      <4> QED BY <2>1, <4>1, <4>2 DEF UpTo
    <3> QED BY <3>1, <3>2
  <2>12. j + 1 \in 0..n
    BY <2>2, <2>6
  <2> HIDE DEF n, news
  <2>13. UpTo(j + 1)'
    BY <1>1, <2>9, <2>11, <2>12 DEF UpTo, First, n
  <2> QED BY <1>1, <2>12, <2>13 DEF n
<1> QED BY <1>3, <1>4 DEF ControlsInv

-----------------------------------------------------------------------------
(* The packets a device sends: one entry for the key, and maybe one that   *)
(* nobody knows.                                                           *)
PacketOf(value, withUnknown) ==
  LET entry == <<key.name, value>>
  IN  IF withUnknown = "before" THEN <<<<"Unknown", 0>>, entry>>
      ELSE IF withUnknown = "after" THEN <<entry, <<"Unknown", 0>>>> ELSE <<entry>>

\* One queued call for every widget.
News(value) == [k \in DOMAIN widgets |-> <<widgets[k], value>>]

(* The part of a packet before the first key that nobody knows.            *)
LEMMA OneOf ==
  ASSUME NEW a, NEW b
  PROVE  /\ SubSeq(<<a, b>>, 1, 2 - 1) = <<a>>
         /\ SubSeq(<<a>>, 1, Len(<<a>>)) = <<a>>
<1>1. ASSUME NEW s \in Seq({a, b}), Len(s) \in Nat, Len(s) >= 1, s[1] = a
      PROVE  SubSeq(s, 1, 1) = <<a>>
  <2>1. /\ SubSeq(s, 1, 1) \in Seq({a, b}) /\ Len(SubSeq(s, 1, 1)) = 1
        /\ SubSeq(s, 1, 1)[1] = a
    BY <1>1, SubSeqProperties
  <2>2. <<a>> \in Seq({a, b}) /\ Len(<<a>>) = 1 /\ <<a>>[1] = a
    OBVIOUS
  <2>3. \A i \in 1..1 : SubSeq(s, 1, 1)[i] = <<a>>[i]
    BY <2>1, <2>2
  <2> QED BY <2>1, <2>2, <2>3, SameElements
<1>2. /\ <<a, b>> \in Seq({a, b}) /\ Len(<<a, b>>) = 2 /\ <<a, b>>[1] = a
      /\ <<a>> \in Seq({a, b}) /\ Len(<<a>>) = 1 /\ <<a>>[1] = a
  OBVIOUS
<1>3. SubSeq(<<a, b>>, 1, 1) = <<a>>
  <2> DEFINE s == <<a, b>>
  <2>1. s \in Seq({a, b}) /\ Len(s) \in Nat /\ Len(s) >= 1 /\ s[1] = a
    BY <1>2
  <2> HIDE DEF s
  <2>2. SubSeq(s, 1, 1) = <<a>>
    BY <1>1, <2>1
  <2> QED BY <2>2 DEF s
<1>4. SubSeq(<<a>>, 1, 1) = <<a>>
  <2> DEFINE s == <<a>>
  <2>1. s \in Seq({a, b}) /\ Len(s) \in Nat /\ Len(s) >= 1 /\ s[1] = a
    BY <1>2
  <2> HIDE DEF s
  <2>2. SubSeq(s, 1, 1) = <<a>>
    BY <1>1, <2>1
  <2> QED BY <2>2 DEF s
<1>5. 2 - 1 = 1
  OBVIOUS
<1> QED BY <1>2, <1>3, <1>4, <1>5, Zenon

LEMMA KnownPartIs ==
  ASSUME ControlsTypes, NEW o \in DOMAIN owners, NEW value,
         NEW withUnknown \in {"no", "before", "after"}
  PROVE  KnownPart(owners[o], PacketOf(value, withUnknown))
           = IF withUnknown = "before" THEN <<>> ELSE <<<<key.name, value>>>>
<1> DEFINE packet == PacketOf(value, withUnknown)
           unknown == {i \in DOMAIN packet : ~Has(owners[o], packet[i][1])}
<1>1. owners[o] \in Range(owners)
  BY DEF Range
<1>2. Has(owners[o], key.name) /\ ~Has(owners[o], "Unknown")
  BY <1>1 DEF Has, ControlsTypes
<1>3. CASE withUnknown = "no"
  <2>1. packet = <<<<key.name, value>>>>
    BY <1>3 DEF PacketOf
  <2>2. unknown = {}
    BY <1>2, <2>1
  <2>3. KnownPart(owners[o], packet) = SubSeq(packet, 1, Len(packet))
    BY <2>2 DEF KnownPart
  <2> HIDE DEF packet, unknown
  <2>4. SubSeq(packet, 1, Len(packet)) = packet
    BY <2>1, OneOf
  <2> QED BY <1>3, <2>1, <2>3, <2>4 DEF packet
<1>4. CASE withUnknown = "after"
  <2>1. packet = <<<<key.name, value>>, <<"Unknown", 0>>>>
    BY <1>4 DEF PacketOf
  <2>2. DOMAIN packet = {1, 2} /\ packet[1][1] = key.name /\ packet[2][1] = "Unknown"
    BY <2>1
  <2>3. unknown = {2}
    BY <1>2, <2>2
  <2>4. Min(unknown) = 2
    BY <2>3 DEF Min
  <2>5. KnownPart(owners[o], packet) = SubSeq(packet, 1, 2 - 1)
    BY <2>3, <2>4 DEF KnownPart
  <2> HIDE DEF packet, unknown
  <2>6. SubSeq(packet, 1, 2 - 1) = <<<<key.name, value>>>>
    BY <2>1, OneOf
  <2> QED BY <1>4, <2>5, <2>6 DEF packet
<1>5. CASE withUnknown = "before"
  <2>1. packet = <<<<"Unknown", 0>>, <<key.name, value>>>>
    BY <1>5 DEF PacketOf
  <2>2. DOMAIN packet = {1, 2} /\ packet[1][1] = "Unknown" /\ packet[2][1] = key.name
    BY <2>1
  <2>3. unknown = {1}
    BY <1>2, <2>2
  <2>4. Min(unknown) = 1
    BY <2>3 DEF Min
  <2>5. KnownPart(owners[o], packet) = SubSeq(packet, 1, 1 - 1)
    BY <2>3, <2>4 DEF KnownPart
  <2> HIDE DEF packet, unknown
  <2>6. SubSeq(packet, 1, 1 - 1) = <<>>
    BY <2>1
  <2> QED BY <1>5, <2>5, <2>6 DEF packet
<1> QED BY <1>3, <1>4, <1>5

(* The configurables that announce something of a packet.                  *)
LEMMA AnnouncedIs ==
  ASSUME ControlsTypes, NEW packet
  PROVE  \E n \in 1..Len(owners) :
           Announced(packet) = [i \in 1..n |-> <<owners[i], KnownPart(owners[i], packet)>>]
<1> DEFINE takers == {i \in DOMAIN owners : TakesAll(owners[i], packet)}
           end == IF takers = {} THEN Len(owners) ELSE Min(takers)
<1>1. DOMAIN owners = 1..Len(owners) /\ Len(owners) \in 1..2
  <2>1. owners = <<"1">> \/ owners = <<"1", "2">>
    BY DEF ControlsTypes
  <2> QED BY <2>1
<1>2. ASSUME takers # {} PROVE Min(takers) \in takers
  <2>1. \E x \in takers : \A y \in takers : x <= y
    <3>1. takers \in SUBSET {1, 2}
      BY <1>1
    <3> HIDE DEF takers
    <3>2. takers = {1} \/ takers = {2} \/ takers = {1, 2}
      BY <1>2, <3>1
    <3> QED BY <3>2
  <2> HIDE DEF takers
  <2> QED BY <2>1 DEF Min
<1>3. end \in 1..Len(owners)
  <2>1. takers \subseteq 1..Len(owners)
    BY <1>1
  <2> HIDE DEF takers
  <2>2. CASE takers = {}
    BY <1>1, <2>2
  <2>3. CASE takers # {}
    BY <1>2, <2>1, <2>3
  <2> QED BY <2>2, <2>3
<1>4. Announced(packet) = [i \in 1..end |-> <<owners[i], KnownPart(owners[i], packet)>>]
  BY DEF Announced
<1> HIDE DEF end
<1> QED BY <1>3, <1>4

(* What the acquisition thread posts for a packet: the news for all        *)
(* widgets, or nothing when the unknown key came first.                    *)
LEMMA ToPostIs ==
  ASSUME ControlsTypes, NEW value \in Values, NEW withUnknown \in {"no", "before", "after"}
  PROVE  /\ FromMeta(value) \in Values
         /\ News(FromMeta(value)) \in Seq(Note)
         /\ ToPost(PacketOf(value, withUnknown))
              = IF withUnknown = "before" THEN <<>> ELSE News(FromMeta(value))
<1> DEFINE packet == PacketOf(value, withUnknown)
           news == News(FromMeta(value))
           ann == Announced(packet)
           known == IF withUnknown = "before" THEN <<>> ELSE <<<<key.name, value>>>>
           inner == [j \in DOMAIN known |-> [k \in DOMAIN widgets |-> <<widgets[k], FromMeta(known[j][2])>>]]
           outer == [i \in DOMAIN ann |-> IF ann[i][1] # First THEN <<>>
              ELSE FlattenSeq([j \in DOMAIN ann[i][2] |->
                [k \in DOMAIN widgets |-> <<widgets[k], FromMeta(ann[i][2][j][2])>>]])]
<1>1. FromMeta(value) \in Values
  BY RangeAssumption DEF FromMeta, Values
<1>2. news \in Seq(Note)
  <2>1. widgets \in Seq(ClassNames) /\ Len(widgets) \in Nat /\ DOMAIN widgets = 1..Len(widgets)
    BY LenProperties DEF ControlsTypes
  <2>2. news \in [1..Len(widgets) -> Note]
    <3>1. \A k \in 1..Len(widgets) : widgets[k] \in ClassNames
      BY <2>1, ElementOfSeq
    <3> HIDE DEF ClassNames
    <3> QED BY <1>1, <2>1, <3>1 DEF News, Note
  <2> HIDE DEF Note, news
  <2> QED BY <2>1, <2>2, FunctionIsSeq
<1>3. PICK n \in 1..Len(owners) :
        ann = [i \in 1..n |-> <<owners[i], KnownPart(owners[i], packet)>>]
  BY AnnouncedIs
<1>4. DOMAIN owners = 1..Len(owners) /\ Len(owners) \in 1..2
  <2>1. owners = <<"1">> \/ owners = <<"1", "2">>
    BY DEF ControlsTypes
  <2> QED BY <2>1
<1>5. n \in 1..2 /\ DOMAIN ann = 1..n
  <2>1. n \in 1..2
    BY <1>4
  <2> HIDE DEF ann
  <2>2. DOMAIN ann = 1..n
    BY <1>3
  <2> QED BY <2>1, <2>2
<1>6. \A i \in 1..n : ann[i][1] = owners[i] /\ ann[i][2] = known
  <2> HIDE DEF known, packet, ann
  <2>1. \A i \in 1..n : KnownPart(owners[i], packet) = known
    BY <1>4, KnownPartIs DEF known, packet
  <2> QED BY <1>3, <2>1
<1>7. FlattenSeq(inner) = IF withUnknown = "before" THEN <<>> ELSE news
  <2>1. CASE withUnknown = "before"
    <3>1. inner = <<>>
      BY <2>1
    <3> HIDE DEF inner
    <3>2. Len(<<>>) = 0
      OBVIOUS
    <3> QED BY <2>1, <3>1, <3>2 DEF FlattenSeq
  <2>2. CASE withUnknown # "before"
    <3>1. known = <<<<key.name, value>>>>
      BY <2>2
    <3> HIDE DEF known
    <3>2. DOMAIN known = {1} /\ known[1][2] = value
      BY <3>1
    <3>3. inner = [j \in 1..1 |-> news]
      BY <3>2 DEF News
    <3> HIDE DEF inner, news, Note
    <3>4. inner \in Seq(Seq(Note)) /\ Len(inner) = 1 /\ inner[1] = news
      BY <1>2, <3>3
    <3>5. Len(inner) <= 2
      BY <3>4
    <3>6. FlattenSeq(inner) = IF Len(inner) = 0 THEN <<>>
                              ELSE IF Len(inner) = 1 THEN inner[1] ELSE inner[1] \o inner[2]
      BY <3>4, <3>5, FlattenShort
    <3> QED BY <2>2, <3>4, <3>6
  <2> QED BY <2>1, <2>2
<1>8. outer = [i \in 1..n |-> IF owners[i] # First THEN <<>> ELSE FlattenSeq(inner)]
  <2> HIDE DEF known, ann
  <2>1. \A i \in 1..n : outer[i] = IF owners[i] # First THEN <<>> ELSE FlattenSeq(inner)
    BY <1>5, <1>6
  <2>2. outer = [i \in 1..n |-> outer[i]]
    BY <1>5
  <2> HIDE DEF outer, inner
  <2> QED BY <2>1, <2>2
<1>9. ToPost(packet) = FlattenSeq(outer)
  BY DEF ToPost
<1> DEFINE told == IF withUnknown = "before" THEN <<>> ELSE news
<1>10. told \in Seq(Note)
  BY <1>2
<1> HIDE DEF told, outer, inner, ann, packet, news, Note, known
<1>11. /\ outer \in Seq(Seq(Note)) /\ Len(outer) = n
       /\ outer[1] = told /\ (n = 2 => outer[2] = <<>>)
  <2>1. owners[1] = First /\ (n = 2 => owners[2] # First)
    BY <1>3, FirstOwner DEF ControlsTypes
  <2>2. outer \in [1..n -> Seq(Note)]
    BY <1>7, <1>8, <1>10 DEF told
  <2>3. 1 \in 1..n /\ (n = 2 => 2 \in 1..n) /\ n \in Nat
    BY <1>5
  <2>4. outer[1] = told /\ (n = 2 => outer[2] = <<>>)
    BY <1>7, <1>8, <2>1, <2>3 DEF told
  <2>5. outer \in Seq(Seq(Note)) /\ Len(outer) = n
    BY <2>2, <2>3, FunctionIsSeq
  <2> QED BY <2>4, <2>5
<1>12. FlattenSeq(outer) = told
  <2>1. FlattenSeq(outer) = IF Len(outer) = 0 THEN <<>>
                            ELSE IF Len(outer) = 1 THEN outer[1] ELSE outer[1] \o outer[2]
    <3>1. Len(outer) <= 2
      BY <1>5, <1>11
    <3> QED BY <1>11, <3>1, FlattenShort
  <2>2. told \o <<>> = told
    BY <1>10
  <2>3. n = 1 \/ n = 2
    BY <1>5
  <2> QED BY <1>11, <2>1, <2>2, <2>3
<1> QED BY <1>1, <1>2, <1>9, <1>12 DEF told, news, packet

LEMMA DeviceChangesInv ==
  ASSUME ControlsInv, NEW owner \in Range(owners), NEW value \in Values,
         NEW withUnknown \in {"no", "before", "after"},
         DeviceChanges(owner, value, withUnknown)
  PROVE  ControlsInv'
<1>0. ControlsTypes
  BY DEF ControlsInv
<1>1. /\ UNCHANGED <<key, widgets, shown, owners, posted>>
      /\ register' = [register EXCEPT ![owner] = value]
      /\ emitting' = ToPost(PacketOf(value, withUnknown))
  BY DEF DeviceChanges, PacketOf
<1>2. emitting' \in Seq(Note)
  <2>1. <<>> \in Seq(Note)
    OBVIOUS
  <2> QED BY <1>0, <1>1, <2>1, ToPostIs
<1>3. ControlsTypes'
  BY <1>0, <1>1, <1>2 DEF ControlsTypes
<1>4. ASSUME trusted' PROVE (\E j \in 0..Len(widgets) : UpTo(j))'
  <2>1. owner = First /\ posted = <<>> /\ withUnknown # "before" /\ key.type # "MQ"
    BY <1>4 DEF DeviceChanges
  <2>2. FromMeta(value) = value
    BY <1>0, <2>1 DEF ControlsTypes, FromMeta, DataTypes, PropertyOf, BoolProperty, Int32Property,
       DoubleProperty, StringProperty, RationalProperty, DoubleRangeProperty, UInt64RangeProperty,
       MeasuredQuantityProperty, UInt64Property
  <2>3. emitting' = News(value) /\ News(value) \in Seq(Note)
    BY <1>0, <1>1, <2>1, <2>2, ToPostIs
  <2>4. register'[First] = value /\ First' = First
    BY <1>0, <1>1, <2>1, FirstOwner DEF First
  <2>5. Len(widgets) \in Nat /\ DOMAIN widgets = 1..Len(widgets)
    BY <1>0, LenProperties DEF ControlsTypes
  <2>6. posted' \o emitting' = News(value)
    <3> HIDE DEF Note
    <3>1. <<>> \o News(value) = News(value)
      BY <2>3
    <3> QED BY <1>1, <2>1, <2>3, <3>1
  <2>7. News(value) = [i \in 1..(Len(widgets) - 0) |-> <<widgets[0 + i], value>>]
    BY <2>5 DEF News
  <2>9. 0 \in 0..Len(widgets) /\ 1..0 = {}
    BY <2>5
  <2>8. UpTo(0)'
    <3>1. widgets' = widgets
      BY <1>1
    <3>2. posted' \o emitting' = [i \in 1..(Len(widgets') - 0) |-> <<widgets'[0 + i], register'[First']>>]
      BY <2>4, <2>6, <2>7, <3>1, Zenon
    <3>3. \A i \in 1..0 : shown'[widgets'[i]]
                            = Shows(widgets'[i], key', shown'[widgets'[i]], register'[First'])
      BY <2>9
    <3> HIDE DEF Shows
    <3> QED BY <2>9, <3>1, <3>2, <3>3 DEF UpTo
  <2> QED BY <1>1, <2>8, <2>9
<1> QED BY <1>3, <1>4 DEF ControlsInv

LEMMA ControlsStep == ControlsInv /\ [ControlsNext]_controlsVars => ControlsInv'
<1> SUFFICES ASSUME ControlsInv, [ControlsNext]_controlsVars PROVE ControlsInv'
  OBVIOUS
<1>1. CASE UserActs
  <2>1. PICK w \in Range(widgets), fails \in BOOLEAN :
          \/ \E value \in Values : Pick(w, value, fails)
          \/ \E value \in Values : Type(w, value)
          \/ FinishEdit(w, fails)
    BY <1>1 DEF UserActs
  <2> QED BY <2>1, PickInv, TypeInv, FinishEditInv
<1>2. CASE ScriptActs
  BY <1>2, ScriptSetsInv DEF ScriptActs
<1>3. CASE DeviceActs
  BY <1>3, DeviceChangesInv DEF DeviceActs
<1>4. CASE PostNext
  BY <1>4, PostNextInv
<1>5. CASE Deliver
  BY <1>5, DeliverInv
<1>6. CASE UNCHANGED controlsVars
  BY <1>6 DEF controlsVars, ControlsInv, ControlsTypes, UpTo, First
<1> QED BY <1>1, <1>2, <1>3, <1>4, <1>5, <1>6 DEF ControlsNext

LEMMA InvShows == ControlsInv => ShowsTheDevice
<1> SUFFICES ASSUME ControlsInv, trusted, posted = <<>>, emitting = <<>>, NEW w \in Range(widgets)
             PROVE  shown[w] = Shows(w, key, shown[w], register[First])
  BY DEF ShowsTheDevice
<1>1. PICK j \in 0..Len(widgets) : UpTo(j)
  BY DEF ControlsInv
<1>2. Len(widgets) \in Nat /\ DOMAIN widgets = 1..Len(widgets)
  BY LenProperties DEF ControlsInv, ControlsTypes
<1>3. j = Len(widgets)
  <2>1. [i \in 1..(Len(widgets) - j) |-> <<widgets[j + i], register[First]>>] = <<>>
    <3>1. posted \o emitting = <<>>
      OBVIOUS
    <3> QED BY <1>1, <3>1 DEF UpTo
  <2>2. 1..(Len(widgets) - j) = {}
    BY <2>1
  <2>3. ~(1 \in 1..(Len(widgets) - j))
    BY <2>2
  <2> DEFINE n == Len(widgets)
  <2>4. n \in Nat /\ j \in 0..n /\ ~(1 \in 1..(n - j))
    BY <1>2, <2>3
  <2> HIDE DEF n
  <2>5. j = n
    BY <2>4
  <2> QED BY <2>5 DEF n
<1>4. PICK i \in 1..Len(widgets) : w = widgets[i]
  BY <1>2 DEF Range
<1> QED BY <1>1, <1>3, <1>4 DEF UpTo

(* For every range of the values and every bound: once the queued calls    *)
(* are handled and the last news was not disturbed, every widget of every  *)
(* open view shows the value of the device, as far as it can.              *)
THEOREM ControlsShow == ControlsSpec => []ShowsTheDevice
<1> QED BY ControlsInitInv, ControlsStep, InvShows, PTL DEF ControlsSpec

(* A value that came from the device is never sent back to it.             *)
THEOREM NoNewsIsSent == ControlsSpec => NoEcho
<1>1. ControlsInv /\ [ControlsNext]_controlsVars => [Deliver => register' = register]_controlsVars
  BY DeliverQuiet
<1> QED BY ControlsInitInv, ControlsStep, <1>1, PTL DEF ControlsSpec, NoEcho

-----------------------------------------------------------------------------
(* The sequence output view.                                               *)

(* A set of numbers has a least element.                                   *)
LEMMA NatMin ==
  ASSUME NEW S \in SUBSET Nat, S # {}
  PROVE  \E m \in S : \A k \in S : m <= k
<1>1. PICK R : /\ IsWellFoundedOn(R, Nat)
               /\ \A k, m \in Nat : k < m => <<k, m>> \in R
  <2>1. \A k, m \in Nat : k < m => <<k, m>> \in OpToRel(<, Nat)
    BY SMT DEF OpToRel
  <2> QED BY <2>1, NatLessThanWellFounded, Zenon
<1>2. PICK m \in S : \A k \in S : ~ (<<k, m>> \in R)
  <2>1. S \subseteq Nat
    OBVIOUS
  <2>2. IsWellFoundedOn(R, Nat)
    BY <1>1
  <2> QED BY ONLY <2>1, <2>2, S # {}, WFMin
<1>3. ASSUME NEW k \in S, ~(m <= k)
      PROVE  FALSE
  <2>1. k \in Nat /\ m \in Nat /\ k < m
    BY <1>3
  <2> QED BY <1>1, <1>2, <2>1
<1> QED BY <1>3

(* A set that holds p, and with a number the next one, holds all from p on *)
(* to n.                                                                   *)
LEMMA UpFrom ==
  ASSUME NEW S, NEW p \in Nat, NEW n \in Nat, p \in S,
         \A k \in p..n : k < n /\ k \in S => k + 1 \in S
  PROVE  p..n \subseteq S
<1> DEFINE Out == {k \in p..n : k \notin S}
<1>1. ASSUME Out # {}
      PROVE  FALSE
  <2>1. Out \in SUBSET Nat
    OBVIOUS
  <2>2. PICK m \in Out : \A k \in Out : m <= k
    BY <1>1, <2>1, NatMin
  <2>3. m \in p..n /\ m \notin S /\ m # p
    BY <2>2
  <2>4. m - 1 \in p..n /\ m - 1 < n /\ ~(m <= m - 1)
    BY <2>3
  <2>5. m - 1 \in S
    BY <2>2, <2>4
  <2>6. (m - 1) + 1 \in S
    BY <2>4, <2>5
  <2> QED BY <2>3, <2>6
<1> QED BY <1>1

(* The least element is the one Min finds.                                 *)
LEMMA MinIs ==
  ASSUME NEW S \in SUBSET Nat, S # {}
  PROVE  Min(S) \in S /\ \A k \in S : Min(S) <= k
BY NatMin DEF Min

(* A sequence is a prefix of another when they agree as far as it goes.    *)
LEMMA BeginsIs ==
  ASSUME NEW T, NEW a \in Seq(T), NEW b \in Seq(T), Len(a) <= Len(b),
         \A i \in 1..Len(a) : a[i] = b[i]
  PROVE  IsPrefix(a, b)
<1>1. Len(a) \in Nat /\ Len(b) \in Nat
  OBVIOUS
<1>2. ASSUME NEW c \in Seq(T), Len(a) <= Len(c)
      PROVE  /\ SubSeq(c, 1, Len(a)) \in Seq(T) /\ Len(SubSeq(c, 1, Len(a))) = Len(a)
             /\ \A i \in 1..Len(a) : SubSeq(c, 1, Len(a))[i] = c[i]
  BY <1>1, <1>2
<1>3. SubSeq(a, 1, Len(a)) = SubSeq(b, 1, Len(a))
  <2> DEFINE u == SubSeq(a, 1, Len(a))
             v == SubSeq(b, 1, Len(a))
  <2>1. u \in Seq(T) /\ v \in Seq(T) /\ Len(u) = Len(a) /\ Len(v) = Len(a)
        /\ \A i \in 1..Len(a) : u[i] = a[i] /\ v[i] = b[i]
    BY <1>1, <1>2
  <2>2. \A i \in 1..Len(u) : u[i] = v[i]
    BY <2>1
  <2> HIDE DEF u, v
  <2> QED BY <2>1, <2>2, SameElements
<1> QED
  BY <1>3 DEF IsPrefix

-----------------------------------------------------------------------------
(* What the recursive function Timed is, row by row.                       *)
LEMMA TimedStep ==
  ASSUME NEW table \in Seq(Row)
  PROVE  /\ Timed(table)[0] = <<>>
         /\ \A k \in 1..Len(table) :
              Timed(table)[k] = IF table[k].timed THEN Append(Timed(table)[k - 1], table[k].v)
                                ELSE Timed(table)[k - 1]
<1> DEFINE n == Len(table)
           Upto(m, h) == h = [k \in 0..m |->
              IF k = 0 THEN <<>>
              ELSE IF table[k].timed THEN Append(h[k - 1], table[k].v) ELSE h[k - 1]]
           S == {m \in Nat : \E h : Upto(m, h)}
<1>1. n \in Nat
  BY LenProperties
<1> HIDE DEF n
<1>2. 0 \in S
  <2>1. Upto(0, [k \in 0..0 |-> <<>>])
    OBVIOUS
  <2> QED BY <2>1
<1>3. ASSUME NEW m \in 0..n, m \in S
      PROVE  m + 1 \in S
  <2>1. PICK h : Upto(m, h)
    BY <1>3
  <2>2. m \in Nat /\ m + 1 \in Nat /\ (m + 1) - 1 = m
    BY <1>1
  <2> DEFINE next == IF table[m + 1].timed THEN Append(h[m], table[m + 1].v) ELSE h[m]
             new == [k \in 0..(m + 1) |-> IF k = m + 1 THEN next ELSE h[k]]
  <2>3. ASSUME NEW k \in 0..(m + 1)
        PROVE  new[k] = IF k = 0 THEN <<>>
                        ELSE IF table[k].timed THEN Append(new[k - 1], table[k].v) ELSE new[k - 1]
    <3>1. CASE k = m + 1
      <4>1. new[k] = next /\ new[k - 1] = h[m] /\ k # 0
        BY <2>2, <3>1
      <4> QED BY <3>1, <4>1
    <3>2. CASE k # m + 1
      <4>1. k \in 0..m /\ new[k] = h[k] /\ (k # 0 => new[k - 1] = h[k - 1])
        BY <2>2, <3>2
      <4>2. h[k] = IF k = 0 THEN <<>>
                   ELSE IF table[k].timed THEN Append(h[k - 1], table[k].v) ELSE h[k - 1]
        BY <2>1, <4>1
      <4> QED BY <4>1, <4>2
    <3> QED BY <3>1, <3>2
  <2>4. Upto(m + 1, new)
    BY <2>3
  <2> HIDE DEF Upto, new
  <2> QED BY <2>2, <2>4
<1>4. n \in S
  <2> HIDE DEF S
  <2>1. 0..n \subseteq S
    BY <1>1, <1>2, <1>3, UpFrom
  <2> QED BY <1>1, <2>1
<1>5. \E h : Upto(n, h)
  BY <1>4
<1>6. Timed(table) = CHOOSE h : Upto(n, h)
  BY DEF Timed, n
<1>7. Upto(n, Timed(table))
  <2> HIDE DEF Upto
  <2> QED BY <1>5, <1>6, Zenon
<1> DEFINE W == Timed(table)
<1>8. W = [k \in 0..n |->
             IF k = 0 THEN <<>>
             ELSE IF table[k].timed THEN Append(W[k - 1], table[k].v) ELSE W[k - 1]]
  BY <1>7
<1> HIDE DEF W
<1>9. ASSUME NEW k \in 0..n
      PROVE  W[k] = IF k = 0 THEN <<>>
                    ELSE IF table[k].timed THEN Append(W[k - 1], table[k].v) ELSE W[k - 1]
  BY <1>8
<1>10. 0 \in 0..n /\ \A k \in 1..n : k \in 0..n /\ k # 0
  BY <1>1
<1> QED
  BY <1>9, <1>10 DEF n, W

(* Timed rows, and the rows before, have values.                           *)
LEMMA TimedType ==
  ASSUME NEW table \in Seq(Row), NEW k \in 0..Len(table)
  PROVE  Timed(table)[k] \in Seq(Outputs) /\ Len(Timed(table)[k]) \in Nat
<1> DEFINE n == Len(table)
           W == Timed(table)
           S == {m \in Nat : W[m] \in Seq(Outputs)}
<1>1. n \in Nat
  BY LenProperties
<1>2. 0 \in S
  <2>1. W[0] = <<>>
    BY TimedStep
  <2> HIDE DEF W
  <2>2. <<>> \in Seq(Outputs)
    OBVIOUS
  <2> QED BY <2>1, <2>2
<1>3. ASSUME NEW m \in 0..n, m < n, m \in S
      PROVE  m + 1 \in S
  <2>1. m + 1 \in 1..n /\ (m + 1) - 1 = m /\ m + 1 \in Nat
    BY <1>1, <1>3
  <2>2. W[m + 1] = IF table[m + 1].timed THEN Append(W[m], table[m + 1].v) ELSE W[m]
    BY <2>1, TimedStep
  <2>3. table[m + 1] \in Row
    BY <2>1, ElementOfSeq
  <2>4. table[m + 1].v \in Outputs
    BY <2>3 DEF Row
  <2> HIDE DEF W
  <2>5. W[m] \in Seq(Outputs)
    BY <1>3
  <2>6. W[m + 1] \in Seq(Outputs)
    BY <2>2, <2>4, <2>5
  <2> QED BY <2>1, <2>6
<1>4. 0..n \subseteq S
  <2> HIDE DEF S, n
  <2> QED BY <1>1, <1>2, <1>3, UpFrom
<1>5. W[k] \in Seq(Outputs)
  BY <1>4
<1> HIDE DEF W
<1>6. Len(W[k]) \in Nat
  BY <1>5, LenProperties
<1> QED BY <1>5, <1>6 DEF W

(* The values of the first p rows begin those of the first q.              *)
LEMMA TimedGrows ==
  ASSUME NEW table \in Seq(Row), NEW p \in 0..Len(table), NEW q \in p..Len(table)
  PROVE  /\ Len(Timed(table)[p]) <= Len(Timed(table)[q])
         /\ \A i \in 1..Len(Timed(table)[p]) : Timed(table)[q][i] = Timed(table)[p][i]
<1> DEFINE n == Len(table)
           W == Timed(table)
           Begins(m) == Len(W[p]) <= Len(W[m]) /\ \A i \in 1..Len(W[p]) : W[m][i] = W[p][i]
           S == {m \in 0..n : Begins(m)}
<1>1. n \in Nat /\ p \in Nat /\ p <= n
  BY LenProperties
<1>2. p \in S
  <2>1. Len(W[p]) \in Nat
    BY TimedType
  <2> HIDE DEF W
  <2> QED BY <2>1
<1>3. ASSUME NEW m \in p..n, m < n, m \in S
      PROVE  m + 1 \in S
  <2>1. m + 1 \in 1..n /\ (m + 1) - 1 = m /\ m + 1 \in 0..n /\ m \in 0..n
    BY <1>1, <1>3
  <2>2. W[m + 1] = IF table[m + 1].timed THEN Append(W[m], table[m + 1].v) ELSE W[m]
    BY <2>1, TimedStep
  <2>3. W[m] \in Seq(Outputs) /\ Len(W[m]) \in Nat /\ Len(W[p]) \in Nat
    BY <2>1, TimedType
  <2>4. Begins(m)
    BY <1>3
  <2> HIDE DEF W
  <2>5. CASE table[m + 1].timed
    <3>1. W[m + 1] = Append(W[m], table[m + 1].v)
      BY <2>2, <2>5
    <3>2. Len(W[m + 1]) = Len(W[m]) + 1 /\ \A i \in 1..Len(W[m]) : W[m + 1][i] = W[m][i]
      BY <2>3, <3>1
    <3>3. \A i \in 1..Len(W[p]) : i \in 1..Len(W[m])
      BY <2>3, <2>4
    <3> QED BY <2>1, <2>3, <2>4, <3>2, <3>3
  <2>6. CASE ~table[m + 1].timed
    BY <2>1, <2>2, <2>4, <2>6
  <2> QED BY <2>5, <2>6
<1>4. p..n \subseteq S
  <2> HIDE DEF S, n
  <2> QED BY <1>1, <1>2, <1>3, UpFrom
<1> HIDE DEF W
<1> QED BY <1>4 DEF W

(* Rows without a delay add nothing.                                       *)
LEMMA TimedSame ==
  ASSUME NEW table \in Seq(Row), NEW p \in 0..Len(table), NEW q \in p..Len(table),
         \A i \in (p + 1)..q : ~table[i].timed
  PROVE  Timed(table)[q] = Timed(table)[p]
<1> DEFINE n == Len(table)
           W == Timed(table)
           S == {m \in 0..n : W[m] = W[p]}
<1>1. n \in Nat /\ p \in Nat /\ p <= n /\ q \in Nat /\ p <= q /\ q <= n
  BY LenProperties
<1>2. p \in S
  BY <1>1
<1>3. ASSUME NEW m \in p..q, m < q, m \in S
      PROVE  m + 1 \in S
  <2>1. m + 1 \in 1..n /\ (m + 1) - 1 = m /\ m + 1 \in 0..n /\ m + 1 \in (p + 1)..q
    BY <1>1, <1>3
  <2>2. W[m + 1] = IF table[m + 1].timed THEN Append(W[m], table[m + 1].v) ELSE W[m]
    BY <2>1, TimedStep
  <2> HIDE DEF W
  <2> QED BY <1>3, <2>1, <2>2
<1>4. p..q \subseteq S
  <2> HIDE DEF S, n
  <2> QED BY <1>1, <1>2, <1>3, UpFrom
<1> HIDE DEF W
<1> QED BY <1>1, <1>4 DEF W

(* A row adds one value at most.                                           *)
LEMMA TimedShort ==
  ASSUME NEW table \in Seq(Row), NEW k \in 0..Len(table)
  PROVE  Len(Timed(table)[k]) <= k
<1> DEFINE n == Len(table)
           W == Timed(table)
           S == {m \in Nat : Len(W[m]) <= m}
<1>1. n \in Nat
  BY LenProperties
<1>2. 0 \in S
  <2>1. W[0] = <<>>
    BY TimedStep
  <2> HIDE DEF W
  <2> QED BY <2>1
<1>3. ASSUME NEW m \in 0..n, m < n, m \in S
      PROVE  m + 1 \in S
  <2>1. m + 1 \in 1..n /\ (m + 1) - 1 = m /\ m + 1 \in Nat /\ m \in 0..n /\ m \in Nat
    BY <1>1, <1>3
  <2>2. W[m + 1] = IF table[m + 1].timed THEN Append(W[m], table[m + 1].v) ELSE W[m]
    BY <2>1, TimedStep
  <2>3. W[m] \in Seq(Outputs) /\ Len(W[m]) \in Nat
    BY <2>1, TimedType
  <2>4. Len(W[m]) <= m
    BY <1>3
  <2> HIDE DEF W
  <2>5. Len(Append(W[m], table[m + 1].v)) = Len(W[m]) + 1
    BY <2>3
  <2>6. Len(W[m + 1]) = Len(W[m]) + 1 \/ Len(W[m + 1]) = Len(W[m])
    BY <2>2, <2>5
  <2>7. Len(W[m + 1]) <= m + 1
    BY <2>1, <2>3, <2>4, <2>6
  <2> QED BY <2>1, <2>7
<1>4. 0..n \subseteq S
  <2> HIDE DEF S, n
  <2> QED BY <1>1, <1>2, <1>3, UpFrom
<1> HIDE DEF W
<1> QED BY <1>4 DEF W

-----------------------------------------------------------------------------
(* Counting in cycles of n values: the arithmetic of Expected.             *)
LEMMA SmallMultiple ==
  ASSUME NEW n \in Nat \ {0}, NEW d \in Int, n * d < n, -n < n * d
  PROVE  d = 0
<1>1. d >= 1 => n * d >= n
  OBVIOUS
<1>2. d <= -1 => n * d <= -n
  OBVIOUS
<1> QED BY <1>1, <1>2

LEMMA RemainderIs ==
  ASSUME NEW n \in Nat \ {0}, NEW c \in Nat, NEW l \in 0..(n - 1)
  PROVE  (c * n + l) % n = l
<1> DEFINE a == c * n + l
           q == a \div n
           r == a % n
<1>1. a \in Nat
  OBVIOUS
<1>2. r \in 0..(n - 1) /\ q \in Int /\ a = n * q + r
  <2> HIDE DEF a
  <2>1. r \in 0..(n - 1)
    BY <1>1
  <2>2. q \in Int
    BY <1>1
  <2>3. a = n * q + r
    BY <1>1
  <2> QED BY <2>1, <2>2, <2>3
<1>3. c - q \in Int /\ n * (c - q) = r - l
  <2> HIDE DEF q, r
  <2>1. c * n + l = n * q + r
    BY <1>2
  <2>2. n * (c - q) = n * c - n * q /\ n * c = c * n
    BY <1>2
  <2>3. c * n \in Int /\ n * q \in Int
    BY <1>2
  <2> QED BY <1>2, <2>1, <2>2, <2>3
<1>4. n * (c - q) < n /\ -n < n * (c - q)
  <2> HIDE DEF q, r
  <2> QED BY <1>2, <1>3
<1>5. c - q = 0
  <2> HIDE DEF q, r
  <2> QED BY <1>3, <1>4, SmallMultiple
<1>6. r = l
  <2> HIDE DEF q, r
  <2>1. n * (c - q) = 0
    BY <1>5
  <2> QED BY <1>2, <1>3, <2>1
<1> QED BY <1>6

LEMMA CountFits ==
  ASSUME NEW n \in Nat, NEW r \in Nat, NEW c \in 0..(r - 1), NEW l \in 0..n
  PROVE  /\ c * n + l <= n * r
         /\ l < n => c * n + l < n * r
         /\ c * n + n = (c + 1) * n
<1>1. c * n + n = (c + 1) * n
  OBVIOUS
<1>2. (c + 1) * n <= r * n
  <2>1. c + 1 <= r /\ c + 1 \in Nat
    OBVIOUS
  <2> QED BY <2>1
<1>3. r * n = n * r /\ c * n \in Nat /\ n * r \in Nat
  OBVIOUS
<1> QED BY <1>1, <1>2, <1>3

LEMMA Wider == ASSUME NEW n \in Nat, NEW m \in Nat, NEW r \in Nat, n <= m PROVE n * r <= m * r
OBVIOUS

-----------------------------------------------------------------------------
\* All that one cycle plays.
Whole == Timed(rows)[Len(rows)]

(* So many values are played, the right ones.                              *)
PlayedSo(count) ==
  /\ played \in Seq(Outputs) /\ Len(played) = count
  /\ \A k \in 1..count : played[k] = Whole[((k - 1) % Len(Whole)) + 1]

(* A run nobody edited has played so many whole cycles, and the next one   *)
(* up to the row it is at.                                                 *)
Playing ==
  /\ active /\ ~infinite /\ rows # <<>>
  /\ pos \in 0..Len(rows) /\ cycles \in 0..(repeats - 1)
  /\ pos = 0 => cycles = 0
  /\ PlayedSo(cycles * Len(Whole) + Len(Timed(rows)[pos]))

SequenceInv ==
  /\ rows \in Seq(Row) /\ repeats \in Nat \ {0}
  /\ connections = IF active THEN 1 ELSE 0
  /\ active => checked
  /\ fault = "no" /\ rows # <<>> => property
  /\ run = "exact" => Playing
  /\ run = "done" => played = Expected

(* The next row with a delay, the one at p, is played.                     *)
LEMMA PlayStep ==
  ASSUME rows \in Seq(Row), repeats \in Nat \ {0}, NEW p \in 1..Len(rows), rows[p].timed,
         NEW c \in 0..(repeats - 1),
         PlayedSo(c * Len(Whole) + Len(Timed(rows)[p - 1])),
         run = "exact", Play(p), rows' = rows
  PROVE  PlayedSo(c * Len(Whole) + Len(Timed(rows)[p]))'
<1> DEFINE W == Timed(rows)
           w == Whole
           n == Len(w)
           l == Len(W[p - 1])
           L == c * n + l
           v == rows[p].v
<1>1. Len(rows) \in Nat /\ p - 1 \in 0..Len(rows) /\ p \in 0..Len(rows) /\ Len(rows) \in p..Len(rows)
      /\ Len(rows) \in 0..Len(rows)
  BY LenProperties
<1>2. W[p - 1] \in Seq(Outputs) /\ l \in Nat /\ n \in Nat
  BY <1>1, TimedType DEF Whole
<1>3. W[p] = Append(W[p - 1], v)
  BY TimedStep
<1>4. v \in Outputs
  <2>1. rows[p] \in Row
    BY ElementOfSeq
  <2> QED BY <2>1 DEF Row
<1>5. Len(W[p]) = l + 1 /\ W[p][l + 1] = v
  <2> HIDE DEF W, v
  <2> QED BY <1>2, <1>3, <1>4
<1>6. l + 1 <= n /\ w[l + 1] = v
  <2>1. Len(W[p]) <= n /\ \A i \in 1..Len(W[p]) : w[i] = W[p][i]
    BY <1>1, TimedGrows DEF Whole
  <2> HIDE DEF W, w, v, n, l
  <2>2. l + 1 \in 1..Len(W[p])
    BY <1>2, <1>5
  <2> QED BY <1>2, <1>5, <2>1, <2>2
<1> HIDE DEF W, w, v, n, l
<1>7. n \in Nat \ {0} /\ l \in 0..(n - 1) /\ c \in Nat /\ L \in Nat
  <2>1. n \in Nat \ {0} /\ l \in 0..(n - 1) /\ c \in Nat
    BY <1>2, <1>6
  <2>2. c * n \in Nat
    BY <2>1
  <2> QED BY <2>1, <2>2
<1>8. w[(L % n) + 1] = v
  BY <1>6, <1>7, RemainderIs
<1>9. L < n * repeats
  <2>1. repeats \in Nat /\ l \in 0..n /\ l < n
    BY <1>7
  <2> QED BY <1>7, <2>1, CountFits
<1>10. n <= Len(rows)
  BY <1>1, TimedShort DEF n, w, Whole
<1>11. L <= MaxPlayed
  <2>1. n * repeats <= Len(rows) * repeats
    BY <1>1, <1>7, <1>10, Wider
  <2>2. n * repeats \in Nat /\ Len(rows) * repeats \in Nat
    BY <1>1, <1>7
  <2> HIDE DEF L
  <2> QED BY <1>7, <1>9, <2>1, <2>2 DEF MaxPlayed
<1>12. PlayedSo(L)
  BY DEF n, w, l, W
<1> HIDE DEF L
<1>13. played \in Seq(Outputs) /\ Len(played) = L /\ \A k \in 1..L : played[k] = w[((k - 1) % n) + 1]
  BY <1>12 DEF PlayedSo, n, w
<1>14. played' = Append(played, v)
  BY <1>11, <1>13 DEF Play, v
<1>15. played' \in Seq(Outputs) /\ Len(played') = L + 1
       /\ played'[L + 1] = v /\ \A k \in 1..L : played'[k] = played[k]
  BY <1>4, <1>7, <1>13, <1>14
<1>16. \A k \in 1..(L + 1) : played'[k] = w[((k - 1) % n) + 1]
  <2>1. ASSUME NEW k \in 1..(L + 1)
        PROVE  played'[k] = w[((k - 1) % n) + 1]
    <3>1. CASE k = L + 1
      <4>1. k - 1 = L
        BY <1>7, <3>1
      <4> QED BY <1>8, <1>15, <3>1, <4>1
    <3>2. CASE k # L + 1
      <4>1. k \in 1..L
        BY <1>7, <3>2
      <4> QED BY <1>13, <1>15, <4>1
    <3> QED BY <3>1, <3>2
  <2> QED BY <2>1
<1>17. L + 1 = c * n + Len(W[p])
  <2>1. c * n \in Nat
    BY <1>7
  <2> QED BY <1>7, <1>5, <2>1 DEF L
<1>18. Whole' = Whole /\ Timed(rows)' = Timed(rows)
  BY DEF Whole
<1>19. c * Len(Whole') + Len(Timed(rows')[p]) = L + 1
  BY <1>17, <1>18 DEF n, w, W
<1>20. \A k \in 1..(L + 1) : played'[k] = Whole'[((k - 1) % Len(Whole')) + 1]
  BY <1>16, <1>18 DEF n, w
<1>21. played' \in Seq(Outputs) /\ Len(played') = L + 1
  BY <1>15
<1> HIDE DEF L
<1> QED
  BY <1>19, <1>20, <1>21 DEF PlayedSo

(* Nothing with a delay is left behind row p: all values are played.       *)
LEMMA NoneLeft ==
  ASSUME rows \in Seq(Row), NEW p \in 0..Len(rows), TimedAfter(p) = {}
  PROVE  Timed(rows)[p] = Whole
<1>1. Len(rows) \in p..Len(rows) /\ \A i \in (p + 1)..Len(rows) : ~rows[i].timed
  BY LenProperties DEF TimedAfter
<1> QED BY <1>1, TimedSame DEF Whole

(* The next row with a delay, and no value between.                        *)
LEMMA NextTimed ==
  ASSUME rows \in Seq(Row), NEW p \in 0..Len(rows), TimedAfter(p) # {}
  PROVE  LET q == Min(TimedAfter(p))
         IN  /\ q \in (p + 1)..Len(rows) /\ q \in 1..Len(rows) /\ rows[q].timed
             /\ Timed(rows)[q - 1] = Timed(rows)[p]
<1> DEFINE q == Min(TimedAfter(p))
<1>1. Len(rows) \in Nat /\ p \in Nat
  BY LenProperties
<1>2. TimedAfter(p) \in SUBSET Nat
  BY <1>1 DEF TimedAfter
<1>3. q \in TimedAfter(p) /\ \A k \in TimedAfter(p) : q <= k
  BY <1>2, MinIs
<1> HIDE DEF q
<1>4. q \in (p + 1)..Len(rows) /\ rows[q].timed
  BY <1>3 DEF TimedAfter
<1>5. q \in 1..Len(rows) /\ q - 1 \in p..Len(rows)
  BY <1>1, <1>4
<1>6. \A i \in (p + 1)..(q - 1) : ~rows[i].timed
  <2>1. ASSUME NEW i \in (p + 1)..(q - 1), rows[i].timed
        PROVE  FALSE
    <3>1. i \in (p + 1)..Len(rows) /\ ~(q <= i)
      BY <1>1, <1>4
    <3> QED BY <1>3, <2>1, <3>1 DEF TimedAfter
  <2> QED BY <2>1
<1>7. Timed(rows)[q - 1] = Timed(rows)[p]
  BY <1>5, <1>6, TimedSame
<1> QED BY <1>4, <1>5, <1>7 DEF q

(* As many values as there are rows with a delay, as often as the repeat   *)
(* count says, are what is expected.                                       *)
LEMMA AllPlayed ==
  ASSUME rows \in Seq(Row), repeats \in Nat \ {0},
         PlayedSo(Len(Whole) * repeats)
  PROVE  played = Expected
<1> DEFINE n == Len(Whole)
           m == n * repeats
<1>1. n \in Nat
  <2>1. Len(rows) \in 0..Len(rows)
    BY LenProperties
  <2> QED BY <2>1, TimedType DEF Whole
<1>2. m \in Nat
  BY <1>1
<1>3. Expected = [k \in 1..m |-> Whole[((k - 1) % n) + 1]]
  BY DEF Expected, Whole
<1>4. played \in Seq(Outputs) /\ Len(played) = m
      /\ \A k \in 1..m : played[k] = Whole[((k - 1) % n) + 1]
  BY DEF PlayedSo
<1> HIDE DEF m, n
<1>5. \A k \in 1..m : Expected[k] = played[k]
  BY <1>3, <1>4
<1>6. Expected \in [1..m -> Outputs]
  <2>1. \A k \in 1..m : played[k] \in Outputs
    BY <1>4, ElementOfSeq
  <2> QED BY <1>3, <1>4, <2>1
<1>7. Expected \in Seq(Outputs) /\ Len(Expected) = m
  <2> HIDE DEF Expected
  <2> QED BY <1>2, <1>6, FunctionIsSeq
<1> QED
  BY <1>4, <1>5, <1>7, SameElements

LEMMA SequenceInit == InitSequence => SequenceInv
<1> SUFFICES ASSUME InitSequence PROVE SequenceInv
  OBVIOUS
<1>1. rows \in Seq(Row) /\ repeats \in Nat \ {0} /\ rows = <<>>
  BY DEF InitSequence
<1> QED BY <1>1 DEF InitSequence, SequenceInv

(* An edit of the table: the run is no longer one that nobody edited.      *)
LEMMA EditStep ==
  ASSUME SequenceInv, Edit, rows' \in Seq(Row), repeats' \in Nat \ {0},
         fault' = "no" /\ rows' # <<>> => property
  PROVE  SequenceInv'
BY DEF Edit, timerVars, SequenceInv

(* What the edits leave is a table.                                        *)
LEMMA InsertIsTable ==
  ASSUME SequenceInv, NEW at \in 0..Len(rows), NEW new \in Seq(Row), InsertRows(at, new)
  PROVE  rows' \in Seq(Row) /\ (fault' = "no" => property)
<1>1. rows \in Seq(Row) /\ Len(rows) \in Nat
  BY LenProperties DEF SequenceInv
<1>2. \A i \in 1..Len(rows) : rows[i] \in Row
  BY <1>1, ElementOfSeq
<1>3. SubSeq(rows, 1, at) \in Seq(Row) /\ SubSeq(rows, at + 1, Len(rows)) \in Seq(Row)
  <2>1. \A i \in 1..at : rows[i] \in Row
    BY <1>1, <1>2
  <2>2. \A i \in (at + 1)..Len(rows) : rows[i] \in Row
    BY <1>1, <1>2
  <2>3. at \in Int /\ at + 1 \in Int
    BY <1>1
  <2> QED BY <1>1, <2>1, <2>2, <2>3, SubSeqProperties
<1>4. fault' = "no" => property
  BY DEF InsertRows
<1> HIDE DEF Row
<1> QED BY <1>3, <1>4 DEF InsertRows

LEMMA RemoveIsTable ==
  ASSUME NEW table \in Seq(Row), NEW p \in DOMAIN table
  PROVE  RemoveAt(table, p) \in Seq(Row)
<1>1. Len(table) \in Nat /\ p \in 1..Len(table)
  BY LenProperties
<1>2. \A i \in 1..Len(table) : table[i] \in Row
  BY ElementOfSeq
<1>3. SubSeq(table, 1, p - 1) \in Seq(Row) /\ SubSeq(table, p + 1, Len(table)) \in Seq(Row)
  <2>1. \A i \in 1..(p - 1) : table[i] \in Row
    BY <1>1, <1>2
  <2>2. \A i \in (p + 1)..Len(table) : table[i] \in Row
    BY <1>1, <1>2
  <2>3. p - 1 \in Int /\ p + 1 \in Int
    BY <1>1
  <2> QED BY <1>1, <2>1, <2>2, <2>3, SubSeqProperties
<1> HIDE DEF Row
<1> QED BY <1>3 DEF RemoveAt

LEMMA TableInv ==
  ASSUME SequenceInv,
         AddRow \/ LoadRows \/ EditCell \/ DeleteCell \/ DeleteSelectedRow \/ DeleteAll \/ ChangeRepeat
  PROVE  SequenceInv'
<1>0. rows \in Seq(Row) /\ repeats \in Nat \ {0} /\ (fault = "no" /\ rows # <<>> => property)
  BY DEF SequenceInv
<1>1. CASE AddRow
  <2>1. PICK at \in 0..Len(rows), v \in Outputs : InsertRows(at, <<[v |-> v, timed |-> FALSE]>>)
    BY <1>1 DEF AddRow
  <2>2. <<[v |-> v, timed |-> FALSE]>> \in Seq(Row)
    BY DEF Row
  <2>3. rows' \in Seq(Row) /\ (fault' = "no" => property)
    BY <2>1, <2>2, InsertIsTable
  <2>4. Edit /\ repeats' = repeats
    BY <1>1, <2>1 DEF AddRow, InsertRows
  <2> QED BY <1>0, <2>3, <2>4, EditStep
<1>2. CASE LoadRows
  <2>1. PICK n \in 1..MaxRows : \E new \in [1..n -> Row] : InsertRows(0, new)
    BY <1>2 DEF LoadRows
  <2>2. PICK new \in [1..n -> Row] : InsertRows(0, new)
    BY <2>1
  <2>3. n \in Nat
    BY SequenceConstantsOK
  <2>4. new \in Seq(Row)
    BY <2>3, FunctionIsSeq
  <2>5. 0 \in 0..Len(rows)
    BY <1>0, LenProperties
  <2>6. rows' \in Seq(Row) /\ (fault' = "no" => property)
    BY <2>2, <2>4, <2>5, InsertIsTable
  <2>7. Edit /\ repeats' = repeats
    BY <1>2, <2>2 DEF LoadRows, InsertRows
  <2> QED BY <1>0, <2>6, <2>7, EditStep
<1>3. CASE EditCell
  <2>1. PICK p \in DOMAIN rows, r \in Row : rows' = [rows EXCEPT ![p] = r]
    BY <1>3 DEF EditCell
  <2>2. rows' \in Seq(Row)
    <3> HIDE DEF Row
    <3> QED BY <1>0, <2>1, ExceptSeq
  <2>3. rows # <<>>
    BY <2>1
  <2>4. Edit /\ repeats' = repeats /\ fault' = fault
    BY <1>3 DEF EditCell
  <2> QED BY <1>0, <2>2, <2>3, <2>4, EditStep
<1>4. CASE DeleteCell
  <2>1. PICK p \in DOMAIN rows : rows' = RemoveAt(rows, p)
    BY <1>4 DEF DeleteCell
  <2>2. rows' \in Seq(Row)
    BY <1>0, <2>1, RemoveIsTable
  <2>3. rows # <<>>
    BY <2>1
  <2>4. Edit /\ repeats' = repeats /\ fault' = fault
    BY <1>4 DEF DeleteCell
  <2> QED BY <1>0, <2>2, <2>3, <2>4, EditStep
<1>5. CASE DeleteSelectedRow
  <2>1. PICK p \in DOMAIN rows : \E rest \in {RemoveAt(rows, p)} :
                                    rows' \in {rest} \cup {RemoveAt(rest, q) : q \in DOMAIN rest}
    BY <1>5 DEF DeleteSelectedRow
  <2>2. RemoveAt(rows, p) \in Seq(Row)
    BY <1>0, RemoveIsTable
  <2>3. \A q \in DOMAIN RemoveAt(rows, p) : RemoveAt(RemoveAt(rows, p), q) \in Seq(Row)
    BY <2>2, RemoveIsTable
  <2>4. rows' \in Seq(Row)
    BY <2>1, <2>2, <2>3
  <2>5. rows # <<>>
    <3>1. DOMAIN rows # {}
      OBVIOUS
    <3> QED BY <3>1
  <2>6. Edit /\ repeats' = repeats
    BY <1>5 DEF DeleteSelectedRow
  <2>7. property
    BY <1>0, <2>5, <2>6 DEF Edit, Running
  <2> QED BY <1>0, <2>4, <2>6, <2>7, EditStep
<1>6. CASE DeleteAll
  <2>1. rows' = <<>> /\ rows' \in Seq(Row) /\ Edit /\ repeats' = repeats
    BY <1>6 DEF DeleteAll
  <2> QED BY <1>0, <2>1, EditStep
<1>7. CASE ChangeRepeat
  <2>1. repeats' \in Nat \ {0} /\ rows' = rows /\ fault' = fault /\ Edit
    BY <1>7, SequenceConstantsOK DEF ChangeRepeat
  <2> QED BY <1>0, <2>1, EditStep
<1> QED BY <1>1, <1>2, <1>3, <1>4, <1>5, <1>6, <1>7

(* The button and the property: a run starts with nothing played.          *)
LEMMA ClickRunInv ==
  ASSUME SequenceInv, ClickRun
  PROVE  SequenceInv'
<1>0. UNCHANGED <<property, rows, infinite, repeats, fault>> /\ played' = <<>>
  BY DEF ClickRun, tableVars
<1>1. CASE checked
  <2>1. StopTimer /\ run' = "other"
    BY <1>1 DEF ClickRun
  <2> QED BY <1>0, <2>1 DEF SequenceInv, StopTimer, Disconnect
<1>2. CASE ~checked
  <2>1. StartTimer /\ run' = IF rows # <<>> /\ ~infinite THEN "exact" ELSE "other"
    BY <1>2 DEF ClickRun
  <2>2. ~active /\ connections = 0
    BY <1>2 DEF SequenceInv
  <2>3. checked' /\ connections' = IF active' THEN 1 ELSE 0
    <3>1. CASE rows = <<>>
      BY <2>1, <2>2, <3>1 DEF StartTimer
    <3>2. CASE rows # <<>>
      BY <2>1, <2>2, <3>2 DEF StartTimer
    <3> QED BY <3>1, <3>2
  <2>4. ASSUME run' = "exact" PROVE Playing'
    <3>1. rows # <<>> /\ ~infinite /\ active' /\ pos' = 0 /\ cycles' = 0
      BY <2>1, <2>4 DEF StartTimer, Reset
    <3>2. rows' = rows /\ repeats' = repeats /\ rows \in Seq(Row) /\ repeats \in Nat \ {0}
      BY <1>0 DEF SequenceInv
    <3>3. 0 \in 0..Len(rows) /\ 0 \in 0..(repeats - 1) /\ Len(rows) \in 0..Len(rows)
      BY <3>2, LenProperties
    <3>4. Len(Whole) \in Nat
      BY <3>2, <3>3, TimedType DEF Whole
    <3>5. Timed(rows)[0] = <<>> /\ Whole' = Whole
      BY <3>2, TimedStep DEF Whole
    <3>6. 0 * Len(Whole) + Len(<<>>) = 0
      BY <3>4
    <3>7. cycles' * Len(Whole') + Len(Timed(rows')[pos']) = 0
      BY <3>1, <3>2, <3>5, <3>6
    <3>8. played' \in Seq(Outputs) /\ Len(played') = 0 /\ 1..0 = {}
      BY <1>0
    <3>9. PlayedSo(cycles * Len(Whole) + Len(Timed(rows)[pos]))'
      BY <3>7, <3>8 DEF PlayedSo
    <3> QED BY <1>0, <3>1, <3>2, <3>3, <3>9 DEF Playing
  <2>5. run' # "done"
    BY <2>1
  <2> QED BY <1>0, <2>3, <2>4, <2>5 DEF SequenceInv
<1> QED BY <1>1, <1>2

LEMMA SetPropertyInv ==
  ASSUME SequenceInv, SetProperty
  PROVE  SequenceInv'
BY DEF SequenceInv, SetProperty, StopTimer, Disconnect

-----------------------------------------------------------------------------
(* A timeout stops the run, or plays the next row.                         *)
LEMMA FinishInv ==
  ASSUME SequenceInv, TimerUpdate, Finish, run = "exact" => played = Expected
  PROVE  SequenceInv'
<1>1. UNCHANGED <<property, rows, infinite, repeats, fault, played>> /\ active
  BY DEF TimerUpdate, Finish, tableVars
<1>2. connections' = 0 /\ active' = FALSE /\ run' = IF run = "exact" THEN "done" ELSE run
  BY <1>1 DEF Finish, StopTimer, Disconnect
<1>3. Expected' = Expected
  BY <1>1 DEF Expected
<1> QED BY <1>1, <1>2, <1>3 DEF SequenceInv

LEMMA PlayInv ==
  ASSUME SequenceInv, TimerUpdate, NEW p, Play(p),
         run = "exact" => /\ p \in 1..Len(rows)
                          /\ cycles' \in 0..(repeats - 1)
                          /\ PlayedSo(cycles * Len(Whole) + Len(Timed(rows)[pos]))'
  PROVE  SequenceInv'
<1>1. UNCHANGED <<property, rows, infinite, repeats, fault, active, connections, checked, run>> /\ pos' = p
  BY DEF TimerUpdate, Play, Advance, tableVars
<1>2. ASSUME run = "exact" PROVE Playing'
  <2>1. p \in 0..Len(rows) /\ p # 0
    BY <1>2, LenProperties DEF SequenceInv
  <2> QED BY <1>1, <1>2, <2>1 DEF SequenceInv, Playing
<1>3. ASSUME run = "done" PROVE played' = Expected'
  <2>1. played' = played
    BY <1>3 DEF Play
  <2>2. Expected' = Expected
    BY <1>1 DEF Expected
  <2> QED BY <1>3, <2>1, <2>2 DEF SequenceInv
<1> QED BY <1>1, <1>2, <1>3 DEF SequenceInv

LEMMA NothingToPlayInv ==
  ASSUME SequenceInv, NothingToPlay
  PROVE  SequenceInv'
<1>1. ASSUME run = "exact" PROVE played = Expected
  <2>1. Playing /\ property /\ rows \in Seq(Row) /\ repeats \in Nat \ {0}
    BY <1>1 DEF SequenceInv, Playing, NothingToPlay, TimerUpdate, Running
  <2>2. pos = 0 /\ TimedAfter(0) = {} /\ cycles = 0
    BY <2>1 DEF NothingToPlay, Playing
  <2>3. 0 \in 0..Len(rows)
    BY <2>1, LenProperties
  <2>4. Whole = <<>> /\ Timed(rows)[0] = <<>>
    BY <2>1, <2>2, <2>3, NoneLeft, TimedStep
  <2>5. Len(Whole) = 0 /\ cycles * Len(Whole) + Len(Timed(rows)[pos]) = Len(Whole) * repeats
    BY <2>1, <2>2, <2>4
  <2>6. PlayedSo(Len(Whole) * repeats)
    BY <2>1, <2>5 DEF Playing
  <2> QED BY <2>1, <2>6, AllPlayed
<1> QED BY <1>1, FinishInv DEF NothingToPlay

LEMMA LastCycleEndsInv ==
  ASSUME SequenceInv, LastCycleEnds
  PROVE  SequenceInv'
<1>1. ASSUME run = "exact" PROVE played = Expected
  <2>1. Playing /\ rows \in Seq(Row) /\ repeats \in Nat \ {0} /\ TimedAfter(pos) = {}
    BY <1>1 DEF SequenceInv, LastCycleEnds, EndOfTable
  <2>2. pos \in 0..Len(rows) /\ cycles \in 0..(repeats - 1) /\ 0 \in 0..Len(rows) /\ Len(rows) \in 0..Len(rows)
    BY <2>1, LenProperties DEF Playing
  <2>3. Timed(rows)[pos] = Whole
    BY <2>1, <2>2, NoneLeft
  <2>4. Len(Whole) \in Nat
    BY <2>1, <2>2, TimedType DEF Whole
  <2>5. cycles * Len(Whole) + Len(Whole) = Len(Whole) * repeats
    <3> DEFINE n == Len(Whole)
    <3>1. CASE TimedAfter(0) = {}
      <4>1. Whole = <<>>
        BY <2>1, <2>2, <3>1, NoneLeft, TimedStep
      <4> QED BY <2>1, <2>2, <4>1
    <3>2. CASE LastCycle
      <4>1. cycles + 1 = repeats
        BY <2>1, <2>2, <3>2 DEF LastCycle, CountCycle
      <4>2. cycles * n + n = (cycles + 1) * n /\ repeats * n = n * repeats
        BY <2>1, <2>2, <2>4
      <4> QED BY <4>1, <4>2
    <3> QED BY <3>1, <3>2 DEF LastCycleEnds
  <2>6. PlayedSo(Len(Whole) * repeats)
    BY <2>1, <2>3, <2>5 DEF Playing
  <2> QED BY <2>1, <2>6, AllPlayed
<1> QED BY <1>1, FinishInv DEF LastCycleEnds, EndOfTable

LEMMA NextRowInv ==
  ASSUME SequenceInv, NextRow
  PROVE  SequenceInv'
<1>0. PICK p : p = Min(TimedAfter(pos))
  OBVIOUS
<1>1. TimerUpdate /\ Play(p) /\ cycles' = cycles /\ TimedAfter(pos) # {} /\ rows' = rows /\ pos' = p
  BY <1>0 DEF NextRow, TimerUpdate, tableVars, Play, Advance
<1>2. ASSUME run = "exact"
      PROVE  /\ p \in 1..Len(rows) /\ cycles' \in 0..(repeats - 1)
             /\ PlayedSo(cycles * Len(Whole) + Len(Timed(rows)[pos]))'
  <2>1. Playing /\ rows \in Seq(Row) /\ repeats \in Nat \ {0}
    BY <1>2 DEF SequenceInv
  <2>2. pos \in 0..Len(rows) /\ cycles \in 0..(repeats - 1)
    BY <2>1 DEF Playing
  <2>3. p \in 1..Len(rows) /\ rows[p].timed /\ Timed(rows)[p - 1] = Timed(rows)[pos]
    BY <1>0, <1>1, <2>1, <2>2, NextTimed
  <2>4. PlayedSo(cycles * Len(Whole) + Len(Timed(rows)[p - 1]))
    BY <2>1, <2>3 DEF Playing
  <2>5. PICK d \in 0..(repeats - 1) : d = cycles
    BY <2>2
  <2>7. PlayedSo(d * Len(Whole) + Len(Timed(rows)[p - 1]))
    BY <2>4, <2>5
  <2>8. PlayedSo(d * Len(Whole) + Len(Timed(rows)[p]))'
    BY <1>1, <1>2, <2>1, <2>3, <2>7, PlayStep
  <2>6. PlayedSo(cycles * Len(Whole) + Len(Timed(rows)[pos]))'
    BY <1>1, <2>5, <2>8 DEF PlayedSo
  <2> QED BY <1>1, <2>2, <2>3, <2>6
<1> QED BY <1>1, <1>2, PlayInv

LEMMA NextCycleInv ==
  ASSUME SequenceInv, NextCycle
  PROVE  SequenceInv'
<1>0. PICK p : p = Min(TimedAfter(0))
  OBVIOUS
<1>1. /\ TimerUpdate /\ Play(p) /\ TimedAfter(pos) = {} /\ TimedAfter(0) # {}
      /\ rows' = rows /\ pos' = p /\ (infinite \/ ~LastCycle)
      /\ cycles' = IF infinite THEN cycles ELSE CountCycle
  BY <1>0 DEF NextCycle, EndOfTable, TimerUpdate, tableVars, Play, Advance
<1>2. ASSUME run = "exact"
      PROVE  /\ p \in 1..Len(rows) /\ cycles' \in 0..(repeats - 1)
             /\ PlayedSo(cycles * Len(Whole) + Len(Timed(rows)[pos]))'
  <2>1. Playing /\ rows \in Seq(Row) /\ repeats \in Nat \ {0} /\ ~infinite
    BY <1>2 DEF SequenceInv, Playing
  <2>2. pos \in 0..Len(rows) /\ cycles \in 0..(repeats - 1) /\ 0 \in 0..Len(rows) /\ Len(rows) \in 0..Len(rows)
    BY <2>1, LenProperties DEF Playing
  <2>3. cycles' = cycles + 1 /\ cycles + 1 \in 0..(repeats - 1)
    BY <1>1, <2>1, <2>2 DEF CountCycle, LastCycle
  <2>4. Timed(rows)[pos] = Whole
    BY <1>1, <2>1, <2>2, NoneLeft
  <2>5. p \in 1..Len(rows) /\ rows[p].timed /\ Timed(rows)[p - 1] = Timed(rows)[0]
    BY <1>0, <1>1, <2>1, <2>2, NextTimed
  <2>6. Timed(rows)[p - 1] = <<>>
    BY <2>1, <2>5, TimedStep
  <2>7. Len(Whole) \in Nat
    BY <2>1, <2>2, TimedType DEF Whole
  <2>8. PlayedSo((cycles + 1) * Len(Whole) + Len(Timed(rows)[p - 1]))
    <3> DEFINE n == Len(Whole)
    <3>1. cycles * n + n = (cycles + 1) * n
      BY <2>2, <2>7
    <3>2. (cycles + 1) * n \in Nat /\ Len(Timed(rows)[p - 1]) = 0
      <4>1. Len(<<>>) = 0
        OBVIOUS
      <4>2. (cycles + 1) * n \in Nat
        BY <2>2, <2>7
      <4> QED BY <2>6, <4>1, <4>2
    <3>3. PlayedSo(cycles * n + n)
      BY <2>1, <2>4 DEF Playing
    <3> HIDE DEF n
    <3>4. (cycles + 1) * n + Len(Timed(rows)[p - 1]) = cycles * n + n
      BY <3>1, <3>2
    <3> QED BY <3>3, <3>4 DEF n
  <2>9. PICK d \in 0..(repeats - 1) : d = cycles + 1
    BY <2>3
  <2>11. PlayedSo(d * Len(Whole) + Len(Timed(rows)[p - 1]))
    BY <2>8, <2>9
  <2>12. PlayedSo(d * Len(Whole) + Len(Timed(rows)[p]))'
    BY <1>1, <1>2, <2>1, <2>5, <2>11, PlayStep
  <2>10. PlayedSo(cycles * Len(Whole) + Len(Timed(rows)[pos]))'
    BY <1>1, <2>3, <2>9, <2>12 DEF PlayedSo
  <2> QED BY <2>3, <2>5, <2>10
<1> QED BY <1>1, <1>2, PlayInv

LEMMA LoopForeverInv ==
  ASSUME SequenceInv, LoopForever
  PROVE  SequenceInv'
<1>1. UNCHANGED <<tableVars, timerVars, fault, histVars>>
  BY DEF LoopForever, EndOfTable, TimerUpdate
<1> QED BY <1>1 DEF SequenceInv, Playing, PlayedSo, Whole, Expected, tableVars, timerVars, histVars

LEMMA SequenceStep == SequenceInv /\ [SequenceNext]_sequenceVars => SequenceInv'
<1> SUFFICES ASSUME SequenceInv, [SequenceNext]_sequenceVars PROVE SequenceInv'
  OBVIOUS
<1>1. CASE User
  BY <1>1, ClickRunInv, SetPropertyInv, TableInv DEF User
<1>2. CASE Timeout
  BY <1>2, NothingToPlayInv, NextRowInv, NextCycleInv, LastCycleEndsInv, LoopForeverInv DEF Timeout
<1>3. CASE UNCHANGED sequenceVars
  BY <1>3 DEF SequenceInv, Playing, PlayedSo, Whole, Expected, sequenceVars, tableVars, timerVars, histVars
<1> QED BY <1>1, <1>2, <1>3 DEF SequenceNext

(* What an unedited run has played begins what is expected.                *)
LEMMA PlayingPlays ==
  ASSUME SequenceInv, run = "exact"
  PROVE  IsPrefix(played, Expected)
<1> DEFINE n == Len(Whole)
           m == n * repeats
           L == Len(played)
<1>1. Playing /\ rows \in Seq(Row) /\ repeats \in Nat \ {0}
  BY DEF SequenceInv
<1>2. Len(rows) \in 0..Len(rows) /\ pos \in 0..Len(rows) /\ cycles \in 0..(repeats - 1) /\ Len(rows) \in pos..Len(rows)
  BY <1>1, LenProperties DEF Playing
<1>3. n \in Nat /\ Len(Timed(rows)[pos]) \in 0..n
  <2>1. n \in Nat /\ Len(Timed(rows)[pos]) \in Nat
    BY <1>1, <1>2, TimedType DEF Whole
  <2>2. Len(Timed(rows)[pos]) <= n
    BY <1>1, <1>2, TimedGrows DEF Whole
  <2> QED BY <2>1, <2>2
<1>4. /\ played \in Seq(Outputs) /\ L = cycles * n + Len(Timed(rows)[pos])
      /\ \A k \in 1..L : played[k] = Whole[((k - 1) % n) + 1]
  BY <1>1 DEF Playing, PlayedSo
<1>5. L \in Nat /\ m \in Nat /\ L <= m
  <2>1. L \in Nat
    BY <1>4, LenProperties
  <2>2. m \in Nat
    BY <1>1, <1>3
  <2>3. L <= m
    BY <1>1, <1>2, <1>3, <1>4, CountFits
  <2> QED BY <2>1, <2>2, <2>3
<1>6. Expected = [k \in 1..m |-> Whole[((k - 1) % n) + 1]]
  BY DEF Expected, Whole
<1> HIDE DEF m
<1>7. /\ Whole \in Seq(Outputs)
      /\ \A k \in 1..m : Whole[((k - 1) % n) + 1] \in Outputs
  <2>1. Whole \in Seq(Outputs)
    BY <1>1, <1>2, TimedType DEF Whole
  <2>2. ASSUME NEW k \in 1..m PROVE Whole[((k - 1) % n) + 1] \in Outputs
    <3>1. n # 0
      <4>1. CASE n = 0
        <5>1. m = 0
          BY <1>1, <4>1 DEF m
        <5> QED BY <5>1
      <4> QED BY <4>1
    <3> HIDE DEF n
    <3>2. k - 1 \in Nat /\ n \in Nat \ {0}
      BY <1>3, <1>5, <3>1
    <3>3. (k - 1) % n \in 0..(n - 1)
      BY <3>2
    <3>4. ((k - 1) % n) + 1 \in 1..n
      BY <3>2, <3>3
    <3> QED BY <2>1, <3>4, ElementOfSeq DEF n
  <2> QED BY <2>1, <2>2
<1>8. Expected \in [1..m -> Outputs]
  BY <1>6, <1>7
<1>9. Expected \in Seq(Outputs) /\ Len(Expected) = m
  <2> HIDE DEF Expected
  <2> QED BY <1>5, <1>8, FunctionIsSeq
<1>10. \A k \in 1..L : played[k] = Expected[k]
  <2> HIDE DEF L, n, Expected
  <2>1. \A k \in 1..L : k \in 1..m
    BY <1>5
  <2> QED BY <1>4, <1>6, <2>1
<1> QED BY <1>4, <1>5, <1>9, <1>10, BeginsIs

LEMMA InvPlays == SequenceInv => PlaysExactly
<1> SUFFICES ASSUME SequenceInv PROVE PlaysExactly
  OBVIOUS
<1>1. connections <= 1
  BY DEF SequenceInv
<1>2. run = "exact" => IsPrefix(played, Expected)
  BY PlayingPlays
<1>3. run = "done" => played = Expected
  BY DEF SequenceInv
<1> QED BY <1>1, <1>2, <1>3 DEF PlaysExactly

(* For every table, repeat count and sequence of edits, starts and stops:  *)
(* a run nobody edits plays the rows with a delay in order and as often as *)
(* asked, all of them if it stops by itself, and the timer is connected    *)
(* once.                                                                   *)
THEOREM SequencesPlayExactly == SequenceSpec => []PlaysExactly
<1> QED BY SequenceInit, SequenceStep, InvPlays, PTL DEF SequenceSpec
=============================================================================
