# TLA+ models of SmuView

SmuView is a Qt program that controls source measurement units, multimeters,
power supplies and other devices through libsigrok, stores what they measure,
computes with it, shows it, and lets Python scripts ("SmuScripts") do all of
this. This directory models the parts of SmuView whose correctness depends on
the order in which things happen: threads, queued signals, timers, dialogs and
long sequences of user actions. Paths below are relative to the repository;
most of the code is in `src/`.

Contents: [the system](#the-system), [the modules](#the-modules),
[the runs](#the-runs), [fairness](#fairness), [the proofs](#the-proofs),
[findings](#findings), [known deviations](#known-deviations-without-a-run),
[what is not modelled](#what-is-not-modelled), [the plan](#the-plan).

To check a module: `tlc -config <run>.cfg <module>.tla`; to check the proofs
about one: `tlapm <module>Proofs.tla`. The files use the TLA+ community modules
and the TLAPS library. `PROJECT.json` lists components, runs, mutants, hazards and
theorems, and maps every definition to the lines of code it models.

## The system

### Threads

| Thread | Runs | Created by |
|---|---|---|
| GUI thread | every Qt slot, view, dialog, the math channels | Qt |
| acquisition thread, one per open hardware device | `aquisition_thread_proc()`, in it libsigrok's `run()`, in it `data_feed_in()` for every packet | `BaseDevice::init_acquisition()` |
| script thread, detached | `script_thread_proc()`: one Python interpreter, one file | `SmuScriptRunner::run()` |

They share C++ objects through raw and shared pointers. There is hardly any
lock: `aquisition_mutex_` exists but the feed does not take it, and the signal
class carries a `TODO: Mutex?`. What crosses threads in an orderly way are Qt's
queued signals: emitting appends an event to the queue of the receiver's thread.

### Components, their state, and how they interact

* **Devices** (`devices/`). A `BaseDevice` has `is_open_`,
  `aquisition_state_` (Stopped, Running, Paused; not initialised by the
  constructor), the thread handle, a sigrok session and its data feed callbacks;
  a `HardwareDevice` also the frame it is in. Operations: `open()`, `close()`,
  `start_aquisition()`, `pause_aquisition()` from the GUI or a script, the
  thread procedure, and `data_feed_in()`. A `UserDevice` has no acquisition.
  *Correct if* an open device has exactly one thread and one callback, a closed
  one has none, no join is forgotten, pausing stops storing, and every sample
  gets the time of its own frame.
* **Signals** (`data/analogtimesignal.*`). Two vectors, a counter, the last time
  stamp. Written by one thread (`push_sample()`, `push_samples()`), read by the
  GUI thread (`get_sample()`, `get_value_at_timestamp()`), cleared by it
  (`clear()`), announced by a queued `sample_appended()`. *Correct if* a counted
  sample is stored, and every sample reaches every reader once.
* **Math channels** (`channels/*channel.cpp`). Each keeps its position in the
  source signal(s) and pushes to a signal of its own, whose readers follow in
  the same call; a signal of the hardware they follow by queued events. Channels of
  two signals use `combine_signals()`. *Correct if*
  no sample is lost, repeated or computed with a neighbour that does not belong
  to it, in whatever pieces the samples arrive.
* **Channels** (`channels/basechannel.*`, `hardwarechannel.*`,
  `userchannel.*`). A map from quantities to signals, and the actual signal. A
  push may create and must select the signal. Value panels follow
  `signal_changed()`. *Correct if* samples of different quantities are never
  mixed and a panel ends on the signal that is measured.
* **Sequence output** (`ui/views/sequenceoutputview.*`). A table of values and
  delays, a timer, its connection, a position and a cycle count. *Correct if* it
  plays what the table says, once per timeout, and a finite sequence ends.
* **Script runner and editors** (`python/smuscriptrunner.*`,
  `ui/views/smuscript*`, `ui/tabs/smuscripttab.*`). `is_running_`, the
  interpreter of the process, and per editor a checked and enabled button that
  follows queued signals. *Correct if* one script runs at a time, its end gives
  every editor its button back, and the next script can run.
* **UI proxy** (`python/uiproxy.*`, `uihelper.*`). A script call emits a
  request to the GUI thread and waits in an event loop for a reply or a timer.
  *Correct if* a call returns, with the answer to its own request.
* **Session and main window** (`session.*`, `mainwindow.*`,
  `ui/views/devicesview.*`). The map of devices, the device tree, the tabs and
  their map; connecting, disconnecting, closing tabs, by hand or by script.
  *Correct if* these views of "which devices are there" agree.
* **Tabs, views, settings** (`ui/tabs/*`, `ui/views/*`, `settingsmanager.*`).
  The views of a tab, and what the tab writes of them into the settings file when
  it is closed. The next tab with the same settings id restores them, in this run
  of the program or a later one. *Correct if* what comes back is what was left.
* **Configurables, properties, controls** (`devices/configurable.*`,
  `data/properties/*`, `ui/datatypes/*`, `ui/views/*controlview.*`). A
  configurable passes settings to libsigrok, a property keeps limits and tells its
  widgets of new values, through queued calls when they come with a meta packet
  of the acquisition thread. *Correct if* the widgets show what the device has, and
  news of the device is not sent back to it.
* **Device tree and selection forms** (`ui/devices/*`). A row per device,
  group, channel, signal and configurable; boxes that fill each other. *Correct if*
  the rows are complete, and a choice is what the boxes show.
* **Plots** (`ui/widgets/plot/*`, `ui/views/*plotview.*`). Curves on four axes with
  locks, intervals that a timer extends, markers and pairs of markers. *Correct
  if* an axis has one unit, markers are on curves, and all samples get into view.
* **Data view, power panel, file dialog** (`ui/views/dataview.*`,
  `powerpanelview.*`, `ui/widgets/monofontdisplay.*`,
  `ui/dialogs/signalsavedialog.*`). They read signals by position or by last
  value, on events and timers. *Correct if* the table is the merge of its signals, the
  sums and extrema of the panel fit together, its displays read true, and a file
  has the samples in order.

### What makes it hard

Concurrency without locks between acquisition and GUI thread; positions that
are kept from one queued event to the next while the signal grows or is cleared;
timeouts whose late answer still arrives; handlers that keep parallel maps in
step; editing of a table while it is played; errors of the driver at any point
of opening and running; references to devices and signals that are resolved
after a restart; several curves that set the interval of one axis.
`PROJECT.json` lists these hazards line by line, with the properties that watch
them.

## The modules

Every definition that stands for code has an entry in `PROJECT.json` "map". The names of
actions and variables are those of the code where it has one; the comment at
each variable names the member it stands for. "Plausible bugs" in each module
are alternative bodies of definitions: each property is violated when one of
them takes the place of the original, so no property holds by the shape of the
model.

| Module | Models | Composed with |
|---|---|---|
| `Recorder` | abstract: what a device promises to its channels | implemented by `Acquisition` |
| `Acquisition` | `basedevice.cpp`, `hardwaredevice.cpp`: open, close, start, pause, thread, feed | |
| `DeviceProofs` | theorems about `Acquisition`, `DeviceConfig` and `SequenceOutput` | extends them |
| `Mirror` | abstract: a math channel follows its source | implemented by `SignalPipeline` |
| `SignalPipeline` | one signal, `AddSCChannel` and `IntegrateChannel` on it | composes writer and two channels |
| `SignalPipelineProofs` | theorems about `SignalPipeline` | extends it |
| `CombineSignals` | two signals, `combine_signals()`, `get_value_at_timestamp()` | composes two writers and a reader |
| `CombineSignalsProofs` | theorems about `CombineSignals` | extends it |
| `ChannelSignals` | hardware and user channel, value panel | composes channel, script and panel |
| `SequenceOutput` | `sequenceoutputview.cpp` | |
| `ScriptRunner` | runner, two editors, script tree | composes four classes and the event queue |
| `UiRequests` | `uiproxy.cpp` against `uihelper.cpp` | composes both with two event queues |
| `ScriptProofs` | theorems about `UiRequests` and `ScriptRunner` | extends them |
| `SessionDevices` | session, tree, window, tabs | composes four handlers |
| `Workspace` | views of the tabs, their settings, the dialog that adds views, restarts | on top of `SessionDevices` |
| `WorkspaceProofs` | theorems about `SessionDevices` as part of `Workspace` | extends it |
| `DeviceChannels` | channels and groups of a device, the math channels of a power supply | on top of `ChannelSignals` |
| `DeviceTree` | rows of the device tree | on top of `DeviceChannels` |
| `SelectSignal` | boxes for device, group, channel and signal | on top of `DeviceTree` |
| `ChannelViews` | a channel with one of three watchers: panel, tree, boxes | composes `ChannelSignals` and the three modules above |
| `ChannelViewsProofs` | theorems about `ChannelViews` and the modules it composes | extends it |
| `DataTypeWidgets` | the property classes and the widgets, by their traits | |
| `DeviceConfig` | configurables, properties, control views, meta packets | on top of `DataTypeWidgets` |
| `Plots` | `plot.cpp`, curves, axes, markers, plot views | |
| `PlotsProofs` | theorems about `Plots` | extends it |
| `SignalSource` | signals as the GUI thread meets them | used by the next five |
| `DataView` | the table of the data view | |
| `MonoFontDisplay` | displays and SI prefixes | used by `PowerPanel` |
| `PowerPanel` | the power panel view | |
| `MathChannels` | product and moving average | |
| `SignalSave` | the dialog that saves signals to a file | |
| `SignalViews` | one of these four on changing signals | composes them with `SignalSource` |
| `SignalViewsProofs` | theorems about `SignalViews` and the modules it composes | extends it |
| `MCPlots`, `MCSignalViews`, `MCChannelViews` | values of constants that a `.cfg` cannot write | |

**Acquisition.** `caller` is the place of the GUI thread in `open()` (up to
and after the spawn) and `close()` (before and after the join), `thread` that
of the acquisition thread. Each read or write of `aquisition_state_` that
another thread can see is a step. libsigrok is external: `StartSession`,
`StartSessionFails`, `RunReturns` and `StopSession` are what the code relies on
(start may fail; run returns when stopped or when the device gives up; a stop
before start has no effect). `FeedInAnalog` is split from the test of the state
in `AnalogPacket`. Frames are numbered; a time stamp is the number of the
frame it was taken in. `Recorder` sees `open` as "a callback is registered" and
`log` as the samples stored.

**SignalPipeline.** `push_samples()` is four steps per sample (time, data,
count; then one event for each channel connected). Both channels follow the signal
from the GUI thread, as the Ah channel of a source or sink follows the current its
hardware measures: each slot reads the count once, then loops from a position of
its own, one round per step. The events of a push are queued in the order of the
connections, so that the next event is the `AddSCChannel`'s unless the other one is
behind. Values are integers, hours are seconds, and a time stamp is the number of
its sample: stamps grow here, signals whose stamps run back are in `SignalSource`.
`clear()` is three steps; whether it may overlap a push is the constant `Overlap`.

**CombineSignals.** One round of each loop of `combine_signals()` is a step.
`threads`, chosen initially, says whether the two signals are written by
acquisition threads (in three visible steps per sample and one queued event)
or by math channels in the GUI thread (one step, direct call). Values are
multiples of `Scale`, so that interpolation is exact in integers.

**ChannelSignals.** A push is: find the signal, perhaps add it, select it,
store. `user` selects the code of `UserChannel` or `HardwareChannel`. The panel
reads the actual signal when the event arrives.

**SequenceOutput.** Handlers run to their end in the event loop, so each is one
action; `on_timer_update()` is split into disjuncts by the branch it takes. A
delay is abstracted to "positive or not". `played` and `run` are history.

**ScriptRunner.** `stage` is the place of each script thread; the signals
`started` and `finished` are queued per receiver. `ask_to_save()` runs an event
loop of its own, so other actions may happen while it is open (`asking`).

**UiRequests.** `conns` holds the slots that are connected; a reply is queued
for every slot connected when it is emitted, and delivered even after it has
been disconnected, since the lambda's own context object is alive. `result` is
the variable the lambda assigns. `returned`, `added` and `timedOut` are history.

**SessionDevices.** A device is an object; its id is computed by `Id`: its
serial number for hardware, one and the same for all user devices, new at every
call for demo devices. Every scan makes new objects for what it finds, connected
or not, and neither `add_device()` nor the dialog asks whether the id is in use: a
device of the hardware is a pair of a serial number and a number among `Copies`,
and two of one serial number may be connected at once. (That the second one
cannot be opened is swallowed by `BaseDevice::open()`, so that it counts as open
all the same.) Then the inserts into the maps of session and window do nothing,
and disconnecting one of the two erases the entry and the tab of the other.
`Fresh` only says that an object is not added twice. `shared` is history: the serial
numbers this has happened to. Handlers are atomic.

**Workspace.** A view is a tab, an id, a kind and a list of what it shows; what it
shows is a device and "channel", "signal", "configurable" or "property". A
device has one of each, so that the keys of the settings file come down to the
device and the kind of reference; which device is meant is the question here.
`received` says which signals exist: one comes into being with its first sample.
`left` is history: what the user left in the last tab of a settings id. `Crash` is
the end of the program by a panel that cannot be saved, `Restart` its next start.
The offers of the dialog are computed from the devices of the session, as its
boxes are.

**DeviceChannels, DeviceTree, SelectSignal.** These extend `ChannelSignals`, whose
one channel gets the pushes, by channels and groups around it. Rows are a set of
records; the tree looks at the whole channel on every event. A box that has nothing
to fill in leaves the boxes behind it as they are: `FillChannels` and its callers
have one branch for each early return of the code.

**DataTypeWidgets, DeviceConfig.** Eighteen widget classes differ in a handful of
traits: what starts a change (an edit, a choice, the end of typing), what they
can show, whether they keep a text of their own. `Class` is the table of these
traits, taken from the source of each class. `key` is the one config key that is
looked at, of every type, capability and kind of list; all views that show it are
open. The acquisition thread posts `on_value_changed()` receiver by receiver, and
the user may edit in between. `trusted` is history: the last news of the key came
undisturbed. `shown` and `register` are related by nothing else in the model.

**Plots.** Qwt keeps a requested interval until the next `replot()`: `next` is
what `setAxisScale()` asked for, `shown` what `axisInterval()` returns. `log` says
which scale engine the popup of the axis has chosen, and `Divided` what that engine
makes of an interval. `painted`
is the code's count of painted points, `drawn` what the user can see. `quiet` counts
timer events since something changed. Stamps of samples grow here, and the scale
engine of absolute times, which aligns to calendar units, is taken for a linear one.

**SignalSource and its users.** Samples have a time and a value in millionths, so
that SI prefixes are computed in integers. A packet has the time on the clock in
milliseconds, which does not move between two packets of one frame, and
`push_samples()` gives its samples stamps a stride apart. They may be ahead of the
clock, and then the next packet, which takes the clock again, is stamped before
the last sample of this one: the signal is in `backward`. The samples of a
packet come one by one, and whatever else happens may come between two of them;
the event follows the last. The steps inside one sample are those of
`SignalPipeline`, and are not repeated here. (That the frame of one device lags behind
the packets of another is only met as samples of the other that ran ahead.) `queued` counts events on the
way to the one view that is open. A display keeps the prefix that its label
shows, and writes the label again when the prefix of the number differs. A cell of the table is a function
from columns; the position of a column and the row of its last sample are as in
the code, and an inserted row moves them.

## The runs

Eleven runs pass, one shows a violation described under [findings](#findings).
Every bound is a constant and appears in a guard.

| Run | Bounds | States | Shows |
|---|---|---|---|
| `acquisition` | 2 packets, 2 frames | 2.7 k | one device through any sequence of open, close, reopen, pause; all orders of both threads |
| `signal_pipeline` | 4 samples in batches of 1 or 2, two values, one clear | 159 k | no sample lost or wrong between writer, signal and two channels |
| `combine` | 3 samples per signal, 4 time stamps, 2 levels | 637 k | combining in pieces equals combining the whole |
| `channel_signals` | 2 quantities, 3 pushes, 1 script signal, 2 assignments of the panel, 1 channel of the user | 632 k | routing of samples, and what a panel, the tree and the boxes show of a channel |
| `sequence_output` | 3 rows, 5 edits, repeat 1 or 2 | 19 k | exact playing, termination |
| `script_runner` | 2 editors and the tree, 2 script threads, 2 tabs opened | 230 k | buttons and the script they stand for |
| `ui_requests` | 4 calls of 4 kinds | 106 k | trust in the answers of UI calls; every call returns |
| `workspace` | 2 serial numbers with 2 objects each, 1 user, 1 demo device, 3 additions, 1 view added or closed, 1 restart | 802 k | session, tree and tabs agree; views come back as they were left |
| `device_config` | 4 values, 1 change at the device, 2 queued calls; all kinds of key and widget | 469 k | what the controls show, and that nothing is echoed |
| `plots` | 2 signals, 2 units, 2 curves of which 1 may be restored, 2 markers, 2 samples, 2 edits | 1062 k | axes, their scales, markers and intervals |
| `signal_views` | 2 signals, 4 samples (2 with the panel) in packets of 1 or 2, strides of 0 and 1, 1 deletion, 2 columns, 2 timeouts, 2 resets | 3347 k | table, panel, displays, math channels and files |
| `tree_removed` | 1 push | | the program ends when a device is removed before its event is handled |

Why the bounds are enough:

* *acquisition*: opening and closing are unbounded; only what is recorded is
  bounded. Two packets let a pause come between the test and the store of one
  and exclude the second; two frames let an old frame be confused with a new
  one. The theorems below hold for every bound.
* *signal_pipeline*: two batches of two let events queue up, one slot consume the
  samples of the next event, and the slot start in the middle of a batch; one channel
  may be a batch behind the other. The
  state of a reader is a position, so a fifth sample meets no new situation.
* *combine*: with three samples a signal has an inner one; four time stamps
  allow before, between, equal and after. Every order of arrival is explored.
* *channel_signals*: three pushes are the shortest sequence that returns to an
  earlier quantity; a channel of the user may have the name of the channel that is
  there, and come while the tree is set up. The watchers do not disturb each
  other, so one at a time is looked at.
* *sequence_output*: three rows allow a row without delay between two with one;
  a repeat count of two reaches the wrap-around and the last cycle.
* *script_runner*, *ui_requests*: two of each kind is what a mix-up needs; four
  calls let a late answer meet a call two places later.
* *workspace*: three additions are two devices and the second tab of one of them,
  which may be another object while the first is connected; two objects of one serial
  number may also be the first two, with either disconnected before the third;
  a view of one device in the tab of the other needs no more. The run ends with
  the last addition, and that one is for a device that had a tab before. Of the
  views a user adds, kinds that are saved and restored alike are represented by
  one of them, and a control is left to the tabs that come with one;
  `ViewsComeBack` is for every kind.
* *device_config*: of the four values three are inside the range a box has by
  default and one is outside, and a list has not all of them. Keys that differ only
  in name are represented by one. Edits, scripts and failures are not bounded.
* *plots*: two curves are what can disagree about an axis, two units what can
  bring them to two axes; values lie on both sides of zero, as the margin of
  10 % does. Two edits are what a curve and a lock, or a removal, take on top of a
  restored curve. With two samples two timer events settle every axis, so that
  `Settle` is 2 here; `TheTimerShowsEverything` has a bound for any number of
  samples. Signals, units and markers are symmetric; there is no liveness
  property in this run.
* *signal_views*: two samples per column give a row before, between, at and
  behind others; windows of one and two samples wrap around within four. A packet of
  two samples with a stride of one is ahead of the clock by what the next packet
  may fall behind. The panel does not look at time stamps, so it gets packets of
  one sample, and to the math channels, which do not either, strides do not matter;
  the digits only matter to the panel. The
  two values lie in the range of different prefixes, the digits are negative or
  not. The table does not look at values: there they alternate, so that
  neighbours differ.

Deadlock checking is off where the system may really stop: the bounds on
pushes, edits, runs, calls and additions are reached, or a sequence hangs.
`acquisition` and `plots` run with it on: a device can always be opened again, and
the timer of a plot always ticks.

Properties, by run (all are stated with a comment in their module):

* `acquisition`: `NeverTerminates` (a joinable thread handle is never
  overwritten), `ClosedIsQuiet`, `RunsOnOpenDevice` (one callback, an open
  device), `LiveIsNotStopped`, `AtMostOneAfterPause`, `StampOfOwnFrame`,
  `ImplementsRecorder` (refinement), `CloseReturns` (liveness).
* `signal_pipeline`: `CountedIsStored`, `BehindIsAnnounced` (no lost wakeup
  of either channel), `IntegralIsArea` (against a reference definition over the whole
  source, and what remains of it when the source was cleared),
  `ImplementsMirror` (refinement), `FollowsSource` (liveness).
* `combine`: `CombinedIsComplete`, `CombinedIsRight` (against the declarative
  definition of the merge), `NeverThrows`.
* `channel_signals`: `RoutedByQuantity`, `PanelCatchesUp`, `TreeIsComplete`,
  `SelectedIsShown`, `PanelSettles` (liveness).
* `sequence_output`: `PlaysExactly`, `FiniteRunEnds` (liveness).
* `script_runner`: `OwnIsChecked`, `EnabledAgain` (liveness).
* `ui_requests`: `AnswersAreTrue`, `CallReturns` (liveness).
* `workspace`: `DevicesAgree`, `TabsAgree`, `RestoredAsLeft`.
* `device_config`: `ShowsTheDevice`, `NoEcho` (an action property).
* `plots`: `OneUnitPerAxis`, `MarkersAreOnCurves`, `EverythingIsShown`.
* `signal_views`: `TableIsMerged`, `MeanIsBetweenExtremes`, `ReadingsAreTrue`,
  `ResultsAreRight`, `SavedInOrder`.
* `tree_removed`: `DeviceMustExist`, violated.

The types of the variables of the modules with proofs are parts of their
inductive invariants; `TypeCorrect` of `DeviceProofs` and
`SignalPipelineProofs` states them as theorems.

## Fairness

Only what the scheduler, Qt's event loop or a timer guarantees is assumed, and
always weakly: a step that stays possible is taken.

* A thread that is inside a function of SmuView goes on (`Acquisition`,
  `SignalPipeline`, `ChannelSignals`, `ScriptRunner`).
* The GUI thread handles queued events and finishes its slots.
* A timer that is active fires (`SequenceOutput`, `UiRequests`).
* A sigrok session that was told to stop returns from `run()`; an interrupted
  script ends. These are the only assumptions on code that is not SmuView's; a
  session nobody stopped and a script nobody interrupted may go on for ever.
* Never assumed: that a user clicks, a driver sends, a script calls, or the GUI
  thread serves a request in time.

## The proofs

A module of proofs may be about several components that do not interact. Their
specifications and assumptions have different names for that reason:
`RunnerSpec`, `ControlsSpec` and `SequenceSpec` beside `Spec`, with
`FairRunnerSpec` and `FairSequenceSpec` for liveness. The assumptions on constants
(`ConstantsOK`, `RunnerConstantsOK`, `SequenceConstantsOK`, `SourceConstantsOK`,
`SaveConstantsOK`, and others named alike) say what sort of thing a constant is and
no more: that counts are natural numbers, values integers, that a device has
finitely many signals.

`DeviceProofs` proves, with TLAPS, about `Acquisition`, for every value of
its constants (drivers with and without frames, any number of packets and
frames; the assumption is `ConstantsOK`, which says no more than the types):

| Theorem | States |
|---|---|
| `Invariance` | `Spec => []IInv` |
| `TypeCorrect` | `Spec => []TypeOK` |
| `HandleSafe` | `Spec => []NeverTerminates` |
| `QuietAfterClose` | `Spec => []ClosedIsQuiet` |
| `SessionHasDevice` | `Spec => []RunsOnOpenDevice` |
| `NoSilentDrop` | `Spec => []LiveIsNotStopped` |
| `PauseOvertakenOnce` | `Spec => []AtMostOneAfterPause` |
| `OwnStamps` | `Spec => []StampOfOwnFrame` |
| `Refinement` | `Spec => ImplementsRecorder` |

None of the properties is inductive by itself. The inductive invariant `IInv`
is `TypeOK` and four parts:

* `QuietInv`: the place of the GUI thread fixes thread, callbacks and sigrok
  device. It is needed because that a spawn overwrites no handle follows from
  "`open()` past its first test has no thread", which follows from how
  `close()` left things, not from anything tested at the spawn.
* `ThreadInv`: a session is started exactly while the thread is in it; a thread
  in it has an open device; only a running thread is in the middle of a packet,
  and while it runs the state is not Stopped. The last is the argument why
  `FinishOpen`, which assigns Running late, cannot undo a *stop* of a live thread.
* `FrameInv`: the frame the driver is in is the one in
  `frame_start_timestamp_`, and outside frames a framing driver sends nothing.
  `StampOfOwnFrame` needs it to survive a close in the middle of a frame, which
  leaves `frame_began_` set.
* `PauseInv`: since a pause nothing was stored while a packet is still in
  `feed_in_analog()`, else one at most.

`StepIInv` has one step per action. The refinement of `Recorder` maps `CallOpen` and the
thread's own steps to stuttering, `OpenDevice` of a hardware device to `Open`,
`FeedInAnalog` to `Record`, and `FinishClose` to `Close` (of a user device:
stuttering).

The same module proves about `DeviceConfig`, for any range of values and any number
of queued calls, and for every key, kind of list and set of control views:

| Theorem | States |
|---|---|
| `ControlsShow` | `ControlsSpec => []ShowsTheDevice` |
| `NoNewsIsSent` | `ControlsSpec => NoEcho` |

`ShowsTheDevice` only speaks of the time when no call is queued. `ControlsInv` says
what holds before: while the last news is undisturbed, the calls that are queued and
those that are still to be posted are *the end of one round* of news, for the last
widgets in their order, all with the value of the device, and the widgets before
them show it already (`UpTo`). A round that finds calls of an earlier one still
queued is not an undisturbed one, since the value that arrives last would not be
known. A change by the user shows everywhere at once, and needs that the same value
twice changes nothing (`ShownStays`). `DeviceChangesInv` is the hard step: that of the
owners of a key, of which the first that takes the packet ends the search, the widgets
get one round, whatever unknown key is in the packet. `NoNewsIsSent` rests on
`AllQuiet`: every one of the classes cuts its connection while it shows a value.

And about `SequenceOutput`, for any table, repeat count, values and sequence of
edits:

| Theorem | States |
|---|---|
| `SequencesPlayExactly` | `SequenceSpec => []PlaysExactly` |

`Timed` is a recursive function, the values a table plays up to each of its rows.
`SequenceInv` says where a run nobody edited is: so many whole cycles are played, and
the next one up to the row of the position (`Playing`); that a position of zero
belongs to the first cycle; and that the timer is connected once while it is active
and not at all while it is not, which every way to stop has to keep.

`SignalPipelineProofs` proves about `SignalPipeline`, for any number of
samples, batches and clears and any values:

| Theorem | States |
|---|---|
| `Invariance` | `~Overlap => (Spec => []IInv)` |
| `TypeCorrect` | `~Overlap => (Spec => []TypeOK)` |
| `CountedCanBeRead` | `~Overlap => (Spec => []CountedIsStored)` |
| `NeverOutOfRange` | `~Overlap => (Spec => []~thrown)`: `at()` never throws |
| `NoLostWakeup` | `~Overlap => (Spec => []BehindIsAnnounced)` |
| `Refinement` | `~Overlap => (Spec => ImplementsMirror)` |
| `IntegralOfAll` | `~Overlap => (Spec => []IntegralIsArea)` |

The assumption `~Overlap` says that the user does not clear a signal while it is
pushed to; without it the statements are false (see
[known deviations](#known-deviations-without-a-run)).
The invariant has three parts. `StoreInv` says by how many samples each vector is
ahead of the count, by the place of the writer; this is where the order time,
data, count of `push_samples()` matters. `SlotInv` says that what either slot has
still to read has been counted and that the position of a channel counts its
own samples, which links `next_signal_pos_` to the length of the mirror.
`TimeInv` says that time stamps grow and that what has not been read is later
than what has been integrated. `TypeOK` needs it: the summand of the integral is a
product with a difference of times, which is a natural number only if time does
not run backwards, also when a cleared signal has grown past the old position.
`BehindIsAnnounced` is inductive relative to the types. In the refinement
`PushCount` is `Grow`, `FollowSample` is `Follow`, the first step of `clear()` is
`Clear`, and all else stutters.

`IntegralIsArea` compares what `IntegrateChannel` has pushed, in whatever slots, with
`Area`, a recursive function over the samples of the *source*. `AreaInv` says that
the channel goes on at its last sample: `last_timestamp_` and `last_value_` are those.
That its k-th sample is the area up to the k-th of the source needs its position,
which must be the number of samples pushed (`SlotInv`) and no further than the
count, and holds while nobody clears the source. With a clear the position is behind
the end of the source, the samples up to it are skipped, and what a sample of the
integral should be cannot be said of the source any more. What remains, and is
proved, is that it accounts for all the time up to its stamp, once: it lies between
two values of the source times that stamp (`MeanGoesOn`). The lemma `SumExists` shows
that running sums exist for any summands and any length; then `AreaIs` gives the
recursion equation, and `AreaKept` that a longer signal leaves the sums of the
shorter one as they were.

`CombineSignalsProofs` proves about `CombineSignals`, for any values and any
number of samples and batches, however the steps of the writers lie between the
steps of the reader:

| Theorem | States |
|---|---|
| `ReadsStayInRange` | `Spec => []NeverThrows` |
| `NothingIsLeftOut` | `Strict => (Spec => []CombinedIsComplete)` |
| `RightValuesCombined` | `Strict => (Spec => []CombinedIsRight)` |

`Strict` says that the time stamps of one signal increase; without it an exact match
gives a time stamp for a value (see
[known deviations](#known-deviations-without-a-run)). The first theorem does not
need it: `BoundsInv` is the order of `push_sample()`, time before value before
count, and that the reader asks only for times that lie before a counted sample.
`CombineInv` has three more parts. `OrderInv`: what has been passed in one signal is
older than everything not passed in the other, *also what is not pushed yet*,
because some sample of the other was not older already; and as long as nothing of a
signal has been passed, the other one stands right before its first sample. `OutInv`:
what was combined are exactly the times that were passed and lie in the range of
both, in order. `DoneInv`: a call that returns with no event queued has come to the
end of one signal, or waits for the other to reach its range. `CombinedIsComplete`
compares with a merge that is defined without positions, so it needs all of them.

`ScriptProofs` proves about `UiRequests`, for any number of calls:

| Theorem | States |
|---|---|
| `TrueAnswers` | `Spec => []AnswersAreTrue` |

The invariant `RequestInv` follows the one request of a call. While no call so far
has timed out or was of the kind whose reply nobody awaits, it is in one of three places: queued for the GUI thread, its reply
queued for the script, or its reply taken (`CurrentInv`). `PastInv` says that
nothing on the way can still make a returned answer wrong: the GUI thread has no
request left of a call that returned, unless that call waits for no reply.

And about `ScriptRunner`, for any number of editors, tabs and script threads:

| Theorem | States |
|---|---|
| `OwnButtons` | `RunnerSpec => []OwnIsChecked` |

`started` and `finished` may arrive in any state of an editor, so nothing about the
runner helps. What is needed is `AskingInv`: an editor whose question about unsaved
changes is open has its button down and owns no script. Without it the end of the
script of another editor could lift the button before the answer starts one.

`WorkspaceProofs` proves about `Workspace`, for any devices of the three kinds and
any number of connections, scripts, tabs and restarts:

| Theorem | States |
|---|---|
| `DevicesKeepAgreeing` | `WorkspaceSpec => []DevicesAgree` |
| `TabsKeepAgreeing` | `WorkspaceSpec => []TabsAgree` |
| `ViewsComeBack` | `WorkspaceSpec => []RestoredAsLeft` |

The handlers look a device up by its id, so `MapInv` and `TabInv` say whose ids are
in the maps: an entry is under an id that its device has given at some time, and an
id of the hardware is that of one serial number, but perhaps of several devices. Both
maps hold one entry for an id. So a device that is removed takes every entry away
that is under its id, which is why the maps never keep one of the hardware that is
gone; and they lose one only to a device with its serial number, which then is in
`shared`, as are the serial numbers of any two devices in the tree that have the same
(`MapInv`). That the map of the window holds no two tabs of one id is needed because
closing a tab removes "the" entry of its id.

`RestoredAsLeft` is about one moment, when a tab has just been restored; what makes it
true happened at any earlier one, before any number of restarts. `SavesAgree` carries
it over: of every device of the hardware, each view in the settings `Keeps` one the
user left and each of those is kept by one in the settings. That relation is free of
the state (`Sid` is the id in the settings, of a demo device the one that stays),
so that it survives whatever happens to devices and tabs in between. It starts with
the tabs that are closed (`SaveViewKeeps`, `SavesGoOn`), in whatever order a window
closes them (`ClosedTabsAgree`), and relies on a value panel with neither signal
nor channel not being saved at all. It ends with the tab that is opened: what is found
for a reference is on a device with the same id (`RestoredSid`), and just one thing if
one with that id is there (`RestoredOne`), so that each kind of view comes back
(`RestoredIsPart`, `RestoredIsSame`). It may come back on another object of the same
serial number. `ShownInv` adds that a view is
in a tab that is shown: none is there yet under the number of a new one (`NewTabIs`).

`ChannelViewsProofs` proves about `ChannelViews`, for any quantities, channels and
groups and any number of pushes, with each of the three watchers:

| Theorem | States |
|---|---|
| `NeverMixed` | `ViewsSpec => []RoutedByQuantity` |
| `PanelShowsActual` | `ViewsSpec => []PanelCatchesUp` |
| `TreeShowsDevice` | `ViewsSpec => []TreeIsComplete` |
| `ChoiceIsShown` | `ViewsSpec => []SelectedIsShown` |

The assumption `GroupsOK` says that the device has groups other than none: a channel
is in one at least, as `BaseDevice` puts channels without a group into one with an
empty name. `ChannelInv` is about the channel and its panel: a push between its
steps still knows of the signal it decided for, every change of the actual signal is
announced in the same step. `StructureInv` says which channels and groups a device
has at each stage of opening it, `TreeInv` which rows are there and that every
signal without a row has an event under way. `BoxesInv` says of everything the last box
lists, not only of what is chosen, that it exists, has the right quantity and is of the
channel in the box before it, which is listed there because it is in the group before
that: this is what every one of the filling functions relies on and hands on.

`PlotsProofs` proves about `Plots`, for any signals, units, curves, markers and
settings, in time and XY plots:

| Theorem | States |
|---|---|
| `UnitsNeverMix` | `Spec => []OneUnitPerAxis` |
| `MarkersFit` | `Spec => []MarkersAreOnCurves` |
| `TheTimerShowsEverything` | finite `Signals` and `CurveIds`, and `Settle * AddTime >= (TimeSpan + 2 * AddTime) * (Cardinality(CurveIds) + 1) + AddTime`, imply `Spec => []EverythingIsShown` |

The order of `curve_map_` is that of the numbers `CurveIds`, so that there is a
first curve. The curves of an axis have one unit because a curve goes to an axis of its
unit or to one that is off, and an axis with a curve is on: that is the third part of
`OneUnitPerAxis`, and the reason why `remove_curve()` may leave axes enabled but
nothing may disable one. Most steps move, lock, extend and paint, and one lemma,
`PlotStaysKeepsInv`, says that whatever leaves curves on their axes and markers on
their curves keeps the invariant; that each of these functions does so is a lemma of
its own (`SetScaleStays`, `ReplottedStays`, `DrawnStay` and so on).

`TheTimerShowsEverything` is about linear axes, and says that those with another scale
do not hold them up (see [known deviations](#known-deviations-without-a-run)). It is
progress within a bound, so its invariant carries a
rank. An axis that must still be extended (`Unseen`, the curves that miss a
boundary) has a rank of `TimeSpan + 2 * AddTime` for each of these curves, and a
rolling one also what its window lacks to the last sample; `TimerInv` says that
`quiet * AddTime` and the rank of an axis together stay below `Settle * AddTime`.
Each timer event takes `AddTime` off every rank that is not zero (`RankFalls`), for
a different reason in each mode:

* An extended interval reaches as far as the last curve that asked (`Reaches`), so
  that this curve is out of the set for good, and no other comes back: locks and
  earlier boundaries are kept (`RankFallsByReach`).
* A rolling window moves on by `add_time_` or jumps to the sample when that is more
  than a window away: the last curve comes closer, or into sight (`RankFallsByStep`).
* The oscilloscope takes one window after the other, through all curves
  (`LastWindowIs`, by induction on the ids with `NatMin`).
* An interval the user moved or a restored one is not as wide as a window. The first
  event makes it one, which is why the rank of such an axis is the largest one.

Two more parts are needed. `Clean` says that an axis shows what `replot()` would
compute again. It fails when an interval was asked for but not replotted, or when
samples came since on an axis that `setAxisAutoScale()` scales, until the first event
that replots; without it an axis that is done could change with the next one. `AllPainted` says that no more is painted of a curve than drawn and no
more drawn than there is, unless one of its signals was deleted; with it
`update_curves()` draws what is missing. The bound holds for every state of the
samples and the locks and is not sharp: the run `plots` finds two events to be
enough for its samples. The assumption that the sets are finite is what a
`std::map` of curves is.

`SignalViewsProofs` proves about `SignalViews`, for any signals, values, digits,
timeouts and resets:

| Theorem | States |
|---|---|
| `SumsFitExtremes` | `Spec => []MeanIsBetweenExtremes` |
| `DisplaysReadTrue` | `Spec => []ReadingsAreTrue` |
| `MeansAndProductsAreRight` | `Spec => []ResultsAreRight` |
| `FilesAreInOrder` | `Spec => []SavedInOrder` |
| `TablesAreMerged` | `Spec => []TableIsMerged` |

The first parts of the last two properties, that all samples are there, one below the
other, hold for any time stamps; their parts about the order of lines and rows are
for signals no packet of which came from before the last one.

`SumsInv` is the mean between the extrema at all times, also before the first value,
when no time has passed and nothing is summed up; `MeanStays` is the step, with the
value that was just read for the time since the last one. It needs that time does not
run backwards from the start over the last update to now, which every way to start the
panel again has to keep. `DisplaysInv` adds to `ReadingsAreTrue` that values and
digits are integers; the main lemma is `PrefixIsRight`, that the prefix chosen for a
value leaves room for its digits also when their number is negative.

`ResultsAreRight` says that the mean of the last samples is pushed, but the channel
only sees its ring. `RingHolds` links the two: the last samples are in the slots of
their positions, later slots still hold zeros, and the sum of the ring is the
difference of two running sums of the signal. A sample replaces the one that is as
many positions before as the ring is long, which needs that samples closer to each
other share no slot (`SlotsDiffer`, `SlotsRepeat`) and that one other value changes
a sum by the difference (`SumsChange`); that is `RingMoves`. `ProcessFollows` is a
pass of the loop, `LoopFollows` all of them, with a least pass that would go wrong,
and `StillFollows` the samples that come meanwhile. `MathInv` adds who listens: the
channel is connected once, so that with no event under way it has caught up.

`TimesInv` says of the signals what files and table rely on, one signal at a time
(`Ordered`): unless a packet came from before the last one, its stamps do not
decrease, and the next one is not before `Reached`, the last stamp or that of the
packet under way. Two signals need not agree about the time. In a file of separate
signals line k has the k-th sample
of each (`SeparateInOrder`). A combined file is a recursive function of turns, one
line each, and `InTurn` its invariant: of every signal a beginning is written; a signal
that is still asked for its time has a sample in every line so far, and, if the
signals are in order, none left from
before the last line; and unless a signal is empty none has more written than it has. A
turn keeps it (`TurnStays`) because signals only stop being asked (`AskedStay`), and
because a signal that is at its end is not taken for one within the time frame: the
dialog accepts only frames smaller than the distance of any two samples
(`FramesApart`), and the time of a sample that is not there is zero. So the samples of
a signal are written as they are, in whatever order their stamps are, and the lines are in
order of time if the signals in the file are.

`TableIsMerged` is proved by induction over the samples a column takes
(`FillMerges`) and over the columns (`FilledMerges`), for a table `T` that need not be
a state: `Merged` is kept by `Place` (`PlaceMerges`). It has two parts. The first needs
no order of the stamps: each column has a cell for each sample it has taken, one below the
other, and its pointer is to the last of them, behind which it has none (`Ends`).
The second, `Straight`, holds while no signal in the table is in `backward`. It adds
to the property what `populate_table()` knows of a column only by that pointer
(`Column`): its next sample is not older than its last row, and of several rows of
one time it has cells in the first ones. That is why the first row that is not
older than a sample is the right one (`Around`), and why an equal time never gets a row
too many: the column whose samples made those rows has a cell in each (`Every`). Other
columns may have rows later than the sample, as packets run ahead of the clock. `HasPlaced`
says what happens to every row and cell when one is set, with the rows behind an inserted
one moved. `MergedLater` is about what happens to the signals in between: each gets
samples that are not older than its own last row, or is in `backward` from then on, or
is cleared. `TableInv` adds that
each column has its connection, so that with no event and no packet under way all have
caught up.

What a proof would need that the provers lack:

* Liveness (all `~>` and `<>[]` properties): fairness and `ENABLED` are out of reach.
* Theorems with an operator as a parameter, such as the induction rules of the
  library. What needs induction is proved with the least element of a set of
  numbers instead (`NatMin`): running sums exist, a search finds the first.

Only model-checked are therefore the liveness properties (`CloseReturns`,
`FollowsSource`, `FiniteRunEnds`, `EnabledAgain`, `CallReturns`, `PanelSettles`).
Every invariant and action property that the runs find to hold is a theorem, under
the assumptions its table names, and so are the two refinements.

## Findings

* `tree_removed` (`src/ui/devices/devicetree/devicetreemodel.cpp:421`): a comment
  says "Device must exist" of the row that `on_channel_added()` looks for. A new
  signal is announced to the tree by a queued event; when its device is removed
  before the event is handled, `find_device()` returns null, and `add_channel()`
  dereferences it.

### Known deviations without a run

The models contain these too; the properties are worded so that they exclude
just these cases.

Signals and channels:

* `clear()` while the acquisition thread pushes leaves `time_`, `data_` and
  `sample_count_` of different lengths for good (`analogtimesignal.cpp:65`;
  `Overlap` in `SignalPipeline`).
* On an exact match `get_value_at_timestamp()` returns the time stamp, not the
  value (`:123`). `combine_signals()` handles equal times of two signals itself,
  so it takes two samples of one signal with one time, which whole
  milliseconds allow (`Strict` in `CombineSignals`).
* The stamps of a signal may run backwards: `push_samples()` puts the samples of a
  packet a stride apart (`analogtimesignal.cpp:254`), and the next packet takes the
  clock or the start of its frame (`hardwaredevice.cpp:302`,
  `hardwarechannel.cpp:117`); the warning about it is commented out
  (`analogtimesignal.cpp:217`). The rows of the table and the lines of a file are
  then out of order (`backward` in `SignalSource`). Combining, plots and the
  integral are only modelled for stamps that grow.
* A moving average divides its first values by the full window, and its ring
  is reserved but has no elements (`movingavgchannel.cpp:65`).
* A channel of the user or a math channel may get a name that is in use, although
  "Channel names are unique per device" (`basedevice.cpp:340`): it is in the map of
  groups but not in the map of channels, and gets no start time stamps.
* A pause right after `open()` is undone by the thread
  (`basedevice.cpp:522`), and a device whose thread never started or was
  restarted in vain is shown as Running (`:422`).
* A `stop()` before `start()` is lost, and `close()` waits for a session nobody
  stops (`:178`). `CloseReturns` covers the stop that arrived.
* After `clear()` a math channel is silent until the signal has outgrown its old
  length (`addscchannel.cpp:69`). `Mirror` states this.
* A user channel never switches back to an earlier quantity, as it asks
  `count() > 1` of a map (`userchannel.cpp:77`); the same test in
  `hardwarechannel.cpp` is dead code.
* A signal added by a script between test and push takes the samples of another
  quantity (`hardwarechannel.cpp:117`).
* A change of signal between the read and the connect of `set_channel()` is not
  seen by the panel (`valuepanelview.cpp:110`).
* A sequence with infinite repeat loops for ever in one timeout when no row has
  a delay any more (`sequenceoutputview.cpp:447`); Run without a property
  dereferences null (`:400`); deleting selected rows asks freed items for their
  row (`:481`).
* Two scripts started close together both run (`smuscriptrunner.cpp:79`); a
  Stop before the interpreter exists is lost (`:85`); an editor that is closed
  or given up leaves its output connected (`smuscriptview.cpp:342`); an editor
  opened after `script_finished` was sent, or with a dialog open all the time, may
  stay disabled (`smuscriptrunner.cpp:135`).
* An empty id after a timeout does not mean that nothing was added
  (`uiproxy.cpp:345`); `set_channel_to_time_plot_view()` replies although nobody
  waits (`uihelper.cpp:207`).
* `devices()` is to "Return all connected devices." (`bindings.cpp:114`), but two of
  them may have one id: a device that another scan finds is a new object with the
  id of the one that is connected (`devicemanager.cpp:250`), and all user devices
  have the same. The inserts into the maps of the session and the window are then
  no-ops (`session.cpp:123`, `mainwindow.cpp:111`): the tree shows both, scripts and
  dialogs see one, the second tab is not in the map, and disconnecting either
  device erases the entry and closes the tab of the other. `shared` marks these in
  `DevicesAgree` and `TabsAgree`. A view of a user device is restored on whichever is there
  (`settingsmanager.cpp:137`). A demo device is never found again by its id and stays
  in the session (`session.cpp:149`).
* A script started on `script_finished` is started before the interpreter of the
  last one is destroyed; its own interpreter throws out of the thread
  (`smuscriptrunner.cpp:134`), while `smuscript.adoc:17` only warns "Only one
  script can be executed at a time!".
* Replies to a script name no request: the late answer to a call that timed out
  becomes the answer of the next call (`uiproxy.cpp:338`).

Settings:

* "When reconnecting that device again, your previous view settings will be
  restored" (`manual/devices.adoc:114`): a view of a signal that has no sample yet is
  restored empty, and the next close writes that over what was there
  (`settingsmanager.cpp:253`). A value panel on a channel comes back on the
  signal it followed last.
* Two demo devices share their settings, and a tab of one takes its own channels for
  those of others; a view of a demo device in another tab is never restored.
* A value panel with neither signal nor channel dereferences null when it is saved
  (`valuepanelview.cpp:266`), and the tabs after it are not saved. In the model
  nothing is, though what the tabs before it wrote may have reached the file.

Controls:

* A failing driver is not noticed: the property announces the value it could not
  set (`configurable.cpp:292`).
* An editable combo box of texts sends `currentData()`, which is empty for a
  text that is not in the list (`stringcombobox.cpp:130`).
* A meta packet goes to the first configurable that knows its keys, whichever it was
  for, and is dropped at the first key nobody knows (`configurable.cpp:470`).
* `list_changed()` is not emitted after construction.

Device tree and dialogs:

* When a device without channels is chosen, the box for the signal keeps the
  signal of the device before (`channelcombobox.cpp:96`).
* The dialog for saving lists a signal in every group of its channel, and writes it
  as often as it is checked. `AddUserChannelDialog` loses the item for a new group
  after a change of the device.

Plots:

* On a logarithmic axis (`axispopup.cpp:145`) Qwt cuts off what is not positive: a
  curve with such a value never fits, so that the timer keeps extending an axis which
  does not change, and never settles; other curves on that axis may
  wait for their wish for ever. `EverythingIsShown` speaks of linear axes and of
  what is drawn.
* Curves on the top axis are not followed (`plot.cpp:757`), two curves on an
  axis overwrite each other's wish for an interval until the next tick, and the
  rolling and oscilloscope modes ignore a lock of one boundary only (`:805`).
* An axis stays enabled after its last curve went (`:382`), also a y axis whose
  curve then found no x axis.
* A signal that was cleared is painted again when it has more samples than before.
* When every point of an XY curve is far off (10^5 of the units shown), its closest
  point is read at the index -1 (`xycurvedata.cpp:107`). In the model a marker is
  moved to a point of its curve.
* Titles of markers repeat, and the button for differences stays enabled after
  the second marker is gone.

Table, panel and files:

* `DataView` asks for `signals_[0]` of an empty vector (`dataview.cpp:247`).
* A reset panel shows the old value again as soon as a signal is set or its digits
  change; exact powers of 1000 are shown as 1000 of the smaller unit.
* The manual says of a combined file that the time frame "will combine values into one
  timestamp, when they fall into the defined time span"
  (`manual/devices.adoc:175`), and its tables have 0.34 and 0.36 on lines of their
  own without a frame, and on one with 30 ms (`combine.csv`, `combine_30ms.csv`).
  The code takes the next sample of every signal that is not *older* than the
  line by more than the frame, however much later it is
  (`signalsavedialog.cpp:361`): without a frame line k has the k-th sample of each
  signal, and a value is under the time of another. The model does what the code does;
  `SavedInOrder` says that all samples of a signal are there and in order, and
  does not say that their times are those of their lines.
* The last sample of a signal is not written (`signalsavedialog.cpp:230`, `:326`).
  A signal without samples gives lines of zeros, and a combined file of it does
  not end when it is asked first. Elsewhere in the order it makes the signals after it
  get zeros behind all of their samples. Combined, all signals end with the first one that does.

## What is not modelled

* Memory below the level of variables: that `push_back()` may move a vector under
  a reader, or that two threads use one `std::map` (`session.cpp:123`).
* Packets of logic and header type; sample signals, which no device writes; the
  minimum and maximum and the start time stamps of signals; names of signals.
* `datautil`, `deviceutil`: tables from one set of names to another. The declarations
  of the Python bindings, whose calls lead to functions that are modelled, and
  the redirection of Python's output to a view.
* `devicemanager.cpp`, `main.cpp`: what the scans find are the objects of
  `SessionDevices`; drivers, their options and the command line.
* Painting, docking, geometry, icons, colours; the waveform dialog and the CSV files
  of sequences; the connect and about dialogs; the tree of script files; the content
  of scripts; vendored code in `external/`.
* Several scripts using the UI at once; a dialog left open by a call that timed
  out; that a script removes a device while a modal dialog of its view is open.

## The plan

Done, in this order: acquisition (the heart of the program), signals and math
channels, combining, channels, sequence output, scripts, UI requests, session;
then the controls, the plots, the readers of signals, the tabs with their
settings, the device tree and the forms.

The number of runs is kept small; a new module takes the place of a violation
run that is settled, or joins a module it composes with.

The safety invariants and action properties of the runs are proved. What is left is
liveness, which stays with the runs, and what the models leave out:
[what is not modelled](#what-is-not-modelled).
