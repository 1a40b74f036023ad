-------------------------------- MODULE Plots --------------------------------
(***************************************************************************)
(* A plot view: the curves of a Plot, the axis each of them uses, the      *)
(* locks and the intervals of the axes, and the markers.  Everything here  *)
(* runs in the GUI thread; only the samples come from outside, between any *)
(* two steps.  The timer of the plot extends the intervals and paints the  *)
(* new samples.                                                            *)
(*                                                                         *)
(* Qwt keeps a requested interval until the next replot(): "next" is what  *)
(* setAxisScale() asked for, "shown" what axisInterval() returns.          *)
(***************************************************************************)
EXTENDS Integers, Sequences, FiniteSets, SequencesExt, FiniteSetsExt

CONSTANTS
    Signals,      \* the signals that can be plotted
    Units,        \* their units, including the AC/DC flags
    Values,       \* values of samples, multiples of 10: the margins are 10 %
    Gaps,         \* times between two samples
    AddTime,      \* add_time_
    TimeSpan,     \* time_span_
    Huge,         \* numeric_limits<double>::max()
    CurveIds,     \* ids of curves, in the order of curve_map_
    MarkerIds,    \* the markers
    NoMarker,
    Shifts,       \* by how much the two boundaries of an axis are moved
    Settle,       \* timer events until everything is shown
    MaxSaved,     \* bound of the curves that are restored
    MaxSamples,   \* bound of the samples of all signals
    MaxEdits      \* bound of the things a user does

ASSUME PlotAssumption ==
    /\ AddTime \in Nat /\ TimeSpan \in Nat /\ AddTime > 0 /\ TimeSpan >= AddTime
    /\ Gaps \subseteq Nat /\ CurveIds \subseteq Nat
    /\ Values \subseteq Int /\ Huge \in Int
    /\ \A v \in Values : v % 10 = 0 /\ v < Huge /\ -v < Huge
    /\ Shifts \subseteq Int \X Int

VARIABLES
    view,         \* "TimePlot" or "XYPlot"
    signals,      \* per signal: [unit, times, lo, hi, cleared: samples deleted]
    saved,        \* curves of the settings, still to be restored
    curves,       \* curve_map_: [data, x, y, painted, drawn]
    axes,         \* per axis: [on, auto, log, next, shown, lower, upper]; the
                  \* scale engine is logarithmic or linear
    mode,         \* update_mode_
    markers,      \* marker_curve_map_: the curve of each marker
    diffs,        \* diff_markers_
    active,       \* active_marker_, or NoMarker
    pickers,      \* the marker pickers exist
    pairs,        \* action_add_diff_marker_ is enabled
    popup,        \* the open AxisPopup, or Closed
    edits,        \* what the user did so far
    quiet         \* history: timer events since anything else happened, or Settle
                  \* when the last one found nothing to do

vars == <<view, signals, saved, curves, axes, mode, markers, diffs, active, pickers, pairs, popup, edits, quiet>>
markerVars == <<markers, diffs, active, pickers, pairs>>

None == "none"
Closed == [axis |-> None, scale |-> <<0, 0>>, lower |-> FALSE, upper |-> FALSE]
YAxes == <<"yLeft", "yRight">>
XAxes == <<"xBottom", "xTop">>
Axes == Range(YAxes) \cup Range(XAxes)
Modes == {"Additive", "Rolling", "Oscilloscope"}

-----------------------------------------------------------------------------
(* The data of a curve.                                                    *)
TimeCurveData == {[type |-> "TimeCurve", x |-> s, y |-> s] : s \in Signals}
XYCurveData == {[type |-> "XYCurve", x |-> pair[1], y |-> pair[2]] :
                   pair \in {p \in Signals \X Signals : p[1] # p[2]}}
CurveData == IF view = "TimePlot" THEN TimeCurveData ELSE XYCurveData

XUnit(data) == IF data.type = "TimeCurve" THEN "s" ELSE signals[data.x].unit
YUnit(data) == signals[data.y].unit

First(s) == IF signals[s].times = <<>> THEN 0 ELSE Head(signals[s].times)
LastTime(s) == IF signals[s].times = <<>> THEN 0 ELSE Last(signals[s].times)

BoundingRect(data) ==
    [left   |-> IF data.type = "TimeCurve" THEN First(data.y) ELSE signals[data.x].lo,
     right  |-> IF data.type = "TimeCurve" THEN LastTime(data.y) ELSE signals[data.x].hi,
     bottom |-> signals[data.y].lo,
     top    |-> signals[data.y].hi]

\* on_sample_appended() gives an XYCurve a point for every time of either
\* signal that both cover; CombineSignals has the details.
Points(s, t) ==
    {time \in Range(signals[s].times) \cup Range(signals[t].times) :
        \A u \in {s, t} : signals[u].times # <<>> /\ First(u) <= time /\ time <= LastTime(u)}
Size(curve) ==
    IF curve.data.type = "TimeCurve" THEN Len(signals[curve.data.y].times)
    ELSE Cardinality(Points(curve.data.x, curve.data.y))

-----------------------------------------------------------------------------
(* Axes.  A curve without an axis takes the axis of a curve with the same  *)
(* unit, or the first axis that was never enabled.                         *)
Margin(v) == (IF v < 0 THEN -v ELSE v) \div 10
Below(v) == v - Margin(v)
Above(v) == v + Margin(v)

FreeAxis(candidates) ==
    LET free == SelectInSeq(candidates, LAMBDA a : ~axes[a].on)
    IN  IF free = 0 THEN None ELSE candidates[free]

XAxisFor(data) ==
    LET same == {id \in DOMAIN curves : XUnit(curves[id].data) = XUnit(data)}
    IN  IF same = {} THEN FreeAxis(XAxes) ELSE curves[Min(same)].x
\* Mutant: the curve is compared by the unit of the other axis.
YAxisForByTime(data) ==
    LET same == {id \in DOMAIN curves : XUnit(curves[id].data) = XUnit(data)}
    IN  IF same = {} THEN FreeAxis(YAxes) ELSE curves[Min(same)].y
YAxisFor(data) ==
    LET same == {id \in DOMAIN curves : YUnit(curves[id].data) = YUnit(data)}
    IN  IF same = {} THEN FreeAxis(YAxes) ELSE curves[Min(same)].y

\* init_axis(): the locks of an axis that had some already are kept.
InitAxis(scales, a, lo, hi, auto) ==
    [scales EXCEPT ![a].on = TRUE, ![a].next = <<lo, hi>>, ![a].auto = auto]
InitX(scales, a, data) ==
    LET used == \E id \in DOMAIN curves : curves[id].x = a
        rect == BoundingRect(data)
    IN  IF used THEN scales
        ELSE IF data.type = "TimeCurve" THEN InitAxis(scales, a, 0, AddTime, TRUE)
        ELSE InitAxis(scales, a, Below(rect.left), Above(rect.right), TRUE)
InitY(scales, a, data) ==
    LET used == \E id \in DOMAIN curves : curves[id].y = a
        rect == BoundingRect(data)
    IN  IF used THEN scales
        ELSE InitAxis(scales, a, Below(rect.bottom), Above(rect.top), FALSE)

\* What a scale engine of Qwt makes of an interval: a logarithmic one cuts off
\* what is not positive (1 stands for the least number it knows) and has no
\* interval at all when nothing is left.
Positive(v) == IF v < 1 THEN 1 ELSE v
Divided(log, interval) ==
    LET positive == <<Positive(interval[1]), Positive(interval[2])>>
    IN  IF ~log THEN interval ELSE IF positive[1] = positive[2] THEN <<0, 0>> ELSE positive

\* What replot() makes of the requested intervals.  setAxisAutoScale() asked
\* for an interval around the data, until setAxisScale() takes that back.
Hull(plotted, a) ==
    LET rects == {BoundingRect(plotted[id].data) : id \in {i \in DOMAIN plotted : plotted[i].x = a}}
        wide == {r \in rects : r.left <= r.right}
    IN  IF wide = {} THEN <<>> ELSE <<Min({r.left : r \in wide}), Max({r.right : r \in wide})>>
Replotted(scales, plotted) ==
    [a \in Axes |->
        LET wanted == IF scales[a].auto /\ Hull(plotted, a) # <<>>
                      THEN Hull(plotted, a) ELSE scales[a].next
        IN  [scales[a] EXCEPT !.next = wanted, !.shown = Divided(scales[a].log, wanted)]]

\* QwtPlot::replot() paints everything there is; Plot::replot() also forgets
\* what was painted, so that the next timer event paints it once more.
Drawn(plotted) == [id \in DOMAIN plotted |-> [plotted[id] EXCEPT !.drawn = Size(plotted[id])]]
Forgotten(plotted) == [id \in DOMAIN plotted |-> [plotted[id] EXCEPT !.painted = 0]]
Replot(scales, plotted) ==
    /\ axes' = Replotted(scales, plotted)
    /\ curves' = Drawn(Forgotten(plotted))

SetScale(scales, a, interval) == [scales EXCEPT ![a].next = interval, ![a].auto = FALSE]
SetLocked(scales, locked, which) ==
    [a \in Axes |-> IF a \in which /\ scales[a].on
                    THEN [scales[a] EXCEPT !.lower = locked, !.upper = locked] ELSE scales[a]]

-----------------------------------------------------------------------------
Box == [unit : Units, times : {<<>>}, lo : {Huge}, hi : {-Huge}, cleared : {0}]

\* Curves a plot can have saved: those on one axis have the same unit.
Saveable(set) ==
    \A c, d \in set : (c.x = d.x => XUnit(c.data) = XUnit(d.data)) /\ (c.y = d.y => YUnit(c.data) = YUnit(d.data))

Init ==
    /\ view \in {"TimePlot", "XYPlot"}
    /\ signals \in [Signals -> Box]
    /\ saved \in {set \in UNION {kSubset(k, [data : CurveData, x : Range(XAxes), y : Range(YAxes)]) : k \in 0 .. MaxSaved} :
                    /\ Saveable(set)
                    /\ view = "TimePlot" => \A c \in set : c.x = "xBottom"}
    /\ curves = [id \in {} |-> None]
    /\ axes = [a \in Axes |-> [on |-> FALSE, auto |-> TRUE, log |-> FALSE, next |-> <<0, 0>>, shown |-> <<0, 0>>,
                               lower |-> FALSE, upper |-> FALSE]]
    /\ mode = "Additive"
    /\ markers = [m \in {} |-> None] /\ diffs = {} /\ active = NoMarker /\ pickers = FALSE /\ pairs = FALSE
    /\ popup = Closed /\ edits = 0 /\ quiet = 0

Ready == saved = {}
Edit == Ready /\ popup = Closed /\ edits < MaxEdits /\ edits' = edits + 1
Fresh == CurveIds \ DOMAIN curves

Now == Max({LastTime(s) : s \in Signals} \cup {0})
Samples == FoldSet(LAMBDA s, n : n + Len(signals[s].times) + signals[s].cleared, 0, Signals)

\* Bounds: there are markers or samples, and one difference.  What a marker
\* does to the curves and the axes is what ShowEvent does to them.
MarkersOnly == Ready /\ popup = Closed /\ Samples = 0 /\ UNCHANGED edits

-----------------------------------------------------------------------------
(* What other threads and windows do to the signals.                       *)
\* Time stamps grow here; those that run back are in SignalSource.
PushSample(s, v, gap) ==
    /\ Ready /\ Samples < MaxSamples /\ markers = <<>>
    /\ signals' = [signals EXCEPT ![s].times = Append(@, Now + gap), ![s].lo = Min({@, v}), ![s].hi = Max({@, v})]
    /\ UNCHANGED <<view, saved, curves, axes, mode, markerVars, popup, edits>>

\* "Delete signal" in the devices view: the extrema are not reset, and nobody
\* tells the plot.
ClearSignal(s) ==
    /\ Edit /\ signals[s].times # <<>>
    /\ signals' = [signals EXCEPT ![s].times = <<>>, ![s].cleared = Len(signals[s].times)]
    /\ UNCHANGED <<view, saved, curves, axes, mode, markerVars, popup>>

-----------------------------------------------------------------------------
(* Curves.                                                                 *)
NewCurve(data, x, y) == [data |-> data, x |-> x, y |-> y, painted |-> 0, drawn |-> 0]
With(id, curve) == [i \in DOMAIN curves \cup {id} |-> IF i = id THEN curve ELSE curves[i]]

Insert(id, data, x, y) ==
    LET scales == InitX(InitY(axes, y, data), x, data)
        plotted == With(id, NewCurve(data, x, y))
    IN  /\ axes' = Replotted(scales, plotted)
        /\ curves' = Drawn(plotted)

AddCurve(data) ==
    LET y == YAxisFor(data)
        x == XAxisFor(data)
    IN  CASE y = None -> UNCHANGED <<axes, curves>>
          [] y # None /\ x = None -> axes' = InitY(axes, y, data) /\ UNCHANGED curves
          [] OTHER -> \E id \in Fresh : Insert(id, data, x, y)

\* add_signal() refuses a signal the plot has; add_signals() does not look.
AddSignal(data) ==
    /\ Edit /\ Fresh # {}
    /\ view = "TimePlot" => \A id \in DOMAIN curves : curves[id].data # data
    /\ AddCurve(data)
    /\ UNCHANGED <<view, signals, saved, mode, markerVars, popup>>

\* add_curve(Curve *): the axes are those of the settings.
RestoreCurve(c, id) ==
    LET taken(a, unit, Axis(_), UnitOf(_)) ==
            \E i \in DOMAIN curves : Axis(curves[i]) = a /\ UnitOf(curves[i].data) # unit
    IN  /\ saved' = saved \ {c}
        /\ IF taken(c.y, YUnit(c.data), LAMBDA d : d.y, YUnit)
           THEN UNCHANGED <<axes, curves>>
           ELSE IF taken(c.x, XUnit(c.data), LAMBDA d : d.x, XUnit)
           THEN axes' = InitY(axes, c.y, c.data) /\ UNCHANGED curves
           ELSE Insert(id, c.data, c.x, c.y)
        /\ UNCHANGED <<view, signals, mode, markerVars, popup, edits>>

\* Mutant: active_marker_ is left alone.
RemoveMarkersKeepsActive(gone) ==
    /\ markers' = [m \in DOMAIN markers \ gone |-> markers[m]]
    /\ diffs' = {pair \in diffs : pair[1] \notin gone /\ pair[2] \notin gone}
    /\ active' = active
    /\ pickers' = (pickers /\ (gone = {} \/ DOMAIN markers \ gone # {}))
\* remove_marker() for each of the markers, then the pickers with the last one.
RemoveMarkers(gone) ==
    /\ markers' = [m \in DOMAIN markers \ gone |-> markers[m]]
    /\ diffs' = {pair \in diffs : pair[1] \notin gone /\ pair[2] \notin gone}
    /\ active' = IF active \in gone THEN NoMarker ELSE active
    /\ pickers' = (pickers /\ (gone = {} \/ DOMAIN markers \ gone # {}))

\* The axes stay enabled; without a marker of its own the curve goes without
\* a replot.
RemoveCurve(id) ==
    LET gone == {m \in DOMAIN markers : markers[m] = id}
        others == [i \in DOMAIN curves \ {id} |-> curves[i]]
    IN  /\ RemoveMarkers(gone)
        /\ IF gone = {} THEN curves' = others /\ UNCHANGED axes ELSE Replot(axes, others)

\* The dialog behind the legend: its look, and a button that removes the curve.
OnLegendClicked(id) ==
    /\ Edit
    /\ RemoveCurve(id)
    /\ UNCHANGED <<view, signals, saved, mode, pairs, popup>>

-----------------------------------------------------------------------------
(* Markers.                                                                *)
AddMarker(m, id) ==
    /\ MarkersOnly /\ m \notin DOMAIN markers
    /\ markers' = [n \in DOMAIN markers \cup {m} |-> IF n = m THEN id ELSE markers[n]]
    /\ active' = m /\ pickers' = TRUE /\ pairs' = (DOMAIN markers # {})
    /\ Replot(axes, curves)
    /\ UNCHANGED <<view, signals, saved, mode, diffs, popup>>

\* Both boxes of the dialog list the markers.  Its button stays enabled when
\* the markers go with their curves.
DiffMarkerDialog == IF pairs /\ diffs = {} THEN (DOMAIN markers) \X (DOMAIN markers) ELSE {}

AddDiffMarker(pair) ==
    /\ MarkersOnly
    /\ diffs' = diffs \cup {pair}
    /\ Replot(axes, curves)
    /\ UNCHANGED <<view, signals, saved, mode, markers, active, pickers, pairs, popup>>

OnMarkerSelected(m) ==
    /\ MarkersOnly /\ pickers /\ active' = m
    /\ UNCHANGED <<view, signals, saved, curves, axes, mode, markers, diffs, pickers, pairs, popup>>

\* To the closest point of the curve of the active marker.
OnMarkerMoved ==
    /\ MarkersOnly /\ pickers /\ active # NoMarker
    /\ Replot(axes, curves)
    /\ UNCHANGED <<view, signals, saved, mode, markerVars, popup>>

-----------------------------------------------------------------------------
(* Moving and locking the axes.                                            *)
\* A drag moves both boundaries, the wheel moves them apart or together.
Moved(interval, by) == <<interval[1] + by[1], interval[2] + by[2]>>

\* Dragging an axis or turning the wheel over it locks the axis.
MoveAxis(a, by) ==
    /\ Edit /\ axes[a].on
    /\ Replot(SetScale(SetLocked(axes, TRUE, {a}), a, Moved(axes[a].shown, by)), curves)
    /\ UNCHANGED <<view, signals, saved, mode, markerVars, popup>>

\* Dragging or zooming the canvas moves every axis; then lock_all_axis().
MoveCanvas(by) ==
    LET moved == [a \in Axes |-> IF axes[a].on THEN SetScale(axes, a, Moved(axes[a].shown, by))[a] ELSE axes[a]]
    IN  /\ Edit
        /\ axes' = SetLocked(Replotted(moved, curves), TRUE, Axes)
        /\ curves' = Drawn(Forgotten(curves))
        /\ UNCHANGED <<view, signals, saved, mode, markerVars, popup>>

OnAxisLockClicked(a, boundary) ==
    /\ Edit /\ axes[a].on
    /\ axes' = IF boundary = "lower" THEN [axes EXCEPT ![a].lower = ~@] ELSE [axes EXCEPT ![a].upper = ~@]
    /\ UNCHANGED <<view, signals, saved, curves, mode, markerVars, popup>>

ZoomBestFit ==
    /\ Edit
    /\ axes' = SetLocked(axes, FALSE, Axes)
    /\ UNCHANGED <<view, signals, saved, curves, mode, markerVars, popup>>

\* The popup of an axis shows the interval of the time it was opened.
OpenAxisPopup(a) ==
    /\ Edit /\ axes[a].on
    /\ popup' = [axis |-> a, scale |-> axes[a].shown, lower |-> axes[a].lower, upper |-> axes[a].upper]
    /\ UNCHANGED <<view, signals, saved, curves, axes, mode, markerVars>>

\* Its check box gives the axis a new scale engine, which outlives the curves.
OnAccept(by, log) ==
    LET a == popup.axis
        scales == SetScale(axes, a, Moved(popup.scale, by))
    IN  /\ popup # Closed
        /\ Replot([scales EXCEPT ![a].lower = popup.lower, ![a].upper = popup.upper, ![a].log = log], curves)
        /\ popup' = Closed
        /\ UNCHANGED <<view, signals, saved, mode, markerVars, edits>>

\* Only a time plot has modes; set_time_span() follows in accept().
PlotConfigDialog == IF view = "TimePlot" THEN Modes ELSE {}

SetUpdateMode(m) ==
    LET last == Max({BoundingRect(curves[id].data).right : id \in DOMAIN curves} \cup {0})
    IN  /\ Edit /\ mode' = m
        /\ IF m = "Additive" THEN UNCHANGED <<axes, curves>>
           ELSE Replot(SetScale(axes, "xBottom", <<last - TimeSpan, last>>), curves)
        /\ UNCHANGED <<view, signals, saved, markerVars, popup>>

\* The tab of the view comes to the front.
ShowEvent ==
    /\ Edit /\ Replot(axes, curves)
    /\ UNCHANGED <<view, signals, saved, mode, markerVars, popup>>

-----------------------------------------------------------------------------
(* The timer.  The curves are taken in the order of the map; each of them  *)
(* looks at the interval that is shown, and the last one that wants a new  *)
(* interval gets it.  "Wish" is the interval a curve asks for, or <<>>.    *)
\* Mutant: both directions look at the lock of the lower boundary.
ExtendedByLowerLock(a, now, lowest, low, highest, high) ==
    LET down == ~axes[a].lower /\ lowest < now[1]
        up == ~axes[a].lower /\ highest > now[2]
    IN  IF down \/ up THEN <<IF down THEN low ELSE now[1], IF up THEN high ELSE now[2]>> ELSE <<>>
Extended(a, now, lowest, low, highest, high) ==
    LET down == ~axes[a].lower /\ lowest < now[1]
        up == ~axes[a].upper /\ highest > now[2]
    IN  IF down \/ up THEN <<IF down THEN low ELSE now[1], IF up THEN high ELSE now[2]>> ELSE <<>>

\* Rolling and oscilloscope: the next window, or one that starts at the sample.
NextWindow(now, right, by) ==
    LET start == IF right > now[2] + TimeSpan THEN right ELSE now[1] + by
    IN  <<start, start + TimeSpan>>

UpdateXInterval(curve, now) ==
    LET a == "xBottom"
        rect == BoundingRect(curve.data)
    IN  IF axes[a].lower /\ axes[a].upper THEN <<>>
        ELSE IF curve.data.type = "XYCurve"
        THEN Extended(a, now, rect.left, Below(rect.left), rect.right, Above(rect.right))
        ELSE IF mode = "Additive"
        THEN Extended(a, now, rect.left, 0, rect.right, rect.right + AddTime)
        ELSE IF rect.right <= now[2] THEN <<>>
        ELSE NextWindow(now, rect.right, IF mode = "Rolling" THEN AddTime ELSE TimeSpan)

UpdateYInterval(curve, now) ==
    LET rect == BoundingRect(curve.data)
    IN  Extended(curve.y, now, rect.bottom, Below(rect.bottom), rect.top, Above(rect.top))

XWish(id) == UpdateXInterval(curves[id], axes["xBottom"].shown)
YWish(id) == UpdateYInterval(curves[id], axes[curves[id].y].shown)

LastWish(Wish(_), ids) ==
    LET wishing == {id \in ids : Wish(id) # <<>>}
    IN  IF wishing = {} THEN <<>> ELSE Wish(Max(wishing))

\* setAxisScaleDiv() of the oscilloscope is in force for the next curve.
Taken(id, now) ==
    LET wish == IF id \in DOMAIN curves THEN UpdateXInterval(curves[id], now) ELSE <<>>
    IN  IF wish = <<>> THEN now ELSE wish
Windows ==
    LET before[n \in 0 .. Max(DOMAIN curves) + 1] ==
            IF n = 0 THEN axes["xBottom"].shown ELSE Taken(n - 1, before[n - 1])
    IN  before
LastWindow == Windows[Max(DOMAIN curves) + 1]

UpdateIntervals(a) ==
    CASE a = "xBottom" -> LET wish == LastWish(XWish, DOMAIN curves)
                          IN  IF wish # <<>> /\ mode = "Oscilloscope" /\ view = "TimePlot" THEN LastWindow ELSE wish
      [] a = "xTop"    -> <<>>
      [] OTHER         -> LastWish(YWish, {id \in DOMAIN curves : curves[id].y = a})

UpdateCurves(plotted) ==
    [id \in DOMAIN plotted |->
        LET c == plotted[id]
        IN  IF Size(c) > c.painted THEN [c EXCEPT !.painted = Size(c), !.drawn = Size(c)] ELSE c]

TimerEvent ==
    LET wishes == [a \in Axes |-> UpdateIntervals(a)]
        changed == {a \in Axes : wishes[a] # <<>>}
        scales == [a \in Axes |-> IF a \in changed THEN SetScale(axes, a, wishes[a])[a] ELSE axes[a]]
    IN  /\ Ready
        /\ axes' = IF changed = {} THEN axes ELSE Replotted(scales, curves)
        /\ curves' = UpdateCurves(IF changed = {} THEN curves ELSE Drawn(Forgotten(curves)))
        /\ quiet' = IF changed = {} THEN Settle ELSE Min({quiet + 1, Settle})
        /\ UNCHANGED <<view, signals, saved, mode, markerVars, popup, edits>>

-----------------------------------------------------------------------------
World ==
    \/ \E s \in Signals, v \in Values, gap \in Gaps : PushSample(s, v, gap)
    \/ \E s \in Signals : ClearSignal(s)

Toolbar ==
    \/ \E data \in CurveData : AddSignal(data)
    \/ \E m \in MarkerIds, id \in DOMAIN curves : AddMarker(m, id)
    \/ \E pair \in DiffMarkerDialog : AddDiffMarker(pair)
    \/ \E m \in PlotConfigDialog : SetUpdateMode(m)
    \/ ZoomBestFit

Canvas ==
    \/ \E m \in DOMAIN markers \cup {NoMarker} : OnMarkerSelected(m)
    \/ OnMarkerMoved
    \/ \E by \in Shifts : (by[1] = by[2] => active = NoMarker) /\ MoveCanvas(by)
    \/ ShowEvent

ScalePicker ==
    \E a \in Axes :
        \/ \E by \in Shifts : MoveAxis(a, by)
        \/ OpenAxisPopup(a)
        \/ \E boundary \in {"lower", "upper"} : OnAxisLockClicked(a, boundary)

User ==
    \/ Toolbar \/ Canvas \/ ScalePicker
    \/ \E by \in {<<0, 0>>} \cup Shifts, log \in BOOLEAN : OnAccept(by, log)
    \/ \E id \in DOMAIN curves : OnLegendClicked(id)

Others == (\E c \in saved, id \in Fresh : RestoreCurve(c, id)) \/ World \/ User

Next ==
    \/ Others /\ quiet' = 0
    \/ TimerEvent

Spec == Init /\ [][Next]_vars

-----------------------------------------------------------------------------
(* An axis has one unit: the curves on it have the same one, whichever     *)
(* were added, removed and restored before.                                *)
OneUnitPerAxis ==
    \A i, j \in DOMAIN curves :
        /\ curves[i].x = curves[j].x => XUnit(curves[i].data) = XUnit(curves[j].data)
        /\ curves[i].y = curves[j].y => YUnit(curves[i].data) = YUnit(curves[j].data)
        /\ axes[curves[i].x].on /\ axes[curves[i].y].on

(* update_markers_label() and on_marker_moved() look markers up with       *)
(* operator[] and use the curve they get: every marker is on a curve of    *)
(* the plot, the difference markers and the active one are markers, and    *)
(* the pickers are there exactly while there are markers.                  *)
MarkersAreOnCurves ==
    /\ \A m \in DOMAIN markers : markers[m] \in DOMAIN curves
    /\ \A pair \in diffs : {pair[1], pair[2]} \subseteq DOMAIN markers
    /\ active \in DOMAIN markers \cup {NoMarker}
    /\ pickers <=> DOMAIN markers # {}

(* However the curves on an axis overwrite each other's interval, the      *)
(* timer soon gets all of them into it, up to the boundaries that are      *)
(* locked, and paints every sample.  A time plot that rolls only follows   *)
(* the last sample.  Curves on the top axis are not followed at all, and a *)
(* signal that was cleared is not painted before it has more samples than  *)
(* before.  Nothing is claimed of a logarithmic axis: a value that is not  *)
(* positive never fits there, the timer asks for it again and again, and   *)
(* its wish may take the place of another curve's each time.  The linear   *)
(* axes of the same plot are not disturbed by that.                        *)
Covers(a, low, high) ==
    \/ axes[a].log
    \/ /\ ~axes[a].lower => axes[a].shown[1] <= low
       /\ ~axes[a].upper => high <= axes[a].shown[2]
ReachesLast(a, last) ==
    axes[a].log \/ (axes[a].lower /\ axes[a].upper) \/ last <= axes[a].shown[2]
Fits(c) ==
    LET rect == BoundingRect(c.data)
    IN  /\ Covers(c.y, rect.bottom, rect.top)
        /\ c.x = "xBottom" =>
              IF c.data.type = "XYCurve" \/ mode = "Additive"
              THEN Covers("xBottom", rect.left, rect.right)
              ELSE ReachesLast("xBottom", rect.right)
        /\ (\A s \in {c.data.x, c.data.y} : signals[s].cleared = 0) => c.drawn = Size(c)
EverythingIsShown == quiet = Settle => \A id \in DOMAIN curves : Fits(curves[id])
=============================================================================
