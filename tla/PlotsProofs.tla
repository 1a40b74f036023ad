------------------------------ MODULE PlotsProofs ------------------------------
(***************************************************************************)
(* Proofs about Plots, for any signals, units and numbers of curves,       *)
(* markers and samples: an axis never mixes units, and what the plot knows *)
(* of its markers fits together, whatever the user, the settings and the   *)
(* timer do to the curves and the axes; and, for finitely many signals and *)
(* curves, the timer soon has every curve in sight and every sample drawn. *)
(***************************************************************************)
EXTENDS Plots, FiniteSetTheorems, WellFoundedInduction, TLAPS

SignalFields == {"unit", "times", "lo", "hi", "cleared"}
CurveFields == {"data", "x", "y", "painted", "drawn"}
AxisFields == {"on", "auto", "log", "next", "shown", "lower", "upper"}

AreAxes(scales) ==
    DOMAIN scales = Axes /\ \A a \in Axes : DOMAIN scales[a] = AxisFields
IsPlaced(c) ==
    c.data \in CurveData /\ c.x \in {"xBottom", "xTop"} /\ c.y \in {"yLeft", "yRight"}

CurvesInv ==
    /\ DOMAIN signals = Signals /\ \A s \in Signals : DOMAIN signals[s] = SignalFields
    /\ AreAxes(axes)
    /\ \A c \in saved : IsPlaced(c)
    /\ DOMAIN curves \subseteq CurveIds
    /\ \A id \in DOMAIN curves : DOMAIN curves[id] = CurveFields /\ IsPlaced(curves[id])

PlotInv ==
    CurvesInv /\ OneUnitPerAxis /\ pickers \in BOOLEAN /\ MarkersAreOnCurves

-----------------------------------------------------------------------------
(* What the steps do to the axes and the curves                            *)

(* An axis that is enabled stays enabled.                                  *)
StayOn(scales, others) ==
    AreAxes(others) /\ \A a \in Axes : scales[a].on => others[a].on

(* The curves keep their data and their axes.                              *)
StayPlaced(plotted, others) ==
    /\ DOMAIN others = DOMAIN plotted
    /\ \A id \in DOMAIN plotted :
          /\ DOMAIN others[id] = CurveFields
          /\ others[id].data = plotted[id].data
          /\ others[id].x = plotted[id].x /\ others[id].y = plotted[id].y

HaveFields(plotted) == \A id \in DOMAIN plotted : DOMAIN plotted[id] = CurveFields

LEMMA AxesAre == Axes = {"yLeft", "yRight", "xBottom", "xTop"}
<1>1. Range(YAxes) = {"yLeft", "yRight"}
  BY DEF Range, YAxes
<1>2. Range(XAxes) = {"xBottom", "xTop"}
  BY DEF Range, XAxes
<1> QED
  BY <1>1, <1>2 DEF Axes

LEMMA SetScaleStays ==
  ASSUME NEW scales, AreAxes(scales), NEW a, NEW interval
  PROVE  StayOn(scales, SetScale(scales, a, interval))
BY DEF StayOn, AreAxes, SetScale, AxisFields

LEMMA SetLockedStays ==
  ASSUME NEW scales, AreAxes(scales), NEW locked, NEW which
  PROVE  StayOn(scales, SetLocked(scales, locked, which))
BY DEF StayOn, AreAxes, SetLocked, AxisFields

LEMMA ReplottedStays ==
  ASSUME NEW scales, AreAxes(scales), NEW plotted
  PROVE  StayOn(scales, Replotted(scales, plotted))
<1> DEFINE wanted(a) == IF scales[a].auto /\ Hull(plotted, a) # <<>> THEN Hull(plotted, a) ELSE scales[a].next
<1>1. Replotted(scales, plotted) =
        [a \in Axes |-> [scales[a] EXCEPT !.next = wanted(a), !.shown = Divided(scales[a].log, wanted(a))]]
  BY DEF Replotted
<1> HIDE DEF wanted
<1> QED
  BY <1>1 DEF StayOn, AreAxes, AxisFields

LEMMA StayOnTwice ==
  ASSUME NEW f, NEW g, NEW h, StayOn(f, g), StayOn(g, h)
  PROVE  StayOn(f, h)
BY DEF StayOn

LEMMA DrawnStay ==
  ASSUME NEW plotted, HaveFields(plotted)
  PROVE  StayPlaced(plotted, Drawn(plotted))
BY DEF StayPlaced, HaveFields, Drawn, CurveFields

LEMMA ForgottenStay ==
  ASSUME NEW plotted, HaveFields(plotted)
  PROVE  StayPlaced(plotted, Forgotten(plotted))
BY DEF StayPlaced, HaveFields, Forgotten, CurveFields

LEMMA UpdatedStay ==
  ASSUME NEW plotted, HaveFields(plotted)
  PROVE  StayPlaced(plotted, UpdateCurves(plotted))
BY DEF StayPlaced, HaveFields, UpdateCurves, CurveFields

LEMMA StayPlacedTwice ==
  ASSUME NEW f, NEW g, NEW h, StayPlaced(f, g), StayPlaced(g, h)
  PROVE  StayPlaced(f, h)
BY DEF StayPlaced

LEMMA RepaintedStay ==
  ASSUME NEW plotted, HaveFields(plotted)
  PROVE  StayPlaced(plotted, Drawn(Forgotten(plotted)))
<1>1. StayPlaced(plotted, Forgotten(plotted))
  BY ForgottenStay
<1>2. HaveFields(Forgotten(plotted))
  BY <1>1 DEF StayPlaced, HaveFields
<1> QED
  BY <1>1, <1>2, DrawnStay, StayPlacedTwice

LEMMA ReplotStays ==
  ASSUME NEW scales, NEW plotted, AreAxes(scales), HaveFields(plotted), Replot(scales, plotted)
  PROVE  StayOn(scales, axes') /\ StayPlaced(plotted, curves')
BY ReplottedStays, RepaintedStay DEF Replot

-----------------------------------------------------------------------------
(* The plot as a whole.                                                    *)
LEMMA UnitsOf ==
  ASSUME NEW data, data \in CurveData
  PROVE  data.x \in Signals /\ data.y \in Signals
BY DEF CurveData, TimeCurveData, XYCurveData

UnitsStay ==
    /\ view' = view /\ saved' \subseteq saved
    /\ DOMAIN signals' = Signals
    /\ \A s \in Signals : DOMAIN signals'[s] = SignalFields /\ signals'[s].unit = signals[s].unit

(* Some of the curves, where they were.                                    *)
AreAmong(plotted, others) ==
    /\ DOMAIN others \subseteq DOMAIN plotted
    /\ \A id \in DOMAIN others :
          /\ DOMAIN others[id] = CurveFields
          /\ others[id].data = plotted[id].data
          /\ others[id].x = plotted[id].x /\ others[id].y = plotted[id].y

(* The units of the curves on an axis, by the variables they depend on.    *)
XUnitIn(sigs, data) == IF data.type = "TimeCurve" THEN "s" ELSE sigs[data.x].unit
YUnitIn(sigs, data) == sigs[data.y].unit
OneUnit(sigs, plotted, scales) ==
    \A i, j \in DOMAIN plotted :
        /\ plotted[i].x = plotted[j].x => XUnitIn(sigs, plotted[i].data) = XUnitIn(sigs, plotted[j].data)
        /\ plotted[i].y = plotted[j].y => YUnitIn(sigs, plotted[i].data) = YUnitIn(sigs, plotted[j].data)
        /\ scales[plotted[i].x].on /\ scales[plotted[i].y].on

LEMMA OneUnitIs ==
  /\ OneUnitPerAxis <=> OneUnit(signals, curves, axes)
  /\ OneUnitPerAxis' <=> OneUnit(signals', curves', axes')
BY DEF OneUnitPerAxis, OneUnit, XUnit, YUnit, XUnitIn, YUnitIn

LEMMA DataAreKept == UnitsStay => CurveData' = CurveData
BY DEF UnitsStay, CurveData, TimeCurveData, XYCurveData

LEMMA SavedArePlaced ==
  ASSUME CurvesInv, UnitsStay, NEW c \in saved'
  PROVE  IsPlaced(c)'
<1>1. IsPlaced(c) /\ CurveData' = CurveData
  BY DataAreKept DEF CurvesInv, UnitsStay
<1> QED
  BY <1>1 DEF IsPlaced

LEMMA UnitsAreKept ==
  ASSUME UnitsStay, NEW data \in CurveData
  PROVE  XUnitIn(signals', data) = XUnitIn(signals, data) /\ YUnitIn(signals', data) = YUnitIn(signals, data)
<1>1. data.x \in Signals /\ data.y \in Signals
  BY UnitsOf
<1>2. signals'[data.x].unit = signals[data.x].unit /\ signals'[data.y].unit = signals[data.y].unit
  BY <1>1 DEF UnitsStay
<1> QED
  BY <1>2 DEF XUnitIn, YUnitIn

LEMMA CurvesStay ==
  ASSUME CurvesInv, OneUnitPerAxis, UnitsStay, StayOn(axes, axes'), AreAmong(curves, curves')
  PROVE  CurvesInv' /\ OneUnitPerAxis'
<1>1. ASSUME NEW id \in DOMAIN curves'
      PROVE  /\ id \in DOMAIN curves /\ IsPlaced(curves[id]) /\ DOMAIN curves'[id] = CurveFields
             /\ curves'[id].data = curves[id].data
             /\ curves'[id].x = curves[id].x /\ curves'[id].y = curves[id].y
  BY <1>1 DEF AreAmong, CurvesInv
<1>2. CurvesInv'
  <2>1. \A id \in DOMAIN curves' : IsPlaced(curves[id])'
    BY <1>1, DataAreKept DEF IsPlaced
  <2>2. \A c \in saved' : IsPlaced(c)'
    BY SavedArePlaced
  <2>3. AreAxes(axes)'
    BY DEF StayOn, AreAxes
  <2>4. DOMAIN curves' \subseteq CurveIds
    BY <1>1 DEF CurvesInv
  <2> QED
    BY <1>1, <2>1, <2>2, <2>3, <2>4 DEF CurvesInv, UnitsStay
<1>3. OneUnit(signals', curves', axes')
  <2> SUFFICES ASSUME NEW i \in DOMAIN curves', NEW j \in DOMAIN curves'
               PROVE  /\ curves'[i].x = curves'[j].x => XUnitIn(signals', curves'[i].data) = XUnitIn(signals', curves'[j].data)
                      /\ curves'[i].y = curves'[j].y => YUnitIn(signals', curves'[i].data) = YUnitIn(signals', curves'[j].data)
                      /\ axes'[curves'[i].x].on /\ axes'[curves'[i].y].on
    BY DEF OneUnit
  <2>1. /\ curves[i].x = curves[j].x => XUnitIn(signals, curves[i].data) = XUnitIn(signals, curves[j].data)
        /\ curves[i].y = curves[j].y => YUnitIn(signals, curves[i].data) = YUnitIn(signals, curves[j].data)
        /\ axes[curves[i].x].on /\ axes[curves[i].y].on
    BY <1>1, OneUnitIs DEF OneUnit
  <2>2. axes'[curves[i].x].on /\ axes'[curves[i].y].on
    BY <1>1, <2>1, AxesAre DEF StayOn, IsPlaced
  <2>3. \A k \in {i, j} : /\ XUnitIn(signals', curves[k].data) = XUnitIn(signals, curves[k].data)
                          /\ YUnitIn(signals', curves[k].data) = YUnitIn(signals, curves[k].data)
    BY <1>1, UnitsAreKept DEF IsPlaced
  <2> QED
    BY <1>1, <2>1, <2>2, <2>3
<1> QED
  BY <1>2, <1>3, OneUnitIs

-----------------------------------------------------------------------------
(* A new curve                                                             *)
LEMMA InitXStays ==
  ASSUME NEW scales, AreAxes(scales), NEW a \in Axes, NEW data
  PROVE  /\ StayOn(scales, InitX(scales, a, data))
         /\ (\A id \in DOMAIN curves : curves[id].x # a) => InitX(scales, a, data)[a].on
<1>1. ASSUME NEW lo, NEW hi, NEW auto
      PROVE  StayOn(scales, InitAxis(scales, a, lo, hi, auto)) /\ InitAxis(scales, a, lo, hi, auto)[a].on
  BY DEF StayOn, AreAxes, InitAxis, AxisFields
<1> QED
  BY <1>1 DEF InitX, StayOn

LEMMA InitYStays ==
  ASSUME NEW scales, AreAxes(scales), NEW a \in Axes, NEW data
  PROVE  /\ StayOn(scales, InitY(scales, a, data))
         /\ (\A id \in DOMAIN curves : curves[id].y # a) => InitY(scales, a, data)[a].on
<1>1. ASSUME NEW lo, NEW hi, NEW auto
      PROVE  StayOn(scales, InitAxis(scales, a, lo, hi, auto)) /\ InitAxis(scales, a, lo, hi, auto)[a].on
  BY DEF StayOn, AreAxes, InitAxis, AxisFields
<1> QED
  BY <1>1 DEF InitY, StayOn

(* An axis for a curve has no curve of another unit.                       *)
SuitsX(x, data) == \A i \in DOMAIN curves : curves[i].x = x => XUnit(curves[i].data) = XUnit(data)
SuitsY(y, data) == \A i \in DOMAIN curves : curves[i].y = y => YUnit(curves[i].data) = YUnit(data)

LEMMA InsertStep ==
  ASSUME CurvesInv, OneUnitPerAxis, NEW id \in Fresh, NEW data \in CurveData,
         NEW x \in {"xBottom", "xTop"}, NEW y \in {"yLeft", "yRight"},
         SuitsX(x, data), SuitsY(y, data), Insert(id, data, x, y), UnitsStay
  PROVE  CurvesInv' /\ OneUnitPerAxis' /\ DOMAIN curves' = DOMAIN curves \cup {id}
<1> DEFINE scales  == InitX(InitY(axes, y, data), x, data)
           plotted == With(id, NewCurve(data, x, y))
<1>1. axes' = Replotted(scales, plotted) /\ curves' = Drawn(plotted)
  BY DEF Insert
<1>2. StayOn(axes, axes') /\ axes'[x].on /\ axes'[y].on
  <2>1. x \in Axes /\ y \in Axes /\ AreAxes(axes)
    BY AxesAre DEF CurvesInv
  <2>2. /\ StayOn(axes, InitY(axes, y, data))
        /\ (\A i \in DOMAIN curves : curves[i].y # y) => InitY(axes, y, data)[y].on
    BY <2>1, InitYStays
  <2>3. AreAxes(InitY(axes, y, data))
    BY <2>2 DEF StayOn
  <2>4. /\ StayOn(InitY(axes, y, data), scales)
        /\ (\A i \in DOMAIN curves : curves[i].x # x) => scales[x].on
    BY <2>1, <2>3, InitXStays
  <2>5. AreAxes(scales)
    BY <2>4 DEF StayOn
  <2>6. StayOn(scales, axes')
    BY <1>1, <2>5, ReplottedStays
  <2>7. (\E i \in DOMAIN curves : curves[i].x = x) => axes[x].on
    BY DEF OneUnitPerAxis
  <2>8. (\E i \in DOMAIN curves : curves[i].y = y) => axes[y].on
    BY DEF OneUnitPerAxis
  <2> HIDE DEF scales
  <2> QED
    BY <2>1, <2>2, <2>4, <2>6, <2>7, <2>8 DEF StayOn
<1>3. /\ DOMAIN plotted = DOMAIN curves \cup {id} /\ id \notin DOMAIN curves /\ id \in CurveIds
      /\ plotted[id] = NewCurve(data, x, y)
      /\ \A i \in DOMAIN curves : plotted[i] = curves[i]
  BY DEF With, Fresh
<1>4. HaveFields(plotted)
  BY <1>3 DEF HaveFields, CurvesInv, NewCurve, CurveFields
<1>5. StayPlaced(plotted, curves')
  BY <1>1, <1>4, DrawnStay
<1>6. /\ DOMAIN curves' = DOMAIN curves \cup {id}
      /\ curves'[id].data = data /\ curves'[id].x = x /\ curves'[id].y = y
      /\ \A i \in DOMAIN curves' : DOMAIN curves'[i] = CurveFields
      /\ \A i \in DOMAIN curves : /\ curves'[i].data = curves[i].data
                                  /\ curves'[i].x = curves[i].x /\ curves'[i].y = curves[i].y
  BY <1>3, <1>5 DEF StayPlaced, NewCurve
<1>7. ASSUME NEW i \in DOMAIN curves'
      PROVE  /\ curves'[i].data \in CurveData
             /\ curves'[i].x \in {"xBottom", "xTop"} /\ curves'[i].y \in {"yLeft", "yRight"}
  BY <1>6, <1>7 DEF CurvesInv, IsPlaced
<1>8. CurvesInv'
  <2>1. \A i \in DOMAIN curves' : IsPlaced(curves[i])'
    BY <1>7, DataAreKept DEF IsPlaced
  <2>2. \A c \in saved' : IsPlaced(c)'
    BY SavedArePlaced
  <2>3. AreAxes(axes)'
    BY <1>2 DEF StayOn, AreAxes
  <2>4. DOMAIN curves' \subseteq CurveIds
    BY <1>3, <1>6 DEF CurvesInv
  <2> QED
    BY <1>6, <2>1, <2>2, <2>3, <2>4 DEF CurvesInv, UnitsStay
<1>9. OneUnit(signals', curves', axes')
  <2> SUFFICES ASSUME NEW i \in DOMAIN curves', NEW j \in DOMAIN curves'
               PROVE  /\ curves'[i].x = curves'[j].x => XUnitIn(signals', curves'[i].data) = XUnitIn(signals', curves'[j].data)
                      /\ curves'[i].y = curves'[j].y => YUnitIn(signals', curves'[i].data) = YUnitIn(signals', curves'[j].data)
                      /\ axes'[curves'[i].x].on /\ axes'[curves'[i].y].on
    BY DEF OneUnit
  <2>1. \A k \in {i, j} : /\ XUnitIn(signals', curves'[k].data) = XUnitIn(signals, curves'[k].data)
                          /\ YUnitIn(signals', curves'[k].data) = YUnitIn(signals, curves'[k].data)
    BY <1>7, UnitsAreKept
  <2>2. \A k \in DOMAIN curves : /\ curves[k].x = x => XUnitIn(signals, curves[k].data) = XUnitIn(signals, data)
                                 /\ curves[k].y = y => YUnitIn(signals, curves[k].data) = YUnitIn(signals, data)
    BY DEF SuitsX, SuitsY, XUnit, YUnit, XUnitIn, YUnitIn
  <2>3. /\ curves'[i].x = curves'[j].x => XUnitIn(signals, curves'[i].data) = XUnitIn(signals, curves'[j].data)
        /\ curves'[i].y = curves'[j].y => YUnitIn(signals, curves'[i].data) = YUnitIn(signals, curves'[j].data)
    BY <1>6, <2>2, OneUnitIs DEF OneUnit
  <2>4. axes'[curves'[i].x].on /\ axes'[curves'[i].y].on
    <3>1. CASE i = id
      BY <1>2, <1>6, <3>1
    <3>2. CASE i # id
      <4>1. i \in DOMAIN curves /\ axes[curves[i].x].on /\ axes[curves[i].y].on /\ IsPlaced(curves[i])
        BY <1>6, <3>2 DEF OneUnitPerAxis, CurvesInv
      <4> QED
        BY <1>2, <1>6, <4>1, AxesAre DEF StayOn, IsPlaced
    <3> QED
      BY <3>1, <3>2
  <2> QED
    BY <2>1, <2>3, <2>4
<1> QED
  BY <1>6, <1>8, <1>9, OneUnitIs

-----------------------------------------------------------------------------
(* The axis a curve gets                                                   *)

(* A set of natural numbers that is not empty has a least element.         *)
LEMMA NatMin ==
  ASSUME NEW S \in SUBSET Nat, S # {}
  PROVE  \E m \in S : \A k \in S : m <= k
<1>1. PICK R : /\ IsWellFoundedOn(R, Nat)
               /\ \A k, m \in Nat : k < m => <<k, m>> \in R
  <2>1. \A k, m \in Nat : k < m => <<k, m>> \in OpToRel(<, Nat)
    BY SMT DEF OpToRel
  <2> QED BY <2>1, NatLessThanWellFounded, Zenon
<1>2. PICK m \in S : \A k \in S : ~ (<<k, m>> \in R)
  <2>1. S \subseteq Nat
    OBVIOUS
  <2>2. IsWellFoundedOn(R, Nat)
    BY <1>1
  <2> QED BY ONLY <2>1, <2>2, S # {}, WFMin
<1>3. ASSUME NEW k \in S, ~(m <= k)
      PROVE  FALSE
  <2>1. k \in Nat /\ m \in Nat /\ k < m
    BY <1>3
  <2> QED BY <1>1, <1>2, <2>1
<1> QED BY <1>3

LEMMA MinIsOne ==
  ASSUME NEW S \in SUBSET Nat, S # {}
  PROVE  Min(S) \in S
<1>1. \E m \in S : \A k \in S : m <= k
  BY NatMin
<1> QED
  BY ONLY <1>1 DEF Min

LEMMA FreeAxisIs ==
  ASSUME NEW candidates \in Seq(Axes)
  PROVE  FreeAxis(candidates) = None \/ \E i \in DOMAIN candidates :
           FreeAxis(candidates) = candidates[i] /\ ~axes[candidates[i]].on
<1> DEFINE I == {i \in 1..Len(candidates) : ~axes[candidates[i]].on}
<1>1. I \in SUBSET Nat
  OBVIOUS
<1>2. SelectInSeq(candidates, LAMBDA a : ~axes[a].on) = IF I # {} THEN Min(I) ELSE 0
  BY DEF SelectInSeq
<1>3. CASE I = {}
  BY <1>2, <1>3 DEF FreeAxis
<1>4. CASE I # {}
  <2>1. Min(I) \in I
    BY ONLY <1>1, <1>4, MinIsOne
  <2> DEFINE n == Min(I)
  <2>2. n \in 1..Len(candidates) /\ ~axes[candidates[n]].on
    BY <2>1
  <2>3. FreeAxis(candidates) = IF n = 0 THEN None ELSE candidates[n]
    BY <1>2, <1>4 DEF FreeAxis
  <2> HIDE DEF n
  <2> QED
    BY <2>2, <2>3
<1> QED
  BY <1>3, <1>4

LEMMA XAxisSuits ==
  ASSUME CurvesInv, OneUnitPerAxis, NEW data, XAxisFor(data) # None
  PROVE  XAxisFor(data) \in {"xBottom", "xTop"} /\ SuitsX(XAxisFor(data), data)
<1> DEFINE same == {id \in DOMAIN curves : XUnit(curves[id].data) = XUnit(data)}
<1>1. CASE same = {}
  <2>1. XAxisFor(data) = FreeAxis(XAxes)
    BY <1>1 DEF XAxisFor
  <2>2. XAxes \in Seq(Axes) /\ \A i \in DOMAIN XAxes : XAxes[i] \in {"xBottom", "xTop"}
    BY AxesAre DEF XAxes
  <2>3. XAxisFor(data) \in {"xBottom", "xTop"} /\ ~axes[XAxisFor(data)].on
    BY <2>1, <2>2, FreeAxisIs
  <2> QED
    BY <2>3 DEF SuitsX, OneUnitPerAxis
<1>2. CASE same # {}
  <2>1. Min(same) \in same
    BY <1>2, MinIsOne, PlotAssumption DEF CurvesInv
  <2>2. XAxisFor(data) = curves[Min(same)].x
    BY <1>2 DEF XAxisFor
  <2> QED
    BY <2>1, <2>2 DEF SuitsX, OneUnitPerAxis, CurvesInv, IsPlaced
<1> QED
  BY <1>1, <1>2

LEMMA YAxisSuits ==
  ASSUME CurvesInv, OneUnitPerAxis, NEW data, YAxisFor(data) # None
  PROVE  YAxisFor(data) \in {"yLeft", "yRight"} /\ SuitsY(YAxisFor(data), data)
<1> DEFINE same == {id \in DOMAIN curves : YUnit(curves[id].data) = YUnit(data)}
<1>1. CASE same = {}
  <2>1. YAxisFor(data) = FreeAxis(YAxes)
    BY <1>1 DEF YAxisFor
  <2>2. YAxes \in Seq(Axes) /\ \A i \in DOMAIN YAxes : YAxes[i] \in {"yLeft", "yRight"}
    BY AxesAre DEF YAxes
  <2>3. YAxisFor(data) \in {"yLeft", "yRight"} /\ ~axes[YAxisFor(data)].on
    BY <2>1, <2>2, FreeAxisIs
  <2> QED
    BY <2>3 DEF SuitsY, OneUnitPerAxis
<1>2. CASE same # {}
  <2>1. Min(same) \in same
    BY <1>2, MinIsOne, PlotAssumption DEF CurvesInv
  <2>2. YAxisFor(data) = curves[Min(same)].y
    BY <1>2 DEF YAxisFor
  <2> QED
    BY <2>1, <2>2 DEF SuitsY, OneUnitPerAxis, CurvesInv, IsPlaced
<1> QED
  BY <1>1, <1>2

-----------------------------------------------------------------------------
(* The steps.  Most of them leave the curves on their axes and the markers *)
(* on their curves.                                                        *)
PlotStays ==
    /\ UnitsStay /\ StayOn(axes, axes') /\ StayPlaced(curves, curves')
    /\ UNCHANGED <<markers, diffs, pickers>> /\ active' \in {active} \cup DOMAIN markers \cup {NoMarker}

LEMMA PlotStaysKeepsInv ==
  ASSUME PlotInv, PlotStays
  PROVE  PlotInv'
<1>1. DOMAIN curves' = DOMAIN curves
  BY DEF PlotStays, StayPlaced
<1>2. AreAmong(curves, curves')
  BY <1>1 DEF PlotStays, StayPlaced, AreAmong
<1>3. CurvesInv' /\ OneUnitPerAxis'
  BY <1>2, CurvesStay DEF PlotInv, PlotStays
<1>4. MarkersAreOnCurves' /\ pickers' \in BOOLEAN
  BY <1>1 DEF PlotInv, MarkersAreOnCurves, PlotStays
<1> QED
  BY <1>3, <1>4 DEF PlotInv

(* What stays when nothing is done to it.                                  *)
LEMMA Unchanged ==
  ASSUME PlotInv
  PROVE  /\ StayOn(axes, axes) /\ StayPlaced(curves, curves) /\ AreAxes(axes) /\ HaveFields(curves)
         /\ UNCHANGED <<view, signals, saved>> => UnitsStay
BY DEF PlotInv, CurvesInv, StayOn, StayPlaced, HaveFields, UnitsStay

LEMMA ReplotStep ==
  ASSUME PlotInv, NEW scales, StayOn(axes, scales), Replot(scales, curves)
  PROVE  StayOn(axes, axes') /\ StayPlaced(curves, curves')
<1>1. AreAxes(scales) /\ HaveFields(curves)
  BY Unchanged DEF StayOn
<1>2. StayOn(scales, axes') /\ StayPlaced(curves, curves')
  BY <1>1, ReplotStays
<1> QED
  BY <1>2, StayOnTwice

LEMMA WorldStep ==
  ASSUME PlotInv, World
  PROVE  PlotInv'
<1>1. UnitsStay
  <2>1. CASE \E s \in Signals, v \in Values, gap \in Gaps : PushSample(s, v, gap)
    BY <2>1 DEF PushSample, UnitsStay, PlotInv, CurvesInv, SignalFields
  <2>2. CASE \E s \in Signals : ClearSignal(s)
    BY <2>2 DEF ClearSignal, UnitsStay, PlotInv, CurvesInv, SignalFields
  <2> QED
    BY <2>1, <2>2 DEF World
<1>2. UNCHANGED <<axes, curves, markers, diffs, active, pickers>>
  BY DEF World, PushSample, ClearSignal, markerVars
<1>3. PlotStays
  BY <1>1, <1>2, Unchanged DEF PlotStays
<1> QED
  BY <1>3, PlotStaysKeepsInv

LEMMA AddSignalStep ==
  ASSUME PlotInv, NEW data \in CurveData, AddSignal(data)
  PROVE  PlotInv'
<1>1. AddCurve(data) /\ UNCHANGED <<view, signals, saved, markers, diffs, active, pickers>>
  BY DEF AddSignal, markerVars
<1>2. UnitsStay
  BY <1>1, Unchanged
<1>3. CASE YAxisFor(data) = None
  <2>1. PlotStays
    BY <1>1, <1>2, <1>3, Unchanged DEF AddCurve, PlotStays
  <2> QED
    BY <2>1, PlotStaysKeepsInv
<1>4. CASE YAxisFor(data) # None /\ XAxisFor(data) = None
  <2>1. axes' = InitY(axes, YAxisFor(data), data) /\ curves' = curves
    BY <1>1, <1>4 DEF AddCurve
  <2>2. StayOn(axes, axes')
    BY <1>4, <2>1, YAxisSuits, AxesAre, InitYStays DEF PlotInv, CurvesInv
  <2>3. PlotStays
    BY <1>1, <1>2, <2>1, <2>2, Unchanged DEF PlotStays
  <2> QED
    BY <2>3, PlotStaysKeepsInv
<1>5. CASE YAxisFor(data) # None /\ XAxisFor(data) # None
  <2>1. PICK id \in Fresh : Insert(id, data, XAxisFor(data), YAxisFor(data))
    BY <1>1, <1>5 DEF AddCurve
  <2>2. CurvesInv' /\ OneUnitPerAxis' /\ DOMAIN curves' = DOMAIN curves \cup {id}
    BY <1>2, <1>5, <2>1, XAxisSuits, YAxisSuits, InsertStep DEF PlotInv
  <2> QED
    BY <1>1, <2>2 DEF PlotInv, MarkersAreOnCurves
<1> QED
  BY <1>3, <1>4, <1>5

LEMMA RestoreCurveStep ==
  ASSUME PlotInv, NEW c \in saved, NEW id \in Fresh, RestoreCurve(c, id)
  PROVE  PlotInv'
<1>1. /\ UNCHANGED <<view, signals, markers, diffs, active, pickers>> /\ saved' = saved \ {c}
      /\ \/ axes' = axes /\ curves' = curves
         \/ axes' = InitY(axes, c.y, c.data) /\ curves' = curves
         \/ SuitsX(c.x, c.data) /\ SuitsY(c.y, c.data) /\ Insert(id, c.data, c.x, c.y)
  BY DEF RestoreCurve, markerVars, SuitsX, SuitsY
<1>2. UnitsStay
  BY <1>1 DEF UnitsStay, PlotInv, CurvesInv
<1>3. c.data \in CurveData /\ c.x \in {"xBottom", "xTop"} /\ c.y \in {"yLeft", "yRight"}
  BY DEF PlotInv, CurvesInv, IsPlaced
<1>4. CASE axes' = axes /\ curves' = curves
  <2>1. PlotStays
    BY <1>1, <1>2, <1>4, Unchanged DEF PlotStays
  <2> QED
    BY <2>1, PlotStaysKeepsInv
<1>5. CASE axes' = InitY(axes, c.y, c.data) /\ curves' = curves
  <2>1. StayOn(axes, axes')
    BY <1>3, <1>5, AxesAre, InitYStays DEF PlotInv, CurvesInv
  <2>2. PlotStays
    BY <1>1, <1>2, <1>5, <2>1, Unchanged DEF PlotStays
  <2> QED
    BY <2>2, PlotStaysKeepsInv
<1>6. CASE SuitsX(c.x, c.data) /\ SuitsY(c.y, c.data) /\ Insert(id, c.data, c.x, c.y)
  <2>1. CurvesInv' /\ OneUnitPerAxis' /\ DOMAIN curves' = DOMAIN curves \cup {id}
    BY <1>2, <1>3, <1>6, InsertStep DEF PlotInv
  <2> QED
    BY <1>1, <2>1 DEF PlotInv, MarkersAreOnCurves
<1> QED
  BY <1>1, <1>4, <1>5, <1>6

LEMMA OnLegendClickedStep ==
  ASSUME PlotInv, NEW id \in DOMAIN curves, OnLegendClicked(id)
  PROVE  PlotInv'
<1> DEFINE gone == {m \in DOMAIN markers : markers[m] = id}
           others == [i \in DOMAIN curves \ {id} |-> curves[i]]
<1>1. /\ RemoveMarkers(gone) /\ UNCHANGED <<view, signals, saved>>
      /\ \/ curves' = others /\ axes' = axes
         \/ Replot(axes, others)
  BY DEF OnLegendClicked, RemoveCurve
<1>2. UnitsStay /\ AreAxes(axes) /\ HaveFields(others)
  BY <1>1, Unchanged DEF HaveFields
<1>3. StayOn(axes, axes') /\ StayPlaced(others, curves')
  <2>1. CASE curves' = others /\ axes' = axes
    BY <1>2, <2>1 DEF StayOn, StayPlaced, HaveFields
  <2>2. CASE Replot(axes, others)
    BY <1>2, <2>2, ReplotStays
  <2> QED
    BY <1>1, <2>1, <2>2
<1>4. DOMAIN curves' = DOMAIN curves \ {id} /\ AreAmong(curves, curves')
  BY <1>3 DEF StayPlaced, AreAmong
<1>5. CurvesInv' /\ OneUnitPerAxis'
  BY <1>2, <1>3, <1>4, CurvesStay DEF PlotInv
<1>6. /\ DOMAIN markers' = DOMAIN markers \ gone
      /\ \A m \in DOMAIN markers \ gone : markers'[m] = markers[m]
      /\ diffs' = {pair \in diffs : pair[1] \notin gone /\ pair[2] \notin gone}
      /\ active' = IF active \in gone THEN NoMarker ELSE active
      /\ pickers' = (pickers /\ (gone = {} \/ DOMAIN markers \ gone # {}))
  BY <1>1 DEF RemoveMarkers
<1>7. MarkersAreOnCurves' /\ pickers' \in BOOLEAN
  <2>1. \A m \in DOMAIN markers' : markers'[m] \in DOMAIN curves'
    BY <1>4, <1>6 DEF PlotInv, MarkersAreOnCurves
  <2>2. \A pair \in diffs' : {pair[1], pair[2]} \subseteq DOMAIN markers'
    BY <1>6 DEF PlotInv, MarkersAreOnCurves
  <2>3. active' \in DOMAIN markers' \cup {NoMarker}
    BY <1>6 DEF PlotInv, MarkersAreOnCurves
  <2>4. pickers' \in BOOLEAN /\ (pickers' <=> DOMAIN markers' # {})
    <3>1. pickers \in BOOLEAN /\ (pickers <=> DOMAIN markers # {})
      BY DEF PlotInv, MarkersAreOnCurves
    <3> HIDE DEF gone
    <3> QED
      BY <1>6, <3>1, Zenon
  <2> QED
    BY <2>1, <2>2, <2>3, <2>4 DEF MarkersAreOnCurves
<1> QED
  BY <1>5, <1>7 DEF PlotInv

LEMMA AddMarkerStep ==
  ASSUME PlotInv, NEW m, NEW id \in DOMAIN curves, AddMarker(m, id)
  PROVE  PlotInv'
<1>1. /\ markers' = [n \in DOMAIN markers \cup {m} |-> IF n = m THEN id ELSE markers[n]]
      /\ active' = m /\ pickers' = TRUE /\ diffs' = diffs
      /\ Replot(axes, curves) /\ UNCHANGED <<view, signals, saved>>
  BY DEF AddMarker
<1>2. StayOn(axes, axes') /\ StayPlaced(curves, curves') /\ UnitsStay
  BY <1>1, ReplotStep, Unchanged
<1>3. DOMAIN curves' = DOMAIN curves /\ AreAmong(curves, curves')
  BY <1>2 DEF StayPlaced, AreAmong
<1>4. CurvesInv' /\ OneUnitPerAxis'
  BY <1>2, <1>3, CurvesStay DEF PlotInv
<1>5. MarkersAreOnCurves' /\ pickers' \in BOOLEAN
  BY <1>1, <1>3 DEF PlotInv, MarkersAreOnCurves
<1> QED
  BY <1>4, <1>5 DEF PlotInv

LEMMA AddDiffMarkerStep ==
  ASSUME PlotInv, NEW pair \in DiffMarkerDialog, AddDiffMarker(pair)
  PROVE  PlotInv'
<1>1. /\ diffs' = diffs \cup {pair} /\ UNCHANGED <<markers, active, pickers>>
      /\ Replot(axes, curves) /\ UNCHANGED <<view, signals, saved>>
  BY DEF AddDiffMarker
<1>2. StayOn(axes, axes') /\ StayPlaced(curves, curves') /\ UnitsStay
  BY <1>1, ReplotStep, Unchanged
<1>3. DOMAIN curves' = DOMAIN curves /\ AreAmong(curves, curves')
  BY <1>2 DEF StayPlaced, AreAmong
<1>4. CurvesInv' /\ OneUnitPerAxis'
  BY <1>2, <1>3, CurvesStay DEF PlotInv
<1>5. {pair[1], pair[2]} \subseteq DOMAIN markers
  BY DEF DiffMarkerDialog
<1>6. MarkersAreOnCurves' /\ pickers' \in BOOLEAN
  BY <1>1, <1>3, <1>5 DEF PlotInv, MarkersAreOnCurves
<1> QED
  BY <1>4, <1>6 DEF PlotInv

-----------------------------------------------------------------------------
(* What the user does to the canvas, the axes and the mode.                *)
LEMMA CanvasStep ==
  ASSUME PlotInv, Canvas
  PROVE  PlotInv'
<1>1. CASE \E m \in DOMAIN markers \cup {NoMarker} : OnMarkerSelected(m)
  <2>1. UNCHANGED <<view, signals, saved, curves, axes, markers, diffs, pickers>>
        /\ active' \in DOMAIN markers \cup {NoMarker}
    BY <1>1 DEF OnMarkerSelected
  <2>2. PlotStays
    BY <2>1, Unchanged DEF PlotStays
  <2> QED
    BY <2>2, PlotStaysKeepsInv
<1>2. CASE OnMarkerMoved \/ ShowEvent
  <2>1. Replot(axes, curves) /\ UNCHANGED <<view, signals, saved, markers, diffs, active, pickers>>
    BY <1>2 DEF OnMarkerMoved, ShowEvent, markerVars
  <2>2. PlotStays
    BY <2>1, Unchanged, ReplotStep DEF PlotStays
  <2> QED
    BY <2>2, PlotStaysKeepsInv
<1>3. CASE \E by \in Shifts : MoveCanvas(by)
  <2>1. PICK by \in Shifts : MoveCanvas(by)
    BY <1>3
  <2> DEFINE moved == [a \in Axes |-> IF axes[a].on THEN SetScale(axes, a, Moved(axes[a].shown, by))[a] ELSE axes[a]]
  <2>2. /\ axes' = SetLocked(Replotted(moved, curves), TRUE, Axes)
        /\ curves' = Drawn(Forgotten(curves))
        /\ UNCHANGED <<view, signals, saved, markers, diffs, active, pickers>>
    BY <2>1 DEF MoveCanvas, markerVars
  <2>3. StayOn(axes, moved)
    <3>1. \A a \in Axes : StayOn(axes, SetScale(axes, a, Moved(axes[a].shown, by)))
      BY Unchanged, SetScaleStays
    <3> QED
      BY <3>1, Unchanged DEF StayOn, AreAxes
  <2> HIDE DEF moved
  <2>4. StayOn(moved, Replotted(moved, curves))
    BY <2>3, ReplottedStays DEF StayOn
  <2>5. StayOn(Replotted(moved, curves), axes')
    BY <2>2, <2>4, SetLockedStays DEF StayOn
  <2>6. StayOn(axes, axes')
    BY <2>3, <2>4, <2>5, StayOnTwice
  <2>7. StayPlaced(curves, curves')
    BY <2>2, Unchanged, RepaintedStay
  <2>8. PlotStays
    BY <2>2, <2>6, <2>7, Unchanged DEF PlotStays
  <2> QED
    BY <2>8, PlotStaysKeepsInv
<1> QED
  BY <1>1, <1>2, <1>3 DEF Canvas

LEMMA ScalePickerStep ==
  ASSUME PlotInv, ScalePicker
  PROVE  PlotInv'
<1>1. PICK a \in Axes : \/ \E by \in Shifts : MoveAxis(a, by)
                        \/ OpenAxisPopup(a)
                        \/ \E boundary \in {"lower", "upper"} : OnAxisLockClicked(a, boundary)
  BY DEF ScalePicker
<1>2. UNCHANGED <<view, signals, saved, markers, diffs, active, pickers>>
  BY <1>1 DEF MoveAxis, OpenAxisPopup, OnAxisLockClicked, markerVars
<1>3. StayOn(axes, axes') /\ StayPlaced(curves, curves')
  <2>1. CASE \E by \in Shifts : MoveAxis(a, by)
    <3>1. PICK interval : Replot(SetScale(SetLocked(axes, TRUE, {a}), a, interval), curves)
      BY <2>1 DEF MoveAxis
    <3>2. StayOn(axes, SetLocked(axes, TRUE, {a}))
      BY Unchanged, SetLockedStays
    <3>3. StayOn(SetLocked(axes, TRUE, {a}), SetScale(SetLocked(axes, TRUE, {a}), a, interval))
      BY <3>2, SetScaleStays DEF StayOn
    <3> QED
      BY <3>1, <3>2, <3>3, StayOnTwice, ReplotStep
  <2>2. CASE OpenAxisPopup(a)
    BY <2>2, Unchanged DEF OpenAxisPopup
  <2>3. CASE \E boundary \in {"lower", "upper"} : OnAxisLockClicked(a, boundary)
    <3>1. curves' = curves /\ \/ axes' = [axes EXCEPT ![a].lower = ~@]
                              \/ axes' = [axes EXCEPT ![a].upper = ~@]
      BY <2>3 DEF OnAxisLockClicked
    <3>2. AreAxes(axes)
      BY Unchanged
    <3>3. StayOn(axes, axes')
      BY <3>1, <3>2 DEF StayOn, AreAxes, AxisFields
    <3> QED
      BY <3>1, <3>3, Unchanged
  <2> QED
    BY <1>1, <2>1, <2>2, <2>3
<1>4. PlotStays
  BY <1>2, <1>3, Unchanged DEF PlotStays
<1> QED
  BY <1>4, PlotStaysKeepsInv

LEMMA OnAcceptStep ==
  ASSUME PlotInv, NEW by, NEW log, OnAccept(by, log)
  PROVE  PlotInv'
<1> DEFINE a == popup.axis
           scales == SetScale(axes, a, Moved(popup.scale, by))
<1>1. /\ Replot([scales EXCEPT ![a].lower = popup.lower, ![a].upper = popup.upper, ![a].log = log], curves)
      /\ UNCHANGED <<view, signals, saved, markers, diffs, active, pickers>>
  BY DEF OnAccept, markerVars
<1>2. StayOn(axes, scales)
  BY Unchanged, SetScaleStays
<1> HIDE DEF scales
<1>3. StayOn(scales, [scales EXCEPT ![a].lower = popup.lower, ![a].upper = popup.upper, ![a].log = log])
  BY <1>2 DEF StayOn, AreAxes, AxisFields
<1>4. StayOn(axes, axes') /\ StayPlaced(curves, curves')
  BY <1>1, <1>2, <1>3, StayOnTwice, ReplotStep
<1>5. PlotStays
  BY <1>1, <1>4, Unchanged DEF PlotStays
<1> QED
  BY <1>5, PlotStaysKeepsInv

LEMMA ToolbarStep ==
  ASSUME PlotInv, Toolbar
  PROVE  PlotInv'
<1>1. CASE \E m \in PlotConfigDialog : SetUpdateMode(m)
  <2>1. /\ UNCHANGED <<view, signals, saved, markers, diffs, active, pickers>>
        /\ \/ UNCHANGED <<axes, curves>>
           \/ \E interval : Replot(SetScale(axes, "xBottom", interval), curves)
    BY <1>1 DEF SetUpdateMode, markerVars
  <2>2. \A interval : StayOn(axes, SetScale(axes, "xBottom", interval))
    BY Unchanged, SetScaleStays, AxesAre
  <2>3. StayOn(axes, axes') /\ StayPlaced(curves, curves')
    BY <2>1, <2>2, ReplotStep, Unchanged
  <2>4. PlotStays
    BY <2>1, <2>3, Unchanged DEF PlotStays
  <2> QED
    BY <2>4, PlotStaysKeepsInv
<1>2. CASE ZoomBestFit
  <2>1. /\ UNCHANGED <<view, signals, saved, curves, markers, diffs, active, pickers>>
        /\ StayOn(axes, axes')
    BY <1>2, Unchanged, SetLockedStays DEF ZoomBestFit, markerVars
  <2>2. PlotStays
    BY <2>1, Unchanged DEF PlotStays
  <2> QED
    BY <2>2, PlotStaysKeepsInv
<1> QED
  BY <1>1, <1>2, AddSignalStep, AddMarkerStep, AddDiffMarkerStep DEF Toolbar

LEMMA TimerEventStep ==
  ASSUME PlotInv, TimerEvent
  PROVE  PlotInv'
<1> DEFINE wishes  == [a \in Axes |-> UpdateIntervals(a)]
           changed == {a \in Axes : wishes[a] # <<>>}
           scales  == [a \in Axes |-> IF a \in changed THEN SetScale(axes, a, wishes[a])[a] ELSE axes[a]]
           repainted == IF changed = {} THEN curves ELSE Drawn(Forgotten(curves))
<1>1. /\ axes' = IF changed = {} THEN axes ELSE Replotted(scales, curves)
      /\ curves' = UpdateCurves(repainted)
      /\ UNCHANGED <<view, signals, saved, markers, diffs, active, pickers>>
  BY DEF TimerEvent, markerVars
<1> HIDE DEF wishes
<1>2. StayOn(axes, scales)
  <2>1. \A a \in Axes : StayOn(axes, SetScale(axes, a, wishes[a]))
    BY Unchanged, SetScaleStays
  <2> HIDE DEF changed
  <2> QED
    BY <2>1, Unchanged DEF StayOn, AreAxes
<1> HIDE DEF changed, scales
<1>3. StayOn(scales, Replotted(scales, curves))
  BY <1>2, ReplottedStays DEF StayOn
<1>4. StayOn(axes, axes')
  BY <1>1, <1>2, <1>3, StayOnTwice, Unchanged
<1>5. StayPlaced(curves, repainted)
  BY Unchanged, RepaintedStay
<1> HIDE DEF repainted
<1>6. StayPlaced(repainted, curves')
  <2>1. HaveFields(repainted)
    BY <1>5 DEF StayPlaced, HaveFields
  <2> QED
    BY <1>1, <2>1, UpdatedStay
<1>7. StayPlaced(curves, curves')
  BY <1>5, <1>6, StayPlacedTwice
<1>8. PlotStays
  BY <1>1, <1>4, <1>7, Unchanged DEF PlotStays
<1> QED
  BY <1>8, PlotStaysKeepsInv

-----------------------------------------------------------------------------
LEMMA PlotInit == Init => PlotInv
<1> SUFFICES ASSUME Init
             PROVE  PlotInv
  OBVIOUS
<1>1. DOMAIN signals = Signals /\ \A s \in Signals : DOMAIN signals[s] = SignalFields
  BY DEF Init, Box, SignalFields
<1>2. AreAxes(axes)
  BY DEF Init, AreAxes, AxisFields
<1>3. \A c \in saved : IsPlaced(c)
  <2>1. PICK k : saved \in kSubset(k, [data : CurveData, x : Range(XAxes), y : Range(YAxes)])
    BY DEF Init
  <2>2. \A c \in saved : c \in [data : CurveData, x : Range(XAxes), y : Range(YAxes)]
    BY <2>1 DEF kSubset
  <2>3. Range(XAxes) = {"xBottom", "xTop"} /\ Range(YAxes) = {"yLeft", "yRight"}
    BY DEF Range, XAxes, YAxes
  <2> QED
    BY <2>2, <2>3 DEF IsPlaced
<1>4. DOMAIN curves = {} /\ DOMAIN markers = {} /\ diffs = {} /\ active = NoMarker /\ pickers = FALSE
  BY DEF Init
<1>5. CurvesInv
  BY <1>1, <1>2, <1>3, <1>4 DEF CurvesInv
<1>6. OneUnitPerAxis /\ MarkersAreOnCurves /\ pickers \in BOOLEAN
  BY <1>4 DEF OneUnitPerAxis, MarkersAreOnCurves
<1> QED
  BY <1>5, <1>6 DEF PlotInv

LEMMA PlotStep == PlotInv /\ [Next]_vars => PlotInv'
<1> SUFFICES ASSUME PlotInv, [Next]_vars
             PROVE  PlotInv'
  OBVIOUS
<1>1. CASE User
  BY <1>1, ToolbarStep, CanvasStep, ScalePickerStep, OnAcceptStep, OnLegendClickedStep DEF User
<1>2. CASE UNCHANGED vars
  <2>1. PlotStays
    BY <1>2, Unchanged DEF vars, markerVars, PlotStays
  <2> QED
    BY <2>1, PlotStaysKeepsInv
<1> QED
  BY <1>1, <1>2, RestoreCurveStep, WorldStep, TimerEventStep DEF Next, Others

LEMMA PlotInvariance == Spec => []PlotInv
BY PlotInit, PlotStep, PTL DEF Spec

(* An axis shows values of one unit, and is switched on, whichever curves  *)
(* are added, removed and restored in whatever order: Plot::add_curve()    *)
(* looks for the axis of a curve with the same unit and otherwise for one  *)
(* that no curve ever had.                                                 *)
THEOREM UnitsNeverMix == Spec => []OneUnitPerAxis
<1>1. PlotInv => OneUnitPerAxis
  BY DEF PlotInv
<1> QED
  BY <1>1, PlotInvariance, PTL

(* Every marker is on a curve of the plot, and the pairs of markers, the   *)
(* active one and the pickers fit the markers there are, however curves    *)
(* and markers come and go: Plot::remove_curve() takes the markers along.  *)
THEOREM MarkersFit == Spec => []MarkersAreOnCurves
<1>1. PlotInv => MarkersAreOnCurves
  BY DEF PlotInv
<1> QED
  BY <1>1, PlotInvariance, PTL

-----------------------------------------------------------------------------
(* Finite sets of integers, and steps that go up.                          *)
LEMMA UpFrom ==
  ASSUME NEW S, NEW n \in Nat, 0 \in S, \A k \in 0..n : k < n /\ k \in S => k + 1 \in S
  PROVE  0..n \subseteq S
<1> DEFINE Out == {k \in 0..n : k \notin S}
<1>1. ASSUME Out # {}
      PROVE  FALSE
  <2>1. Out \in SUBSET Nat
    OBVIOUS
  <2>2. PICK m \in Out : \A k \in Out : m <= k
    BY <1>1, <2>1, NatMin
  <2>3. m \in 0..n /\ m \notin S /\ m # 0
    BY <2>2
  <2>4. m - 1 \in 0..n /\ m - 1 < n /\ ~(m <= m - 1)
    BY <2>3
  <2>5. m - 1 \in S
    BY <2>2, <2>4
  <2>6. (m - 1) + 1 \in S
    BY <2>4, <2>5
  <2> QED BY <2>3, <2>6
<1> QED BY <1>1

IsBounded(S) == (\E m \in S : \A k \in S : k <= m) /\ (\E m \in S : \A k \in S : m <= k)

LEMMA FiniteIsBounded ==
  ASSUME NEW S, IsFiniteSet(S), S \subseteq Int, S # {}
  PROVE  IsBounded(S)
<1> DEFINE Bad == {n \in Nat : \E T \in SUBSET S : T # {} /\ Cardinality(T) = n /\ ~IsBounded(T)}
<1>1. ASSUME Bad # {}
      PROVE  FALSE
  <2>1. PICK n \in Bad : \A k \in Bad : n <= k
    BY <1>1, NatMin
  <2>2. PICK T \in SUBSET S : T # {} /\ Cardinality(T) = n /\ ~IsBounded(T)
    BY <2>1
  <2>3. PICK x \in T : TRUE
    BY <2>2
  <2>4. IsFiniteSet(T)
    BY <2>2, FS_Subset
  <2>5. Cardinality(T \ {x}) = n - 1
    BY <2>2, <2>3, <2>4, FS_RemoveElement
  <2>6. Cardinality(T \ {x}) \in Nat
    BY <2>4, FS_RemoveElement, FS_CardinalityType
  <2>7. n - 1 \notin Bad /\ n - 1 \in Nat
    BY <2>1, <2>5, <2>6
  <2>8. T \ {x} = {} \/ IsBounded(T \ {x})
    BY <2>5, <2>7
  <2>9. CASE T \ {x} = {}
    <3>1. \A k \in T : k = x
      BY <2>9
    <3>2. x <= x
      BY <2>3
    <3> QED BY <2>2, <2>3, <3>1, <3>2 DEF IsBounded
  <2>10. CASE IsBounded(T \ {x})
    <3>1. PICK m \in T \ {x} : \A k \in T \ {x} : k <= m
      BY <2>10 DEF IsBounded
    <3>2. PICK l \in T \ {x} : \A k \in T \ {x} : l <= k
      BY <2>10 DEF IsBounded
    <3>3. x \in Int /\ m \in Int /\ l \in Int /\ \A k \in T : k \in Int
      BY <2>2, <2>3
    <3>4. \E p \in T : \A k \in T : k <= p
      <4>1. CASE x <= m
        BY <3>1, <3>3, <4>1
      <4>2. CASE ~(x <= m)
        <5>1. \A k \in T : k <= x
          BY <3>1, <3>3, <4>2
        <5> QED BY <2>3, <5>1
      <4> QED BY <4>1, <4>2
    <3>5. \E p \in T : \A k \in T : p <= k
      <4>1. CASE l <= x
        BY <3>2, <3>3, <4>1
      <4>2. CASE ~(l <= x)
        <5>1. \A k \in T : x <= k
          BY <3>2, <3>3, <4>2
        <5> QED BY <2>3, <5>1
      <4> QED BY <4>1, <4>2
    <3> QED BY <2>2, <3>4, <3>5 DEF IsBounded
  <2> QED BY <2>8, <2>9, <2>10
<1>2. Cardinality(S) \in Nat
  BY FS_CardinalityType
<1> QED BY <1>1, <1>2

LEMMA MaxIs ==
  ASSUME NEW S, IsFiniteSet(S), S \subseteq Int, S # {}
  PROVE  Max(S) \in S /\ Max(S) \in Int /\ \A k \in S : k <= Max(S)
<1>1. \E m \in S : \A k \in S : m >= k
  BY FiniteIsBounded DEF IsBounded
<1>2. Max(S) \in S /\ \A k \in S : Max(S) >= k
  BY ONLY <1>1 DEF Max
<1> QED BY <1>2

LEMMA MinIs ==
  ASSUME NEW S, IsFiniteSet(S), S \subseteq Int, S # {}
  PROVE  Min(S) \in S /\ Min(S) \in Int /\ \A k \in S : Min(S) <= k
<1>1. \E m \in S : \A k \in S : m <= k
  BY FiniteIsBounded DEF IsBounded
<1>2. Min(S) \in S /\ \A k \in S : Min(S) <= k
  BY ONLY <1>1 DEF Min
<1> QED BY <1>2

LEMMA ImageIsFinite ==
  ASSUME NEW D, IsFiniteSet(D), NEW f, DOMAIN f = D, f = [x \in D |-> f[x]]
  PROVE  IsFiniteSet({f[x] : x \in D})
<1>1. f \in Surjection(D, {f[x] : x \in D})
  BY DEF Surjection
<1> QED BY <1>1, FS_Surjection

LEMMA OfTwo ==
  ASSUME NEW a \in Int, NEW b \in Int
  PROVE  /\ Max({a, b}) \in Int /\ Min({a, b}) \in Int
         /\ a <= Max({a, b}) /\ b <= Max({a, b}) /\ Min({a, b}) <= a /\ Min({a, b}) <= b
<1>1. IsFiniteSet({a, b})
  <2>1. {a, b} = {a} \cup {b}
    OBVIOUS
  <2>2. IsFiniteSet({a})
    BY FS_Singleton
  <2>3. IsFiniteSet({a} \cup {b})
    BY <2>2, FS_AddElement
  <2> QED BY <2>1, <2>3
<1> QED BY <1>1, MaxIs, MinIs
-----------------------------------------------------------------------------
(* What the signals, the axes and the curves hold.                         *)
IsSignal(r) ==
    r.times \in Seq(Nat) /\ r.lo \in Int /\ r.hi \in Int /\ r.cleared \in Nat
AreSignals(sigs) ==
    DOMAIN sigs = Signals /\ \A s \in Signals : DOMAIN sigs[s] = SignalFields /\ IsSignal(sigs[s])

Interval == Int \X Int
IsScale(r) ==
    r.next \in Interval /\ r.shown \in Interval /\ r.lower \in BOOLEAN /\ r.upper \in BOOLEAN
AreScales(scales) == AreAxes(scales) /\ \A a \in Axes : IsScale(scales[a])

(* The operators of the plot, by the variables they depend on.             *)
FirstIn(r) == IF r.times = <<>> THEN 0 ELSE Head(r.times)
LastIn(r) == IF r.times = <<>> THEN 0 ELSE Last(r.times)
RectIn(sigs, data) ==
    [left   |-> IF data.type = "TimeCurve" THEN FirstIn(sigs[data.y]) ELSE sigs[data.x].lo,
     right  |-> IF data.type = "TimeCurve" THEN LastIn(sigs[data.y]) ELSE sigs[data.x].hi,
     bottom |-> sigs[data.y].lo,
     top    |-> sigs[data.y].hi]
PointsIn(r, q) ==
    {time \in Range(r.times) \cup Range(q.times) :
        \A u \in {r, q} : u.times # <<>> /\ FirstIn(u) <= time /\ time <= LastIn(u)}
SizeIn(sigs, data) ==
    IF data.type = "TimeCurve" THEN Len(sigs[data.y].times)
    ELSE Cardinality(PointsIn(sigs[data.x], sigs[data.y]))

LEMMA LastIs == \A s : LastTime(s) = LastIn(signals[s]) /\ First(s) = FirstIn(signals[s])
BY DEF LastTime, LastIn, First, FirstIn

LEMMA RectIs == \A data : BoundingRect(data) = RectIn(signals, data)
BY LastIs DEF BoundingRect, RectIn

LEMMA SizeIs == \A c : Size(c) = SizeIn(signals, c.data)
<1>1. ASSUME NEW s, NEW t
      PROVE  Points(s, t) = PointsIn(signals[s], signals[t])
  BY LastIs DEF Points, PointsIn
<1> QED BY <1>1 DEF Size, SizeIn

LEMMA TimesAre ==
  ASSUME NEW r, IsSignal(r)
  PROVE  FirstIn(r) \in Nat /\ LastIn(r) \in Nat
<1>1. r.times \in Seq(Nat)
  BY DEF IsSignal
<1>2. r.times # <<>> => Head(r.times) \in Nat /\ Last(r.times) \in Nat
  BY <1>1 DEF Last
<1> QED BY <1>2 DEF FirstIn, LastIn

LEMMA RectIsInt ==
  ASSUME NEW sigs, AreSignals(sigs), NEW data \in CurveData
  PROVE  /\ RectIn(sigs, data).left \in Int /\ RectIn(sigs, data).right \in Int
         /\ RectIn(sigs, data).bottom \in Int /\ RectIn(sigs, data).top \in Int
         /\ data.type = "TimeCurve" => RectIn(sigs, data).left >= 0
<1>1. IsSignal(sigs[data.x]) /\ IsSignal(sigs[data.y])
  BY UnitsOf DEF AreSignals
<1>2. FirstIn(sigs[data.y]) \in Nat /\ LastIn(sigs[data.y]) \in Nat
  BY <1>1, TimesAre
<1> HIDE DEF CurveData
<1> QED BY <1>1, <1>2 DEF RectIn, IsSignal

LEMMA TimesAreFinite ==
  ASSUME NEW r, IsSignal(r)
  PROVE  IsFiniteSet(Range(r.times)) /\ Range(r.times) \subseteq Nat
<1>1. r.times \in Seq(Nat)
  BY DEF IsSignal
<1> DEFINE f == r.times
<1>2. IsFiniteSet(1..Len(f)) /\ DOMAIN f = 1..Len(f)
  <2>1. Len(f) \in Int /\ 1 \in Int
    BY <1>1
  <2> QED BY <1>1, <2>1, FS_Interval
<1>3. f = [x \in 1..Len(f) |-> f[x]]
  BY <1>1
<1>4. \A x \in 1..Len(f) : f[x] \in Nat
  BY <1>1
<1> HIDE DEF f
<1>5. IsFiniteSet({f[x] : x \in 1..Len(f)})
  BY <1>2, <1>3, ImageIsFinite
<1>6. Range(f) = {f[x] : x \in 1..Len(f)}
  BY <1>2 DEF Range
<1> QED BY <1>4, <1>5, <1>6 DEF f

LEMMA PointsAreFinite ==
  ASSUME NEW r, NEW q, IsSignal(r), IsSignal(q)
  PROVE  IsFiniteSet(PointsIn(r, q)) /\ Cardinality(PointsIn(r, q)) \in Nat
<1>1. IsFiniteSet(Range(r.times)) /\ IsFiniteSet(Range(q.times))
  BY TimesAreFinite
<1>2. IsFiniteSet(Range(r.times) \cup Range(q.times))
  BY <1>1, FS_Union
<1>3. PointsIn(r, q) \in SUBSET (Range(r.times) \cup Range(q.times))
  BY DEF PointsIn
<1>4. IsFiniteSet(PointsIn(r, q))
  BY <1>2, <1>3, FS_Subset
<1> QED BY <1>4, FS_CardinalityType

LEMMA SizeIsNat ==
  ASSUME NEW sigs, AreSignals(sigs), NEW data \in CurveData
  PROVE  SizeIn(sigs, data) \in Nat
<1>1. IsSignal(sigs[data.x]) /\ IsSignal(sigs[data.y])
  BY UnitsOf DEF AreSignals
<1>2. Len(sigs[data.y].times) \in Nat
  BY <1>1 DEF IsSignal
<1>3. Cardinality(PointsIn(sigs[data.x], sigs[data.y])) \in Nat
  BY <1>1, PointsAreFinite
<1> HIDE DEF CurveData
<1> QED BY <1>2, <1>3 DEF SizeIn

-----------------------------------------------------------------------------
(* The scales keep to integers.                                            *)
Finite == IsFiniteSet(Signals) /\ IsFiniteSet(CurveIds)
ArePlaced(plotted) ==
    DOMAIN plotted \subseteq CurveIds /\ \A id \in DOMAIN plotted : IsPlaced(plotted[id])

HullIn(sigs, plotted, a) ==
    LET rects == {RectIn(sigs, plotted[id].data) : id \in {i \in DOMAIN plotted : plotted[i].x = a}}
        wide == {r \in rects : r.left <= r.right}
    IN  IF wide = {} THEN <<>> ELSE <<Min({r.left : r \in wide}), Max({r.right : r \in wide})>>

LEMMA HullIs == \A plotted, a : Hull(plotted, a) = HullIn(signals, plotted, a)
BY RectIs DEF Hull, HullIn

LEMMA HullIsInterval ==
  ASSUME Finite, NEW sigs, AreSignals(sigs), NEW plotted, ArePlaced(plotted), NEW a
  PROVE  HullIn(sigs, plotted, a) = <<>> \/ HullIn(sigs, plotted, a) \in Interval
<1> DEFINE D == {i \in DOMAIN plotted : plotted[i].x = a}
           f == [id \in D |-> RectIn(sigs, plotted[id].data)]
           rects == {RectIn(sigs, plotted[id].data) : id \in D}
           wide == {r \in rects : r.left <= r.right}
           g == [r \in wide |-> r.left]
           h == [r \in wide |-> r.right]
<1>1. IsFiniteSet(D)
  <2>1. D \in SUBSET CurveIds
    BY DEF ArePlaced
  <2> QED BY <2>1, FS_Subset DEF Finite
<1>2. \A id \in D : plotted[id].data \in CurveData
  BY DEF ArePlaced, IsPlaced
<1>3. \A r \in rects : r.left \in Int /\ r.right \in Int
  BY <1>2, RectIsInt
<1>4. IsFiniteSet(rects)
  <2>1. DOMAIN f = D /\ f = [id \in D |-> f[id]] /\ rects = {f[id] : id \in D}
    OBVIOUS
  <2> HIDE DEF D, f, rects
  <2> QED BY <1>1, <2>1, ImageIsFinite
<1> HIDE DEF D, rects
<1>5. IsFiniteSet(wide) /\ \A r \in wide : r.left \in Int /\ r.right \in Int
  <2>1. wide \in SUBSET rects
    OBVIOUS
  <2>2. IsFiniteSet(wide)
    BY <1>4, <2>1, FS_Subset
  <2> QED BY <1>3, <2>1, <2>2
<1>6. IsFiniteSet({r.left : r \in wide}) /\ IsFiniteSet({r.right : r \in wide})
  <2>1. /\ DOMAIN g = wide /\ g = [r \in wide |-> g[r]] /\ {r.left : r \in wide} = {g[r] : r \in wide}
        /\ DOMAIN h = wide /\ h = [r \in wide |-> h[r]] /\ {r.right : r \in wide} = {h[r] : r \in wide}
    OBVIOUS
  <2> HIDE DEF g, h, wide
  <2>2. IsFiniteSet({g[r] : r \in wide}) /\ IsFiniteSet({h[r] : r \in wide})
    BY <1>5, <2>1, ImageIsFinite
  <2> QED BY <2>1, <2>2
<1>7. HullIn(sigs, plotted, a) = IF wide = {} THEN <<>> ELSE <<Min({r.left : r \in wide}), Max({r.right : r \in wide})>>
  BY DEF HullIn, D, rects
<1> HIDE DEF wide
<1>8. CASE wide = {}
  BY <1>7, <1>8
<1>9. CASE wide # {}
  <2>1. /\ {r.left : r \in wide} # {} /\ {r.left : r \in wide} \subseteq Int
        /\ {r.right : r \in wide} # {} /\ {r.right : r \in wide} \subseteq Int
    BY <1>5, <1>9
  <2>2. Min({r.left : r \in wide}) \in Int /\ Max({r.right : r \in wide}) \in Int
    BY <1>6, <2>1, MinIs, MaxIs
  <2>3. \A lo, hi \in Int : <<lo, hi>> \in Interval
    BY DEF Interval
  <2>4. HullIn(sigs, plotted, a) = <<Min({r.left : r \in wide}), Max({r.right : r \in wide})>>
    BY <1>7, <1>9
  <2> QED BY <2>2, <2>3, <2>4
<1> QED BY <1>8, <1>9

LEMMA SetScaleIs ==
  ASSUME NEW scales, AreScales(scales), NEW a, NEW interval \in Interval
  PROVE  AreScales(SetScale(scales, a, interval))
<1>1. AreAxes(SetScale(scales, a, interval))
  BY SetScaleStays DEF AreScales, StayOn
<1> QED BY <1>1 DEF AreScales, SetScale, IsScale, AreAxes, AxisFields

LEMMA SetLockedIs ==
  ASSUME NEW scales, AreScales(scales), NEW locked \in BOOLEAN, NEW which
  PROVE  AreScales(SetLocked(scales, locked, which))
<1>1. AreAxes(SetLocked(scales, locked, which))
  BY SetLockedStays DEF AreScales, StayOn
<1> QED BY <1>1 DEF AreScales, SetLocked, IsScale, AreAxes, AxisFields

Wanted(sigs, scales, plotted, a) ==
    IF scales[a].auto /\ HullIn(sigs, plotted, a) # <<>> THEN HullIn(sigs, plotted, a) ELSE scales[a].next

(* The interval an axis shows is one, whatever its engine made of it.      *)
LEMMA DividedIs ==
  ASSUME NEW log, NEW interval \in Interval
  PROVE  Divided(log, interval) \in Interval /\ (~log => Divided(log, interval) = interval)
<1>1. interval[1] \in Int /\ interval[2] \in Int
  BY DEF Interval
<1>2. Positive(interval[1]) \in Int /\ Positive(interval[2]) \in Int
  BY <1>1 DEF Positive
<1> DEFINE positive == <<Positive(interval[1]), Positive(interval[2])>>
<1>3. positive \in Interval /\ <<0, 0>> \in Interval
  BY <1>2 DEF Interval
<1>4. Divided(log, interval) = IF ~log THEN interval ELSE IF positive[1] = positive[2] THEN <<0, 0>> ELSE positive
  BY DEF Divided
<1> HIDE DEF positive
<1> QED BY <1>3, <1>4

LEMMA ReplottedOf ==
  ASSUME NEW scales, AreAxes(scales), NEW plotted, NEW a \in Axes
  PROVE  /\ Replotted(scales, plotted)[a].next = Wanted(signals, scales, plotted, a)
         /\ Replotted(scales, plotted)[a].shown = Divided(scales[a].log, Wanted(signals, scales, plotted, a))
         /\ Replotted(scales, plotted)[a].log = scales[a].log
         /\ Replotted(scales, plotted)[a].auto = scales[a].auto
         /\ Replotted(scales, plotted)[a].lower = scales[a].lower
         /\ Replotted(scales, plotted)[a].upper = scales[a].upper
<1> DEFINE wanted == Wanted(signals, scales, plotted, a)
<1>1. Replotted(scales, plotted)[a] = [scales[a] EXCEPT !.next = wanted, !.shown = Divided(scales[a].log, wanted)]
  BY HullIs DEF Replotted, Wanted
<1> HIDE DEF wanted
<1>2. DOMAIN scales[a] = AxisFields
  BY DEF AreAxes
<1> QED BY <1>1, <1>2 DEF AxisFields, wanted

LEMMA ReplottedIs ==
  ASSUME Finite, AreSignals(signals), NEW scales, AreScales(scales), NEW plotted, ArePlaced(plotted)
  PROVE  AreScales(Replotted(scales, plotted))
<1>1. AreAxes(scales)
  BY DEF AreScales
<1>2. AreAxes(Replotted(scales, plotted))
  BY <1>1, ReplottedStays DEF StayOn
<1>3. ASSUME NEW a \in Axes
      PROVE  IsScale(Replotted(scales, plotted)[a])
  <2>1. IsScale(scales[a])
    BY DEF AreScales
  <2>2. Wanted(signals, scales, plotted, a) \in Interval
    BY <2>1, HullIsInterval DEF Wanted, IsScale
  <2>3. Divided(scales[a].log, Wanted(signals, scales, plotted, a)) \in Interval
    BY <2>2, DividedIs
  <2> HIDE DEF Interval
  <2> QED BY <1>1, <2>1, <2>2, <2>3, ReplottedOf DEF IsScale
<1> QED BY <1>2, <1>3 DEF AreScales

LEMMA InitAxisIs ==
  ASSUME NEW scales, AreScales(scales), NEW a, NEW lo \in Int, NEW hi \in Int, NEW auto
  PROVE  AreScales(InitAxis(scales, a, lo, hi, auto))
<1>1. <<lo, hi>> \in Interval
  BY DEF Interval
<1> DEFINE interval == <<lo, hi>>
<1>2. InitAxis(scales, a, lo, hi, auto) = [scales EXCEPT ![a].on = TRUE, ![a].next = interval, ![a].auto = auto]
  BY DEF InitAxis
<1> HIDE DEF interval
<1>3. interval \in Interval
  BY <1>1 DEF interval
<1> HIDE DEF Interval
<1> QED BY <1>2, <1>3 DEF AreScales, IsScale, AreAxes, AxisFields

LEMMA MarginsAre ==
  ASSUME NEW v \in Int
  PROVE  Below(v) \in Int /\ Above(v) \in Int /\ Below(v) <= v /\ v <= Above(v)
<1>1. Margin(v) \in Nat
  <2>1. ASSUME NEW w \in Nat
        PROVE  w \div 10 \in Nat
    BY SMT
  <2>2. (IF v < 0 THEN -v ELSE v) \in Nat
    OBVIOUS
  <2> QED BY <2>1, <2>2 DEF Margin
<1> HIDE DEF Margin
<1> QED BY <1>1 DEF Below, Above

LEMMA InitXIs ==
  ASSUME AreSignals(signals), NEW scales, AreScales(scales), NEW a, NEW data \in CurveData
  PROVE  AreScales(InitX(scales, a, data))
<1>1. BoundingRect(data).left \in Int /\ BoundingRect(data).right \in Int
  BY RectIs, RectIsInt
<1>2. Below(BoundingRect(data).left) \in Int /\ Above(BoundingRect(data).right) \in Int
  BY <1>1, MarginsAre
<1>3. AddTime \in Int /\ 0 \in Int
  BY PlotAssumption
<1> HIDE DEF CurveData
<1> QED BY <1>2, <1>3, InitAxisIs DEF InitX

LEMMA InitYIs ==
  ASSUME AreSignals(signals), NEW scales, AreScales(scales), NEW a, NEW data \in CurveData
  PROVE  AreScales(InitY(scales, a, data))
<1>1. BoundingRect(data).bottom \in Int /\ BoundingRect(data).top \in Int
  BY RectIs, RectIsInt
<1>2. Below(BoundingRect(data).bottom) \in Int /\ Above(BoundingRect(data).top) \in Int
  BY <1>1, MarginsAre
<1> HIDE DEF CurveData
<1> QED BY <1>2, InitAxisIs DEF InitY

-----------------------------------------------------------------------------
(* What is painted of a curve.                                             *)
UnclearedIn(sigs, data) == \A s \in {data.x, data.y} : sigs[s].cleared = 0
IsPainted(sigs, c) ==
    /\ c.painted \in Nat /\ c.drawn \in Nat
    /\ UnclearedIn(sigs, c.data) => c.painted <= c.drawn /\ c.drawn <= SizeIn(sigs, c.data)
IsDrawn(sigs, c) == UnclearedIn(sigs, c.data) => c.drawn = SizeIn(sigs, c.data)
AllPainted(sigs, plotted) == \A id \in DOMAIN plotted : IsPainted(sigs, plotted[id])
AllDrawn(sigs, plotted) == \A id \in DOMAIN plotted : IsDrawn(sigs, plotted[id])

(* No more is painted than there is.                                       *)
IsStarted(sigs, c) ==
    c.painted \in Nat /\ (UnclearedIn(sigs, c.data) => c.painted <= SizeIn(sigs, c.data))
AllStarted(sigs, plotted) == \A id \in DOMAIN plotted : IsStarted(sigs, plotted[id])

LEMMA SizeOf ==
  ASSUME AreSignals(signals), NEW plotted, ArePlaced(plotted), NEW id \in DOMAIN plotted
  PROVE  Size(plotted[id]) = SizeIn(signals, plotted[id].data) /\ SizeIn(signals, plotted[id].data) \in Nat
<1>1. plotted[id].data \in CurveData
  BY DEF ArePlaced, IsPlaced
<1> QED BY <1>1, SizeIs, SizeIsNat

LEMMA DrawnPaints ==
  ASSUME AreSignals(signals), NEW plotted, ArePlaced(plotted), HaveFields(plotted),
         AllStarted(signals, plotted)
  PROVE  AllPainted(signals, Drawn(plotted)) /\ AllDrawn(signals, Drawn(plotted))
<1>1. DOMAIN Drawn(plotted) = DOMAIN plotted
  BY DEF Drawn
<1>2. ASSUME NEW id \in DOMAIN plotted
      PROVE  IsPainted(signals, Drawn(plotted)[id]) /\ IsDrawn(signals, Drawn(plotted)[id])
  <2> DEFINE c == plotted[id]
             d == Drawn(plotted)[id]
  <2>1. d = [c EXCEPT !.drawn = Size(c)] /\ DOMAIN c = CurveFields
    BY DEF Drawn, HaveFields
  <2>2. Size(c) = SizeIn(signals, c.data) /\ SizeIn(signals, c.data) \in Nat
    BY SizeOf
  <2>3. IsStarted(signals, c)
    BY DEF AllStarted
  <2> HIDE DEF c, d
  <2>4. d.data = c.data /\ d.painted = c.painted /\ d.drawn = SizeIn(signals, c.data)
    BY <2>1, <2>2 DEF CurveFields
  <2>5. IsPainted(signals, d) /\ IsDrawn(signals, d)
    BY <2>2, <2>3, <2>4 DEF IsPainted, IsDrawn, IsStarted
  <2> QED BY <2>5 DEF d
<1> QED BY <1>1, <1>2 DEF AllPainted, AllDrawn

LEMMA StaysPlaced ==
  ASSUME NEW f, NEW g, StayPlaced(f, g), ArePlaced(f)
  PROVE  ArePlaced(g) /\ HaveFields(g)
BY DEF StayPlaced, ArePlaced, IsPlaced, HaveFields

LEMMA RepaintedPaints ==
  ASSUME AreSignals(signals), NEW plotted, ArePlaced(plotted), HaveFields(plotted)
  PROVE  AllPainted(signals, Drawn(Forgotten(plotted))) /\ AllDrawn(signals, Drawn(Forgotten(plotted)))
<1>1. ArePlaced(Forgotten(plotted)) /\ HaveFields(Forgotten(plotted))
  BY ForgottenStay, StaysPlaced
<1>2. ASSUME NEW id \in DOMAIN Forgotten(plotted)
      PROVE  IsStarted(signals, Forgotten(plotted)[id])
  <2>1. id \in DOMAIN plotted /\ Forgotten(plotted)[id] = [plotted[id] EXCEPT !.painted = 0] /\ DOMAIN plotted[id] = CurveFields
    BY DEF Forgotten, HaveFields
  <2>2. Forgotten(plotted)[id].painted = 0
    BY <2>1 DEF CurveFields
  <2>3. SizeIn(signals, Forgotten(plotted)[id].data) \in Nat
    BY <1>1, SizeOf
  <2> QED BY <2>2, <2>3 DEF IsStarted
<1>3. AllStarted(signals, Forgotten(plotted))
  BY <1>2 DEF AllStarted
<1> QED BY <1>1, <1>3, DrawnPaints

LEMMA UpdatedPaints ==
  ASSUME AreSignals(signals), NEW plotted, ArePlaced(plotted), HaveFields(plotted),
         AllPainted(signals, plotted)
  PROVE  AllPainted(signals, UpdateCurves(plotted)) /\ AllDrawn(signals, UpdateCurves(plotted))
<1>1. DOMAIN UpdateCurves(plotted) = DOMAIN plotted
  BY DEF UpdateCurves
<1>2. ASSUME NEW id \in DOMAIN plotted
      PROVE  IsPainted(signals, UpdateCurves(plotted)[id]) /\ IsDrawn(signals, UpdateCurves(plotted)[id])
  <2> DEFINE c == plotted[id]
             d == UpdateCurves(plotted)[id]
  <2>1. /\ d = IF Size(c) > c.painted THEN [c EXCEPT !.painted = Size(c), !.drawn = Size(c)] ELSE c
        /\ DOMAIN c = CurveFields
    BY DEF UpdateCurves, HaveFields
  <2>2. Size(c) = SizeIn(signals, c.data) /\ SizeIn(signals, c.data) \in Nat
    BY SizeOf
  <2>3. IsPainted(signals, c)
    BY DEF AllPainted
  <2> HIDE DEF c, d
  <2>4. CASE Size(c) > c.painted
    <3>1. d.data = c.data /\ d.painted = SizeIn(signals, c.data) /\ d.drawn = SizeIn(signals, c.data)
      BY <2>1, <2>2, <2>4 DEF CurveFields
    <3> QED BY <2>2, <3>1 DEF IsPainted, IsDrawn, d
  <2>5. CASE ~(Size(c) > c.painted)
    <3>1. d = c
      BY <2>1, <2>5
    <3>2. IsPainted(signals, c) /\ IsDrawn(signals, c)
      BY <2>2, <2>3, <2>5 DEF IsPainted, IsDrawn
    <3> QED BY <3>1, <3>2 DEF d
  <2> QED BY <2>4, <2>5
<1> QED BY <1>1, <1>2 DEF AllPainted, AllDrawn

LEMMA PaintedAreStarted ==
  ASSUME AreSignals(signals), NEW plotted, ArePlaced(plotted), AllPainted(signals, plotted)
  PROVE  AllStarted(signals, plotted)
<1>1. ASSUME NEW id \in DOMAIN plotted
      PROVE  IsStarted(signals, plotted[id])
  <2>1. SizeIn(signals, plotted[id].data) \in Nat
    BY SizeOf
  <2>2. IsPainted(signals, plotted[id])
    BY DEF AllPainted
  <2> QED BY <2>1, <2>2 DEF IsPainted, IsStarted
<1> QED BY <1>1 DEF AllStarted

(* More samples are more points.                                           *)
Grows(r, q) ==
    /\ IsSignal(r) /\ IsSignal(q) /\ Len(r.times) <= Len(q.times)
    /\ r.times # <<>> => /\ q.times # <<>> /\ FirstIn(q) = FirstIn(r) /\ LastIn(r) <= LastIn(q)
                         /\ Range(r.times) \subseteq Range(q.times)

LEMMA PointsGrow ==
  ASSUME NEW r1, NEW r2, NEW q1, NEW q2, Grows(r1, r2), Grows(q1, q2)
  PROVE  Cardinality(PointsIn(r1, q1)) <= Cardinality(PointsIn(r2, q2))
<1>1. ASSUME NEW time \in PointsIn(r1, q1)
      PROVE  time \in PointsIn(r2, q2)
  <2>1. /\ time \in Range(r1.times) \cup Range(q1.times)
        /\ r1.times # <<>> /\ FirstIn(r1) <= time /\ time <= LastIn(r1)
        /\ q1.times # <<>> /\ FirstIn(q1) <= time /\ time <= LastIn(q1)
    BY <1>1 DEF PointsIn
  <2>2. time \in Int
    BY <2>1, TimesAreFinite DEF Grows
  <2>3. /\ LastIn(r1) \in Nat /\ LastIn(r2) \in Nat /\ LastIn(q1) \in Nat /\ LastIn(q2) \in Nat
    BY TimesAre DEF Grows
  <2>4. /\ r2.times # <<>> /\ FirstIn(r2) <= time /\ time <= LastIn(r2)
        /\ q2.times # <<>> /\ FirstIn(q2) <= time /\ time <= LastIn(q2)
        /\ time \in Range(r2.times) \cup Range(q2.times)
    BY <2>1, <2>2, <2>3 DEF Grows
  <2> QED BY <2>4 DEF PointsIn
<1>2. IsFiniteSet(PointsIn(r2, q2)) /\ PointsIn(r1, q1) \in SUBSET PointsIn(r2, q2)
  BY <1>1, PointsAreFinite DEF Grows
<1> QED BY <1>2, FS_Subset

LEMMA SizeGrows ==
  ASSUME NEW sigs, NEW more, NEW data, Grows(sigs[data.x], more[data.x]), Grows(sigs[data.y], more[data.y])
  PROVE  SizeIn(sigs, data) <= SizeIn(more, data)
<1>1. Cardinality(PointsIn(sigs[data.x], sigs[data.y])) <= Cardinality(PointsIn(more[data.x], more[data.y]))
  BY PointsGrow
<1>2. Len(sigs[data.y].times) <= Len(more[data.y].times)
  BY DEF Grows
<1> QED BY <1>1, <1>2 DEF SizeIn

-----------------------------------------------------------------------------
(* What the steps of others than the timer do to all that.                 *)
IsPopup == popup.scale \in Interval /\ popup.lower \in BOOLEAN /\ popup.upper \in BOOLEAN
Held ==
    /\ AreSignals(signals) /\ AreScales(axes) /\ IsPopup /\ mode \in Modes
    /\ AllPainted(signals, curves)

LEMMA CurvesArePlaced ==
  ASSUME PlotInv
  PROVE  ArePlaced(curves) /\ HaveFields(curves) /\ AreAxes(axes)
BY DEF PlotInv, CurvesInv, ArePlaced, HaveFields

LEMMA NowIs ==
  ASSUME Finite, AreSignals(signals)
  PROVE  Now \in Nat /\ \A s \in Signals : LastIn(signals[s]) <= Now
<1> DEFINE f == [s \in Signals |-> LastTime(s)]
           times == {LastTime(s) : s \in Signals}
<1>1. \A s \in Signals : LastTime(s) = LastIn(signals[s]) /\ LastTime(s) \in Nat
  BY LastIs, TimesAre DEF AreSignals
<1>2. IsFiniteSet(times)
  <2>1. DOMAIN f = Signals /\ f = [s \in Signals |-> f[s]] /\ times = {f[s] : s \in Signals}
    OBVIOUS
  <2> HIDE DEF f, times
  <2> QED BY <2>1, ImageIsFinite DEF Finite
<1>3. IsFiniteSet(times \cup {0})
  <2> HIDE DEF times
  <2> QED BY <1>2, FS_AddElement
<1>4. times \cup {0} \subseteq Nat /\ times \cup {0} # {}
  BY <1>1
<1>5. Now = Max(times \cup {0})
  BY DEF Now
<1>6. \A s \in Signals : LastTime(s) \in times \cup {0}
  OBVIOUS
<1> HIDE DEF times
<1>7. Now \in times \cup {0} /\ \A k \in times \cup {0} : k <= Now
  BY <1>3, <1>4, <1>5, MaxIs
<1> QED BY <1>1, <1>4, <1>6, <1>7

LEMMA Appended ==
  ASSUME NEW r, NEW q, IsSignal(r), NEW t \in Nat, LastIn(r) <= t, NEW lo \in Int, NEW hi \in Int,
         q.times = Append(r.times, t), q.lo = lo, q.hi = hi, q.cleared = r.cleared
  PROVE  IsSignal(q) /\ Grows(r, q)
<1>1. r.times \in Seq(Nat) /\ r.cleared \in Nat
  BY DEF IsSignal
<1>2. /\ q.times \in Seq(Nat) /\ q.times # <<>> /\ Len(q.times) = Len(r.times) + 1
      /\ Len(r.times) \in Nat /\ Last(q.times) = t
      /\ r.times # <<>> => Head(q.times) = Head(r.times)
      /\ \A i \in DOMAIN r.times : i \in DOMAIN q.times /\ q.times[i] = r.times[i]
  BY <1>1 DEF Last
<1>3. IsSignal(q)
  BY <1>1, <1>2 DEF IsSignal
<1>4. FirstIn(q) = Head(q.times) /\ LastIn(q) = t
  BY <1>2 DEF FirstIn, LastIn
<1>5. Range(r.times) \subseteq Range(q.times)
  BY <1>2 DEF Range
<1>6. r.times # <<>> => FirstIn(r) = Head(r.times)
  BY DEF FirstIn
<1> QED BY <1>2, <1>3, <1>4, <1>5, <1>6 DEF Grows

LEMMA GrowsItself ==
  ASSUME NEW r, IsSignal(r)
  PROVE  Grows(r, r)
<1>1. Len(r.times) \in Nat
  BY DEF IsSignal
<1>2. LastIn(r) \in Nat
  BY TimesAre
<1> QED BY <1>1, <1>2 DEF Grows

LEMMA PushSampleHolds ==
  ASSUME Finite, PlotInv, Held, NEW s \in Signals, NEW v \in Values, NEW gap \in Gaps, PushSample(s, v, gap)
  PROVE  AreSignals(signals)' /\ AllPainted(signals', curves')
<1> DEFINE r == signals[s]
           q == signals'[s]
<1>1. AreSignals(signals) /\ IsSignal(r) /\ DOMAIN r = SignalFields
  BY DEF Held, AreSignals
<1>2. signals' = [signals EXCEPT ![s].times = Append(@, Now + gap), ![s].lo = Min({@, v}), ![s].hi = Max({@, v})]
  BY DEF PushSample
<1>3. /\ DOMAIN signals' = Signals /\ \A t \in Signals : t # s => signals'[t] = signals[t]
      /\ q = [r EXCEPT !.times = Append(@, Now + gap), !.lo = Min({@, v}), !.hi = Max({@, v})]
  BY <1>1, <1>2 DEF AreSignals
<1>4. /\ DOMAIN q = SignalFields /\ q.times = Append(r.times, Now + gap)
      /\ q.lo = Min({r.lo, v}) /\ q.hi = Max({r.hi, v}) /\ q.cleared = r.cleared
  BY <1>1, <1>3 DEF SignalFields
<1>5. Now + gap \in Nat /\ LastIn(r) <= Now + gap
  <2>1. Now \in Nat /\ LastIn(r) <= Now
    BY <1>1, NowIs
  <2>2. gap \in Nat
    BY PlotAssumption
  <2>3. LastIn(r) \in Nat
    BY <1>1, TimesAre
  <2> QED BY <2>1, <2>2, <2>3
<1>6. Min({r.lo, v}) \in Int /\ Max({r.hi, v}) \in Int
  <2>1. r.lo \in Int /\ r.hi \in Int
    BY <1>1 DEF IsSignal
  <2>2. v \in Int
    BY PlotAssumption
  <2> QED BY <2>1, <2>2, OfTwo
<1> HIDE DEF r, q
<1>7. IsSignal(q) /\ Grows(r, q)
  BY <1>1, <1>4, <1>5, <1>6, Appended
<1>8. \A t \in Signals : /\ DOMAIN signals'[t] = SignalFields /\ IsSignal(signals'[t])
                         /\ Grows(signals[t], signals'[t]) /\ signals'[t].cleared = signals[t].cleared
  <2> SUFFICES ASSUME NEW t \in Signals
               PROVE  /\ DOMAIN signals'[t] = SignalFields /\ IsSignal(signals'[t])
                      /\ Grows(signals[t], signals'[t]) /\ signals'[t].cleared = signals[t].cleared
    OBVIOUS
  <2>1. CASE t = s
    BY <1>4, <1>7, <2>1 DEF r, q
  <2>2. CASE t # s
    BY <1>1, <1>3, <2>2, GrowsItself DEF AreSignals
  <2> QED BY <2>1, <2>2
<1>9. AreSignals(signals')
  BY <1>3, <1>8 DEF AreSignals
<1>10. curves' = curves
  BY DEF PushSample
<1>11. ASSUME NEW id \in DOMAIN curves
       PROVE  IsPainted(signals', curves[id])
  <2> DEFINE c == curves[id]
  <2>1. c.data \in CurveData
    BY CurvesArePlaced DEF ArePlaced, IsPlaced
  <2>2. c.data.x \in Signals /\ c.data.y \in Signals
    BY <2>1, UnitsOf
  <2>3. UnclearedIn(signals', c.data) => UnclearedIn(signals, c.data)
    BY <1>8, <2>2 DEF UnclearedIn
  <2>4. SizeIn(signals, c.data) <= SizeIn(signals', c.data)
    BY <1>8, <2>2, SizeGrows
  <2>5. SizeIn(signals, c.data) \in Nat /\ SizeIn(signals', c.data) \in Nat
    BY <1>1, <1>9, <2>1, SizeIsNat
  <2>6. IsPainted(signals, c)
    BY DEF Held, AllPainted
  <2> HIDE DEF c
  <2>7. IsPainted(signals', c)
    BY <2>3, <2>4, <2>5, <2>6 DEF IsPainted
  <2> QED BY <2>7 DEF c
<1> QED BY <1>9, <1>10, <1>11 DEF AllPainted

LEMMA ClearSignalHolds ==
  ASSUME PlotInv, Held, NEW s \in Signals, ClearSignal(s)
  PROVE  AreSignals(signals)' /\ AllPainted(signals', curves')
<1> DEFINE r == signals[s]
           q == signals'[s]
<1>1. AreSignals(signals) /\ IsSignal(r) /\ DOMAIN r = SignalFields
  BY DEF Held, AreSignals
<1>2. r.times # <<>> /\ signals' = [signals EXCEPT ![s].times = <<>>, ![s].cleared = Len(signals[s].times)]
  BY DEF ClearSignal
<1>3. /\ DOMAIN signals' = Signals /\ \A t \in Signals : t # s => signals'[t] = signals[t]
      /\ q = [r EXCEPT !.times = <<>>, !.cleared = Len(r.times)]
  BY <1>1, <1>2 DEF AreSignals
<1>4. /\ DOMAIN q = SignalFields /\ q.times = <<>> /\ q.cleared = Len(r.times)
      /\ q.lo = r.lo /\ q.hi = r.hi
  BY <1>1, <1>3 DEF SignalFields
<1>5. Len(r.times) \in Nat /\ Len(r.times) # 0
  BY <1>1, <1>2 DEF IsSignal
<1> HIDE DEF r, q
<1>6. IsSignal(q)
  BY <1>1, <1>4, <1>5 DEF IsSignal
<1>7. AreSignals(signals')
  BY <1>1, <1>3, <1>4, <1>6 DEF AreSignals, q
<1>8. curves' = curves
  BY DEF ClearSignal
<1>9. ASSUME NEW id \in DOMAIN curves
      PROVE  IsPainted(signals', curves[id])
  <2> DEFINE c == curves[id]
  <2>1. c.data \in CurveData
    BY CurvesArePlaced DEF ArePlaced, IsPlaced
  <2>2. c.data.x \in Signals /\ c.data.y \in Signals
    BY <2>1, UnitsOf
  <2>3. IsPainted(signals, c)
    BY DEF Held, AllPainted
  <2> HIDE DEF c
  <2>4. ASSUME UnclearedIn(signals', c.data)
        PROVE  UnclearedIn(signals, c.data) /\ SizeIn(signals', c.data) = SizeIn(signals, c.data)
    <3>1. c.data.x # s /\ c.data.y # s
      BY <1>4, <1>5, <2>4 DEF UnclearedIn, q
    <3>2. signals'[c.data.x] = signals[c.data.x] /\ signals'[c.data.y] = signals[c.data.y]
      BY <1>3, <2>2, <3>1
    <3> QED BY <2>4, <3>2 DEF UnclearedIn, SizeIn
  <2>5. IsPainted(signals', c)
    BY <2>3, <2>4 DEF IsPainted
  <2> QED BY <2>5 DEF c
<1> QED BY <1>7, <1>8, <1>9 DEF AllPainted

Keeps == AreSignals(signals)' /\ AreScales(axes)' /\ AllPainted(signals', curves')

LEMMA ReplotKeeps ==
  ASSUME Finite, Held, NEW scales, AreScales(scales), NEW plotted, ArePlaced(plotted), HaveFields(plotted),
         Replot(scales, plotted), signals' = signals
  PROVE  Keeps
<1>1. axes' = Replotted(scales, plotted) /\ curves' = Drawn(Forgotten(plotted))
  BY DEF Replot
<1>2. AreSignals(signals)
  BY DEF Held
<1>3. AreScales(Replotted(scales, plotted))
  BY <1>2, ReplottedIs
<1>4. AllPainted(signals, Drawn(Forgotten(plotted)))
  BY <1>2, RepaintedPaints
<1>5. AreScales(axes')
  BY <1>1, <1>3
<1>6. AreSignals(signals')
  BY <1>2
<1>7. AllPainted(signals', curves')
  BY <1>1, <1>4
<1> QED BY <1>5, <1>6, <1>7 DEF Keeps, AreScales, AreSignals

LEMMA NothingKeeps ==
  ASSUME Held, UNCHANGED <<signals, curves>>, AreScales(axes')
  PROVE  Keeps
BY DEF Held, Keeps, AreScales, AreSignals

LEMMA InsertKeeps ==
  ASSUME Finite, PlotInv, Held, NEW id \in Fresh, NEW data \in CurveData,
         NEW x \in {"xBottom", "xTop"}, NEW y \in {"yLeft", "yRight"},
         Insert(id, data, x, y), signals' = signals
  PROVE  Keeps
<1> DEFINE scales  == InitX(InitY(axes, y, data), x, data)
           plotted == With(id, NewCurve(data, x, y))
<1>1. axes' = Replotted(scales, plotted) /\ curves' = Drawn(plotted)
  BY DEF Insert
<1>2. AreSignals(signals) /\ AreScales(axes) /\ AllPainted(signals, curves)
  BY DEF Held
<1>3. AreScales(scales)
  <2>1. AreScales(InitY(axes, y, data))
    BY <1>2, InitYIs
  <2> QED BY <1>2, <2>1, InitXIs
<1>4. /\ DOMAIN plotted = DOMAIN curves \cup {id} /\ id \notin DOMAIN curves /\ id \in CurveIds
      /\ plotted[id] = NewCurve(data, x, y)
      /\ \A i \in DOMAIN curves : plotted[i] = curves[i]
  BY DEF With, Fresh
<1>5. ArePlaced(plotted) /\ HaveFields(plotted)
  <2>1. IsPlaced(NewCurve(data, x, y)) /\ DOMAIN NewCurve(data, x, y) = CurveFields
    BY DEF IsPlaced, NewCurve, CurveFields
  <2>2. ArePlaced(curves) /\ HaveFields(curves)
    BY CurvesArePlaced
  <2> HIDE DEF plotted
  <2> QED BY <1>4, <2>1, <2>2 DEF ArePlaced, HaveFields
<1>6. AllStarted(signals, plotted)
  <2>1. AllStarted(signals, curves)
    BY <1>2, CurvesArePlaced, PaintedAreStarted
  <2>2. IsStarted(signals, NewCurve(data, x, y))
    <3>1. SizeIn(signals, data) \in Nat
      BY <1>2, SizeIsNat
    <3>2. NewCurve(data, x, y).painted = 0 /\ NewCurve(data, x, y).data = data
      BY DEF NewCurve
    <3> QED BY <3>1, <3>2 DEF IsStarted
  <2> HIDE DEF plotted
  <2> QED BY <1>4, <2>1, <2>2 DEF AllStarted
<1> HIDE DEF scales, plotted
<1>7. AreScales(Replotted(scales, plotted))
  BY <1>2, <1>3, <1>5, ReplottedIs
<1>8. AllPainted(signals, Drawn(plotted))
  BY <1>2, <1>5, <1>6, DrawnPaints
<1>9. AreScales(axes')
  BY <1>1, <1>7
<1>10. AllPainted(signals', curves')
  BY <1>1, <1>8
<1> QED BY <1>2, <1>9, <1>10 DEF Keeps, AreScales, AreSignals

LEMMA AddSignalKeeps ==
  ASSUME Finite, PlotInv, Held, NEW data \in CurveData, AddSignal(data)
  PROVE  Keeps
<1>1. AddCurve(data) /\ signals' = signals
  BY DEF AddSignal
<1>2. AreScales(axes) /\ AreSignals(signals)
  BY DEF Held
<1>3. CASE YAxisFor(data) = None
  <2>1. UNCHANGED <<axes, curves>>
    BY <1>1, <1>3 DEF AddCurve
  <2> QED BY <1>1, <1>2, <2>1, NothingKeeps
<1>4. CASE YAxisFor(data) # None /\ XAxisFor(data) = None
  <2>1. axes' = InitY(axes, YAxisFor(data), data) /\ curves' = curves
    BY <1>1, <1>4 DEF AddCurve
  <2>2. AreScales(InitY(axes, YAxisFor(data), data))
    BY <1>2, InitYIs
  <2>3. AreScales(axes')
    BY <2>1, <2>2
  <2> QED BY <1>1, <2>1, <2>3, NothingKeeps
<1>5. CASE YAxisFor(data) # None /\ XAxisFor(data) # None
  <2>1. PICK id \in Fresh : Insert(id, data, XAxisFor(data), YAxisFor(data))
    BY <1>1, <1>5 DEF AddCurve
  <2>2. XAxisFor(data) \in {"xBottom", "xTop"} /\ YAxisFor(data) \in {"yLeft", "yRight"}
    BY <1>5, XAxisSuits, YAxisSuits DEF PlotInv
  <2> QED BY <1>1, <2>1, <2>2, InsertKeeps
<1> QED BY <1>3, <1>4, <1>5

LEMMA RestoreCurveKeeps ==
  ASSUME Finite, PlotInv, Held, NEW c \in saved, NEW id \in Fresh, RestoreCurve(c, id)
  PROVE  Keeps
<1>1. /\ signals' = signals
      /\ \/ axes' = axes /\ curves' = curves
         \/ axes' = InitY(axes, c.y, c.data) /\ curves' = curves
         \/ Insert(id, c.data, c.x, c.y)
  BY DEF RestoreCurve
<1>2. AreScales(axes) /\ AreSignals(signals)
  BY DEF Held
<1>3. c.data \in CurveData /\ c.x \in {"xBottom", "xTop"} /\ c.y \in {"yLeft", "yRight"}
  BY DEF PlotInv, CurvesInv, IsPlaced
<1>4. CASE axes' = axes /\ curves' = curves
  BY <1>1, <1>2, <1>4, NothingKeeps
<1>5. CASE axes' = InitY(axes, c.y, c.data) /\ curves' = curves
  <2>1. AreScales(InitY(axes, c.y, c.data))
    BY <1>2, <1>3, InitYIs
  <2>2. AreScales(axes')
    BY <1>5, <2>1
  <2> QED BY <1>1, <1>5, <2>2, NothingKeeps
<1>6. CASE Insert(id, c.data, c.x, c.y)
  BY <1>1, <1>3, <1>6, InsertKeeps
<1> QED BY <1>1, <1>4, <1>5, <1>6

LEMMA OnLegendClickedKeeps ==
  ASSUME Finite, PlotInv, Held, NEW id \in DOMAIN curves, OnLegendClicked(id)
  PROVE  Keeps
<1> DEFINE others == [i \in DOMAIN curves \ {id} |-> curves[i]]
<1>1. /\ signals' = signals
      /\ \/ curves' = others /\ axes' = axes
         \/ Replot(axes, others)
  BY DEF OnLegendClicked, RemoveCurve
<1>2. AreScales(axes) /\ AreSignals(signals) /\ AllPainted(signals, curves)
  BY DEF Held
<1>3. DOMAIN others = DOMAIN curves \ {id} /\ \A i \in DOMAIN others : others[i] = curves[i]
  OBVIOUS
<1> HIDE DEF others
<1>4. ArePlaced(others) /\ HaveFields(others) /\ AllPainted(signals, others)
  BY <1>2, <1>3, CurvesArePlaced DEF ArePlaced, HaveFields, AllPainted
<1>5. CASE curves' = others /\ axes' = axes
  BY <1>1, <1>2, <1>4, <1>5 DEF Keeps, AreScales, AreSignals
<1>6. CASE Replot(axes, others)
  BY <1>1, <1>2, <1>4, <1>6, ReplotKeeps
<1> QED BY <1>1, <1>5, <1>6

LEMMA MovedIs ==
  ASSUME NEW interval \in Interval, NEW by \in Interval
  PROVE  Moved(interval, by) \in Interval
BY DEF Moved, Interval

LEMMA ShiftsAre == \A by \in {<<0, 0>>} \cup Shifts : by \in Interval
BY PlotAssumption DEF Interval

LEMMA CanvasKeeps ==
  ASSUME Finite, PlotInv, Held, Canvas
  PROVE  Keeps
<1>1. AreScales(axes) /\ ArePlaced(curves) /\ HaveFields(curves)
  BY CurvesArePlaced DEF Held
<1>2. CASE \E m \in DOMAIN markers \cup {NoMarker} : OnMarkerSelected(m)
  <2>1. UNCHANGED <<signals, curves, axes>>
    BY <1>2 DEF OnMarkerSelected
  <2> QED BY <1>1, <2>1, NothingKeeps
<1>3. CASE OnMarkerMoved \/ ShowEvent
  <2>1. Replot(axes, curves) /\ signals' = signals
    BY <1>3 DEF OnMarkerMoved, ShowEvent
  <2> QED BY <1>1, <2>1, ReplotKeeps
<1>4. CASE \E by \in Shifts : MoveCanvas(by)
  <2>1. PICK by \in Shifts : MoveCanvas(by)
    BY <1>4
  <2> DEFINE moved == [a \in Axes |-> IF axes[a].on THEN SetScale(axes, a, Moved(axes[a].shown, by))[a] ELSE axes[a]]
  <2>2. /\ axes' = SetLocked(Replotted(moved, curves), TRUE, Axes)
        /\ curves' = Drawn(Forgotten(curves)) /\ signals' = signals
    BY <2>1 DEF MoveCanvas
  <2>3. AreScales(moved)
    <3>1. ASSUME NEW a \in Axes
          PROVE  DOMAIN moved[a] = AxisFields /\ IsScale(moved[a])
      <4> DEFINE scaled == SetScale(axes, a, Moved(axes[a].shown, by))
      <4>1. axes[a].shown \in Interval /\ by \in Interval
        BY <1>1, ShiftsAre DEF AreScales, IsScale
      <4>2. AreScales(scaled)
        BY <1>1, <4>1, MovedIs, SetScaleIs
      <4>3. moved[a] = IF axes[a].on THEN scaled[a] ELSE axes[a]
        OBVIOUS
      <4> HIDE DEF scaled, moved
      <4> QED BY <1>1, <4>2, <4>3 DEF AreScales, AreAxes
    <3>2. DOMAIN moved = Axes
      OBVIOUS
    <3> HIDE DEF moved
    <3> QED BY <3>1, <3>2 DEF AreScales, AreAxes
  <2> HIDE DEF moved
  <2>4. AreScales(Replotted(moved, curves))
    BY <1>1, <2>3, ReplottedIs DEF Held
  <2>5. AreScales(SetLocked(Replotted(moved, curves), TRUE, Axes))
    BY <2>4, SetLockedIs
  <2>6. AllPainted(signals, Drawn(Forgotten(curves)))
    BY <1>1, RepaintedPaints DEF Held
  <2>7. AreScales(axes') /\ AllPainted(signals', curves')
    BY <2>2, <2>5, <2>6
  <2> QED BY <2>2, <2>7 DEF Keeps, Held, AreScales, AreSignals
<1> QED BY <1>2, <1>3, <1>4 DEF Canvas

LEMMA ScalePickerKeeps ==
  ASSUME Finite, PlotInv, Held, ScalePicker
  PROVE  Keeps /\ IsPopup'
<1>1. AreScales(axes) /\ ArePlaced(curves) /\ HaveFields(curves) /\ IsPopup
  BY CurvesArePlaced DEF Held
<1>2. PICK a \in Axes : \/ \E by \in Shifts : MoveAxis(a, by)
                        \/ OpenAxisPopup(a)
                        \/ \E boundary \in {"lower", "upper"} : OnAxisLockClicked(a, boundary)
  BY DEF ScalePicker
<1>3. IsScale(axes[a]) /\ axes[a].shown \in Interval
  BY <1>1 DEF AreScales, IsScale
<1>4. CASE \E by \in Shifts : MoveAxis(a, by)
  <2>1. PICK by \in Shifts : MoveAxis(a, by)
    BY <1>4
  <2> DEFINE scales == SetScale(SetLocked(axes, TRUE, {a}), a, Moved(axes[a].shown, by))
  <2>2. Replot(scales, curves) /\ UNCHANGED <<signals, popup>>
    BY <2>1 DEF MoveAxis
  <2>3. AreScales(SetLocked(axes, TRUE, {a}))
    BY <1>1, SetLockedIs
  <2>4. AreScales(scales)
    BY <1>3, <2>3, MovedIs, ShiftsAre, SetScaleIs
  <2> HIDE DEF scales
  <2>5. Keeps
    BY <1>1, <2>2, <2>4, ReplotKeeps
  <2> QED BY <1>1, <2>2, <2>5 DEF IsPopup
<1>5. CASE OpenAxisPopup(a)
  <2>1. /\ popup' = [axis |-> a, scale |-> axes[a].shown, lower |-> axes[a].lower, upper |-> axes[a].upper]
        /\ UNCHANGED <<signals, curves, axes>>
    BY <1>5 DEF OpenAxisPopup
  <2>2. IsPopup'
    BY <1>3, <2>1 DEF IsPopup, IsScale
  <2>3. Keeps
    BY <1>1, <2>1, NothingKeeps
  <2> QED BY <2>2, <2>3
<1>6. CASE \E boundary \in {"lower", "upper"} : OnAxisLockClicked(a, boundary)
  <2>1. /\ UNCHANGED <<signals, curves, popup>>
        /\ \/ axes' = [axes EXCEPT ![a].lower = ~@]
           \/ axes' = [axes EXCEPT ![a].upper = ~@]
    BY <1>6 DEF OnAxisLockClicked
  <2>2. AreScales(axes')
    <3>1. CASE axes' = [axes EXCEPT ![a].lower = ~@]
      BY <1>1, <3>1 DEF AreScales, IsScale, AreAxes, AxisFields
    <3>2. CASE axes' = [axes EXCEPT ![a].upper = ~@]
      BY <1>1, <3>2 DEF AreScales, IsScale, AreAxes, AxisFields
    <3> QED BY <2>1, <3>1, <3>2
  <2> QED BY <1>1, <2>1, <2>2, NothingKeeps DEF IsPopup
<1> QED BY <1>2, <1>4, <1>5, <1>6

LEMMA OnAcceptKeeps ==
  ASSUME Finite, PlotInv, Held, NEW by \in {<<0, 0>>} \cup Shifts, NEW log \in BOOLEAN, OnAccept(by, log)
  PROVE  Keeps /\ IsPopup'
<1> DEFINE a == popup.axis
           scales == SetScale(axes, a, Moved(popup.scale, by))
           locked == [scales EXCEPT ![a].lower = popup.lower, ![a].upper = popup.upper, ![a].log = log]
<1>1. AreScales(axes) /\ ArePlaced(curves) /\ HaveFields(curves) /\ IsPopup
  BY CurvesArePlaced DEF Held
<1>2. Replot(locked, curves) /\ signals' = signals /\ popup' = Closed
  BY DEF OnAccept
<1>3. AreScales(scales)
  BY <1>1, MovedIs, ShiftsAre, SetScaleIs DEF IsPopup
<1> HIDE DEF scales
<1>4. AreScales(locked)
  BY <1>1, <1>3 DEF AreScales, IsScale, AreAxes, AxisFields, IsPopup
<1> HIDE DEF locked
<1>5. Keeps
  BY <1>1, <1>2, <1>4, ReplotKeeps
<1>6. IsPopup'
  BY <1>2 DEF IsPopup, Closed, Interval
<1> QED BY <1>5, <1>6

(* set_update_mode() asks for the last time of the curves.                 *)
LEMMA LastOfCurves ==
  ASSUME Finite, PlotInv, AreSignals(signals)
  PROVE  Max({BoundingRect(curves[id].data).right : id \in DOMAIN curves} \cup {0}) \in Int
<1> DEFINE f == [id \in DOMAIN curves |-> BoundingRect(curves[id].data).right]
           S == {BoundingRect(curves[id].data).right : id \in DOMAIN curves}
<1>1. \A id \in DOMAIN curves : BoundingRect(curves[id].data).right \in Int
  BY CurvesArePlaced, RectIs, RectIsInt DEF ArePlaced, IsPlaced
<1>2. IsFiniteSet(DOMAIN curves)
  <2>1. DOMAIN curves \in SUBSET CurveIds
    BY CurvesArePlaced DEF ArePlaced
  <2> QED BY <2>1, FS_Subset DEF Finite
<1>3. IsFiniteSet(S)
  <2>1. DOMAIN f = DOMAIN curves /\ f = [id \in DOMAIN curves |-> f[id]] /\ S = {f[id] : id \in DOMAIN curves}
    OBVIOUS
  <2> HIDE DEF f, S
  <2> QED BY <1>2, <2>1, ImageIsFinite
<1>4. S \subseteq Int
  BY <1>1
<1> HIDE DEF S
<1>5. IsFiniteSet(S \cup {0}) /\ S \cup {0} \subseteq Int /\ S \cup {0} # {}
  BY <1>3, <1>4, FS_AddElement
<1>6. Max(S \cup {0}) \in Int
  BY <1>5, MaxIs
<1> QED BY <1>6 DEF S

LEMMA SetUpdateModeKeeps ==
  ASSUME Finite, PlotInv, Held, NEW m \in PlotConfigDialog, SetUpdateMode(m)
  PROVE  Keeps /\ mode' \in Modes /\ popup' = popup
<1> DEFINE last == Max({BoundingRect(curves[id].data).right : id \in DOMAIN curves} \cup {0})
           scales == SetScale(axes, "xBottom", <<last - TimeSpan, last>>)
<1>1. AreScales(axes) /\ AreSignals(signals) /\ ArePlaced(curves) /\ HaveFields(curves)
  BY CurvesArePlaced DEF Held
<1>2. m \in Modes /\ mode' = m /\ UNCHANGED <<signals, popup>>
      /\ (UNCHANGED <<axes, curves>> \/ Replot(scales, curves))
  BY DEF SetUpdateMode, PlotConfigDialog
<1>3. AreScales(scales)
  <2>1. last \in Int
    BY <1>1, LastOfCurves
  <2> HIDE DEF last
  <2>2. <<last - TimeSpan, last>> \in Interval
    BY <2>1, PlotAssumption DEF Interval
  <2> QED BY <1>1, <2>2, SetScaleIs
<1> HIDE DEF scales
<1>4. CASE UNCHANGED <<axes, curves>>
  BY <1>1, <1>2, <1>4, NothingKeeps
<1>5. CASE Replot(scales, curves)
  BY <1>1, <1>2, <1>3, <1>5, ReplotKeeps
<1> QED BY <1>2, <1>4, <1>5

LEMMA ToolbarKeeps ==
  ASSUME Finite, PlotInv, Held, Toolbar
  PROVE  Keeps /\ mode' \in Modes /\ popup' = popup
<1>1. AreScales(axes) /\ ArePlaced(curves) /\ HaveFields(curves) /\ mode \in Modes
  BY CurvesArePlaced DEF Held
<1>2. CASE \E data \in CurveData : AddSignal(data)
  <2>1. mode' = mode /\ popup' = popup
    BY <1>2 DEF AddSignal
  <2> QED BY <1>1, <1>2, <2>1, AddSignalKeeps
<1>3. CASE \/ \E m \in MarkerIds, id \in DOMAIN curves : AddMarker(m, id)
           \/ \E pair \in DiffMarkerDialog : AddDiffMarker(pair)
  <2>1. Replot(axes, curves) /\ UNCHANGED <<signals, mode, popup>>
    BY <1>3 DEF AddMarker, AddDiffMarker
  <2> QED BY <1>1, <2>1, ReplotKeeps
<1>4. CASE \E m \in PlotConfigDialog : SetUpdateMode(m)
  BY <1>4, SetUpdateModeKeeps
<1>5. CASE ZoomBestFit
  <2>1. axes' = SetLocked(axes, FALSE, Axes) /\ UNCHANGED <<signals, curves, mode, popup>>
    BY <1>5 DEF ZoomBestFit
  <2>2. AreScales(SetLocked(axes, FALSE, Axes))
    BY <1>1, SetLockedIs
  <2>3. AreScales(axes')
    BY <2>1, <2>2
  <2> QED BY <1>1, <2>1, <2>3, NothingKeeps
<1> QED BY <1>2, <1>3, <1>4, <1>5 DEF Toolbar

LEMMA OthersHold ==
  ASSUME Finite, PlotInv, Held, Others
  PROVE  Held'
<1>1. IsPopup /\ mode \in Modes
  BY DEF Held
<1>2. ASSUME Keeps, IsPopup', mode' \in Modes
      PROVE  Held'
  BY <1>2 DEF Held, Keeps
<1>3. CASE \E c \in saved, id \in Fresh : RestoreCurve(c, id)
  <2>1. popup' = popup /\ mode' = mode
    BY <1>3 DEF RestoreCurve
  <2>2. Keeps
    BY <1>3, RestoreCurveKeeps
  <2> QED BY <1>1, <1>2, <2>1, <2>2 DEF IsPopup
<1>4. CASE World
  <2>1. UNCHANGED <<popup, mode, axes>>
    BY <1>4 DEF World, PushSample, ClearSignal
  <2>2. AreSignals(signals)' /\ AllPainted(signals', curves')
    BY <1>4, PushSampleHolds, ClearSignalHolds DEF World
  <2>3. AreScales(axes)'
    BY <2>1 DEF Held, AreScales
  <2> QED BY <1>1, <1>2, <2>1, <2>2, <2>3 DEF Keeps, IsPopup
<1>5. CASE Toolbar
  <2>1. Keeps /\ mode' \in Modes /\ popup' = popup
    BY <1>5, ToolbarKeeps
  <2> QED BY <1>1, <1>2, <2>1 DEF IsPopup
<1>6. CASE Canvas
  <2>1. UNCHANGED <<popup, mode>>
    BY <1>6 DEF Canvas, OnMarkerSelected, OnMarkerMoved, MoveCanvas, ShowEvent
  <2>2. Keeps
    BY <1>6, CanvasKeeps
  <2> QED BY <1>1, <1>2, <2>1, <2>2 DEF IsPopup
<1>7. CASE ScalePicker
  <2>1. mode' = mode
    BY <1>7 DEF ScalePicker, MoveAxis, OpenAxisPopup, OnAxisLockClicked
  <2> QED BY <1>1, <1>2, <1>7, <2>1, ScalePickerKeeps
<1>8. CASE \E by \in {<<0, 0>>} \cup Shifts, log \in BOOLEAN : OnAccept(by, log)
  <2>1. mode' = mode
    BY <1>8 DEF OnAccept
  <2> QED BY <1>1, <1>2, <1>8, <2>1, OnAcceptKeeps
<1>9. CASE \E id \in DOMAIN curves : OnLegendClicked(id)
  <2>1. popup' = popup /\ mode' = mode
    BY <1>9 DEF OnLegendClicked
  <2>2. Keeps
    BY <1>9, OnLegendClickedKeeps
  <2> QED BY <1>1, <1>2, <2>1, <2>2 DEF IsPopup
<1> QED BY <1>3, <1>4, <1>5, <1>6, <1>7, <1>8, <1>9 DEF Others, User

LEMMA InitHolds ==
  ASSUME Init
  PROVE  Held /\ quiet = 0
<1>1. AreSignals(signals)
  <2>1. signals \in [Signals -> Box]
    BY DEF Init
  <2>2. ASSUME NEW r \in Box
        PROVE  DOMAIN r = SignalFields /\ IsSignal(r)
    <3>1. DOMAIN r = SignalFields /\ r.times = <<>> /\ r.lo = Huge /\ r.hi = -Huge /\ r.cleared = 0
      BY DEF Box, SignalFields
    <3>2. <<>> \in Seq(Nat) /\ Huge \in Int /\ -Huge \in Int /\ 0 \in Nat
      BY PlotAssumption
    <3> QED BY <3>1, <3>2 DEF IsSignal
  <2> QED BY <2>1, <2>2 DEF AreSignals
<1>2. AreScales(axes)
  <2>1. /\ DOMAIN axes = Axes
        /\ \A a \in Axes : /\ DOMAIN axes[a] = AxisFields
                             /\ axes[a].next = <<0, 0>> /\ axes[a].shown = <<0, 0>>
                             /\ axes[a].lower = FALSE /\ axes[a].upper = FALSE
    BY DEF Init, AxisFields
  <2>2. <<0, 0>> \in Interval
    BY DEF Interval
  <2> QED BY <2>1, <2>2 DEF AreScales, AreAxes, IsScale
<1>3. DOMAIN curves = {} /\ mode \in Modes /\ popup = Closed /\ quiet = 0
  BY DEF Init, Modes
<1>4. IsPopup
  BY <1>3 DEF IsPopup, Closed, Interval
<1> QED BY <1>1, <1>2, <1>3, <1>4 DEF Held, AllPainted

-----------------------------------------------------------------------------
(* What an axis does not show, and how far it is from showing it.          *)
OutOf(scale, low, high) ==
    \/ ~scale.lower /\ low < scale.shown[1]
    \/ ~scale.upper /\ scale.shown[2] < high
MissesX(sigs, m, scale, data) ==
    IF data.type = "TimeCurve" /\ m # "Additive"
    THEN ~(scale.lower /\ scale.upper) /\ scale.shown[2] < RectIn(sigs, data).right
    ELSE OutOf(scale, RectIn(sigs, data).left, RectIn(sigs, data).right)
MissesY(sigs, scale, data) == OutOf(scale, RectIn(sigs, data).bottom, RectIn(sigs, data).top)
Misses(sigs, m, scale, c, a) ==
    IF a = "xBottom" THEN MissesX(sigs, m, scale, c.data) ELSE c.y = a /\ MissesY(sigs, scale, c.data)
UnseenIn(sigs, m, scale, plotted, a) ==
    {id \in DOMAIN plotted : Misses(sigs, m, scale, plotted[id], a)}
Unseen(a) == UnseenIn(signals, mode, axes[a], curves, a)
Followed == {"yLeft", "yRight", "xBottom"}

(* An interval that is asked for reaches further, and as far as it should. *)
Reaches(scale, wide, low, high) ==
    /\ wide \in Interval /\ wide # <<>>
    /\ wide[1] <= scale.shown[1] /\ scale.shown[2] <= wide[2]
    /\ ~scale.lower => wide[1] <= low
    /\ ~scale.upper => high <= wide[2]

LEMMA PairIs ==
  ASSUME NEW v \in Int, NEW w \in Int
  PROVE  <<v, w>> \in Interval /\ <<v, w>> # <<>> /\ <<v, w>>[1] = v /\ <<v, w>>[2] = w
<1>1. Len(<<v, w>>) = 2 /\ Len(<<>>) = 0
  OBVIOUS
<1> QED BY <1>1 DEF Interval

LEMMA IntervalIs ==
  ASSUME NEW i \in Interval
  PROVE  i[1] \in Int /\ i[2] \in Int /\ i = <<i[1], i[2]>> /\ i # <<>>
<1>1. i[1] \in Int /\ i[2] \in Int /\ i = <<i[1], i[2]>>
  BY DEF Interval
<1> HIDE DEF Interval
<1>2. <<i[1], i[2]>> # <<>>
  BY <1>1, PairIs
<1> QED BY <1>1, <1>2

LEMMA ExtendedIs ==
  ASSUME NEW a, IsScale(axes[a]), NEW lowest \in Int, NEW low \in Int, NEW highest \in Int, NEW high \in Int,
         low <= lowest, highest <= high
  PROVE  /\ Extended(a, axes[a].shown, lowest, low, highest, high) # <<>> <=> OutOf(axes[a], lowest, highest)
         /\ OutOf(axes[a], lowest, highest) =>
              Reaches(axes[a], Extended(a, axes[a].shown, lowest, low, highest, high), lowest, highest)
<1> DEFINE now == axes[a].shown
           down == ~axes[a].lower /\ lowest < now[1]
           up == ~axes[a].upper /\ highest > now[2]
           left == IF down THEN low ELSE now[1]
           right == IF up THEN high ELSE now[2]
<1>1. Extended(a, now, lowest, low, highest, high) = IF down \/ up THEN <<left, right>> ELSE <<>>
  BY DEF Extended
<1>2. now[1] \in Int /\ now[2] \in Int
  BY IntervalIs DEF IsScale
<1>3. left \in Int /\ right \in Int
  BY <1>2
<1>4. (down \/ up) <=> OutOf(axes[a], lowest, highest)
  BY <1>2 DEF OutOf
<1>5. <<left, right>> \in Interval /\ <<left, right>> # <<>> /\ <<left, right>>[1] = left /\ <<left, right>>[2] = right
  <2> HIDE DEF left, right
  <2> QED BY <1>3, PairIs
<1>6. /\ left <= now[1] /\ now[2] <= right
      /\ ~axes[a].lower => left <= lowest
      /\ ~axes[a].upper => highest <= right
  BY <1>2
<1>7. Reaches(axes[a], <<left, right>>, lowest, highest)
  <2> HIDE DEF left, right
  <2> QED BY <1>5, <1>6 DEF Reaches
<1> HIDE DEF left, right, down, up
<1> QED BY <1>1, <1>4, <1>5, <1>7

LEMMA YWishIs ==
  ASSUME PlotInv, Held, NEW id \in DOMAIN curves
  PROVE  LET c == curves[id]
             rect == RectIn(signals, c.data)
         IN  /\ YWish(id) # <<>> <=> MissesY(signals, axes[c.y], c.data)
             /\ YWish(id) # <<>> => Reaches(axes[c.y], YWish(id), rect.bottom, rect.top)
<1> DEFINE c == curves[id]
           rect == RectIn(signals, c.data)
<1>1. c.data \in CurveData /\ c.y \in Axes
  BY CurvesArePlaced, AxesAre DEF ArePlaced, IsPlaced
<1>2. rect.bottom \in Int /\ rect.top \in Int /\ IsScale(axes[c.y])
  BY <1>1, RectIsInt DEF Held, AreScales
<1>3. YWish(id) = Extended(c.y, axes[c.y].shown, rect.bottom, Below(rect.bottom), rect.top, Above(rect.top))
  BY RectIs DEF YWish, UpdateYInterval
<1> HIDE DEF c, rect
<1>4. /\ Below(rect.bottom) \in Int /\ Below(rect.bottom) <= rect.bottom
      /\ Above(rect.top) \in Int /\ rect.top <= Above(rect.top)
  BY <1>2, MarginsAre
<1>5. /\ YWish(id) # <<>> <=> OutOf(axes[c.y], rect.bottom, rect.top)
      /\ OutOf(axes[c.y], rect.bottom, rect.top) => Reaches(axes[c.y], YWish(id), rect.bottom, rect.top)
  BY <1>2, <1>3, <1>4, ExtendedIs
<1> QED BY <1>5 DEF MissesY, c, rect

Rolls == view = "TimePlot" /\ mode # "Additive"

LEMMA TypesAre ==
  ASSUME NEW data \in CurveData
  PROVE  IF view = "TimePlot" THEN data.type = "TimeCurve" ELSE data.type = "XYCurve"
BY DEF CurveData, TimeCurveData, XYCurveData

LEMMA XWishIs ==
  ASSUME PlotInv, Held, ~Rolls, NEW id \in DOMAIN curves
  PROVE  LET c == curves[id]
             rect == RectIn(signals, c.data)
         IN  /\ XWish(id) # <<>> <=> MissesX(signals, mode, axes["xBottom"], c.data)
             /\ XWish(id) # <<>> => Reaches(axes["xBottom"], XWish(id), rect.left, rect.right)
<1> DEFINE c == curves[id]
           rect == RectIn(signals, c.data)
           scale == axes["xBottom"]
<1>1. c.data \in CurveData
  BY CurvesArePlaced DEF ArePlaced, IsPlaced
<1>2. rect.left \in Int /\ rect.right \in Int /\ IsScale(scale) /\ (c.data.type = "TimeCurve" => rect.left >= 0)
  BY <1>1, RectIsInt, AxesAre DEF Held, AreScales
<1>3. c.data.type = "XYCurve" \/ (c.data.type = "TimeCurve" /\ mode = "Additive")
  BY <1>1, TypesAre DEF Rolls
<1>4. XWish(id) = IF scale.lower /\ scale.upper THEN <<>>
                  ELSE IF c.data.type = "XYCurve"
                  THEN Extended("xBottom", scale.shown, rect.left, Below(rect.left), rect.right, Above(rect.right))
                  ELSE Extended("xBottom", scale.shown, rect.left, 0, rect.right, rect.right + AddTime)
  BY <1>3, RectIs DEF XWish, UpdateXInterval
<1> HIDE DEF c, rect
<1>5. /\ Below(rect.left) \in Int /\ Below(rect.left) <= rect.left
      /\ Above(rect.right) \in Int /\ rect.right <= Above(rect.right)
  BY <1>2, MarginsAre
<1>6. /\ 0 \in Int /\ rect.right + AddTime \in Int /\ rect.right <= rect.right + AddTime
      /\ c.data.type = "TimeCurve" => 0 <= rect.left
  BY <1>2, PlotAssumption
<1>7. MissesX(signals, mode, scale, c.data) <=> OutOf(scale, rect.left, rect.right)
  BY <1>3 DEF MissesX, rect
<1>8. scale.lower /\ scale.upper => ~OutOf(scale, rect.left, rect.right)
  BY DEF OutOf
<1>9. CASE scale.lower /\ scale.upper
  BY <1>4, <1>7, <1>8, <1>9 DEF c, rect
<1>10. CASE ~(scale.lower /\ scale.upper) /\ c.data.type = "XYCurve"
  <2>1. XWish(id) = Extended("xBottom", scale.shown, rect.left, Below(rect.left), rect.right, Above(rect.right))
    BY <1>4, <1>10
  <2>2. /\ XWish(id) # <<>> <=> OutOf(scale, rect.left, rect.right)
        /\ OutOf(scale, rect.left, rect.right) => Reaches(scale, XWish(id), rect.left, rect.right)
    BY <1>2, <1>5, <2>1, ExtendedIs
  <2> QED BY <1>7, <2>2 DEF c, rect
<1>11. CASE ~(scale.lower /\ scale.upper) /\ c.data.type # "XYCurve"
  <2>1. XWish(id) = Extended("xBottom", scale.shown, rect.left, 0, rect.right, rect.right + AddTime)
    BY <1>4, <1>11
  <2>2. 0 <= rect.left
    BY <1>3, <1>6, <1>11
  <2>3. /\ XWish(id) # <<>> <=> OutOf(scale, rect.left, rect.right)
        /\ OutOf(scale, rect.left, rect.right) => Reaches(scale, XWish(id), rect.left, rect.right)
    BY <1>2, <1>6, <2>1, <2>2, ExtendedIs
  <2> QED BY <1>7, <2>3 DEF c, rect
<1> QED BY <1>9, <1>10, <1>11

(* A time plot that rolls asks for a window.                               *)
IsWindow(interval) == interval[2] - interval[1] = TimeSpan
Step == IF mode = "Rolling" THEN AddTime ELSE TimeSpan

LEMMA WindowWishIs ==
  ASSUME PlotInv, Held, Rolls, NEW id \in DOMAIN curves, NEW now
  PROVE  LET right == RectIn(signals, curves[id].data).right
             scale == axes["xBottom"]
         IN  UpdateXInterval(curves[id], now) =
               IF (scale.lower /\ scale.upper) \/ right <= now[2] THEN <<>> ELSE NextWindow(now, right, Step)
<1>1. curves[id].data.type = "TimeCurve" /\ mode # "Additive"
  BY CurvesArePlaced, TypesAre DEF ArePlaced, IsPlaced, Rolls
<1> QED BY <1>1, RectIs DEF UpdateXInterval, Step

LEMMA NextWindowIs ==
  ASSUME NEW now \in Interval, NEW right \in Int, NEW by \in Int
  PROVE  /\ NextWindow(now, right, by) \in Interval /\ NextWindow(now, right, by) # <<>>
         /\ IsWindow(NextWindow(now, right, by))
         /\ NextWindow(now, right, by)[2] =
              (IF right > now[2] + TimeSpan THEN right ELSE now[1] + by) + TimeSpan
<1> DEFINE start == IF right > now[2] + TimeSpan THEN right ELSE now[1] + by
<1>1. start \in Int /\ start + TimeSpan \in Int /\ TimeSpan \in Int
  BY IntervalIs, PlotAssumption
<1>2. NextWindow(now, right, by) = <<start, start + TimeSpan>>
  BY DEF NextWindow
<1> HIDE DEF start
<1>3. /\ NextWindow(now, right, by) \in Interval /\ NextWindow(now, right, by) # <<>>
      /\ NextWindow(now, right, by)[1] = start /\ NextWindow(now, right, by)[2] = start + TimeSpan
  BY <1>1, <1>2, PairIs
<1>4. IsWindow(NextWindow(now, right, by))
  BY <1>1, <1>3 DEF IsWindow
<1> QED BY <1>3, <1>4 DEF start

-----------------------------------------------------------------------------
(* The windows an oscilloscope takes, curve by curve.                      *)
LEMMA CurveIdsAre ==
  ASSUME Finite, PlotInv
  PROVE  IsFiniteSet(DOMAIN curves) /\ DOMAIN curves \subseteq Nat
<1>1. DOMAIN curves \in SUBSET CurveIds
  BY CurvesArePlaced DEF ArePlaced
<1> QED BY <1>1, FS_Subset, PlotAssumption DEF Finite

LEMMA WindowsAre ==
  ASSUME NEW n \in Nat, n = Max(DOMAIN curves) + 1
  PROVE  /\ Windows[0] = axes["xBottom"].shown
         /\ \A k \in 1..n : Windows[k] = Taken(k - 1, Windows[k - 1])
<1> DEFINE x == axes["xBottom"].shown
           Upto(m, h) == h = [k \in 0..m |-> IF k = 0 THEN x ELSE Taken(k - 1, h[k - 1])]
           S == {m \in 0..n : \E h : Upto(m, h)}
<1> HIDE DEF x
<1>1. 0 \in S
  <2>1. Upto(0, [k \in 0..0 |-> x])
    OBVIOUS
  <2> HIDE DEF Upto
  <2> QED BY <2>1
<1>2. ASSUME NEW m \in 0..n, m < n, m \in S
      PROVE  m + 1 \in S
  <2>1. PICK h : Upto(m, h)
    BY <1>2
  <2>2. m \in Nat /\ m + 1 \in 0..n /\ (m + 1) - 1 = m /\ m \in 0..m /\ m + 1 # 0
    BY <1>2
  <2> DEFINE g == [k \in 0..(m + 1) |-> IF k = m + 1 THEN Taken(m, h[m]) ELSE h[k]]
  <2>3. ASSUME NEW k \in 0..(m + 1)
        PROVE  g[k] = IF k = 0 THEN x ELSE Taken(k - 1, g[k - 1])
    <3>1. CASE k = m + 1
      <4>1. g[k] = Taken(m, h[m]) /\ g[k - 1] = h[m] /\ k # 0 /\ k - 1 = m
        BY <2>2, <3>1
      <4> QED BY <4>1
    <3>2. CASE k # m + 1
      <4>1. k \in 0..m /\ g[k] = h[k] /\ (k # 0 => k - 1 \in 0..m /\ g[k - 1] = h[k - 1])
        BY <2>2, <2>3, <3>2
      <4>2. h[k] = IF k = 0 THEN x ELSE Taken(k - 1, h[k - 1])
        BY <2>1, <4>1
      <4> QED BY <4>1, <4>2
    <3> QED BY <3>1, <3>2
  <2>4. g = [k \in 0..(m + 1) |-> g[k]]
    OBVIOUS
  <2> HIDE DEF g
  <2>5. Upto(m + 1, g)
    BY <2>3, <2>4
  <2> HIDE DEF Upto
  <2> QED BY <2>2, <2>5
<1>3. n \in S
  <2> HIDE DEF S
  <2>1. 0..n \subseteq S
    BY <1>1, <1>2, UpFrom
  <2> QED BY <2>1
<1> DEFINE F == CHOOSE h : Upto(n, h)
<1>4. Upto(n, F)
  <2>1. \E h : Upto(n, h)
    BY <1>3
  <2> HIDE DEF Upto
  <2> QED BY <2>1
<1>5. Windows = F
  BY Zenon DEF Windows, x
<1> HIDE DEF F
<1>6. F[0] = x
  BY <1>4
<1>7. ASSUME NEW k \in 1..n
      PROVE  F[k] = Taken(k - 1, F[k - 1])
  <2>1. k \in 0..n /\ k # 0
    OBVIOUS
  <2> QED BY <1>4, <2>1
<1> QED BY <1>5, <1>6, <1>7 DEF x

(* After the curves up to k: nothing wanted another window, or it is a     *)
(* window; and when it was one before, all of them are in it.              *)
Right(id) == RectIn(signals, curves[id].data).right
Before(k) == {id \in DOMAIN curves : id < k}
NoneWants(k, now) ==
    now = axes["xBottom"].shown /\ \A id \in Before(k) : Right(id) <= axes["xBottom"].shown[2]
InSight(k, now) ==
    axes["xBottom"].shown[2] <= now[2] /\ \A id \in Before(k) : Right(id) <= now[2]
Follows(k, now) ==
    /\ now \in Interval
    /\ NoneWants(k, now) \/ IsWindow(now)
    /\ IsWindow(axes["xBottom"].shown) => IsWindow(now) /\ InSight(k, now)

LEMMA RightIsInt ==
  ASSUME PlotInv, Held, NEW id \in DOMAIN curves
  PROVE  Right(id) \in Int
BY CurvesArePlaced, RectIsInt DEF ArePlaced, IsPlaced, Held, Right

LEMMA TakenFollows ==
  ASSUME Finite, PlotInv, Held, Rolls, mode = "Oscilloscope",
         ~(axes["xBottom"].lower /\ axes["xBottom"].upper),
         NEW k \in Nat, NEW now, Follows(k, now)
  PROVE  Follows(k + 1, Taken(k, now))
<1> DEFINE shown == axes["xBottom"].shown
<1>1. shown[1] \in Int /\ shown[2] \in Int /\ now[1] \in Int /\ now[2] \in Int
  BY AxesAre, IntervalIs DEF Held, AreScales, IsScale, Follows
<1>2. \A id \in Before(k + 1) : id \in Before(k) \/ id = k
  BY CurveIdsAre DEF Before
<1>3. \A id \in DOMAIN curves : Right(id) \in Int
  BY RightIsInt
<1>4. now \in Interval
  BY DEF Follows
<1>5. CASE k \notin DOMAIN curves
  <2>1. Taken(k, now) = now
    BY <1>5 DEF Taken
  <2>2. \A id \in Before(k + 1) : id \in Before(k)
    BY <1>2, <1>5 DEF Before
  <2> QED BY <2>1, <2>2 DEF Follows, NoneWants, InSight
<1>6. CASE k \in DOMAIN curves /\ Right(k) <= now[2]
  <2>1. UpdateXInterval(curves[k], now) = <<>>
    BY <1>6, WindowWishIs DEF Right
  <2>2. Taken(k, now) = now
    BY <1>6, <2>1 DEF Taken
  <2> QED BY <1>2, <1>6, <2>2 DEF Follows, NoneWants, InSight
<1>7. CASE k \in DOMAIN curves /\ ~(Right(k) <= now[2])
  <2> DEFINE wish == NextWindow(now, Right(k), TimeSpan)
  <2>1. UpdateXInterval(curves[k], now) = wish
    BY <1>7, WindowWishIs DEF Right, Step
  <2>2. /\ wish \in Interval /\ wish # <<>> /\ IsWindow(wish)
        /\ wish[2] = (IF Right(k) > now[2] + TimeSpan THEN Right(k) ELSE now[1] + TimeSpan) + TimeSpan
    BY <1>3, <1>4, <1>7, NextWindowIs, PlotAssumption
  <2>3. Taken(k, now) = wish
    BY <1>7, <2>1, <2>2 DEF Taken
  <2> HIDE DEF wish
  <2>4. ASSUME IsWindow(shown)
        PROVE  InSight(k + 1, wish)
    <3>1. now[2] - now[1] = TimeSpan /\ shown[2] <= now[2] /\ \A id \in Before(k) : Right(id) <= now[2]
      BY <2>4 DEF Follows, IsWindow, InSight
    <3>2. TimeSpan \in Nat
      BY PlotAssumption
    <3>3. Right(k) \in Int
      BY <1>3, <1>7
    <3>4. wish[2] \in Int /\ now[2] <= wish[2] /\ Right(k) <= wish[2]
      <4>1. CASE Right(k) > now[2] + TimeSpan
        <5>1. wish[2] = Right(k) + TimeSpan
          BY <2>2, <4>1
        <5> QED BY <1>1, <3>2, <3>3, <4>1, <5>1
      <4>2. CASE ~(Right(k) > now[2] + TimeSpan)
        <5>1. wish[2] = (now[1] + TimeSpan) + TimeSpan
          BY <2>2, <4>2
        <5>2. now[1] + TimeSpan = now[2]
          BY <1>1, <3>1, <3>2
        <5> QED BY <1>1, <3>2, <3>3, <4>2, <5>1, <5>2
      <4> QED BY <4>1, <4>2
    <3>5. \A id \in Before(k) : Right(id) <= wish[2]
      BY <1>1, <1>3, <3>1, <3>4 DEF Before
    <3>6. shown[2] <= wish[2]
      BY <1>1, <3>1, <3>4
    <3> QED BY <1>2, <3>4, <3>5, <3>6 DEF InSight
  <2>5. Follows(k + 1, wish)
    BY <2>2, <2>4 DEF Follows
  <2> QED BY <2>3, <2>5
<1> QED BY <1>5, <1>6, <1>7

LEMMA LastWindowIs ==
  ASSUME Finite, PlotInv, Held, Rolls, mode = "Oscilloscope",
         ~(axes["xBottom"].lower /\ axes["xBottom"].upper),
         NEW id \in DOMAIN curves, axes["xBottom"].shown[2] < Right(id)
  PROVE  /\ LastWindow \in Interval /\ LastWindow # <<>> /\ IsWindow(LastWindow)
         /\ IsWindow(axes["xBottom"].shown) => \A i \in DOMAIN curves : Right(i) <= LastWindow[2]
<1> DEFINE n == Max(DOMAIN curves) + 1
           S == {k \in 0..n : Follows(k, Windows[k])}
<1>1. n \in Nat /\ \A i \in DOMAIN curves : i \in Nat /\ i < n
  <2>1. DOMAIN curves \subseteq Int /\ DOMAIN curves # {}
    BY CurveIdsAre
  <2>2. Max(DOMAIN curves) \in DOMAIN curves /\ \A i \in DOMAIN curves : i <= Max(DOMAIN curves)
    BY <2>1, CurveIdsAre, MaxIs
  <2> HIDE DEF Max
  <2> QED BY <2>2, CurveIdsAre
<1>2. Windows[0] = axes["xBottom"].shown /\ \A k \in 1..n : Windows[k] = Taken(k - 1, Windows[k - 1])
  BY <1>1, WindowsAre
<1>3. LastWindow = Windows[n]
  BY DEF LastWindow
<1> HIDE DEF n
<1>4. 0 \in S
  <2>1. Before(0) = {}
    BY <1>1 DEF Before
  <2>2. axes["xBottom"].shown \in Interval
    BY AxesAre DEF Held, AreScales, IsScale
  <2>3. axes["xBottom"].shown[2] \in Int
    BY <2>2, IntervalIs
  <2>4. Follows(0, Windows[0])
    BY <1>2, <2>1, <2>2, <2>3 DEF Follows, NoneWants, InSight
  <2> QED BY <1>1, <2>4
<1>5. ASSUME NEW k \in 0..n, k < n, k \in S
      PROVE  k + 1 \in S
  <2>1. k + 1 \in 1..n /\ k + 1 \in 0..n /\ (k + 1) - 1 = k /\ k \in Nat
    BY <1>1, <1>5
  <2>2. Windows[k + 1] = Taken(k, Windows[k])
    BY <1>2, <2>1
  <2>3. Follows(k, Windows[k])
    BY <1>5
  <2>4. Follows(k + 1, Taken(k, Windows[k]))
    BY <2>1, <2>3, TakenFollows
  <2> QED BY <2>1, <2>2, <2>4
<1>6. Follows(n, LastWindow)
  <2> HIDE DEF S
  <2>1. 0..n \subseteq S
    BY <1>1, <1>4, <1>5, UpFrom
  <2>2. n \in S
    BY <1>1, <2>1
  <2> QED BY <1>3, <2>2 DEF S
<1>7. Before(n) = DOMAIN curves
  BY <1>1 DEF Before
<1>8. ~NoneWants(n, LastWindow)
  <2>1. Right(id) \in Int /\ axes["xBottom"].shown[2] \in Int
    BY RightIsInt, AxesAre, IntervalIs DEF Held, AreScales, IsScale
  <2> QED BY <1>7, <2>1 DEF NoneWants
<1>9. LastWindow # <<>>
  BY <1>6, IntervalIs DEF Follows
<1> QED BY <1>6, <1>7, <1>8, <1>9 DEF Follows, InSight

-----------------------------------------------------------------------------
(* What the timer asks for an axis.                                        *)
Low(a, id) == IF a = "xBottom" THEN RectIn(signals, curves[id].data).left ELSE RectIn(signals, curves[id].data).bottom
High(a, id) == IF a = "xBottom" THEN RectIn(signals, curves[id].data).right ELSE RectIn(signals, curves[id].data).top

LEMMA UnseenAre ==
  ASSUME Finite, PlotInv, NEW sigs, NEW m, NEW scale, NEW a
  PROVE  LET U == UnseenIn(sigs, m, scale, curves, a)
         IN  /\ U \subseteq DOMAIN curves /\ IsFiniteSet(U) /\ Cardinality(U) \in Nat
             /\ Cardinality(U) <= Cardinality(CurveIds) /\ Cardinality(CurveIds) \in Nat
             /\ U # {} => Max(U) \in U /\ Max(U) \in Int /\ Cardinality(U) >= 1 /\ \A i \in U : i <= Max(U)
<1> DEFINE U == UnseenIn(sigs, m, scale, curves, a)
<1>1. U \subseteq DOMAIN curves
  BY DEF UnseenIn
<1> HIDE DEF U
<1>2. U \in SUBSET CurveIds
  BY <1>1, CurvesArePlaced DEF ArePlaced
<1>3. IsFiniteSet(U) /\ Cardinality(U) <= Cardinality(CurveIds)
  BY <1>2, FS_Subset DEF Finite
<1>4. Cardinality(U) \in Nat /\ Cardinality(CurveIds) \in Nat
  BY <1>3, FS_CardinalityType DEF Finite
<1>5. U # {} => Cardinality(U) # 0
  BY <1>3, FS_EmptySet
<1>6. U \subseteq Int
  BY <1>1, CurveIdsAre
<1>7. U # {} => Max(U) \in U /\ Max(U) \in Int /\ \A i \in U : i <= Max(U)
  BY <1>3, <1>6, MaxIs
<1> QED BY <1>1, <1>3, <1>4, <1>5, <1>7 DEF U

LEMMA BoundsAre ==
  ASSUME PlotInv, Held, NEW a, NEW id \in DOMAIN curves
  PROVE  Low(a, id) \in Int /\ High(a, id) \in Int
BY CurvesArePlaced, RectIsInt DEF ArePlaced, IsPlaced, Held, Low, High

(* What is missed, when no window is asked for.                            *)
LEMMA MissesIs ==
  ASSUME PlotInv, Held, NEW a \in Followed, a # "xBottom" \/ ~Rolls, NEW id \in DOMAIN curves, NEW scale
  PROVE  Misses(signals, mode, scale, curves[id], a) <=>
           (a # "xBottom" => curves[id].y = a) /\ OutOf(scale, Low(a, id), High(a, id))
<1>1. a = "xBottom" => ~(curves[id].data.type = "TimeCurve" /\ mode # "Additive")
  BY CurvesArePlaced, TypesAre DEF ArePlaced, IsPlaced, Rolls
<1> QED BY <1>1 DEF Misses, MissesX, MissesY, Low, High

LEMMA MissesWindow ==
  ASSUME PlotInv, Held, Rolls, NEW id \in DOMAIN curves, NEW scale
  PROVE  Misses(signals, mode, scale, curves[id], "xBottom") <=>
           ~(scale.lower /\ scale.upper) /\ scale.shown[2] < Right(id)
<1>1. curves[id].data.type = "TimeCurve" /\ mode # "Additive"
  BY CurvesArePlaced, TypesAre DEF ArePlaced, IsPlaced, Rolls
<1> QED BY <1>1 DEF Misses, MissesX, Right

LEMMA YIntervals ==
  ASSUME Finite, PlotInv, Held, NEW a \in {"yLeft", "yRight"}
  PROVE  /\ Unseen(a) = {} => UpdateIntervals(a) = <<>>
         /\ Unseen(a) # {} => Reaches(axes[a], UpdateIntervals(a), Low(a, Max(Unseen(a))), High(a, Max(Unseen(a))))
<1> DEFINE wishing == {id \in {i \in DOMAIN curves : curves[i].y = a} : YWish(id) # <<>>}
<1>1. UpdateIntervals(a) = IF wishing = {} THEN <<>> ELSE YWish(Max(wishing))
  BY DEF UpdateIntervals, LastWish
<1>2. wishing = Unseen(a)
  <2>1. \A id \in DOMAIN curves : curves[id].y = a => (YWish(id) # <<>> <=> MissesY(signals, axes[a], curves[id].data))
    BY YWishIs
  <2>2. \A id \in DOMAIN curves : Misses(signals, mode, axes[a], curves[id], a) <=> curves[id].y = a /\ MissesY(signals, axes[a], curves[id].data)
    BY DEF Misses
  <2> QED BY <2>1, <2>2 DEF Unseen, UnseenIn
<1> HIDE DEF wishing
<1>3. ASSUME Unseen(a) # {}
      PROVE  Reaches(axes[a], YWish(Max(Unseen(a))), Low(a, Max(Unseen(a))), High(a, Max(Unseen(a))))
  <2> DEFINE id == Max(Unseen(a))
  <2>1. id \in Unseen(a) /\ id \in DOMAIN curves
    BY <1>3, UnseenAre DEF Unseen
  <2> HIDE DEF id
  <2>2. curves[id].y = a /\ YWish(id) # <<>>
    BY <1>2, <2>1 DEF wishing
  <2>3. Reaches(axes[a], YWish(id), RectIn(signals, curves[id].data).bottom, RectIn(signals, curves[id].data).top)
    BY <2>1, <2>2, YWishIs
  <2>4. Reaches(axes[a], YWish(id), Low(a, id), High(a, id))
    BY <2>3 DEF Low, High
  <2> QED BY <2>4 DEF id
<1> QED BY <1>1, <1>2, <1>3

LEMMA XIntervals ==
  ASSUME Finite, PlotInv, Held, ~Rolls
  PROVE  LET U == Unseen("xBottom")
         IN  /\ U = {} => UpdateIntervals("xBottom") = <<>>
             /\ U # {} => Reaches(axes["xBottom"], UpdateIntervals("xBottom"), Low("xBottom", Max(U)), High("xBottom", Max(U)))
<1> DEFINE U == Unseen("xBottom")
           wishing == {id \in DOMAIN curves : XWish(id) # <<>>}
           wish == IF wishing = {} THEN <<>> ELSE XWish(Max(wishing))
<1>1. UpdateIntervals("xBottom") = wish
  <2>1. ~(mode = "Oscilloscope" /\ view = "TimePlot")
    BY DEF Rolls
  <2>2. LastWish(XWish, DOMAIN curves) = wish
    BY DEF LastWish
  <2> HIDE DEF wish
  <2> QED BY <2>1, <2>2 DEF UpdateIntervals
<1>2. wishing = U
  <2>1. \A id \in DOMAIN curves : XWish(id) # <<>> <=> MissesX(signals, mode, axes["xBottom"], curves[id].data)
    BY XWishIs
  <2>2. \A id \in DOMAIN curves : Misses(signals, mode, axes["xBottom"], curves[id], "xBottom") <=> MissesX(signals, mode, axes["xBottom"], curves[id].data)
    BY DEF Misses
  <2> QED BY <2>1, <2>2 DEF Unseen, UnseenIn
<1>3. ASSUME U # {}
      PROVE  Reaches(axes["xBottom"], XWish(Max(U)), Low("xBottom", Max(U)), High("xBottom", Max(U)))
  <2> DEFINE id == Max(U)
  <2>1. id \in U /\ id \in DOMAIN curves
    BY <1>3, UnseenAre DEF Unseen
  <2> HIDE DEF id
  <2>2. XWish(id) # <<>>
    BY <1>2, <2>1
  <2>3. Reaches(axes["xBottom"], XWish(id), RectIn(signals, curves[id].data).left, RectIn(signals, curves[id].data).right)
    BY <2>1, <2>2, XWishIs
  <2>4. Reaches(axes["xBottom"], XWish(id), Low("xBottom", id), High("xBottom", id))
    BY <2>3 DEF Low, High
  <2> QED BY <2>4 DEF id
<1> HIDE DEF U, wishing
<1> QED BY <1>1, <1>2, <1>3 DEF U

LEMMA WindowIntervals ==
  ASSUME Finite, PlotInv, Held, Rolls
  PROVE  LET U == Unseen("xBottom")
             now == axes["xBottom"].shown
             wish == UpdateIntervals("xBottom")
         IN  /\ U = {} => wish = <<>>
             /\ U # {} => /\ wish \in Interval /\ wish # <<>> /\ IsWindow(wish)
                          /\ \/ wish = NextWindow(now, Right(Max(U)), AddTime)
                             \/ IsWindow(now) => \A i \in DOMAIN curves : Right(i) <= wish[2]
<1> DEFINE U == Unseen("xBottom")
           now == axes["xBottom"].shown
           wishing == {id \in DOMAIN curves : XWish(id) # <<>>}
           last == IF wishing = {} THEN <<>> ELSE XWish(Max(wishing))
           locked == axes["xBottom"].lower /\ axes["xBottom"].upper
<1>1. UpdateIntervals("xBottom") = IF last # <<>> /\ mode = "Oscilloscope" THEN LastWindow ELSE last
  <2>1. view = "TimePlot"
    BY DEF Rolls
  <2>2. LastWish(XWish, DOMAIN curves) = last
    BY DEF LastWish
  <2> HIDE DEF last
  <2> QED BY <2>1, <2>2 DEF UpdateIntervals
<1>2. /\ now \in Interval /\ now[2] \in Int
      /\ \A id \in DOMAIN curves : Right(id) \in Int
  BY AxesAre, IntervalIs, RightIsInt DEF Held, AreScales, IsScale
<1>3. \A id \in DOMAIN curves : XWish(id) = IF locked \/ Right(id) <= now[2] THEN <<>> ELSE NextWindow(now, Right(id), Step)
  BY WindowWishIs DEF XWish, Right
<1>4. Step \in Int
  BY PlotAssumption DEF Step
<1>5. \A id \in DOMAIN curves : NextWindow(now, Right(id), Step) # <<>>
  BY <1>2, <1>4, NextWindowIs
<1>6. \A id \in DOMAIN curves : id \in U <=> ~locked /\ now[2] < Right(id)
  BY MissesWindow DEF Unseen, UnseenIn
<1>7. wishing = U
  <2>1. \A id \in DOMAIN curves : XWish(id) # <<>> <=> ~locked /\ now[2] < Right(id)
    BY <1>2, <1>3, <1>5
  <2>2. U \subseteq DOMAIN curves
    BY DEF Unseen, UnseenIn
  <2> QED BY <1>6, <2>1, <2>2
<1> HIDE DEF wishing
<1>8. CASE U = {}
  <2>1. UpdateIntervals("xBottom") = <<>>
    BY <1>1, <1>7, <1>8
  <2> QED BY <1>8, <2>1
<1>9. CASE U # {}
  <2> DEFINE id == Max(U)
  <2>1. id \in U /\ id \in DOMAIN curves
    BY <1>9, UnseenAre DEF Unseen
  <2> HIDE DEF U, id
  <2>2. ~locked /\ now[2] < Right(id)
    BY <1>6, <2>1
  <2>3. last = NextWindow(now, Right(id), Step) /\ last # <<>>
    BY <1>2, <1>3, <1>5, <1>7, <1>9, <2>1, <2>2 DEF id
  <2>4. CASE mode = "Oscilloscope"
    <3>1. UpdateIntervals("xBottom") = LastWindow
      BY <1>1, <2>3, <2>4
    <3>2. /\ LastWindow \in Interval /\ LastWindow # <<>> /\ IsWindow(LastWindow)
          /\ IsWindow(now) => \A i \in DOMAIN curves : Right(i) <= LastWindow[2]
      BY <2>1, <2>2, <2>4, LastWindowIs
    <3> QED BY <1>9, <3>1, <3>2 DEF U
  <2>5. CASE mode # "Oscilloscope"
    <3>1. mode = "Rolling"
      BY <2>5 DEF Held, Modes, Rolls
    <3>2. Step = AddTime
      BY <3>1 DEF Step
    <3>3. UpdateIntervals("xBottom") = NextWindow(now, Right(id), AddTime)
      BY <1>1, <2>3, <2>5, <3>2
    <3>4. /\ NextWindow(now, Right(id), AddTime) \in Interval
          /\ NextWindow(now, Right(id), AddTime) # <<>> /\ IsWindow(NextWindow(now, Right(id), AddTime))
      BY <1>2, <2>1, NextWindowIs, PlotAssumption
    <3> QED BY <1>9, <3>3, <3>4 DEF U, id
  <2> QED BY <2>4, <2>5
<1> QED BY <1>8, <1>9

-----------------------------------------------------------------------------
(* How far the timer is from the end of its work.                          *)
Pace == TimeSpan + 2 * AddTime
Most == Pace * (Cardinality(CurveIds) + 1)
Ahead(far) == IF far > TimeSpan THEN TimeSpan + AddTime ELSE far
RankOf(scale, a) ==
    LET U == UnseenIn(signals, mode, scale, curves, a)
    IN  IF U = {} THEN 0
        ELSE IF a # "xBottom" \/ ~Rolls THEN Pace * Cardinality(U)
        ELSE IF IsWindow(scale.shown) THEN Pace * Cardinality(U) + Ahead(Right(Max(U)) - scale.shown[2])
        ELSE Most
Rank(a) == RankOf(axes[a], a)

LEMMA PaceIs == Pace \in Nat /\ AddTime \in Nat /\ TimeSpan \in Nat /\ AddTime > 0 /\ Pace = TimeSpan + AddTime + AddTime
  <1>1. AddTime \in Nat /\ TimeSpan \in Nat /\ AddTime > 0
    BY PlotAssumption
  <1> QED  BY <1>1 DEF Pace

LEMMA Multiples ==
  ASSUME NEW p \in Nat, NEW k \in Nat, NEW n \in Nat
  PROVE  p * k \in Nat /\ (k < n => p * k + p <= p * n) /\ (k <= n => p * k <= p * n)
  <1>1. p * k \in Nat /\ p * n \in Nat
    OBVIOUS
  <1>2. k <= n => p * k <= p * n
    OBVIOUS
  <1>3. ASSUME k < n
        PROVE  p * k + p <= p * n
    <2>1. p * (k + 1) = p * k + p /\ k + 1 \in Nat /\ k + 1 <= n
      BY <1>3
    <2>2. p * (k + 1) <= p * n
      BY <2>1
    <2> QED  BY <2>1, <2>2
  <1> QED  BY <1>1, <1>2, <1>3

(* The rank of an axis, by what is unseen.                                 *)
LEMMA RankIs ==
  ASSUME Finite, PlotInv, Held, NEW a \in Followed, NEW scale, IsScale(scale)
  PROVE  LET U == UnseenIn(signals, mode, scale, curves, a)
             n == Cardinality(U)
         IN  /\ U = {} => RankOf(scale, a) = 0
             /\ U # {} =>
                  /\ n \in Nat /\ n >= 1 /\ n <= Cardinality(CurveIds)
                  /\ Max(U) \in U /\ U \subseteq DOMAIN curves
                  /\ IF a # "xBottom" \/ ~Rolls THEN RankOf(scale, a) = Pace * n
                     ELSE IF IsWindow(scale.shown)
                     THEN RankOf(scale, a) = Pace * n + Ahead(Right(Max(U)) - scale.shown[2])
                     ELSE RankOf(scale, a) = Most
  BY UnseenAre DEF RankOf

LEMMA AheadIs ==
  ASSUME Finite, PlotInv, Held, Rolls, NEW scale, IsScale(scale),
         NEW id \in UnseenIn(signals, mode, scale, curves, "xBottom")
  PROVE  LET far == Right(id) - scale.shown[2]
         IN  far \in Nat /\ far > 0 /\ Ahead(far) \in Nat /\ Ahead(far) > 0 /\ Ahead(far) <= TimeSpan + AddTime
  <1> DEFINE far == Right(id) - scale.shown[2]
  <1>1. id \in DOMAIN curves /\ Misses(signals, mode, scale, curves[id], "xBottom")
    BY DEF UnseenIn
  <1>2. scale.shown[2] < Right(id)
    BY <1>1, MissesWindow
  <1>3. Right(id) \in Int /\ scale.shown[2] \in Int
    BY <1>1, RightIsInt, IntervalIs DEF IsScale
  <1>4. far \in Nat /\ far > 0
    BY <1>2, <1>3
  <1> HIDE DEF far
  <1>5. Ahead(far) \in Nat /\ Ahead(far) > 0 /\ Ahead(far) <= TimeSpan + AddTime
    <2>1. CASE far > TimeSpan
      BY <2>1, PaceIs DEF Ahead
    <2>2. CASE ~(far > TimeSpan)
      BY <2>2, <1>4, PaceIs DEF Ahead
    <2> QED  BY <2>1, <2>2
  <1> QED  BY <1>4, <1>5 DEF far

LEMMA RankBounds ==
  ASSUME Finite, PlotInv, Held, NEW a \in Followed, NEW scale, IsScale(scale)
  PROVE  /\ RankOf(scale, a) \in Nat /\ RankOf(scale, a) <= Most /\ Most \in Nat
         /\ UnseenIn(signals, mode, scale, curves, a) # {} => RankOf(scale, a) >= AddTime
         /\ IsWindow(scale.shown) \/ a # "xBottom" \/ ~Rolls => RankOf(scale, a) + AddTime <= Most
  <1> DEFINE U == UnseenIn(signals, mode, scale, curves, a)
             n == Cardinality(U)
             C == Cardinality(CurveIds)
  <1>0. C \in Nat
    BY FS_CardinalityType DEF Finite
  <1>1. Most \in Nat /\ Most >= Pace /\ Pace >= AddTime /\ Pace \in Nat /\ AddTime \in Nat
    <2>1. C + 1 \in Nat /\ 0 < C + 1 /\ Pace * 0 = 0
      BY <1>0, PaceIs
    <2>2. Pace * (C + 1) \in Nat /\ Pace <= Pace * (C + 1)
      BY <2>1, PaceIs, Multiples
    <2> QED  BY <2>2, PaceIs DEF Most
  <1>2. CASE U = {}
    <2>1. RankOf(scale, a) = 0
      BY <1>2, RankIs
    <2> QED  BY <2>1, <1>1, <1>2
  <1>3. CASE U # {}
    <2>1. n \in Nat /\ n >= 1 /\ n <= C /\ Max(U) \in U
      BY <1>3, RankIs
    <2>2. Pace * n \in Nat /\ Pace * n >= Pace /\ Pace * n + Pace <= Most
      <3>1. Pace * 0 + Pace <= Pace * n
        BY <2>1, PaceIs, Multiples
      <3>2. Pace * n + Pace <= Pace * (C + 1) /\ Pace * n \in Nat
        <4>1. C + 1 \in Nat /\ n < C + 1
          BY <2>1, <1>0
        <4> QED  BY <4>1, <2>1, PaceIs, Multiples
      <3> QED  BY <3>1, <3>2, PaceIs DEF Most
    <2>3. CASE a # "xBottom" \/ ~Rolls
      <3>1. RankOf(scale, a) = Pace * n
        BY <1>3, <2>3, RankIs
      <3> HIDE DEF n, U, C
      <3> QED  BY <3>1, <2>2, <1>1
    <2>4. CASE a = "xBottom" /\ Rolls
      <3>1. CASE IsWindow(scale.shown)
        <4> DEFINE h == Ahead(Right(Max(U)) - scale.shown[2])
        <4>1. RankOf(scale, a) = Pace * n + h
          BY <1>3, <2>4, <3>1, RankIs
        <4>2. h \in Nat /\ h <= TimeSpan + AddTime
          BY <2>1, <2>4, AheadIs
        <4> HIDE DEF h, n, U, C
        <4> QED  BY <4>1, <4>2, <2>2, <1>1, PaceIs
      <3>2. CASE ~IsWindow(scale.shown)
        <4>1. RankOf(scale, a) = Most
          BY <1>3, <2>4, <3>2, RankIs
        <4> QED  BY <4>1, <1>1, <2>4, <3>2
      <3> QED  BY <3>1, <3>2
    <2> QED  BY <2>3, <2>4
  <1> QED  BY <1>2, <1>3

LEMMA Fewer ==
  ASSUME NEW U, IsFiniteSet(U), NEW V, NEW m \in U, V \subseteq U, m \notin V
  PROVE  Cardinality(V) \in Nat /\ Cardinality(U) \in Nat /\ Cardinality(V) + 1 <= Cardinality(U)
  <1>1. V \subseteq U \ {m} /\ IsFiniteSet(U \ {m}) /\ Cardinality(U \ {m}) = Cardinality(U) - 1
    BY FS_RemoveElement
  <1>2. IsFiniteSet(V) /\ Cardinality(V) <= Cardinality(U \ {m})
    BY <1>1, FS_Subset
  <1>3. Cardinality(V) \in Nat /\ Cardinality(U) \in Nat
    BY <1>2, FS_CardinalityType
  <1> QED  BY <1>1, <1>2, <1>3

SameLocks(scale, a) == scale.lower = axes[a].lower /\ scale.upper = axes[a].upper /\ scale.log = axes[a].log

(* An axis without windows: the last of the unseen curves is seen next.    *)
LEMMA ReachesMore ==
  ASSUME Finite, PlotInv, Held, NEW a \in Followed, a # "xBottom" \/ ~Rolls, Unseen(a) # {},
         NEW scale, IsScale(scale), SameLocks(scale, a),
         Reaches(axes[a], scale.shown, Low(a, Max(Unseen(a))), High(a, Max(Unseen(a))))
  PROVE  UnseenIn(signals, mode, scale, curves, a) \subseteq Unseen(a) \ {Max(Unseen(a))}
  <1>1. IsScale(axes[a]) /\ axes[a].shown[1] \in Int /\ axes[a].shown[2] \in Int
        /\ scale.shown[1] \in Int /\ scale.shown[2] \in Int
    <2>1. a \in Axes
      BY DEF Followed, Axes, YAxes, XAxes, Range
    <2> QED  BY <2>1, IntervalIs DEF Held, AreScales, IsScale
  <1> SUFFICES ASSUME NEW id \in UnseenIn(signals, mode, scale, curves, a)
      PROVE  id \in Unseen(a) /\ id # Max(Unseen(a))
    OBVIOUS
  <1>2. id \in DOMAIN curves /\ Misses(signals, mode, scale, curves[id], a)
    BY DEF UnseenIn
  <1>3. (a # "xBottom" => curves[id].y = a) /\ OutOf(scale, Low(a, id), High(a, id))
    BY <1>2, MissesIs
  <1>4. Low(a, id) \in Int /\ High(a, id) \in Int
    BY <1>2, BoundsAre
  <1>5. OutOf(axes[a], Low(a, id), High(a, id))
    BY <1>1, <1>3, <1>4 DEF OutOf, Reaches, SameLocks
  <1>6. id \in Unseen(a)
    <2>1. Misses(signals, mode, axes[a], curves[id], a)
      BY <1>2, <1>3, <1>5, MissesIs
    <2> QED  BY <2>1, <1>2 DEF Unseen, UnseenIn
  <1>7. ASSUME id = Max(Unseen(a))
        PROVE  FALSE
    <2>1. Reaches(axes[a], scale.shown, Low(a, id), High(a, id))
      BY <1>7
    <2> QED  BY <1>1, <1>3, <1>4, <2>1 DEF OutOf, Reaches, SameLocks
  <1> QED  BY <1>6, <1>7

LEMMA RankFallsByReach ==
  ASSUME Finite, PlotInv, Held, NEW a \in Followed, a # "xBottom" \/ ~Rolls, Unseen(a) # {},
         NEW scale, IsScale(scale), SameLocks(scale, a), scale.shown = UpdateIntervals(a)
  PROVE  RankOf(scale, a) + AddTime <= Rank(a)
  <1> DEFINE U == Unseen(a)
             V == UnseenIn(signals, mode, scale, curves, a)
  <1>1. Reaches(axes[a], scale.shown, Low(a, Max(U)), High(a, Max(U)))
    <2>1. CASE a = "xBottom"
      BY <2>1, XIntervals
    <2>2. CASE a # "xBottom"
      <3>1. a \in {"yLeft", "yRight"}
        BY <2>2 DEF Followed
      <3> QED  BY <3>1, YIntervals
    <2> QED  BY <2>1, <2>2
  <1>2. V \subseteq U \ {Max(U)}
    BY <1>1, ReachesMore
  <1>3. IsFiniteSet(U) /\ Max(U) \in U /\ Cardinality(U) >= 1
    BY UnseenAre DEF Unseen
  <1>4. Cardinality(V) \in Nat /\ Cardinality(U) \in Nat /\ Cardinality(V) + 1 <= Cardinality(U)
    BY <1>2, <1>3, Fewer
  <1>5. a \in Axes /\ IsScale(axes[a])
    <2>1. a \in Axes
      BY DEF Followed, Axes, YAxes, XAxes, Range
    <2> QED  BY <2>1 DEF Held, AreScales
  <1>6. Rank(a) = Pace * Cardinality(U)
    BY <1>5, RankIs DEF Rank, Unseen
  <1>7. RankOf(scale, a) = IF V = {} THEN 0 ELSE Pace * Cardinality(V)
    BY RankIs
  <1>8. RankOf(scale, a) <= Pace * Cardinality(V) /\ RankOf(scale, a) \in Nat
        /\ Pace * Cardinality(V) + Pace <= Pace * Cardinality(U) /\ Pace * Cardinality(V) \in Nat
        /\ Pace * Cardinality(U) \in Nat
    <2>1. Pace * Cardinality(V) + Pace <= Pace * Cardinality(U) /\ Pace * Cardinality(V) \in Nat /\ Pace * Cardinality(U) \in Nat
      <3>1. Cardinality(V) < Cardinality(U)
        BY <1>4
      <3> QED  BY <3>1, <1>4, PaceIs, Multiples
    <2> HIDE DEF U, V
    <2> QED  BY <2>1, <1>7
  <1> HIDE DEF U, V
  <1> QED  BY <1>6, <1>8, PaceIs

(* A window that rolls: it comes closer to the last sample of the curve,   *)
(* or jumps to it.                                                         *)
LEMMA WindowSeesMore ==
  ASSUME Finite, PlotInv, Held, Rolls, Unseen("xBottom") # {},
         NEW scale, IsScale(scale), SameLocks(scale, "xBottom"),
         axes["xBottom"].shown[2] <= scale.shown[2]
  PROVE  UnseenIn(signals, mode, scale, curves, "xBottom") \subseteq Unseen("xBottom")
  <1>1. "xBottom" \in Axes
    BY DEF Axes, YAxes, XAxes, Range
  <1>2. IsScale(axes["xBottom"]) /\ axes["xBottom"].shown[2] \in Int /\ scale.shown[2] \in Int
    BY <1>1, IntervalIs DEF Held, AreScales, IsScale
  <1> SUFFICES ASSUME NEW id \in UnseenIn(signals, mode, scale, curves, "xBottom")
      PROVE  id \in Unseen("xBottom")
    OBVIOUS
  <1>3. id \in DOMAIN curves /\ Misses(signals, mode, scale, curves[id], "xBottom")
    BY DEF UnseenIn
  <1>4. ~(scale.lower /\ scale.upper) /\ scale.shown[2] < Right(id) /\ Right(id) \in Int
    BY <1>3, MissesWindow, RightIsInt
  <1>5. ~(axes["xBottom"].lower /\ axes["xBottom"].upper) /\ axes["xBottom"].shown[2] < Right(id)
    BY <1>2, <1>4 DEF SameLocks
  <1>6. Misses(signals, mode, axes["xBottom"], curves[id], "xBottom")
    BY <1>3, <1>5, MissesWindow
  <1> QED  BY <1>3, <1>6 DEF Unseen, UnseenIn

LEMMA RankFallsByStep ==
  ASSUME Finite, PlotInv, Held, Rolls, Unseen("xBottom") # {},
         NEW scale, IsScale(scale), SameLocks(scale, "xBottom"),
         IsWindow(axes["xBottom"].shown), IsWindow(scale.shown),
         scale.shown = NextWindow(axes["xBottom"].shown, Right(Max(Unseen("xBottom"))), AddTime)
  PROVE  RankOf(scale, "xBottom") + AddTime <= Rank("xBottom")
  <1> DEFINE a == "xBottom"
             U == Unseen(a)
             V == UnseenIn(signals, mode, scale, curves, a)
             now == axes[a].shown
             far == Right(Max(U)) - now[2]
             left == Right(Max(V)) - scale.shown[2]
  <1>1. a \in Followed /\ IsScale(axes[a]) /\ now \in Interval /\ now[1] \in Int /\ now[2] \in Int
        /\ scale.shown[2] \in Int
    <2>1. a \in Axes /\ a \in Followed
      BY DEF Followed, Axes, YAxes, XAxes, Range
    <2>2. IsScale(axes[a])
      BY <2>1 DEF Held, AreScales
    <2> QED  BY <2>1, <2>2, IntervalIs DEF IsScale
  <1>2. IsFiniteSet(U) /\ Max(U) \in U /\ Cardinality(U) >= 1 /\ U \subseteq DOMAIN curves
        /\ \A i \in U : i <= Max(U)
    BY UnseenAre DEF Unseen
  <1>3. Right(Max(U)) \in Int
    BY <1>2, RightIsInt
  <1>4. Rank(a) = Pace * Cardinality(U) + Ahead(far)
    BY <1>1, RankIs DEF Rank, Unseen
  <1>5. far \in Nat /\ far > 0 /\ Ahead(far) \in Nat /\ Ahead(far) > 0
    BY <1>1, <1>2, AheadIs DEF Unseen
  <1>6. now[2] = now[1] + TimeSpan
    BY <1>1, PaceIs DEF IsWindow
  <1>7. scale.shown[2] = (IF Right(Max(U)) > now[2] + TimeSpan THEN Right(Max(U)) ELSE now[1] + AddTime) + TimeSpan
    <2> DEFINE r == Right(Max(U))
    <2>1. now \in Interval /\ r \in Int /\ AddTime \in Int /\ scale.shown = NextWindow(now, r, AddTime)
      BY <1>1, <1>3, PaceIs
    <2> HIDE DEF r, now, U
    <2>2. NextWindow(now, r, AddTime)[2] = (IF r > now[2] + TimeSpan THEN r ELSE now[1] + AddTime) + TimeSpan
      BY ONLY <2>1, NextWindowIs
    <2>3. scale.shown[2] = (IF r > now[2] + TimeSpan THEN r ELSE now[1] + AddTime) + TimeSpan
      BY ONLY <2>1, <2>2
    <2> QED  BY ONLY <2>3 DEF r
  <1>8. now[2] <= scale.shown[2]
    BY <1>1, <1>3, <1>6, <1>7, PaceIs
  <1>9. V \subseteq U
    BY <1>8, WindowSeesMore
  <1>10. Cardinality(U) \in Nat /\ Pace * Cardinality(U) \in Nat
    <2>1. Cardinality(U) \in Nat
      BY <1>2, FS_CardinalityType
    <2> QED  BY <2>1, PaceIs, Multiples
  <1>11. ASSUME Max(U) \notin V
         PROVE  RankOf(scale, a) + AddTime <= Rank(a)
    <2>1. Cardinality(V) \in Nat /\ Cardinality(V) + 1 <= Cardinality(U)
      BY <1>2, <1>9, <1>11, Fewer
    <2>2. Pace * Cardinality(V) \in Nat /\ Pace * Cardinality(V) + Pace <= Pace * Cardinality(U)
      <3>1. Cardinality(V) < Cardinality(U)
        BY <2>1, <1>10
      <3> QED  BY <3>1, <2>1, <1>10, PaceIs, Multiples
    <2>3. CASE V = {}
      <3>1. RankOf(scale, a) = 0
        BY <2>3, <1>1, RankIs
      <3> HIDE DEF U, V, far, now, left, a
      <3> QED  BY <3>1, <2>2, <1>4, <1>5, <1>10, PaceIs
    <2>4. CASE V # {}
      <3>1. RankOf(scale, a) = Pace * Cardinality(V) + Ahead(left) /\ Max(V) \in V
        BY <2>4, <1>1, RankIs
      <3>2. Ahead(left) \in Nat /\ Ahead(left) <= TimeSpan + AddTime
        BY <3>1, AheadIs
      <3> HIDE DEF U, V, far, now, left, a
      <3> QED  BY <3>1, <3>2, <2>2, <1>4, <1>5, <1>10, PaceIs
    <2> QED  BY <2>3, <2>4
  <1>12. ASSUME Max(U) \in V
         PROVE  RankOf(scale, a) + AddTime <= Rank(a)
    <2>1. scale.shown[2] < Right(Max(U))
      <3>1. Misses(signals, mode, scale, curves[Max(U)], a)
        BY <1>12 DEF UnseenIn
      <3> QED  BY <3>1, <1>2, MissesWindow
    <2>2. ~(far > TimeSpan) /\ scale.shown[2] = now[2] + AddTime
      <3> HIDE DEF U, V, left
      <3> QED  BY <2>1, <1>1, <1>3, <1>6, <1>7, PaceIs
    <2>3. Max(V) = Max(U)
      <3>1. Max(V) \in V /\ Max(V) \in Int /\ \A i \in V : i <= Max(V)
        BY <1>12, UnseenAre
      <3>2. Max(U) \in Int /\ Max(V) <= Max(U) /\ Max(U) <= Max(V)
        <4>1. Max(U) \in Int
          BY <1>2, UnseenAre DEF Unseen
        <4> QED  BY <4>1, <3>1, <1>2, <1>9, <1>12
      <3> QED  BY <3>1, <3>2
    <2>4. left = far - AddTime /\ ~(left > TimeSpan)
      <3>1. left = Right(Max(U)) - scale.shown[2]
        BY <2>3
      <3>2. left = far - AddTime
        BY <3>1, <2>2, <1>1, <1>3, PaceIs
      <3> HIDE DEF left, far
      <3> QED  BY <3>2, <2>2, <1>5, PaceIs
    <2>5. RankOf(scale, a) = Pace * Cardinality(V) + Ahead(left)
      BY <1>1, <1>12, RankIs
    <2>6. Cardinality(V) \in Nat /\ Cardinality(V) <= Cardinality(U)
      <3>1. IsFiniteSet(V) /\ Cardinality(V) <= Cardinality(U)
        BY <1>2, <1>9, FS_Subset
      <3> QED  BY <3>1, FS_CardinalityType
    <2>7. Pace * Cardinality(V) \in Nat /\ Pace * Cardinality(V) <= Pace * Cardinality(U)
      BY <2>6, <1>10, PaceIs, Multiples
    <2>8. Ahead(left) = left /\ Ahead(far) = far
      BY <2>2, <2>4 DEF Ahead
    <2> HIDE DEF U, V, far, now, left, a
    <2> QED  BY <2>4, <2>5, <2>7, <2>8, <1>4, <1>5, <1>10, PaceIs
  <1> QED  BY <1>11, <1>12

LEMMA RankFallsByWindow ==
  ASSUME Finite, PlotInv, Held, Rolls, Unseen("xBottom") # {},
         NEW scale, IsScale(scale), SameLocks(scale, "xBottom"), scale.shown = UpdateIntervals("xBottom")
  PROVE  RankOf(scale, "xBottom") + AddTime <= Rank("xBottom")
<1> DEFINE a == "xBottom"
           now == axes[a].shown
           U == Unseen(a)
           V == UnseenIn(signals, mode, scale, curves, a)
<1>1. a \in Followed /\ IsScale(axes[a])
  <2>1. a \in Axes /\ a \in Followed
    BY DEF Followed, Axes, YAxes, XAxes, Range
  <2> QED BY <2>1 DEF Held, AreScales
<1>2. /\ IsWindow(scale.shown)
      /\ \/ scale.shown = NextWindow(now, Right(Max(U)), AddTime)
         \/ IsWindow(now) => \A i \in DOMAIN curves : Right(i) <= scale.shown[2]
  BY WindowIntervals
<1>3. CASE ~IsWindow(now)
  <2>1. Rank(a) = Most
    BY <1>1, <1>3, RankIs DEF Rank, Unseen
  <2>2. RankOf(scale, a) + AddTime <= Most
    BY <1>1, <1>2, RankBounds
  <2> QED BY <2>1, <2>2
<1>4. CASE IsWindow(now) /\ scale.shown = NextWindow(now, Right(Max(U)), AddTime)
  BY <1>2, <1>4, RankFallsByStep
<1>5. CASE IsWindow(now) /\ \A i \in DOMAIN curves : Right(i) <= scale.shown[2]
  <2>1. ASSUME NEW i \in V
        PROVE  FALSE
    <3>1. i \in DOMAIN curves /\ Misses(signals, mode, scale, curves[i], a)
      BY DEF UnseenIn
    <3>2. scale.shown[2] < Right(i) /\ Right(i) \in Int /\ scale.shown[2] \in Int
      BY <3>1, MissesWindow, RightIsInt, IntervalIs DEF IsScale
    <3> QED BY <3>1, <3>2, <1>5
  <2>2. RankOf(scale, a) = 0
    BY <1>1, <2>1, RankIs
  <2>3. Rank(a) \in Nat /\ Rank(a) >= AddTime
    BY <1>1, RankBounds DEF Rank, Unseen
  <2> QED BY <2>2, <2>3, PaceIs
<1> QED BY <1>2, <1>3, <1>4, <1>5

LEMMA RankFalls ==
  ASSUME Finite, PlotInv, Held, NEW a \in Followed, Unseen(a) # {},
         NEW scale, IsScale(scale), SameLocks(scale, a), scale.shown = UpdateIntervals(a)
  PROVE  RankOf(scale, a) + AddTime <= Rank(a)
<1>1. CASE a # "xBottom" \/ ~Rolls
  BY <1>1, RankFallsByReach
<1>2. CASE a = "xBottom" /\ Rolls
  BY <1>2, RankFallsByWindow
<1> QED BY <1>1, <1>2

(* An axis gets a new interval exactly when one of its curves is unseen.   *)
LEMMA WhoIsUpdated ==
  ASSUME Finite, PlotInv, Held, NEW a \in Axes
  PROVE  /\ UpdateIntervals(a) # <<>> => a \in Followed /\ Unseen(a) # {} /\ UpdateIntervals(a) \in Interval
         /\ a \in Followed /\ Unseen(a) # {} => UpdateIntervals(a) # <<>>
<1>1. CASE a = "xTop"
  BY <1>1 DEF UpdateIntervals, Followed
<1>2. CASE a \in {"yLeft", "yRight"}
  BY <1>2, YIntervals DEF Followed, Reaches
<1>3. CASE a = "xBottom" /\ Rolls
  BY <1>3, WindowIntervals DEF Followed
<1>4. CASE a = "xBottom" /\ ~Rolls
  BY <1>4, XIntervals DEF Followed, Reaches
<1> QED BY <1>1, <1>2, <1>3, <1>4 DEF Axes, YAxes, XAxes, Range

-----------------------------------------------------------------------------
(* What the timer does.                                                    *)
TimerRests ==
    /\ \A a \in Axes : UpdateIntervals(a) = <<>>
    /\ axes' = axes /\ curves' = UpdateCurves(curves) /\ quiet' = Settle
TimerWorks ==
    /\ \E a \in Axes : UpdateIntervals(a) # <<>>
    /\ \E scales :
          /\ AreScales(scales)
          /\ \A a \in Axes :
                IF UpdateIntervals(a) # <<>>
                THEN SameLocks(scales[a], a) /\ scales[a].auto = FALSE /\ scales[a].next = UpdateIntervals(a)
                ELSE scales[a] = axes[a]
          /\ axes' = Replotted(scales, curves)
    /\ curves' = UpdateCurves(Drawn(Forgotten(curves)))
    /\ quiet' = Min({quiet + 1, Settle})

LEMMA TimerEventIs ==
  ASSUME Finite, PlotInv, Held, TimerEvent
  PROVE  /\ UNCHANGED <<view, signals, mode, popup>>
         /\ TimerRests \/ TimerWorks
<1> DEFINE wishes == [a \in Axes |-> UpdateIntervals(a)]
           changed == {a \in Axes : wishes[a] # <<>>}
           scales == [a \in Axes |-> IF a \in changed THEN SetScale(axes, a, wishes[a])[a] ELSE axes[a]]
<1>1. /\ axes' = IF changed = {} THEN axes ELSE Replotted(scales, curves)
      /\ curves' = UpdateCurves(IF changed = {} THEN curves ELSE Drawn(Forgotten(curves)))
      /\ quiet' = IF changed = {} THEN Settle ELSE Min({quiet + 1, Settle})
      /\ UNCHANGED <<view, signals, mode, popup>>
  BY DEF TimerEvent
<1>2. \A a \in Axes : wishes[a] = UpdateIntervals(a)
  OBVIOUS
<1> HIDE DEF wishes
<1>3. CASE changed = {}
  <2>1. \A a \in Axes : UpdateIntervals(a) = <<>>
    BY <1>2, <1>3
  <2> QED BY <1>1, <1>3, <2>1 DEF TimerRests
<1>4. CASE changed # {}
  <2>1. \E a \in Axes : UpdateIntervals(a) # <<>>
    BY <1>2, <1>4
  <2>2. ASSUME NEW a \in Axes, UpdateIntervals(a) # <<>>
        PROVE  /\ SameLocks(scales[a], a) /\ scales[a].auto = FALSE /\ scales[a].next = UpdateIntervals(a)
               /\ DOMAIN scales[a] = AxisFields /\ IsScale(scales[a])
    <3>1. scales[a] = SetScale(axes, a, wishes[a])[a]
      BY <1>2, <2>2
    <3>2. wishes[a] \in Interval /\ AreScales(axes)
      BY <1>2, <2>2, WhoIsUpdated DEF Held
    <3>3. AreScales(SetScale(axes, a, wishes[a]))
      BY <3>2, SetScaleIs
    <3>4. DOMAIN axes = Axes /\ DOMAIN axes[a] = AxisFields
      BY <3>2 DEF AreScales, AreAxes
    <3>5. SetScale(axes, a, wishes[a])[a] = [axes[a] EXCEPT !.next = wishes[a], !.auto = FALSE]
      BY <3>4 DEF SetScale, AxisFields
    <3>6. SetScale(axes, a, wishes[a])[a].next = wishes[a] /\ SetScale(axes, a, wishes[a])[a].auto = FALSE
          /\ SameLocks(SetScale(axes, a, wishes[a])[a], a)
      BY <3>4, <3>5 DEF AxisFields, SameLocks
    <3> HIDE DEF scales
    <3> QED BY <3>1, <3>3, <3>6, <1>2 DEF AreScales, AreAxes
  <2>3. ASSUME NEW a \in Axes, UpdateIntervals(a) = <<>>
        PROVE  scales[a] = axes[a] /\ DOMAIN scales[a] = AxisFields /\ IsScale(scales[a])
    <3>1. scales[a] = axes[a]
      BY <1>2, <2>3
    <3> HIDE DEF scales
    <3> QED BY <3>1 DEF Held, AreScales, AreAxes
  <2>4. DOMAIN scales = Axes
    OBVIOUS
  <2> HIDE DEF scales
  <2>5. AreScales(scales)
    BY <2>2, <2>3, <2>4 DEF AreScales, AreAxes
  <2>6. axes' = Replotted(scales, curves) /\ quiet' = Min({quiet + 1, Settle})
        /\ curves' = UpdateCurves(Drawn(Forgotten(curves)))
    BY <1>1, <1>4
  <2>7. \A a \in Axes :
           IF UpdateIntervals(a) # <<>>
           THEN SameLocks(scales[a], a) /\ scales[a].auto = FALSE /\ scales[a].next = UpdateIntervals(a)
           ELSE scales[a] = axes[a]
    BY <2>2, <2>3
  <2>8. TimerWorks
    BY ONLY <2>1, <2>5, <2>6, <2>7 DEF TimerWorks
  <2> QED BY <1>1, <2>8
<1> QED BY <1>3, <1>4

LEMMA SameCurves ==
  ASSUME NEW f, NEW g, StayPlaced(f, g), NEW sigs, NEW m, NEW scale, NEW a
  PROVE  /\ UnseenIn(sigs, m, scale, g, a) = UnseenIn(sigs, m, scale, f, a)
         /\ HullIn(sigs, g, a) = HullIn(sigs, f, a)
<1>1. DOMAIN g = DOMAIN f /\ \A id \in DOMAIN f : g[id].data = f[id].data /\ g[id].x = f[id].x /\ g[id].y = f[id].y
  BY DEF StayPlaced
<1>2. UnseenIn(sigs, m, scale, g, a) = UnseenIn(sigs, m, scale, f, a)
  <2>1. \A id \in DOMAIN f : Misses(sigs, m, scale, g[id], a) <=> Misses(sigs, m, scale, f[id], a)
    BY <1>1 DEF Misses
  <2> QED BY <1>1, <2>1 DEF UnseenIn
<1>3. {RectIn(sigs, g[id].data) : id \in {i \in DOMAIN g : g[i].x = a}}
      = {RectIn(sigs, f[id].data) : id \in {i \in DOMAIN f : f[i].x = a}}
  BY <1>1
<1>4. HullIn(sigs, g, a) = HullIn(sigs, f, a)
  BY <1>3 DEF HullIn
<1> QED BY <1>2, <1>4

LEMMA SameLook ==
  ASSUME NEW q, NEW r, q.lower = r.lower, q.upper = r.upper, q.shown = r.shown,
         NEW sigs, NEW m, NEW f, NEW a
  PROVE  UnseenIn(sigs, m, q, f, a) = UnseenIn(sigs, m, r, f, a)
<1>1. \A c : Misses(sigs, m, q, c, a) <=> Misses(sigs, m, r, c, a)
  BY DEF Misses, MissesX, MissesY, OutOf
<1> QED BY <1>1 DEF UnseenIn

LEMMA RankLater ==
  ASSUME UNCHANGED <<view, signals, mode>>, StayPlaced(curves, curves'), PlotInv, Finite, NEW a
  PROVE  Rank(a)' = RankOf(axes'[a], a) /\ Unseen(a)' = UnseenIn(signals, mode, axes'[a], curves, a)
<1> DEFINE U == UnseenIn(signals, mode, axes'[a], curves, a)
<1>1. UnseenIn(signals', mode', axes'[a], curves', a) = U
  BY SameCurves
<1>2. U # {} => Max(U) \in DOMAIN curves
  BY UnseenAre
<1>3. U # {} => RectIn(signals', curves'[Max(U)].data).right = Right(Max(U))
  <2>1. \A id \in DOMAIN curves : curves'[id].data = curves[id].data
    BY DEF StayPlaced
  <2> QED BY <1>2, <2>1 DEF Right
<1>4. Unseen(a)' = U
  BY <1>1 DEF Unseen
<1>5. Rank(a)' = RankOf(axes'[a], a)
  BY <1>1, <1>3 DEF Rank, RankOf, Rolls, Right, Most, Pace
<1> QED BY <1>4, <1>5

-----------------------------------------------------------------------------
(* The timer is done in time: after the first of its events every axis     *)
(* shows what its engine made of what it was asked for, and each later     *)
(* event brings every linear axis that is not done yet closer to the end,  *)
(* even if it is the logarithmic ones that keep the timer at work.         *)
Shows(a) == Divided(axes[a].log, Wanted(signals, axes, curves, a))
Clean == \A a \in Axes : Shows(a) = axes[a].shown
Still == \A a \in Followed : Unseen(a) = {}
InTime == \A a \in Followed : axes[a].log \/ quiet * AddTime + Rank(a) <= Settle * AddTime
TimerInv ==
    /\ quiet \in 0 .. Settle
    /\ quiet # 0 => AllDrawn(signals, curves) /\ (Still \/ (Clean /\ InTime))

Enough == Settle \in Nat /\ Settle * AddTime >= Most + AddTime

LEMMA Least ==
  ASSUME NEW n \in Int, NEW m \in Int, n <= m
  PROVE  Min({n, m}) = n
<1>1. IsFiniteSet({n, m}) /\ {n, m} \subseteq Int /\ {n, m} # {}
  <2>1. IsFiniteSet({n}) /\ {n, m} = {n} \cup {m}
    BY FS_Singleton
  <2> QED BY <2>1, FS_AddElement
<1>2. Min({n, m}) \in {n, m} /\ \A k \in {n, m} : Min({n, m}) <= k
  BY <1>1, MinIs
<1>3. Min({n, m}) <= n /\ (Min({n, m}) = n \/ Min({n, m}) = m)
  BY <1>2
<1> QED BY <1>3

LEMMA AxesAfterWork ==
  ASSUME Finite, PlotInv, Held, TimerWorks, signals' = signals, StayPlaced(curves, curves')
  PROVE  /\ AreScales(axes)' /\ Clean'
         /\ \A a \in Axes :
              /\ SameLocks(axes'[a], a) /\ IsScale(axes'[a])
              /\ UpdateIntervals(a) # <<>> /\ ~axes[a].log => axes'[a].shown = UpdateIntervals(a)
              /\ UpdateIntervals(a) = <<>> => axes'[a].shown = Shows(a)
<1>1. PICK scales :
        /\ AreScales(scales)
        /\ \A a \in Axes :
              IF UpdateIntervals(a) # <<>>
              THEN SameLocks(scales[a], a) /\ scales[a].auto = FALSE /\ scales[a].next = UpdateIntervals(a)
              ELSE scales[a] = axes[a]
        /\ axes' = Replotted(scales, curves)
  BY DEF TimerWorks
<1>2. AreScales(axes)'
  <2>1. AreScales(Replotted(scales, curves))
    BY <1>1, CurvesArePlaced, ReplottedIs DEF Held
  <2> QED BY <1>1, <2>1 DEF AreScales, AreAxes
<1>3. ASSUME NEW a \in Axes
      PROVE  /\ axes'[a].next = Wanted(signals, scales, curves, a)
             /\ axes'[a].shown = Divided(scales[a].log, Wanted(signals, scales, curves, a))
             /\ axes'[a].log = scales[a].log /\ axes'[a].auto = scales[a].auto
             /\ axes'[a].lower = scales[a].lower /\ axes'[a].upper = scales[a].upper
  BY <1>1, ReplottedOf DEF AreScales
<1>4. ASSUME NEW a \in Axes
      PROVE  Shows(a)' = axes'[a].shown
  <2>1. HullIn(signals', curves', a) = HullIn(signals, curves, a)
    BY SameCurves
  <2>2. Wanted(signals, axes, curves, a)' =
          IF axes'[a].auto /\ HullIn(signals, curves, a) # <<>> THEN HullIn(signals, curves, a) ELSE axes'[a].next
    BY <2>1 DEF Wanted
  <2>3. Wanted(signals, axes, curves, a)' = Wanted(signals, scales, curves, a)
    BY <1>3, <2>2 DEF Wanted
  <2> QED BY <1>3, <2>3 DEF Shows
<1>5. ASSUME NEW a \in Axes
      PROVE  /\ SameLocks(axes'[a], a) /\ IsScale(axes'[a])
             /\ UpdateIntervals(a) # <<>> /\ ~axes[a].log => axes'[a].shown = UpdateIntervals(a)
             /\ UpdateIntervals(a) = <<>> => axes'[a].shown = Shows(a)
  <2>1. IsScale(axes'[a])
    BY <1>2 DEF AreScales
  <2>2. CASE UpdateIntervals(a) # <<>>
    <3>1. SameLocks(scales[a], a) /\ scales[a].auto = FALSE /\ scales[a].next = UpdateIntervals(a)
          /\ UpdateIntervals(a) \in Interval
      BY <1>1, <2>2, WhoIsUpdated
    <3>2. Wanted(signals, scales, curves, a) = UpdateIntervals(a)
      BY <3>1 DEF Wanted
    <3>3. ~axes[a].log => axes'[a].shown = UpdateIntervals(a)
      BY <1>3, <3>1, <3>2, DividedIs DEF SameLocks
    <3> QED BY <1>3, <2>1, <2>2, <3>1, <3>3 DEF SameLocks
  <2>3. CASE UpdateIntervals(a) = <<>>
    <3>1. scales[a] = axes[a]
      BY <1>1, <2>3
    <3>2. Wanted(signals, scales, curves, a) = Wanted(signals, axes, curves, a)
      BY <3>1 DEF Wanted
    <3> QED BY <1>3, <2>1, <2>3, <3>1, <3>2 DEF SameLocks, Shows
  <2> QED BY <2>2, <2>3
<1>6. Clean'
  BY <1>4 DEF Clean
<1> QED BY <1>2, <1>5, <1>6

LEMMA FollowedAre == Followed \subseteq Axes
BY DEF Followed, Axes, YAxes, XAxes, Range

LEMMA TimerHolds ==
  ASSUME Finite, PlotInv, Held, TimerEvent
  PROVE  Held' /\ AllDrawn(signals', curves') /\ StayPlaced(curves, curves')
<1>1. UNCHANGED <<view, signals, mode, popup>> /\ (TimerRests \/ TimerWorks)
  BY TimerEventIs
<1>2. ArePlaced(curves) /\ HaveFields(curves) /\ AreAxes(axes)
  BY CurvesArePlaced
<1>3. CASE TimerRests
  <2>1. axes' = axes /\ curves' = UpdateCurves(curves)
    BY <1>3 DEF TimerRests
  <2>2. AllPainted(signals, curves') /\ AllDrawn(signals, curves')
    BY <1>2, <2>1, UpdatedPaints DEF Held
  <2>3. StayPlaced(curves, curves')
    BY <1>2, <2>1, UpdatedStay
  <2> QED BY <1>1, <2>1, <2>2, <2>3 DEF Held, AreSignals, AreScales, AreAxes, IsPopup
<1>4. CASE TimerWorks
  <2> DEFINE repainted == Drawn(Forgotten(curves))
  <2>1. curves' = UpdateCurves(repainted)
    BY <1>4 DEF TimerWorks
  <2>2. StayPlaced(curves, repainted)
    BY <1>2, RepaintedStay
  <2>3. AllPainted(signals, repainted)
    BY <1>2, RepaintedPaints DEF Held
  <2>4. ArePlaced(repainted) /\ HaveFields(repainted)
    BY <1>2, <2>2, StaysPlaced
  <2> HIDE DEF repainted
  <2>5. AllPainted(signals, curves') /\ AllDrawn(signals, curves')
    BY <2>1, <2>3, <2>4, UpdatedPaints DEF Held
  <2>6. StayPlaced(curves, curves')
    BY <2>1, <2>2, <2>4, UpdatedStay, StayPlacedTwice
  <2>7. AreScales(axes)'
    BY <1>1, <1>4, <2>6, AxesAfterWork
  <2> QED BY <1>1, <2>5, <2>6, <2>7 DEF Held, AreSignals, IsPopup
<1> QED BY <1>1, <1>3, <1>4

(* A rank of the axis after the event.                                     *)
LEMMA RankAfter ==
  ASSUME Finite, PlotInv, Held, TimerEvent, TimerWorks, NEW a \in Followed
  PROVE  /\ Rank(a)' \in Nat /\ Rank(a)' <= Most
         /\ Unseen(a) # {} /\ ~axes[a].log => Rank(a)' + AddTime <= Rank(a)
         /\ Unseen(a) = {} /\ Clean => Rank(a)' = 0
         /\ axes'[a].log = axes[a].log
<1>1. UNCHANGED <<view, signals, mode>> /\ StayPlaced(curves, curves') /\ a \in Axes
  BY TimerEventIs, TimerHolds, FollowedAre
<1>2. /\ SameLocks(axes'[a], a) /\ IsScale(axes'[a])
      /\ UpdateIntervals(a) # <<>> /\ ~axes[a].log => axes'[a].shown = UpdateIntervals(a)
      /\ UpdateIntervals(a) = <<>> => axes'[a].shown = Shows(a)
  BY <1>1, AxesAfterWork
<1>3. Rank(a)' = RankOf(axes'[a], a)
  BY <1>1, RankLater
<1>4. Rank(a)' \in Nat /\ Rank(a)' <= Most
  BY <1>2, <1>3, RankBounds
<1>5. ASSUME Unseen(a) # {}, ~axes[a].log
      PROVE  Rank(a)' + AddTime <= Rank(a)
  <2>1. axes'[a].shown = UpdateIntervals(a)
    BY <1>1, <1>2, <1>5, WhoIsUpdated
  <2> QED BY <1>2, <1>3, <1>5, <2>1, RankFalls
<1>6. ASSUME Unseen(a) = {}, Clean
      PROVE  Rank(a)' = 0
  <2>1. axes'[a].shown = axes[a].shown
    BY <1>1, <1>2, <1>6, WhoIsUpdated DEF Clean
  <2>2. UnseenIn(signals, mode, axes'[a], curves, a) = {}
    BY <1>2, <1>6, <2>1, SameLook DEF SameLocks, Unseen
  <2> QED BY <1>2, <1>3, <2>2, RankIs
<1> QED BY <1>2, <1>4, <1>5, <1>6 DEF SameLocks

LEMMA WorkTakesTime ==
  ASSUME Finite, Enough, PlotInv, Held, TimerInv, TimerEvent, TimerWorks
  PROVE  TimerInv'
<1>1. AllDrawn(signals, curves)' /\ Clean'
  <2>1. signals' = signals /\ StayPlaced(curves, curves') /\ AllDrawn(signals', curves')
    BY TimerEventIs, TimerHolds
  <2>2. Clean'
    BY <2>1, AxesAfterWork
  <2> QED BY <2>1, <2>2
<1>2. AddTime \in Nat /\ AddTime > 0 /\ Settle \in Nat /\ Most \in Nat /\ Settle * AddTime \in Nat
      /\ Settle * AddTime >= Most + AddTime
  <2>1. Most \in Nat
    <3>1. "xTop" \in Axes /\ "yLeft" \in Axes /\ "yLeft" \in Followed
      BY DEF Axes, YAxes, XAxes, Range, Followed
    <3> QED BY <3>1, RankBounds DEF Held, AreScales
  <2> QED BY <2>1, PaceIs, Multiples DEF Enough
<1>3. PICK b \in Followed : Unseen(b) # {}
  <2>1. PICK a \in Axes : UpdateIntervals(a) # <<>>
    BY DEF TimerWorks
  <2> QED BY <2>1, WhoIsUpdated
<1>4. \A a \in Followed : Rank(a) \in Nat /\ Rank(a)' \in Nat /\ Rank(a)' <= Most
  <2>1. ASSUME NEW a \in Followed
        PROVE  Rank(a) \in Nat /\ Rank(a)' \in Nat /\ Rank(a)' <= Most
    <3>1. a \in Axes /\ IsScale(axes[a])
      BY FollowedAre DEF Held, AreScales
    <3>2. Rank(a) \in Nat
      BY <3>1, RankBounds DEF Rank
    <3> QED BY <3>2, RankAfter
  <2> QED BY <2>1
<1>5. quiet' = Min({quiet + 1, Settle})
  BY DEF TimerWorks
<1>6. quiet \in Nat /\ quiet <= Settle
  BY <1>2 DEF TimerInv
<1>7. CASE quiet = 0
  <2>1. Settle >= 1
    <3>1. CASE Settle = 0
      <4>1. 0 * AddTime = 0
        BY <1>2
      <4> QED BY <4>1, <1>2, <3>1
    <3> QED BY <3>1, <1>2
  <2>2. quiet' = 1
    BY <2>1, <1>2, <1>5, <1>7, Least
  <2>3. ASSUME NEW a \in Followed
        PROVE  1 * AddTime + Rank(a)' <= Settle * AddTime
    <3>1. Rank(a)' \in Nat /\ Rank(a)' <= Most /\ 1 * AddTime = AddTime
      BY <1>2, <1>4
    <3> QED BY <3>1, <1>2
  <2>4. InTime'
    BY <2>2, <2>3 DEF InTime
  <2> QED BY <1>1, <1>2, <2>1, <2>2, <2>4 DEF TimerInv
<1>8. CASE quiet # 0
  <2>1. Clean /\ InTime
    BY <1>3, <1>8 DEF TimerInv, Still
  <2>2. \A a \in Followed : axes'[a].log = axes[a].log
    BY RankAfter
  <2>3. CASE \E a \in Followed : Unseen(a) # {} /\ ~axes[a].log
    <3> PICK c \in Followed : Unseen(c) # {} /\ ~axes[c].log
      BY <2>3
    <3>1. Rank(c) \in Nat /\ Rank(c) >= AddTime /\ quiet * AddTime + Rank(c) <= Settle * AddTime
      <4>1. c \in Axes /\ IsScale(axes[c])
        BY FollowedAre DEF Held, AreScales
      <4>2. Rank(c) >= AddTime
        BY <4>1, RankBounds DEF Rank, Unseen
      <4> QED BY <1>4, <2>1, <4>2 DEF InTime
    <3>2. quiet + 1 <= Settle
      <4>1. CASE quiet = Settle
        BY <4>1, <3>1, <1>2
      <4> QED BY <4>1, <1>2, <1>6
    <3>3. quiet' = quiet + 1
      BY <3>2, <1>2, <1>5, <1>6, Least
    <3>4. (quiet + 1) * AddTime = quiet * AddTime + AddTime /\ quiet * AddTime \in Nat
          /\ (quiet + 1) * AddTime <= Settle * AddTime
      <4>1. (quiet + 1) * AddTime = quiet * AddTime + AddTime /\ quiet * AddTime \in Nat
        BY <1>2, <1>6, Multiples
      <4>2. AddTime * (quiet + 1) <= AddTime * Settle
        BY <1>2, <1>6, <3>2, Multiples
      <4>3. AddTime * (quiet + 1) = (quiet + 1) * AddTime /\ AddTime * Settle = Settle * AddTime
        BY <1>2, <1>6
      <4> QED BY <4>1, <4>2, <4>3
    <3>5. ASSUME NEW a \in Followed, ~axes[a].log
          PROVE  (quiet + 1) * AddTime + Rank(a)' <= Settle * AddTime
      <4>1. CASE Unseen(a) # {}
        <5>1. Rank(a)' + AddTime <= Rank(a) /\ quiet * AddTime + Rank(a) <= Settle * AddTime
          BY <2>1, <3>5, <4>1, RankAfter DEF InTime
        <5>2. Rank(a) \in Nat /\ Rank(a)' \in Nat
          BY <1>4
        <5> QED BY <5>1, <5>2, <3>4, <1>2
      <4>2. CASE Unseen(a) = {}
        <5>1. Rank(a)' = 0
          BY <2>1, <4>2, RankAfter
        <5> QED BY <5>1, <3>4, <1>2
      <4> QED BY <4>1, <4>2
    <3>6. InTime'
      BY <2>2, <3>3, <3>5 DEF InTime
    <3> QED BY <1>1, <1>2, <1>6, <3>2, <3>3, <3>6 DEF TimerInv
  <2>4. CASE \A a \in Followed : axes[a].log \/ Unseen(a) = {}
    <3>1. quiet' \in 0 .. Settle
      <4>1. CASE quiet + 1 <= Settle
        <5>1. quiet' = quiet + 1
          BY <4>1, <1>2, <1>5, <1>6, Least
        <5> QED BY <4>1, <5>1, <1>2, <1>6
      <4>2. CASE ~(quiet + 1 <= Settle)
        <5>1. {quiet + 1, Settle} = {Settle, quiet + 1} /\ Settle <= quiet + 1
          BY <4>2, <1>2, <1>6
        <5>2. quiet' = Settle
          BY <5>1, <1>2, <1>5, <1>6, Least
        <5> QED BY <5>2, <1>2
      <4> QED BY <4>1, <4>2
    <3>2. quiet' * AddTime <= Settle * AddTime /\ quiet' * AddTime \in Nat
      <4>1. quiet' \in Nat /\ quiet' <= Settle
        BY <3>1, <1>2
      <4>2. ASSUME NEW n \in Nat, n <= Settle
            PROVE  n * AddTime <= Settle * AddTime /\ n * AddTime \in Nat
        <5>1. AddTime * n <= AddTime * Settle /\ AddTime * n \in Nat
          BY <4>2, <1>2, Multiples
        <5> QED BY <5>1, <1>2
      <4> QED BY <4>1, <4>2
    <3>3. ASSUME NEW a \in Followed, ~axes[a].log
          PROVE  quiet' * AddTime + Rank(a)' <= Settle * AddTime
      <4>1. Rank(a)' = 0
        BY <2>1, <2>4, <3>3, RankAfter
      <4> QED BY <4>1, <3>2, <1>2
    <3>4. InTime'
      BY <2>2, <3>3 DEF InTime
    <3> QED BY <1>1, <3>1, <3>4 DEF TimerInv
  <2> QED BY <2>3, <2>4
<1> QED BY <1>7, <1>8

LEMMA RestIsStill ==
  ASSUME Finite, Enough, PlotInv, Held, TimerEvent, TimerRests
  PROVE  TimerInv'
<1>1. UNCHANGED <<view, signals, mode, axes>> /\ StayPlaced(curves, curves') /\ AllDrawn(signals', curves')
      /\ quiet' = Settle
  BY TimerEventIs, TimerHolds DEF TimerRests
<1>2. ASSUME NEW a \in Followed
      PROVE  Unseen(a)' = {}
  <2>1. Unseen(a) = {}
    BY FollowedAre, WhoIsUpdated DEF TimerRests
  <2> QED BY <1>1, <2>1, RankLater DEF Unseen
<1> QED BY <1>1, <1>2 DEF TimerInv, Still, Enough

ShowInv == PlotInv /\ Held /\ TimerInv

LEMMA ShowStep == Finite /\ Enough /\ ShowInv /\ [Next]_vars => ShowInv'
<1> SUFFICES ASSUME Finite, Enough, ShowInv, [Next]_vars
             PROVE  ShowInv'
  OBVIOUS
<1>1. PlotInv /\ Held /\ TimerInv /\ PlotInv'
  BY PlotStep DEF ShowInv
<1>2. CASE Others /\ quiet' = 0
  <2>1. Held'
    BY <1>1, <1>2, OthersHold
  <2>2. TimerInv'
    BY <1>2 DEF TimerInv, Enough
  <2> QED BY <1>1, <2>1, <2>2 DEF ShowInv
<1>3. CASE TimerEvent
  <2>1. Held' /\ (TimerRests \/ TimerWorks)
    BY <1>1, <1>3, TimerEventIs, TimerHolds
  <2>2. TimerInv'
    BY <1>1, <1>3, <2>1, WorkTakesTime, RestIsStill
  <2> QED BY <1>1, <2>1, <2>2 DEF ShowInv
<1>4. CASE UNCHANGED vars
  <2>1. UNCHANGED <<view, signals, curves, axes, mode, popup, quiet>>
    BY <1>4 DEF vars
  <2>2. Held'
    BY <1>1, <2>1 DEF Held, AreSignals, AreScales, AreAxes, IsPopup
  <2>3. StayPlaced(curves, curves')
    BY <1>1, <2>1, CurvesArePlaced DEF StayPlaced, HaveFields
  <2>4. \A a : Rank(a)' = Rank(a) /\ Unseen(a)' = Unseen(a)
    BY <1>1, <2>1, <2>3, RankLater DEF Rank, Unseen
  <2>5. Clean' <=> Clean
    BY <2>1 DEF Clean, Shows, Wanted
  <2>6. (Still' <=> Still) /\ (InTime' <=> InTime)
    BY <2>1, <2>4 DEF Still, InTime
  <2>7. TimerInv'
    BY <1>1, <2>1, <2>5, <2>6 DEF TimerInv
  <2> QED BY <1>1, <2>2, <2>7 DEF ShowInv
<1> QED BY <1>2, <1>3, <1>4 DEF Next

LEMMA ShowInit == Enough /\ Init => ShowInv
BY PlotInit, InitHolds DEF ShowInv, TimerInv, Enough

LEMMA StillIsShown == Finite /\ Enough /\ ShowInv => EverythingIsShown
<1> SUFFICES ASSUME Finite, Enough, ShowInv, quiet = Settle, NEW id \in DOMAIN curves
             PROVE  Fits(curves[id])
  BY DEF EverythingIsShown
<1> DEFINE c == curves[id]
           rect == RectIn(signals, c.data)
<1>1. PlotInv /\ Held /\ TimerInv
  BY DEF ShowInv
<1>2. AddTime \in Nat /\ AddTime > 0 /\ Settle \in Nat /\ Settle * AddTime \in Nat
      /\ Settle * AddTime >= Most + AddTime
  BY PaceIs, Multiples DEF Enough
<1>3. \A a \in Followed : Rank(a) \in Nat /\ Most \in Nat /\ (Unseen(a) # {} => Rank(a) >= AddTime)
  <2>1. ASSUME NEW a \in Followed
        PROVE  Rank(a) \in Nat /\ Most \in Nat /\ (Unseen(a) # {} => Rank(a) >= AddTime)
    <3>1. IsScale(axes[a])
      BY <1>1, FollowedAre DEF Held, AreScales
    <3> QED BY <1>1, <3>1, RankBounds DEF Rank, Unseen
  <2> QED BY <2>1
<1>4. Settle # 0
  <2>1. ASSUME Settle = 0
        PROVE  FALSE
    <3>1. Settle * AddTime = 0 /\ Most \in Nat
      BY <1>2, <1>3, <2>1 DEF Followed
    <3> QED BY <3>1, <1>2
  <2> QED BY <2>1
<1>5. \A a \in Followed : axes[a].log \/ Unseen(a) = {}
  <2>1. CASE InTime
    <3>1. ASSUME NEW a \in Followed, Unseen(a) # {}, ~axes[a].log
          PROVE  FALSE
      <4>1. Settle * AddTime + Rank(a) <= Settle * AddTime
        BY <2>1, <3>1 DEF InTime
      <4> QED BY <4>1, <1>2, <1>3, <3>1
    <3> QED BY <3>1
  <2> QED BY <1>1, <1>4, <2>1 DEF TimerInv, Still
<1>6. IsDrawn(signals, c)
  BY <1>1, <1>4 DEF TimerInv, AllDrawn
<1>7. BoundingRect(c.data) = rect /\ Size(c) = SizeIn(signals, c.data)
  BY RectIs, SizeIs
<1>8. c.data \in CurveData /\ c.x \in {"xBottom", "xTop"} /\ c.y \in {"yLeft", "yRight"}
  BY <1>1, CurvesArePlaced DEF ArePlaced, IsPlaced
<1>9. rect.left \in Int /\ rect.right \in Int /\ rect.bottom \in Int /\ rect.top \in Int
  BY <1>1, <1>8, RectIsInt DEF Held
<1>10. \A a \in Followed : axes[a].log \/ ~Misses(signals, mode, axes[a], c, a)
  BY <1>5 DEF Unseen, UnseenIn
<1>11. \A a \in Followed : axes[a].shown[1] \in Int /\ axes[a].shown[2] \in Int
  BY <1>1, FollowedAre, IntervalIs DEF Held, AreScales, IsScale
<1> HIDE DEF c, rect
<1>12. Covers(c.y, rect.bottom, rect.top)
  <2>1. c.y \in Followed /\ c.y # "xBottom"
    BY <1>8 DEF Followed
  <2>2. axes[c.y].log \/ ~MissesY(signals, axes[c.y], c.data)
    BY <1>10, <2>1 DEF Misses
  <2> QED BY <1>9, <1>11, <2>1, <2>2 DEF MissesY, OutOf, Covers, rect
<1>13. IF c.data.type = "XYCurve" \/ mode = "Additive"
       THEN Covers("xBottom", rect.left, rect.right)
       ELSE ReachesLast("xBottom", rect.right)
  <2>1. "xBottom" \in Followed /\ (axes["xBottom"].log \/ ~MissesX(signals, mode, axes["xBottom"], c.data))
    BY <1>10 DEF Misses, Followed
  <2>2. c.data.type \in {"TimeCurve", "XYCurve"}
    BY <1>8, TypesAre
  <2>3. CASE c.data.type = "XYCurve" \/ mode = "Additive"
    BY <1>9, <1>11, <2>1, <2>2, <2>3 DEF MissesX, OutOf, Covers, rect
  <2>4. CASE ~(c.data.type = "XYCurve" \/ mode = "Additive")
    BY <1>9, <1>11, <2>1, <2>2, <2>4 DEF MissesX, ReachesLast, rect
  <2> QED BY <2>3, <2>4
<1>14. (\A s \in {c.data.x, c.data.y} : signals[s].cleared = 0) => c.drawn = Size(c)
  BY <1>6, <1>7 DEF IsDrawn, UnclearedIn
<1>15. Fits(c)
  BY <1>7, <1>12, <1>13, <1>14 DEF Fits
<1> QED BY <1>15 DEF c

(* However the curves on a linear axis take its interval from each other,  *)
(* the plot timer gets all of them into it and paints every sample, in at  *)
(* most (TimeSpan + 2 AddTime) / AddTime events for each curve there can   *)
(* be and as many again, and one more: each event of Plot::on_update()     *)
(* leaves one curve less outside, or moves a rolling window closer to its  *)
(* last sample.  Logarithmic axes of the plot that never settle do not     *)
(* hold it up; of them the property says nothing.                          *)
THEOREM TheTimerShowsEverything ==
  ASSUME IsFiniteSet(Signals), IsFiniteSet(CurveIds), Settle \in Nat,
         Settle * AddTime >= (TimeSpan + 2 * AddTime) * (Cardinality(CurveIds) + 1) + AddTime
  PROVE  Spec => []EverythingIsShown
<1>1. Finite /\ Enough
  BY DEF Finite, Enough, Most, Pace
<1>2. Init => ShowInv
  BY <1>1, ShowInit
<1>3. ShowInv /\ [Next]_vars => ShowInv'
  BY <1>1, ShowStep
<1>4. ShowInv => EverythingIsShown
  BY <1>1, StillIsShown
<1> QED BY <1>2, <1>3, <1>4, PTL DEF Spec
=============================================================================
