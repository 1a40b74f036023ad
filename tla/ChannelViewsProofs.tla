------------------------- MODULE ChannelViewsProofs -------------------------
(***************************************************************************)
(* Proofs about a channel and its watchers, for every set of quantities    *)
(* and every number of pushes and of signals added by scripts: the samples *)
(* are routed to the signals of their quantity, the value panel shows the  *)
(* actual signal and the device tree all of them when their events are     *)
(* handled, and the boxes of a form show what is chosen with them.         *)
(***************************************************************************)
EXTENDS ChannelViews, WellFoundedInduction, TLAPS

-----------------------------------------------------------------------------
(* The first signal of a quantity                                          *)

(* A set of natural numbers that is not empty has a least element.         *)
LEMMA NatMin ==
  ASSUME NEW S \in SUBSET Nat, S # {}
  PROVE  \E m \in S : \A k \in S : m <= k
<1>1. PICK R : /\ IsWellFoundedOn(R, Nat)
               /\ \A k, m \in Nat : k < m => <<k, m>> \in R
  <2>1. \A k, m \in Nat : k < m => <<k, m>> \in OpToRel(<, Nat)
    BY SMT DEF OpToRel
  <2> QED BY <2>1, NatLessThanWellFounded, Zenon
<1>2. PICK m \in S : \A k \in S : ~ (<<k, m>> \in R)
  <2>1. S \subseteq Nat
    OBVIOUS
  <2>2. IsWellFoundedOn(R, Nat)
    BY <1>1
  <2> QED BY ONLY <2>1, <2>2, S # {}, WFMin
<1>3. ASSUME NEW k \in S, ~(m <= k)
      PROVE  FALSE
  <2>1. k \in Nat /\ m \in Nat /\ k < m
    BY <1>3
  <2> QED BY <1>1, <1>2, <2>1
<1> QED BY <1>3

(* What HardwareChannel looks for when it knows that there is one.         *)
LEMMA FirstSignalMissing ==
  ASSUME NEW q, ~Exists(q), signals \in Seq(Quantities)
  PROVE  FirstSignal(q) = 0
<1>1. {i \in 1..Len(signals) : signals[i] = q} = {}
  BY DEF Exists
<1> QED BY ONLY <1>1 DEF FirstSignal, SelectInSeq

LEMMA FirstSignalFound ==
  ASSUME NEW q, Exists(q), signals \in Seq(Quantities)
  PROVE  FirstSignal(q) \in DOMAIN signals /\ signals[FirstSignal(q)] = q
<1> DEFINE I == {i \in 1..Len(signals) : signals[i] = q}
<1>1. I \in SUBSET Nat /\ I # {}
  BY DEF Exists
<1>2. \E m \in I : \A k \in I : m <= k
  BY ONLY <1>1, NatMin
<1>3. FirstSignal(q) = Min(I)
  BY ONLY <1>1 DEF FirstSignal, SelectInSeq
<1>4. Min(I) \in I
  BY ONLY <1>2 DEF Min
<1> QED BY <1>3, <1>4

-----------------------------------------------------------------------------
(* The channel and its panel                                               *)

ChannelTypes ==
  /\ user \in BOOLEAN
  /\ signals \in Seq(Quantities)
  /\ actual \in 0..Len(signals)
  /\ pusher \in {"idle", "add", "switch", "store"}
  /\ pushing \in Quantities
  /\ stored \in Seq([of : Quantities, into : Nat])
  /\ scripted \in Nat /\ events \in Nat
  /\ panel \in {"none", "reading", "connected"}
  /\ announced \in BOOLEAN

(* The decision made when a push starts is still right when it is acted    *)
(* on, as long as nobody else changes the channel.                         *)
RoutingInv ==
  ~user /\ scripted = 0 =>
    /\ pusher = "store" => Matches(pushing)
    /\ pusher = "switch" => Exists(pushing)
    /\ \A i \in DOMAIN stored : /\ stored[i].into \in DOMAIN signals
                                /\ signals[stored[i].into] = stored[i].of

(* Every change of the actual signal is announced, in the same breath.     *)
PanelInv ==
  /\ panel # "connected" => ~announced
  /\ panel = "connected" /\ announced /\ events = 0 => shown = actual

ChannelInv == ChannelTypes /\ RoutingInv /\ PanelInv

LEMMA ChannelInit ==
  ASSUME Init
  PROVE  ChannelInv
<1>1. ChannelTypes
  <2>1. signals \in Seq(Quantities) /\ Len(signals) = 0
    BY DEF Init
  <2>2. stored \in Seq([of : Quantities, into : Nat])
    BY DEF Init
  <2>3. user \in BOOLEAN /\ announced \in BOOLEAN
    BY Zenon DEF Init
  <2>4. /\ actual = 0 /\ scripted = 0 /\ events = 0 /\ panel = "none" /\ pusher = "idle"
        /\ pushing \in Quantities
    BY DEF Init, NoSignal
  <2> QED BY ONLY <2>1, <2>2, <2>3, <2>4 DEF ChannelTypes
<1>2. RoutingInv
  BY DEF Init, RoutingInv
<1>3. PanelInv
  BY DEF Init, PanelInv
<1> QED BY <1>1, <1>2, <1>3 DEF ChannelInv

(* A signal keeps its number and its quantity when another one is added.   *)
LEMMA SignalsAreKept ==
  ASSUME ChannelTypes, NEW q \in Quantities, signals' = Append(signals, q)
  PROVE  /\ signals' \in Seq(Quantities)
         /\ Len(signals') = Len(signals) + 1
         /\ DOMAIN signals' = DOMAIN signals \cup {Len(signals) + 1}
         /\ \A n \in DOMAIN signals : signals'[n] = signals[n]
         /\ signals'[Len(signals) + 1] = q
BY DEF ChannelTypes

LEMMA EmitKeepsPanel ==
  ASSUME ChannelTypes, PanelInv, Emit, UNCHANGED panelVars
  PROVE  PanelInv' /\ events' \in Nat /\ announced' \in BOOLEAN
<1>1. panel' = panel /\ events \in Nat
  BY DEF panelVars, ChannelTypes
<1>2. CASE panel = "connected"
  <2>1. events' = events + 1 /\ announced' = TRUE
    BY <1>2 DEF Emit
  <2>2. events' \in Nat /\ events' # 0
    BY <1>1, <2>1
  <2> QED BY <1>1, <1>2, <2>1, <2>2 DEF PanelInv
<1>3. CASE panel # "connected"
  BY <1>1, <1>3 DEF Emit, PanelInv, ChannelTypes
<1> QED BY <1>2, <1>3

LEMMA ChannelStep ==
  ASSUME ChannelInv, [Next]_vars
  PROVE  ChannelInv'
<1> USE DEF ChannelInv, NoSignal
<1>1. CASE StartPush
  <2>1. ChannelTypes' /\ PanelInv'
    BY <1>1 DEF StartPush, ChannelTypes, PanelInv, panelVars
  <2>2. RoutingInv'
    BY <1>1 DEF StartPush, RoutingInv, Matches, Exists, panelVars, ChannelTypes
  <2> QED BY <2>1, <2>2
<1>2. CASE AddSignal
  <2>1. /\ signals' \in Seq(Quantities)
        /\ Len(signals') = Len(signals) + 1
        /\ DOMAIN signals' = DOMAIN signals \cup {Len(signals) + 1}
        /\ \A n \in DOMAIN signals : signals'[n] = signals[n]
        /\ signals'[Len(signals) + 1] = pushing
    BY <1>2, SignalsAreKept DEF AddSignal, ChannelTypes
  <2>2. PanelInv' /\ events' \in Nat /\ announced' \in BOOLEAN
    BY <1>2, EmitKeepsPanel DEF AddSignal
  <2>3. ChannelTypes'
    BY <1>2, <2>1, <2>2 DEF AddSignal, ChannelTypes, panelVars
  <2>4. RoutingInv'
    BY <1>2, <2>1 DEF AddSignal, RoutingInv, Exists
  <2> QED BY <2>2, <2>3, <2>4
<1>3. CASE SwitchSignal
  <2>1. PanelInv' /\ events' \in Nat /\ announced' \in BOOLEAN
    BY <1>3, EmitKeepsPanel DEF SwitchSignal
  <2>2. actual' \in 0..Len(signals)
    <3>1. FirstSignal(pushing) \in 0..Len(signals)
      BY FirstSignalFound, FirstSignalMissing DEF ChannelTypes
    <3> QED BY <1>3, <3>1 DEF SwitchSignal, ChannelTypes
  <2>3. ChannelTypes'
    BY <1>3, <2>1, <2>2 DEF SwitchSignal, ChannelTypes, panelVars
  <2>4. RoutingInv'
    BY <1>3, FirstSignalFound DEF SwitchSignal, RoutingInv, Matches, Exists, ChannelTypes
  <2> QED BY <2>1, <2>3, <2>4
<1>4. CASE PushSamples
  <2>1. ChannelTypes' /\ PanelInv'
    BY <1>4 DEF PushSamples, ChannelTypes, PanelInv, panelVars
  <2>2. RoutingInv'
    BY <1>4 DEF PushSamples, RoutingInv, Matches, ChannelTypes
  <2> QED BY <2>1, <2>2
<1>5. CASE ScriptAddsSignal
  <2>1. PICK q \in Quantities : signals' = Append(signals, q)
    BY <1>5 DEF ScriptAddsSignal
  <2>2. /\ signals' \in Seq(Quantities)
        /\ Len(signals') = Len(signals) + 1
    BY <2>1, SignalsAreKept
  <2>3. PanelInv' /\ events' \in Nat /\ announced' \in BOOLEAN
    BY <1>5, EmitKeepsPanel DEF ScriptAddsSignal
  <2>4. ChannelTypes'
    BY <1>5, <2>2, <2>3 DEF ScriptAddsSignal, ChannelTypes, panelVars
  <2>5. RoutingInv'
    BY <1>5 DEF ScriptAddsSignal, RoutingInv, ChannelTypes
  <2> QED BY <2>3, <2>4, <2>5
<1>6. CASE SetChannel \/ ConnectChannel \/ OnSignalChanged
  <2>1. UNCHANGED channelVars
    BY <1>6 DEF SetChannel, ConnectChannel, OnSignalChanged
  <2>2. RoutingInv'
    BY <2>1 DEF channelVars, RoutingInv, Matches, Exists
  <2>3. ChannelTypes'
    <3>1. events' \in Nat
      BY <1>6 DEF SetChannel, ConnectChannel, OnSignalChanged, ChannelTypes
    <3>2. announced' \in BOOLEAN
      BY <1>6, Zenon DEF SetChannel, ConnectChannel, OnSignalChanged, ChannelTypes
    <3>3. panel' \in {"none", "reading", "connected"}
      BY <1>6 DEF SetChannel, ConnectChannel, OnSignalChanged, ChannelTypes
    <3> QED BY <2>1, <3>1, <3>2, <3>3 DEF channelVars, ChannelTypes
  <2>4. PanelInv'
    BY <1>6, <2>1 DEF SetChannel, ConnectChannel, OnSignalChanged, ReadActual, channelVars,
       PanelInv, ChannelTypes
  <2> QED BY <2>2, <2>3, <2>4
<1>7. CASE UNCHANGED vars
  BY <1>7 DEF vars, channelVars, panelVars, ChannelTypes, RoutingInv, PanelInv, Matches, Exists
<1> QED BY <1>1, <1>2, <1>3, <1>4, <1>5, <1>6, <1>7 DEF Next, Pusher, Panel

(* Whoever watches, the channel and the panel take steps of their own.     *)
LEMMA ViewsStepIsStep ==
  ASSUME [ViewsNext]_allVars
  PROVE  [Next]_vars
<1>1. CASE WatchTree
  BY <1>1 DEF WatchTree, TreeNext, ConnectDevice, AddDevice, OnChannelAdded, OnSignalAdded,
     OnDeviceRemoved, Push, Next
<1>2. CASE WatchBoxes
  BY <1>2 DEF WatchBoxes, SelectNext, Select, Meanwhile, Next
<1> QED BY <1>1, <1>2 DEF ViewsNext, WatchPanel, allVars

LEMMA ChannelInvariance == ViewsSpec => []ChannelInv
<1>1. ViewsInit => ChannelInv
  BY ChannelInit DEF ViewsInit
<1>2. ChannelInv /\ [ViewsNext]_allVars => ChannelInv'
  BY ViewsStepIsStep, ChannelStep
<1> QED BY <1>1, <1>2, PTL DEF ViewsSpec

(* Without scripts, a hardware channel stores every sample in a signal of  *)
(* the sample's quantity, in whatever order the driver switches quantities *)
(* and whoever watches: HardwareChannel::push_interleaved_samples().       *)
THEOREM NeverMixed == ViewsSpec => []RoutedByQuantity
<1>1. ChannelInv => RoutedByQuantity
  BY DEF ChannelInv, RoutingInv, RoutedByQuantity
<1> QED BY <1>1, ChannelInvariance, PTL

(* A change of the actual signal that was announced to the connected panel *)
(* is shown when its events are handled, however many changes have come in *)
(* between: on_signal_changed() reads the channel, not the event.          *)
THEOREM PanelShowsActual == ViewsSpec => []PanelCatchesUp
<1>1. ChannelInv => PanelCatchesUp
  BY DEF ChannelInv, PanelInv, PanelCatchesUp
<1> QED BY <1>1, ChannelInvariance, PTL

-----------------------------------------------------------------------------
(* The device tree                                                         *)

(* The groups of the main device only grow; every channel in a group is in *)
(* the map of the device, or another one of its name is.                   *)
StructureInv ==
  /\ groupMap = [main |-> groupMap.main, second |-> groupMap.second]
  /\ channelMap = [main |-> channelMap.main, second |-> channelMap.second]
  /\ DOMAIN groupMap.main # {}
  /\ groupMap.second = NoGroups \/ DOMAIN groupMap.second # {}
  /\ \A g \in DOMAIN groupMap.main : groupMap.main[g] \in Seq({Live} \cup NewChannels)
  /\ Live \in channelMap.main /\ channelMap.main \subseteq {Live} \cup NewChannels
  /\ \A g \in DOMAIN groupMap.main : \A c \in ToSet(groupMap.main[g]) :
       \E d \in channelMap.main : d.name = c.name

(* A row of a channel or signal is of one that is there.                   *)
AreThere(rs) ==
  \A row \in rs : row.kind \in {"channel", "signal"} =>
    /\ row.group \in GroupsOf(row.channel, groupMap.main)
    /\ row.kind = "signal" => row.n \in SignalsOf(row.channel)

ShowsAll(c) == ChannelRows(c, GroupsOf(c, groupMap.main)) \subseteq rows

(* A signal the tree does not show yet has an event under way.             *)
TreeInv ==
  /\ tree = "none" => rows = {}
  /\ tree \in {"adding", "shown"} => connected
  /\ posted \in Nat
  /\ tree = "shown" =>
       /\ AreThere(rows)
       /\ \A c \in channelMap.main \ {Live} : ShowsAll(c)
       /\ posted = 0 => ShowsAll(Live)

-----------------------------------------------------------------------------
LEMMA ToSetOfAppend ==
  ASSUME NEW S, NEW s \in Seq(S), NEW x
  PROVE  ToSet(Append(s, x)) = ToSet(s) \cup {x}
<1>1. /\ DOMAIN Append(s, x) = DOMAIN s \cup {Len(s) + 1}
      /\ \A i \in DOMAIN s : Append(s, x)[i] = s[i]
      /\ Append(s, x)[Len(s) + 1] = x
  OBVIOUS
<1> QED BY ONLY <1>1, Zenon DEF ToSet

(* A channel that is added is in one more group, and nothing else changes. *)
LEMMA ChannelIsAdded ==
  ASSUME StructureInv, NEW c \in NewChannels, NEW g, AddChannel(c, g)
  PROVE  /\ DOMAIN groupMap'.main = DOMAIN groupMap.main \cup {g}
         /\ groupMap'.main[g] = Append(IF g \in DOMAIN groupMap.main THEN groupMap.main[g]
                                      ELSE <<>>, c)
         /\ \A h \in DOMAIN groupMap.main \ {g} : groupMap'.main[h] = groupMap.main[h]
         /\ groupMap' = [main |-> groupMap'.main, second |-> groupMap.second]
         /\ channelMap' = [main |-> channelMap'.main, second |-> channelMap.second]
         /\ channelMap'.main = IF \E d \in channelMap.main : d.name = c.name
                               THEN channelMap.main ELSE channelMap.main \cup {c}
<1>1. groupMap'.main = [h \in DOMAIN groupMap.main \cup {g} |->
                         IF h = g THEN Append(IF g \in DOMAIN groupMap.main THEN groupMap.main[g]
                                              ELSE <<>>, c)
                         ELSE groupMap.main[h]]
  BY DEF AddChannel, StructureInv
<1>2. groupMap' = [main |-> groupMap'.main, second |-> groupMap.second]
  BY DEF AddChannel, StructureInv
<1>3. /\ channelMap' = [main |-> channelMap'.main, second |-> channelMap.second]
      /\ channelMap'.main = IF \E d \in channelMap.main : d.name = c.name
                            THEN channelMap.main ELSE channelMap.main \cup {c}
  BY DEF AddChannel, StructureInv
<1> QED BY ONLY <1>1, <1>2, <1>3

LEMMA GroupsGrow ==
  ASSUME StructureInv, NEW c \in NewChannels, NEW g, AddChannel(c, g)
  PROVE  /\ \A h \in DOMAIN groupMap.main :
              ToSet(groupMap.main[h]) \subseteq ToSet(groupMap'.main[h])
         /\ \A d : GroupsOf(d, groupMap'.main) =
                    GroupsOf(d, groupMap.main) \cup (IF d = c THEN {g} ELSE {})
<1> DEFINE old == groupMap.main
           new == groupMap'.main
           known == IF g \in DOMAIN old THEN old[g] ELSE <<>>
<1>1. DOMAIN new = DOMAIN old \cup {g} /\ new[g] = Append(known, c)
  BY ChannelIsAdded
<1>2. \A h \in DOMAIN old \ {g} : new[h] = old[h]
  BY ChannelIsAdded
<1>3. known \in Seq({Live} \cup NewChannels)
  BY DEF StructureInv
<1>4. ToSet(new[g]) = ToSet(known) \cup {c}
  BY <1>1, <1>3, ToSetOfAppend
<1>5. g \notin DOMAIN old => ToSet(known) = {}
  BY DEF ToSet
<1>6. g \in DOMAIN old => known = old[g]
  OBVIOUS
<1> HIDE DEF old, new, known
<1>7. \A h \in DOMAIN old : ToSet(old[h]) \subseteq ToSet(new[h])
  BY ONLY <1>2, <1>4, <1>6
<1>8. ASSUME NEW d
      PROVE  GroupsOf(d, new) = GroupsOf(d, old) \cup (IF d = c THEN {g} ELSE {})
  BY ONLY <1>1, <1>2, <1>4, <1>5, <1>6 DEF GroupsOf
<1> QED BY <1>7, <1>8 DEF old, new

LEMMA StructureInit ==
  ASSUME InitChannels
  PROVE  StructureInv
<1>1. ASSUME NEW second \in SecondDevices
      PROVE  second = NoGroups \/ DOMAIN second # {}
  <2>1. ASSUME NEW p, NEW gs
        PROVE  DOMAIN SourceSink(p, gs) = gs
    BY ONLY Zenon DEF SourceSink
  <2>2. \/ second = NoGroups
        \/ \E p \in FixedPrefixes : \/ second = SourceSink(p, {""})
                                      \/ second = SourceSink(p, {"1", "2"})
    BY DEF SecondDevices
  <2>3. {""} # {} /\ {"1", "2"} # {}
    BY ONLY Zenon
  <2> QED BY ONLY <2>1, <2>2, <2>3, Zenon
<1>2. ASSUME NEW main \in MainGroups, NEW second \in SecondDevices,
             groupMap = [main |-> [g \in main |-> <<Live>>], second |-> second],
             channelMap = [main |-> {Live}, second |-> Mapped(second)]
      PROVE  StructureInv
  <2>1. /\ groupMap.main = [g \in main |-> <<Live>>] /\ groupMap.second = second
        /\ channelMap.main = {Live}
    BY ONLY <1>2
  <2>2. ToSet(<<Live>>) = {Live}
    <3>1. DOMAIN <<Live>> = {1} /\ <<Live>>[1] = Live
      OBVIOUS
    <3> QED BY ONLY <3>1 DEF ToSet
  <2>3. /\ groupMap = [main |-> groupMap.main, second |-> groupMap.second]
        /\ channelMap = [main |-> channelMap.main, second |-> channelMap.second]
    BY ONLY <1>2
  <2>4. groupMap.second = NoGroups \/ DOMAIN groupMap.second # {}
    BY <1>1, <2>1
  <2>5. \A g \in main : <<Live>> \in Seq({Live} \cup NewChannels)
    OBVIOUS
  <2> QED BY <1>2, <2>1, <2>2, <2>3, <2>4, <2>5, GroupsOK DEF StructureInv
<1> QED BY <1>2, Zenon DEF InitChannels

LEMMA StructureGrows ==
  ASSUME StructureInv, NEW c \in NewChannels, NEW g, AddChannel(c, g)
  PROVE  StructureInv'
<1> DEFINE old == groupMap.main
           new == groupMap'.main
           known == IF g \in DOMAIN old THEN old[g] ELSE <<>>
<1>1. /\ DOMAIN new = DOMAIN old \cup {g} /\ new[g] = Append(known, c)
      /\ \A h \in DOMAIN old \ {g} : new[h] = old[h]
  BY ChannelIsAdded
<1>2. /\ groupMap' = [main |-> new, second |-> groupMap.second]
      /\ channelMap' = [main |-> channelMap'.main, second |-> channelMap.second]
      /\ channelMap'.main = IF \E d \in channelMap.main : d.name = c.name
                            THEN channelMap.main ELSE channelMap.main \cup {c}
  BY ChannelIsAdded
<1>3. ASSUME NEW h \in DOMAIN new
      PROVE  new[h] \in Seq({Live} \cup NewChannels)
  <2>1. known \in Seq({Live} \cup NewChannels)
    BY DEF StructureInv
  <2>2. Append(known, c) \in Seq({Live} \cup NewChannels)
    BY <2>1
  <2>3. CASE h = g
    BY <1>1, <2>2, <2>3
  <2>4. CASE h # g
    BY <1>1, <2>4 DEF StructureInv
  <2> QED BY <2>3, <2>4
<1>4. groupMap'.second = NoGroups \/ DOMAIN groupMap'.second # {}
  BY <1>2 DEF StructureInv
<1>5. ASSUME NEW h \in DOMAIN new, NEW e \in ToSet(new[h])
      PROVE  \E d \in channelMap'.main : d.name = e.name
  <2>1. e = c \/ (h \in DOMAIN old /\ e \in ToSet(old[h]))
    <3>1. \A d : GroupsOf(d, new) = GroupsOf(d, old) \cup (IF d = c THEN {g} ELSE {})
      BY GroupsGrow
    <3> QED BY ONLY <3>1, <1>5 DEF GroupsOf
  <2> QED BY <2>1, <1>2 DEF StructureInv
<1>6. Live \in channelMap'.main /\ channelMap'.main \subseteq {Live} \cup NewChannels
  BY <1>2 DEF StructureInv
<1>7. DOMAIN new # {}
  BY <1>1
<1>8. /\ groupMap' = [main |-> groupMap'.main, second |-> groupMap'.second]
      /\ channelMap' = [main |-> channelMap'.main, second |-> channelMap'.second]
  BY ONLY <1>2
<1> QED BY <1>3, <1>4, <1>5, <1>6, <1>7, <1>8 DEF StructureInv

-----------------------------------------------------------------------------
(* A signal that is there stays, with its quantity.                        *)
LEMMA SignalsGrow ==
  ASSUME ChannelTypes, [Next]_vars
  PROVE  /\ DOMAIN signals \subseteq DOMAIN signals'
         /\ \A n \in DOMAIN signals : signals'[n] = signals[n]
<1>1. CASE AddSignal
  BY <1>1, SignalsAreKept DEF AddSignal, ChannelTypes
<1>2. CASE ScriptAddsSignal
  BY <1>2, SignalsAreKept DEF ScriptAddsSignal
<1>3. CASE UNCHANGED signals
  BY <1>3
<1> QED BY <1>1, <1>2, <1>3 DEF Next, Pusher, Panel, StartPush, SwitchSignal, PushSamples,
        SetChannel, ConnectChannel, OnSignalChanged, vars, channelVars

LEMMA SignalsOfGrow ==
  ASSUME ChannelTypes, [Next]_vars, NEW c
  PROVE  /\ SignalsOf(c) \subseteq SignalsOf(c)'
         /\ c.kind # "live" => SignalsOf(c)' = SignalsOf(c)
BY SignalsGrow DEF SignalsOf

(* The rows of a channel, as the tree looks for them.                      *)
LEMMA RowsOfChannel ==
  ASSUME NEW c, NEW gs, NEW row \in ChannelRows(c, gs), row.kind \in {"channel", "signal"}
  PROVE  /\ row.channel = c /\ row.group \in gs
         /\ row.kind = "signal" => row.n \in SignalsOf(c)
<1>1. PICK g \in gs :
        row \in ChannelGroupRows(g) \cup {Row("channel", g, c, 0)} \cup SignalRows(c, g)
  BY Zenon DEF ChannelRows
<1>2. CASE row \in ChannelGroupRows(g)
  <2>1. row = Row("group", g, NoChannel, 0)
    BY <1>2, Zenon DEF ChannelGroupRows
  <2> QED BY <2>1 DEF Row
<1>3. CASE row = Row("channel", g, c, 0)
  BY <1>3 DEF Row
<1>4. CASE row \in SignalRows(c, g)
  <2>1. PICK n \in SignalsOf(c) : row = Row("signal", g, c, n)
    BY <1>4, Zenon DEF SignalRows
  <2> QED BY <2>1 DEF Row
<1> QED BY <1>1, <1>2, <1>3, <1>4

LEMMA RowsOfConfigurable ==
  ASSUME NEW g, NEW row \in ConfigurableRows(g)
  PROVE  row.kind \notin {"channel", "signal"}
<1>1. \/ row = Row("group", g, NoChannel, 0)
      \/ row = Row("configurable", g, NoChannel, 0)
      \/ row = Row("property", g, NoChannel, 0)
  BY Zenon DEF ConfigurableRows, ChannelGroupRows
<1>2. row.kind \in {"group", "configurable", "property"}
  BY <1>1 DEF Row
<1> QED BY ONLY <1>2

LEMMA RowsOfTwo ==
  ASSUME NEW c, NEW gs, NEW hs
  PROVE  ChannelRows(c, gs \cup hs) = ChannelRows(c, gs) \cup ChannelRows(c, hs)
BY DEF ChannelRows

LEMMA RowsStay ==
  ASSUME NEW c, SignalsOf(c)' = SignalsOf(c), NEW gs
  PROVE  ChannelRows(c, gs)' = ChannelRows(c, gs)
BY DEF ChannelRows, SignalRows

LEMMA RowsOfChannelAreThere ==
  ASSUME NEW c
  PROVE  AreThere(ChannelRows(c, GroupsOf(c, groupMap.main)))
BY RowsOfChannel DEF AreThere

LEMMA StructureStays ==
  ASSUME UNCHANGED structure
  PROVE  /\ StructureInv => StructureInv'
         /\ \A d : GroupsOf(d, groupMap.main)' = GroupsOf(d, groupMap.main)
BY DEF structure, StructureInv

LEMMA AddDeviceStep ==
  ASSUME ChannelInv, StructureInv, TreeInv, AddDevice
  PROVE  StructureInv' /\ TreeInv'
<1>1. /\ tree = "adding" /\ tree' = "shown" /\ connected /\ posted \in Nat
      /\ UNCHANGED <<connected, posted>> /\ UNCHANGED signals /\ UNCHANGED structure
  BY DEF AddDevice, TreeInv, vars, channelVars
<1> DEFINE channelRows == UNION {ChannelRows(c, ShownGroups(c)) : c \in channelMap.main}
           otherRows   == UNION {ConfigurableRows(g) : g \in {""} \cup ShownGroups(Live)}
<1>2. rows' = channelRows \cup otherRows
  BY DEF AddDevice
<1>3. AreThere(rows')
  <2>1. ASSUME NEW row \in otherRows
        PROVE  row.kind \notin {"channel", "signal"}
    BY RowsOfConfigurable, Zenon
  <2>2. ASSUME NEW row \in channelRows
        PROVE  \E c : row \in ChannelRows(c, GroupsOf(c, groupMap.main))
    BY Zenon DEF ShownGroups
  <2> HIDE DEF channelRows, otherRows
  <2>3. ASSUME NEW row \in rows', row.kind \in {"channel", "signal"}
        PROVE  \E c : row \in ChannelRows(c, GroupsOf(c, groupMap.main))
    BY ONLY <1>2, <2>1, <2>2, <2>3
  <2> QED BY <2>3, RowsOfChannelAreThere, Zenon DEF AreThere
<1>4. \A c \in channelMap.main : ChannelRows(c, GroupsOf(c, groupMap.main)) \subseteq rows'
  BY <1>2, Zenon DEF ShownGroups
<1> HIDE DEF channelRows, otherRows
<1>5. StructureInv' /\ UNCHANGED groupMap /\ UNCHANGED channelMap
  BY <1>1, StructureStays DEF structure
<1>6. AreThere(rows)'
  BY <1>1, <1>3, <1>5 DEF AreThere, SignalsOf
<1>7. ASSUME NEW c \in channelMap.main
      PROVE  ShowsAll(c)'
  BY <1>1, <1>4, <1>5, RowsStay DEF ShowsAll, SignalsOf
<1> QED BY <1>1, <1>5, <1>6, <1>7 DEF TreeInv, StructureInv

LEMMA OnSignalAddedStep ==
  ASSUME ChannelInv, StructureInv, TreeInv, OnSignalAdded
  PROVE  StructureInv' /\ TreeInv'
<1>1. /\ posted' \in Nat /\ UNCHANGED connected
      /\ UNCHANGED signals /\ UNCHANGED structure
  BY DEF OnSignalAdded, TreeInv, vars, channelVars
<1>2. StructureInv' /\ UNCHANGED groupMap /\ UNCHANGED channelMap
  BY <1>1, StructureStays DEF structure
<1>3. CASE tree # "shown"
  <2>1. tree = "removed" /\ tree' = "crashed"
    BY <1>3 DEF OnSignalAdded
  <2> QED BY <1>1, <1>2, <2>1 DEF TreeInv
<1>4. CASE tree = "shown"
  <2>1. /\ tree' = "shown" /\ connected
        /\ rows' = rows \cup ChannelRows(Live, GroupsOf(Live, groupMap.main))
    BY <1>4 DEF OnSignalAdded, TreeInv, ShownGroups
  <2>2. AreThere(rows')
    <3>1. AreThere(rows) /\ AreThere(ChannelRows(Live, GroupsOf(Live, groupMap.main)))
      BY <1>4, RowsOfChannelAreThere DEF TreeInv
    <3> QED BY ONLY <2>1, <3>1 DEF AreThere
  <2>3. AreThere(rows)'
    BY <1>1, <1>2, <2>2 DEF AreThere, SignalsOf
  <2>4. ASSUME NEW c \in channelMap.main
        PROVE  ShowsAll(c)'
    <3>1. ChannelRows(c, GroupsOf(c, groupMap.main)) \subseteq rows'
      BY <1>4, <2>1 DEF TreeInv, ShowsAll
    <3> QED BY <1>1, <1>2, <3>1, RowsStay DEF ShowsAll, SignalsOf
  <2> QED BY <1>1, <1>2, <2>1, <2>3, <2>4 DEF TreeInv, StructureInv
<1> QED BY <1>3, <1>4

(* A push that adds a signal posts an event, as the tree is connected.     *)
LEMMA PushStep ==
  ASSUME ChannelInv, StructureInv, TreeInv, Push
  PROVE  StructureInv' /\ TreeInv'
<1>1. UNCHANGED <<tree, connected, rows>> /\ UNCHANGED structure /\ [Next]_vars
  BY DEF Push, Next
<1>2. StructureInv' /\ UNCHANGED groupMap /\ UNCHANGED channelMap
  BY <1>1, StructureStays DEF structure
<1>3. posted' \in Nat /\ (connected /\ signals' # signals => posted' # 0)
                       /\ (signals' = signals => posted' = posted)
  BY DEF Push, TreeInv
<1>4. CASE tree # "shown"
  BY <1>1, <1>2, <1>3, <1>4 DEF TreeInv
<1>5. CASE tree = "shown"
  <2>1. AreThere(rows)'
    <3>1. AreThere(rows)
      BY <1>5 DEF TreeInv
    <3>2. \A d : GroupsOf(d, groupMap.main) \subseteq GroupsOf(d, groupMap'.main)
      BY <1>2
    <3>3. ASSUME NEW row \in rows', row.kind \in {"channel", "signal"}
          PROVE  /\ row.group \in GroupsOf(row.channel, groupMap'.main)
                 /\ row.kind = "signal" => row.n \in SignalsOf(row.channel)'
      <4>1. /\ row.group \in GroupsOf(row.channel, groupMap.main)
            /\ row.kind = "signal" => row.n \in SignalsOf(row.channel)
        BY <1>1, <3>1, <3>3 DEF AreThere
      <4>2. SignalsOf(row.channel) \subseteq SignalsOf(row.channel)'
        BY <1>1, SignalsOfGrow DEF ChannelInv
      <4> QED BY ONLY <1>2, <4>1, <4>2
    <3> QED BY <3>3, Zenon DEF AreThere
  <2>2. ASSUME NEW c \in channelMap.main \ {Live}
        PROVE  ShowsAll(c)'
    <3>1. c.kind # "live"
      BY DEF StructureInv, NewChannels
    <3>2. SignalsOf(c)' = SignalsOf(c)
      BY <1>1, <3>1, SignalsOfGrow DEF ChannelInv
    <3> QED BY <1>1, <1>2, <1>5, <3>2, RowsStay DEF ShowsAll, TreeInv
  <2>3. ASSUME posted' = 0
        PROVE  ShowsAll(Live)'
    <3>1. signals' = signals /\ posted = 0
      BY <1>1, <1>3, <1>5, <2>3 DEF TreeInv
    <3> QED BY <1>1, <1>2, <1>5, <3>1, RowsStay DEF ShowsAll, TreeInv, SignalsOf
  <2> QED BY <1>1, <1>2, <1>3, <1>5, <2>1, <2>2, <2>3 DEF TreeInv
<1> QED BY <1>4, <1>5

LEMMA OnChannelAddedStep ==
  ASSUME ChannelInv, StructureInv, TreeInv, NEW c \in NewChannels, NEW g, OnChannelAdded(c, g)
  PROVE  StructureInv' /\ TreeInv'
<1>1. /\ UNCHANGED <<tree, connected, posted>> /\ UNCHANGED signals
      /\ [Next]_vars /\ AddChannel(c, g)
  BY DEF OnChannelAdded, UserAddsChannel, vars, channelVars
<1>2. StructureInv'
  BY <1>1, StructureGrows
<1>3. \A d : GroupsOf(d, groupMap'.main) =
            GroupsOf(d, groupMap.main) \cup (IF d = c THEN {g} ELSE {})
  BY <1>1, GroupsGrow
<1>4. CASE tree # "shown"
  BY <1>1, <1>2, <1>4 DEF TreeInv, OnChannelAdded
<1>5. CASE tree = "shown"
  <2>1. rows' = rows \cup ChannelRows(c, {g})
    BY <1>5 DEF OnChannelAdded
  <2>2. AreThere(rows)'
    <3>1. ASSUME NEW row \in rows', row.kind \in {"channel", "signal"}
          PROVE  /\ row.group \in GroupsOf(row.channel, groupMap'.main)
                 /\ row.kind = "signal" => row.n \in SignalsOf(row.channel)
      <4>1. CASE row \in rows
        <5>1. /\ row.group \in GroupsOf(row.channel, groupMap.main)
              /\ row.kind = "signal" => row.n \in SignalsOf(row.channel)
          BY <1>5, <3>1, <4>1 DEF TreeInv, AreThere
        <5> QED BY <1>3, <5>1
      <4>2. CASE row \in ChannelRows(c, {g})
        BY <1>3, <3>1, <4>2, RowsOfChannel
      <4> QED BY <2>1, <3>1, <4>1, <4>2
    <3> QED BY <1>1, <3>1 DEF AreThere, SignalsOf
  <2>3. ASSUME NEW d \in channelMap'.main, d # Live \/ posted = 0
        PROVE  ChannelRows(d, GroupsOf(d, groupMap'.main)) \subseteq rows'
    <3>1. CASE d = c
      <4>1. ChannelRows(c, GroupsOf(c, groupMap'.main)) =
              ChannelRows(c, GroupsOf(c, groupMap.main)) \cup ChannelRows(c, {g})
        BY <1>3, RowsOfTwo
      <4>2. ChannelRows(c, GroupsOf(c, groupMap.main)) \subseteq rows
        <5>1. CASE c \in channelMap.main
          BY <1>5, <2>3, <3>1, <5>1 DEF TreeInv, ShowsAll
        <5>2. CASE c \notin channelMap.main
          <6>1. \A e \in channelMap.main : e.name # c.name
            BY <1>1, <2>3, <3>1, <5>2, ChannelIsAdded
          <6>2. GroupsOf(c, groupMap.main) = {}
            BY <6>1 DEF StructureInv, GroupsOf
          <6> QED BY <6>2 DEF ChannelRows
        <5> QED BY <5>1, <5>2
      <4> QED BY <2>1, <3>1, <4>1, <4>2
    <3>2. CASE d # c
      <4>1. d \in channelMap.main
        <5>1. channelMap'.main = IF \E e \in channelMap.main : e.name = c.name
                                 THEN channelMap.main ELSE channelMap.main \cup {c}
          BY <1>1, ChannelIsAdded
        <5> QED BY ONLY <2>3, <3>2, <5>1
      <4>2. GroupsOf(d, groupMap'.main) = GroupsOf(d, groupMap.main)
        BY <1>3, <3>2
      <4> QED BY <1>5, <2>1, <2>3, <4>1, <4>2 DEF TreeInv, ShowsAll
    <3> QED BY <3>1, <3>2
  <2>4. ASSUME NEW d \in channelMap'.main, d # Live \/ posted = 0
        PROVE  ShowsAll(d)'
    BY <1>1, <2>3, <2>4, RowsStay DEF ShowsAll, SignalsOf
  <2>5. Live \in channelMap'.main
    BY <1>2 DEF StructureInv
  <2> QED BY <1>1, <1>2, <1>5, <2>2, <2>4, <2>5 DEF TreeInv
<1> QED BY <1>4, <1>5

LEMMA TreeStep ==
  ASSUME ChannelInv, StructureInv, TreeInv, WatchTree
  PROVE  StructureInv' /\ TreeInv'
<1>1. CASE ConnectDevice
  <2>1. /\ tree = "none" /\ tree' = "adding" /\ UNCHANGED <<rows, posted>> /\ UNCHANGED structure
        /\ rows = {}
    BY <1>1 DEF ConnectDevice, TreeInv
  <2>2. connected'
    BY <1>1, <2>1, Zenon DEF ConnectDevice, FindChannel
  <2>3. StructureInv'
    BY <2>1, StructureStays
  <2> QED BY <2>1, <2>2, <2>3 DEF TreeInv
<1>2. CASE OnDeviceRemoved
  <2>1. /\ tree' = "removed" /\ UNCHANGED <<connected, posted>> /\ UNCHANGED structure
    BY <1>2 DEF OnDeviceRemoved
  <2> QED BY <2>1, StructureStays DEF TreeInv
<1>3. CASE \E c \in NewChannels : \E g \in DOMAIN groupMap.main \cup {"User"} : OnChannelAdded(c, g)
  BY <1>3, OnChannelAddedStep
<1> QED BY <1>1, <1>2, <1>3, AddDeviceStep, OnSignalAddedStep, PushStep DEF WatchTree, TreeNext

-----------------------------------------------------------------------------
(* The boxes                                                               *)

ItemsOf(b) == (b.items \cup {b.item}) \ {NoItem}
IsRight(item) == item[2] \in SignalsOf(item[1]) /\ Passes(item[1], item[2])

(* What can be chosen is there and of the right quantity; for a device     *)
(* with channels it is of the channel, the group and the device shown.     *)
Consistent(b) ==
  LET groups == groupMap[b.device]
  IN  /\ DOMAIN b = DOMAIN Empty
      /\ \A item \in ItemsOf(b) : IsRight(item)
      /\ b.device # "none" /\ groups # NoGroups =>
           /\ b.group \in DOMAIN groups /\ b.groups \subseteq DOMAIN groups
           /\ b.channels \subseteq ToSet(groups[b.group])
           /\ \A item \in ItemsOf(b) : item[1] = b.channel /\ item[1] \in b.channels

BoxesInv ==
  /\ Consistent(boxes)
  /\ boxes.device \in {"none", "main", "second"}
  /\ boxes.device = "none" => boxes = Empty

LEMMA FillSignalsIsRight ==
  ASSUME NEW b, DOMAIN b = DOMAIN Empty, NEW c, NEW r, r = FillSignals(b, c)
  PROVE  /\ DOMAIN r = DOMAIN Empty
         /\ r.device = b.device /\ r.groups = b.groups /\ r.group = b.group
         /\ r.channels = b.channels /\ r.channel = b.channel
         /\ \A item \in ItemsOf(r) : item[1] = c /\ c # NoChannel /\ IsRight(item)
<1> DEFINE items == {<<c, n>> : n \in {k \in SignalsOf(c) : Passes(c, k)}}
<1>1. \A item \in items : item[1] = c /\ IsRight(item)
  BY DEF IsRight
<1>2. r = IF c = NoChannel THEN [b EXCEPT !.items = {}, !.item = NoItem]
          ELSE [b EXCEPT !.items = items, !.item = SomeFirst(items, NoItem)]
  BY DEF FillSignals
<1>3. SomeFirst(items, NoItem) \in items \cup {NoItem}
  BY DEF SomeFirst
<1> HIDE DEF items
<1>4. DOMAIN b = {"device", "groups", "group", "channels", "channel", "items", "item"}
  BY DEF Empty
<1>5. /\ DOMAIN r = DOMAIN Empty
      /\ r.device = b.device /\ r.groups = b.groups /\ r.group = b.group
      /\ r.channels = b.channels /\ r.channel = b.channel
      /\ r.items = (IF c = NoChannel THEN {} ELSE items)
      /\ r.item = (IF c = NoChannel THEN NoItem ELSE SomeFirst(items, NoItem))
  BY <1>2, <1>4
<1> QED BY ONLY <1>1, <1>3, <1>5 DEF ItemsOf

(* The box of the channels is filled from a group of the device, or left   *)
(* empty, and then the box of the signals stays as it is.                  *)
LEMMA FillChannelsIsRight ==
  ASSUME NEW b, DOMAIN b = DOMAIN Empty, \A item \in ItemsOf(b) : IsRight(item),
         NEW g, NEW r, r = FillChannels(b, g)
  PROVE  /\ DOMAIN r = DOMAIN Empty
         /\ r.device = b.device /\ r.groups = b.groups /\ r.group = b.group
         /\ \A item \in ItemsOf(r) : IsRight(item)
         /\ g \in DOMAIN groupMap[b.device] =>
              /\ r.channels \subseteq ToSet(groupMap[b.device][g])
              /\ \A item \in ItemsOf(r) : item[1] = r.channel /\ item[1] \in r.channels
<1> DEFINE channels == {c \in ToSet(groupMap[b.device][g]) :
                          filter = "any" \/ \E n \in SignalsOf(c) : Passes(c, n)}
           channel  == SomeFirst(channels, NoChannel)
           filled   == [b EXCEPT !.channels = channels, !.channel = channel]
           cleared  == [b EXCEPT !.channels = {}, !.channel = NoChannel]
<1>1. r = IF g \notin DOMAIN groupMap[b.device] THEN cleared
          ELSE ChannelChanged(filled, channel)
  BY DEF FillChannels
<1>2. channels \subseteq ToSet(groupMap[b.device][g])
  OBVIOUS
<1>3. channel = NoChannel \/ channel \in channels
  BY DEF SomeFirst
<1> HIDE DEF channels, channel
<1>4. DOMAIN b = {"device", "groups", "group", "channels", "channel", "items", "item"}
  BY DEF Empty
<1>5. CASE g \notin DOMAIN groupMap[b.device]
  <2>1. /\ DOMAIN cleared = DOMAIN b
        /\ cleared.device = b.device /\ cleared.groups = b.groups /\ cleared.group = b.group
        /\ cleared.items = b.items /\ cleared.item = b.item
    BY <1>4
  <2>2. ItemsOf(cleared) = ItemsOf(b)
    BY <2>1 DEF ItemsOf
  <2>3. r = cleared
    BY <1>1, <1>5
  <2> HIDE DEF cleared
  <2> QED BY <1>5, <2>1, <2>2, <2>3
<1>6. CASE g \in DOMAIN groupMap[b.device]
  <2>1. /\ DOMAIN filled = DOMAIN Empty
        /\ filled.device = b.device /\ filled.groups = b.groups /\ filled.group = b.group
        /\ filled.channels = channels /\ filled.channel = channel
    BY <1>4
  <2>2. r = FillSignals(filled, channel)
    BY <1>1, <1>6 DEF ChannelChanged
  <2> HIDE DEF filled
  <2>3. /\ DOMAIN r = DOMAIN Empty
        /\ r.device = b.device /\ r.groups = b.groups /\ r.group = b.group
        /\ r.channels = channels /\ r.channel = channel
        /\ \A item \in ItemsOf(r) : item[1] = channel /\ channel # NoChannel /\ IsRight(item)
    BY <2>1, <2>2, FillSignalsIsRight
  <2> QED BY ONLY <1>2, <1>3, <2>3
<1> QED BY <1>5, <1>6

LEMMA FillGroupsIsConsistent ==
  ASSUME NEW b, DOMAIN b = DOMAIN Empty, \A item \in ItemsOf(b) : IsRight(item),
         groupMap[b.device] = NoGroups \/ DOMAIN groupMap[b.device] # {},
         NEW r, r = FillGroups(b)
  PROVE  Consistent(r) /\ r.device = b.device
<1> DEFINE groups == DOMAIN groupMap[b.device]
           g      == SomeFirst(groups, "")
           filled == [b EXCEPT !.groups = groups, !.group = g]
<1>1. r = FillChannels(filled, g)
  BY DEF FillGroups
<1>2. groups # {} => g \in groups
  BY DEF SomeFirst
<1> HIDE DEF groups, g
<1>3. DOMAIN b = {"device", "groups", "group", "channels", "channel", "items", "item"}
  BY DEF Empty
<1>4. /\ DOMAIN filled = DOMAIN Empty
      /\ filled.device = b.device /\ filled.groups = groups /\ filled.group = g
      /\ filled.items = b.items /\ filled.item = b.item
  BY <1>3
<1> HIDE DEF filled
<1>5. \A item \in ItemsOf(filled) : IsRight(item)
  BY <1>4 DEF ItemsOf
<1>6. /\ DOMAIN r = DOMAIN Empty
      /\ r.device = b.device /\ r.groups = groups /\ r.group = g
      /\ \A item \in ItemsOf(r) : IsRight(item)
      /\ g \in DOMAIN groupMap[b.device] =>
           /\ r.channels \subseteq ToSet(groupMap[b.device][g])
           /\ \A item \in ItemsOf(r) : item[1] = r.channel /\ item[1] \in r.channels
  BY <1>1, <1>4, <1>5, FillChannelsIsRight
<1>7. groupMap[b.device] # NoGroups => g \in DOMAIN groupMap[b.device]
  BY <1>2 DEF groups
<1> QED BY <1>6, <1>7 DEF Consistent, groups

LEMMA ConsistentDevice ==
  ASSUME StructureInv, NEW d \in {"main", "second"}
  PROVE  groupMap[d] = NoGroups \/ DOMAIN groupMap[d] # {}
BY DEF StructureInv

(* Whatever box is changed, the ones after it are filled again.            *)
LEMMA ChoiceIsConsistent ==
  ASSUME StructureInv, BoxesInv, Select
  PROVE  Consistent(boxes') /\ boxes'.device \in {"main", "second"}
<1> DEFINE fields == {"device", "groups", "group", "channels", "channel", "items", "item"}
<1>1. DOMAIN boxes = DOMAIN Empty /\ DOMAIN boxes = fields
  BY DEF BoxesInv, Consistent, Empty
<1>2. \A item \in ItemsOf(boxes) : IsRight(item)
  BY DEF BoxesInv, Consistent
<1>3. ASSUME boxes.device = "none"
      PROVE  boxes.groups = {} /\ boxes.channels = {} /\ boxes.items = {}
  <2>1. boxes = Empty
    BY <1>3 DEF BoxesInv
  <2>2. Empty.groups = {} /\ Empty.channels = {} /\ Empty.items = {}
    BY DEF Empty
  <2> QED BY ONLY <2>1, <2>2
<1>4. ASSUME NEW d \in {"main", "second"}, SelectDevice(d)
      PROVE  Consistent(boxes') /\ boxes'.device \in {"main", "second"}
  <2> DEFINE chosen == [boxes EXCEPT !.device = d]
  <2>1. boxes' = FillGroups(chosen)
    BY <1>4 DEF SelectDevice
  <2>2. DOMAIN chosen = DOMAIN Empty /\ chosen.device = d /\ ItemsOf(chosen) = ItemsOf(boxes)
    BY <1>1 DEF ItemsOf
  <2> HIDE DEF chosen
  <2> QED BY <1>2, <2>1, <2>2, ConsistentDevice, FillGroupsIsConsistent
<1>5. ASSUME NEW g \in boxes.groups, SelectGroup(g)
      PROVE  Consistent(boxes') /\ boxes'.device \in {"main", "second"}
  <2> DEFINE chosen == [boxes EXCEPT !.group = g]
  <2>1. boxes' = FillChannels(chosen, g)
    BY <1>5 DEF SelectGroup
  <2>2. /\ DOMAIN chosen = DOMAIN Empty /\ chosen.device = boxes.device /\ chosen.group = g
        /\ chosen.groups = boxes.groups /\ ItemsOf(chosen) = ItemsOf(boxes)
    BY <1>1 DEF ItemsOf
  <2> HIDE DEF chosen
  <2>3. /\ DOMAIN boxes' = DOMAIN Empty
        /\ boxes'.device = boxes.device /\ boxes'.groups = boxes.groups /\ boxes'.group = g
        /\ \A item \in ItemsOf(boxes') : IsRight(item)
        /\ g \in DOMAIN groupMap[boxes.device] =>
             /\ boxes'.channels \subseteq ToSet(groupMap[boxes.device][g])
             /\ \A item \in ItemsOf(boxes') :
                  item[1] = boxes'.channel /\ item[1] \in boxes'.channels
    BY <1>2, <2>1, <2>2, FillChannelsIsRight
  <2>4. boxes.device # "none"
    BY <1>3, <1>5
  <2>5. groupMap[boxes.device] # NoGroups => boxes.groups \subseteq DOMAIN groupMap[boxes.device]
    BY <2>4 DEF BoxesInv, Consistent
  <2> QED BY <1>5, <2>3, <2>4, <2>5 DEF Consistent, BoxesInv
<1>6. ASSUME NEW c \in boxes.channels, SelectChannel(c)
      PROVE  Consistent(boxes') /\ boxes'.device \in {"main", "second"}
  <2> DEFINE chosen == [boxes EXCEPT !.channel = c]
  <2>1. boxes' = FillSignals(chosen, c)
    BY <1>6 DEF SelectChannel, ChannelChanged
  <2>2. /\ DOMAIN chosen = DOMAIN Empty /\ chosen.device = boxes.device
        /\ chosen.group = boxes.group /\ chosen.groups = boxes.groups
        /\ chosen.channels = boxes.channels /\ chosen.channel = c
    BY <1>1
  <2> HIDE DEF chosen
  <2>3. /\ DOMAIN boxes' = DOMAIN Empty
        /\ boxes'.device = boxes.device /\ boxes'.groups = boxes.groups
        /\ boxes'.group = boxes.group /\ boxes'.channels = boxes.channels /\ boxes'.channel = c
        /\ \A item \in ItemsOf(boxes') : item[1] = c /\ IsRight(item)
    BY <2>1, <2>2, FillSignalsIsRight
  <2>4. boxes.device # "none"
    BY <1>3, <1>6
  <2> QED BY <1>6, <2>3, <2>4 DEF Consistent, BoxesInv
<1>7. ASSUME NEW item \in boxes.items, SelectItem(item)
      PROVE  Consistent(boxes') /\ boxes'.device \in {"main", "second"}
  <2>1. boxes' = [boxes EXCEPT !.item = item]
    BY <1>7 DEF SelectItem
  <2>2. /\ DOMAIN boxes' = DOMAIN Empty /\ boxes'.device = boxes.device
        /\ boxes'.group = boxes.group /\ boxes'.groups = boxes.groups
        /\ boxes'.channels = boxes.channels /\ boxes'.channel = boxes.channel
        /\ boxes'.items = boxes.items /\ boxes'.item = item
    BY <1>1, <2>1
  <2>3. ItemsOf(boxes') \subseteq ItemsOf(boxes)
    BY <1>7, <2>2 DEF ItemsOf
  <2>4. boxes.device # "none"
    BY <1>3, <1>7
  <2> QED BY <2>2, <2>3, <2>4 DEF Consistent, BoxesInv
<1> QED BY <1>4, <1>5, <1>6, <1>7 DEF Select

LEMMA SelectStep ==
  ASSUME StructureInv, BoxesInv, Select
  PROVE  BoxesInv'
<1>1. Consistent(boxes') /\ boxes'.device \in {"main", "second"}
  BY ChoiceIsConsistent
<1>2. UNCHANGED <<filter, signals, groupMap>>
  BY DEF Select, vars, channelVars, structure
<1>3. Consistent(boxes)'
  BY <1>1, <1>2 DEF Consistent, IsRight, Passes, QuantityOf, SignalsOf
<1> QED BY <1>1, <1>3 DEF BoxesInv

(* What is right stays so when samples and channels come meanwhile.        *)
LEMMA RightStays ==
  ASSUME ChannelTypes, [Next]_vars, UNCHANGED filter, NEW item, IsRight(item)
  PROVE  IsRight(item)'
<1> DEFINE c == item[1]
           n == item[2]
<1>1. DOMAIN signals \subseteq DOMAIN signals' /\ \A k \in DOMAIN signals : signals'[k] = signals[k]
  BY SignalsGrow
<1>2. CASE c.kind = "live"
  BY <1>1, <1>2 DEF IsRight, SignalsOf, Passes, QuantityOf
<1>3. CASE c.kind # "live"
  BY <1>3 DEF IsRight, SignalsOf, Passes, QuantityOf
<1> QED BY <1>2, <1>3

(* The groups of a device and the channels in them stay when more come.    *)
StructureGrew ==
  /\ groupMap'.second = groupMap.second
  /\ DOMAIN groupMap.main \subseteq DOMAIN groupMap'.main
  /\ \A h \in DOMAIN groupMap.main : ToSet(groupMap.main[h]) \subseteq ToSet(groupMap'.main[h])

LEMMA AddedGrew ==
  ASSUME StructureInv, NEW c \in NewChannels, NEW g, AddChannel(c, g)
  PROVE  StructureGrew
<1>1. groupMap' = [main |-> groupMap'.main, second |-> groupMap.second]
  BY ChannelIsAdded
<1>2. groupMap'.second = groupMap.second
  BY ONLY <1>1
<1>3. DOMAIN groupMap.main \subseteq DOMAIN groupMap'.main
  BY ChannelIsAdded
<1> QED BY <1>2, <1>3, GroupsGrow DEF StructureGrew

LEMMA BoxesStay ==
  ASSUME ChannelInv, StructureInv, StructureGrew, BoxesInv, [Next]_vars,
         UNCHANGED <<filter, boxes>>
  PROVE  BoxesInv'
<1>1. \A item \in ItemsOf(boxes) : IsRight(item)
  BY DEF BoxesInv, Consistent
<1>2. ASSUME NEW item \in ItemsOf(boxes)
      PROVE  IsRight(item)'
  BY <1>1, RightStays DEF ChannelInv
<1>3. ASSUME boxes.device # "none", groupMap'[boxes.device] # NoGroups
      PROVE  /\ boxes.group \in DOMAIN groupMap'[boxes.device]
             /\ boxes.groups \subseteq DOMAIN groupMap'[boxes.device]
             /\ boxes.channels \subseteq ToSet(groupMap'[boxes.device][boxes.group])
             /\ \A item \in ItemsOf(boxes) : item[1] = boxes.channel /\ item[1] \in boxes.channels
  <2> DEFINE old == groupMap[boxes.device]
             new == groupMap'[boxes.device]
  <2>1. boxes.device \in {"main", "second"}
    BY <1>3 DEF BoxesInv
  <2>2. /\ DOMAIN old \subseteq DOMAIN new
        /\ \A h \in DOMAIN old : ToSet(old[h]) \subseteq ToSet(new[h])
    BY <2>1 DEF StructureGrew
  <2>3. old # NoGroups
    <3>1. CASE boxes.device = "main"
      <4>1. DOMAIN old # {}
        BY <3>1 DEF StructureInv
      <4> QED BY <4>1 DEF NoGroups
    <3>2. CASE boxes.device = "second"
      BY <1>3, <3>2 DEF StructureGrew
    <3> QED BY <2>1, <3>1, <3>2
  <2>4. /\ boxes.group \in DOMAIN old /\ boxes.groups \subseteq DOMAIN old
        /\ boxes.channels \subseteq ToSet(old[boxes.group])
        /\ \A item \in ItemsOf(boxes) : item[1] = boxes.channel /\ item[1] \in boxes.channels
    BY <1>3, <2>3 DEF BoxesInv, Consistent
  <2> HIDE DEF old, new
  <2>5. /\ boxes.group \in DOMAIN new /\ boxes.groups \subseteq DOMAIN new
        /\ boxes.channels \subseteq ToSet(new[boxes.group])
    BY ONLY <2>2, <2>4
  <2> QED BY <2>4, <2>5 DEF new
<1>4. Consistent(boxes)'
  <2>1. DOMAIN boxes' = DOMAIN Empty
    BY DEF BoxesInv, Consistent
  <2> QED BY <1>2, <1>3, <2>1 DEF Consistent, ItemsOf
<1> QED BY <1>4 DEF BoxesInv

-----------------------------------------------------------------------------
(* The three watchers together                                             *)

ViewsInv ==
  /\ ChannelInv /\ StructureInv /\ TreeInv /\ BoxesInv
  /\ watcher # "tree" => tree = "none"

LEMMA ViewsInvInit ==
  ASSUME ViewsInit
  PROVE  ViewsInv
<1>1. ChannelInv /\ StructureInv
  BY ChannelInit, StructureInit DEF ViewsInit
<1>2. tree = "none" /\ TreeInv
  BY DEF ViewsInit, InitTree, TreeInv
<1>3. BoxesInv
  <2>1. boxes = Empty
    BY DEF ViewsInit, InitSelect
  <2>2. Empty.device = "none" /\ Empty.items = {} /\ Empty.item = NoItem
    BY DEF Empty
  <2> QED BY <2>1, <2>2 DEF BoxesInv, Consistent, ItemsOf
<1> QED BY <1>1, <1>2, <1>3 DEF ViewsInv

LEMMA NothingGrew ==
  ASSUME UNCHANGED structure
  PROVE  StructureGrew
BY DEF structure, StructureGrew

LEMMA ViewsInvStep ==
  ASSUME ViewsInv, [ViewsNext]_allVars
  PROVE  ViewsInv'
<1> USE DEF ViewsInv
<1>1. [Next]_vars /\ ChannelInv'
  BY ViewsStepIsStep, ChannelStep
<1>2. CASE WatchPanel \/ UNCHANGED allVars
  <2>1. UNCHANGED <<structure, treeVars, selectVars, watcher>>
    BY <1>2 DEF WatchPanel, allVars, others
  <2>2. StructureInv' /\ StructureGrew
    BY <2>1, StructureStays, NothingGrew
  <2>3. TreeInv' /\ (watcher' # "tree" => tree' = "none")
    <3>1. CASE WatchPanel
      BY <2>1, <3>1 DEF WatchPanel, TreeInv, treeVars
    <3>2. CASE UNCHANGED allVars
      BY <2>1, <3>2 DEF allVars, vars, channelVars, structure, treeVars, TreeInv, AreThere,
         ShowsAll, ChannelRows, SignalRows, SignalsOf
    <3> QED BY <1>2, <3>1, <3>2
  <2>4. BoxesInv'
    BY <1>1, <2>1, <2>2, BoxesStay DEF selectVars
  <2> QED BY <1>1, <2>2, <2>3, <2>4
<1>3. CASE WatchTree
  <2>1. StructureInv' /\ TreeInv' /\ watcher' = watcher /\ watcher = "tree"
        /\ UNCHANGED <<filter, boxes>>
    BY <1>3, TreeStep DEF WatchTree, selectVars
  <2>2. StructureGrew
    <3>1. CASE UNCHANGED structure
      BY <3>1, NothingGrew
    <3>2. ASSUME NEW c \in NewChannels, NEW g, OnChannelAdded(c, g)
          PROVE  StructureGrew
      BY <3>2, AddedGrew DEF OnChannelAdded, UserAddsChannel
    <3> QED BY <1>3, <3>1, <3>2 DEF WatchTree, TreeNext, ConnectDevice, AddDevice, OnSignalAdded,
            OnDeviceRemoved, Push
  <2>3. BoxesInv'
    BY <1>1, <2>1, <2>2, BoxesStay
  <2> QED BY <1>1, <2>1, <2>3
<1>4. CASE WatchBoxes
  <2>1. watcher' = watcher /\ watcher = "boxes" /\ UNCHANGED treeVars
    BY <1>4 DEF WatchBoxes, SelectNext, Select, Meanwhile
  <2>2. TreeInv' /\ tree' = "none"
    BY <2>1 DEF treeVars, TreeInv
  <2>3. CASE Select
    <3>1. UNCHANGED structure
      BY <2>3 DEF Select
    <3> QED BY <1>1, <2>1, <2>2, <2>3, <3>1, StructureStays, SelectStep
  <2>4. CASE Meanwhile
    <3>1. StructureInv' /\ StructureGrew
      <4>1. CASE UNCHANGED structure
        BY <4>1, StructureStays, NothingGrew
      <4>2. ASSUME NEW c \in NewChannels, NEW g, UserAddsChannel(c, g)
            PROVE  StructureInv' /\ StructureGrew
        BY <4>2, StructureGrows, AddedGrew DEF UserAddsChannel
      <4> QED BY <2>4, <4>1, <4>2 DEF Meanwhile
    <3>2. BoxesInv'
      BY <1>1, <2>4, <3>1, BoxesStay DEF Meanwhile, selectVars
    <3> QED BY <1>1, <2>1, <2>2, <3>1, <3>2
  <2> QED BY <1>4, <2>3, <2>4 DEF WatchBoxes, SelectNext
<1> QED BY <1>2, <1>3, <1>4 DEF ViewsNext

LEMMA ViewsInvariance == ViewsSpec => []ViewsInv
<1>1. ViewsInit => ViewsInv
  BY ViewsInvInit
<1>2. ViewsInv /\ [ViewsNext]_allVars => ViewsInv'
  BY ViewsInvStep
<1> QED BY <1>1, <1>2, PTL DEF ViewsSpec

(* When its events are handled, the device tree shows every channel and    *)
(* signal of the device in every group, and nothing that is not there:     *)
(* DeviceTreeModel::add_device() connects before it asks for the signals,  *)
(* so that the ones that come meanwhile are shown, too.                    *)
THEOREM TreeShowsDevice == ViewsSpec => []TreeIsComplete
<1>1. TreeInv /\ StructureInv => TreeIsComplete
  <2> SUFFICES ASSUME TreeInv, StructureInv, tree = "shown", posted = 0
               PROVE  TreeIsComplete
    BY DEF TreeIsComplete
  <2>1. \A c \in channelMap.main : ShowsAll(c)
    BY DEF TreeInv
  <2>2. AreThere(rows)
    BY DEF TreeInv
  <2> QED BY <2>1, <2>2, Zenon DEF TreeIsComplete, ShowsAll, AreThere
<1> QED BY <1>1, ViewsInvariance, PTL DEF ViewsInv

(* Whatever the user changes in the boxes, the signal that is chosen is of *)
(* the channel, the group and the device that are shown, and of the right  *)
(* quantity: a box that changes fills the ones after it.                    *)
THEOREM ChoiceIsShown == ViewsSpec => []SelectedIsShown
<1>1. BoxesInv => SelectedIsShown
  <2> SUFFICES ASSUME BoxesInv, boxes.item # NoItem
               PROVE  SelectedIsShown
    BY DEF SelectedIsShown
  <2>1. boxes.item \in ItemsOf(boxes)
    BY DEF ItemsOf
  <2>2. boxes.device # "none"
    <3>1. boxes.device = "none" => boxes = Empty
      BY DEF BoxesInv
    <3>2. Empty.item = NoItem
      BY DEF Empty
    <3> QED BY <3>1, <3>2
  <2> QED BY <2>1, <2>2 DEF BoxesInv, Consistent, IsRight, SelectedIsShown
<1> QED BY <1>1, ViewsInvariance, PTL DEF ViewsInv
=============================================================================
