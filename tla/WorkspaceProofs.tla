--------------------------- MODULE WorkspaceProofs ---------------------------
(***************************************************************************)
(* Proofs about the devices and the tabs of a Workspace, for every set of  *)
(* devices of the three kinds and however often they come and go: the map  *)
(* of the session, the tree and the map of the main window find a device   *)
(* by its id, and agree for those devices whose id says which they are.    *)
(* The views of a tab are those the user left in the last one, by way of   *)
(* the settings.                                                           *)
(***************************************************************************)
EXTENDS Workspace, FiniteSetTheorems, SequenceTheorems, WellFoundedInduction, TLAPS

(* The id a device gives when n ids have been made up for demo devices.    *)
IdOf(d, n) == IF d \in Hardware THEN <<"hardware", Serial(d)>>
              ELSE IF d \in Users THEN <<"user", 0>> ELSE <<"demo", n>>

(* Every entry of the map is under an id its device has given, so that an  *)
(* id of the hardware names one serial number; no two are under one id.    *)
(* Two devices in the tree with one serial number share it.                *)
MapInv ==
  /\ ids \in Nat
  /\ \A e \in deviceMap : e.dev \in Devices /\ \E n \in Nat : e.id = IdOf(e.dev, n)
  /\ \A e, f \in deviceMap : e.id = f.id => e = f
  /\ \A c, d \in tree : Twin(c, d) => Serial(c) \in shared

(* The same holds for the tabs; the map of the main window holds some of   *)
(* the tabs that are shown, and no two of one id.                          *)
TabInv ==
  /\ \A t \in tabs :
       \/ t.dev = Welcome /\ t.id = <<"welcome", 0>>
       \/ t.dev \in Devices /\ \E n \in Nat : t.id = <<"device", IdOf(t.dev, n)>>
  /\ tabMap \subseteq tabs
  /\ \A s, t \in tabMap : s.id = t.id => s = t

SessionInv == MapInv /\ TabInv /\ DevicesAgree /\ TabsAgree

-----------------------------------------------------------------------------
(* What a step of the workspace is to the devices and the tabs.            *)
StartAnew ==
  /\ ended' = FALSE /\ open' = {} /\ deviceMap' = {} /\ tree' = {} /\ shared' = {}
  /\ tabs' = {WelcomeTab(1)} /\ tabMap' = tabs'
  /\ UNCHANGED <<scripted, ids, adds>>

LEMMA SessionSteps ==
  ASSUME [WorkspaceNext]_allVars
  PROVE  \/ \E d \in Devices : \/ AddDevice(d) \/ ScriptAdds(d)
                               \/ DisconnectDevice(d) \/ ScriptRemoves(d)
         \/ \E t \in tabs : CloseTab(t)
         \/ EndSession \/ StartAnew \/ UNCHANGED vars
BY DEF WorkspaceNext, allVars, OpenTab, ConnectOnly, Disconnect, Receive, CloseTabOf,
   AddView, RemoveView, Quit, Crash, Restart, StartAnew

(* An id of the hardware is the id of one serial number only.              *)
LEMMA HardwareIds ==
  ASSUME NEW d \in Devices, NEW c \in Hardware, NEW n, NEW k
  PROVE  /\ IdOf(d, n) = IdOf(c, k) <=> d \in Hardware /\ Serial(d) = Serial(c)
         /\ Id(c, k) = IdOf(c, n)
BY ConstantsOK DEF IdOf, Id, Devices

LEMMA IdIsIdOf ==
  ASSUME NEW d \in Devices, NEW k \in Nat, ids \in Nat
  PROVE  ids + k \in Nat /\ Id(d, k) = IdOf(d, ids + k)
BY DEF IdOf, Id

-----------------------------------------------------------------------------
LEMMA SessionInit == WorkspaceInit => SessionInv
BY ConstantsOK DEF WorkspaceInit, Init, SessionInv, MapInv, TabInv, DevicesAgree, TabsAgree,
   WelcomeTab, Devices

(* Registering a device and unregistering it keep the map, the tree and    *)
(* what is open in agreement.                                              *)
LEMMA RegisterAgrees ==
  ASSUME MapInv, DevicesAgree, ~ended, NEW d \in Devices, Fresh(d), Register(d),
         ended' = ended, ids' \in Nat
  PROVE  MapInv' /\ DevicesAgree'
<1> DEFINE entry == [id |-> Id(d, 1), dev |-> d]
<1>1. /\ open' = open \cup {d} /\ tree' = tree \cup {d} /\ d \notin tree
      /\ deviceMap' = Insert(deviceMap, entry)
      /\ shared \subseteq shared'
      /\ \A c \in tree : Twin(d, c) => Serial(c) \in shared'
  BY DEF Register, Fresh
<1>2. \E n \in Nat : entry.id = IdOf(d, n)
  BY IdIsIdOf DEF MapInv
<1>3. \/ deviceMap' = deviceMap /\ \E e \in deviceMap : e.id = entry.id
      \/ deviceMap' = deviceMap \cup {entry} /\ \A e \in deviceMap : e.id # entry.id
  BY <1>1 DEF Insert
<1>4. entry.dev = d
  OBVIOUS
<1> HIDE DEF entry
<1>5. MapInv'
  <2>1. \A e \in deviceMap' : e.dev \in Devices /\ \E n \in Nat : e.id = IdOf(e.dev, n)
    BY <1>2, <1>3, <1>4 DEF MapInv
  <2>2. \A e, f \in deviceMap' : e.id = f.id => e = f
    BY <1>3 DEF MapInv
  <2>3. \A b, c \in tree' : Twin(b, c) => Serial(b) \in shared'
    BY <1>1 DEF MapInv, Twin
  <2> QED BY <2>1, <2>2, <2>3 DEF MapInv
<1>6. tree' = open' /\ \A e \in deviceMap' : e.dev \in Hardware => e.dev \in tree'
  BY <1>1, <1>3, <1>4 DEF DevicesAgree
<1>7. ASSUME NEW c \in tree', c \in Hardware, Serial(c) \notin shared'
      PROVE  \E e \in deviceMap' : e.dev = c
  <2>1. CASE c \in tree
    BY <1>1, <1>3, <1>7, <2>1 DEF DevicesAgree
  <2>2. CASE c \notin tree
    <3>1. c = d
      BY <1>1, <1>7, <2>2
    <3>2. ASSUME NEW e \in deviceMap, e.id = entry.id
          PROVE  FALSE
      <4>1. e.dev \in Hardware /\ Serial(e.dev) = Serial(d)
        BY <1>2, <1>7, <3>1, <3>2, HardwareIds DEF MapInv
      <4>2. e.dev \in tree
        BY <4>1 DEF DevicesAgree
      <4> QED BY <1>1, <1>7, <3>1, <4>1, <4>2 DEF Twin
    <3> QED BY <1>3, <1>4, <3>1, <3>2
  <2> QED BY <2>1, <2>2
<1> QED
  BY <1>5, <1>6, <1>7 DEF DevicesAgree

LEMMA UnregisterAgrees ==
  ASSUME MapInv, DevicesAgree, ~ended, NEW d \in Devices, d \in tree, NEW k \in Nat,
         Unregister(d, Id(d, k)), ended' = ended, ids' \in Nat, shared' = shared
  PROVE  MapInv' /\ DevicesAgree'
<1>1. /\ open' = open \ {d} /\ tree' = tree \ {d}
      /\ deviceMap' = {e \in deviceMap : e.id # Id(d, k)}
  BY DEF Unregister, Erase
<1>2. MapInv'
  BY <1>1 DEF MapInv
<1>3. PICK n \in Nat : Id(d, k) = IdOf(d, n)
  BY IdIsIdOf DEF MapInv
<1>4. \A e \in deviceMap : e.dev \in Hardware =>
        (e.id = Id(d, k) <=> d \in Hardware /\ Serial(d) = Serial(e.dev))
  <2> SUFFICES ASSUME NEW e \in deviceMap, e.dev \in Hardware
               PROVE  e.id = Id(d, k) <=> d \in Hardware /\ Serial(d) = Serial(e.dev)
    OBVIOUS
  <2>1. PICK m \in Nat : e.id = IdOf(e.dev, m)
    BY DEF MapInv
  <2>2. IdOf(d, n) = IdOf(e.dev, m) <=> d \in Hardware /\ Serial(d) = Serial(e.dev)
    BY HardwareIds
  <2> QED BY <1>3, <2>1, <2>2
<1>5. tree' = open' /\ \A e \in deviceMap' : e.dev \in Hardware => e.dev \in tree'
  BY <1>1, <1>4 DEF DevicesAgree
<1>6. ASSUME NEW c \in tree', c \in Hardware, Serial(c) \notin shared'
      PROVE  \E e \in deviceMap' : e.dev = c
  <2>1. PICK e \in deviceMap : e.dev = c
    BY <1>1, <1>6 DEF DevicesAgree
  <2>2. ~(d \in Hardware /\ Serial(d) = Serial(c))
    BY <1>1, <1>6 DEF MapInv, Twin
  <2> QED BY <1>1, <1>4, <1>6, <2>1, <2>2
<1> QED
  BY <1>2, <1>5, <1>6 DEF DevicesAgree

(* Removing a tab that is shown.                                           *)
LEMMA RemoveTabAgrees ==
  ASSUME TabInv, NEW t \in tabs, RemoveTab(t)
  PROVE  /\ TabInv'
         /\ \A s \in tabMap' : s.dev = Welcome \/ (s \in tabMap /\ s # t)
         /\ \A s \in tabs' \ tabMap' : s \in tabs \ tabMap
<1> DEFINE new == WelcomeTab(NewTab(tabs \ {t}))
<1>1. new.dev = Welcome /\ new.id = <<"welcome", 0>>
  BY DEF WelcomeTab
<1>2. CASE tabMap \ {t} = {}
  <2>1. tabMap' = {new} /\ tabs' = (tabs \ {t}) \cup {new}
    BY <1>2 DEF RemoveTab, Unmap, NeedsWelcome
  <2> HIDE DEF new
  <2> QED
    BY <1>1, <1>2, <2>1 DEF TabInv
<1>3. CASE tabMap \ {t} # {}
  <2>1. tabMap' = tabMap \ {t} /\ tabs' = tabs \ {t}
    BY <1>3 DEF RemoveTab, Unmap, NeedsWelcome
  <2> QED
    BY <2>1 DEF TabInv
<1> QED
  BY <1>2, <1>3

-----------------------------------------------------------------------------
(* The steps.                                                              *)
LEMMA AddDeviceStep ==
  ASSUME SessionInv, NEW d \in Devices, AddDevice(d)
  PROVE  SessionInv'
<1> DEFINE tab == [n |-> NewTab(tabs), id |-> <<"device", Id(d, 2)>>, dev |-> d]
<1>1. /\ ~ended /\ ended' = ended /\ Fresh(d) /\ Register(d) /\ AddTab(tab)
      /\ scripted' = scripted
  BY DEF AddDevice, New, Alive
<1>2. ids' \in Nat
  BY DEF AddDevice, MakesIds, SessionInv, MapInv
<1>3. MapInv' /\ DevicesAgree'
  BY <1>1, <1>2, RegisterAgrees DEF SessionInv
<1>4. PICK n \in Nat : tab.id = <<"device", IdOf(d, n)>>
  BY IdIsIdOf DEF SessionInv, MapInv
<1>5. tab.dev = d
  OBVIOUS
<1> HIDE DEF tab
<1>6. tabs' = tabs \cup {tab} /\ tabMap' = Insert(tabMap, tab)
  BY <1>1 DEF AddTab
<1>7. TabInv'
  <2>1. \A t \in tabs' :
          \/ t.dev = Welcome /\ t.id = <<"welcome", 0>>
          \/ t.dev \in Devices /\ \E m \in Nat : t.id = <<"device", IdOf(t.dev, m)>>
    BY <1>4, <1>5, <1>6 DEF SessionInv, TabInv
  <2>2. tabMap' \subseteq tabs' /\ \A s, t \in tabMap' : s.id = t.id => s = t
    BY <1>6 DEF Insert, SessionInv, TabInv
  <2> QED
    BY <2>1, <2>2 DEF TabInv
<1>8. TabsAgree'
  <2> SUFFICES ASSUME ~scripted
               PROVE  /\ \A t \in tabMap' : t.dev \in Hardware => t.dev \in tree'
                      /\ \A t \in tabs' \ tabMap' : /\ t.dev \in Hardware => Serial(t.dev) \in shared'
                                                    /\ t.dev # Welcome
    BY <1>1 DEF TabsAgree
  <2>1. /\ tree' = tree \cup {d} /\ d \notin tree /\ shared \subseteq shared'
        /\ \A c \in tree : Twin(d, c) => Serial(c) \in shared'
    BY <1>1 DEF Register, Fresh
  <2>2. /\ \A t \in tabMap : t.dev \in Hardware => t.dev \in tree
        /\ \A t \in tabs \ tabMap : (t.dev \in Hardware => Serial(t.dev) \in shared) /\ t.dev # Welcome
    BY DEF SessionInv, TabsAgree
  <2>3. \A t \in tabMap' : t.dev \in Hardware => t.dev \in tree'
    BY <1>5, <1>6, <2>1, <2>2 DEF Insert
  <2>4. ASSUME NEW t \in tabs' \ tabMap'
        PROVE  (t.dev \in Hardware => Serial(t.dev) \in shared') /\ t.dev # Welcome
    <3>1. CASE t \in tabs
      BY <1>6, <2>1, <2>2, <2>4, <3>1 DEF Insert
    <3>2. CASE t \notin tabs
      <4>1. t = tab /\ t.dev = d /\ d # Welcome
        BY <1>5, <1>6, <2>4, <3>2, ConstantsOK
      <4>2. PICK s \in tabMap : s.id = tab.id
        BY <1>6, <2>4, <4>1 DEF Insert
      <4>3. ASSUME d \in Hardware
            PROVE  Serial(d) \in shared'
        <5>1. s.dev \in Devices /\ \E m \in Nat : s.id = <<"device", IdOf(s.dev, m)>>
          BY <1>4, <4>2 DEF SessionInv, TabInv
        <5>2. s.dev \in Hardware /\ Serial(s.dev) = Serial(d)
          BY <1>4, <4>2, <4>3, <5>1, HardwareIds
        <5>3. s.dev \in tree /\ s.dev # d
          BY <2>1, <2>2, <4>2, <5>2
        <5>4. Twin(d, s.dev)
          BY <4>3, <5>2, <5>3 DEF Twin
        <5> QED BY <2>1, <5>2, <5>3, <5>4
      <4> QED BY <4>1, <4>3
    <3> QED BY <3>1, <3>2
  <2> QED BY <2>3, <2>4
<1> QED
  BY <1>3, <1>7, <1>8 DEF SessionInv

LEMMA ScriptAddsStep ==
  ASSUME SessionInv, NEW d \in Devices, ScriptAdds(d)
  PROVE  SessionInv'
<1>1. /\ ~ended /\ ended' = ended /\ Fresh(d) /\ Register(d)
      /\ scripted /\ scripted' = scripted /\ tabs' = tabs /\ tabMap' = tabMap
  BY DEF ScriptAdds, New, Alive, tabVars
<1>2. ids' \in Nat
  BY DEF ScriptAdds, MakesIds, SessionInv, MapInv
<1>3. MapInv' /\ DevicesAgree'
  BY <1>1, <1>2, RegisterAgrees DEF SessionInv
<1> QED
  BY <1>1, <1>3 DEF SessionInv, TabInv, TabsAgree

(* The tab that goes with a device of the hardware is the one in the map   *)
(* with its id.                                                            *)
LEMMA DisconnectDeviceStep ==
  ASSUME SessionInv, NEW d \in Devices, DisconnectDevice(d)
  PROVE  SessionInv'
<1> DEFINE found == {t \in tabMap : t.id = <<"device", Id(d, 1)>>}
<1>1. /\ ~ended /\ ended' = ended /\ d \in tree /\ Unregister(d, Id(d, 2))
      /\ scripted' = scripted /\ shared' = shared
      /\ IF found = {} THEN tabs' = tabs /\ tabMap' = tabMap
                       ELSE RemoveTab(CHOOSE t \in found : TRUE)
  BY DEF DisconnectDevice, Alive, tabVars
<1>2. ids' \in Nat
  BY DEF DisconnectDevice, MakesIds, SessionInv, MapInv
<1>3. MapInv' /\ DevicesAgree'
  BY <1>1, <1>2, UnregisterAgrees DEF SessionInv
<1>4. tree' = tree \ {d}
  BY <1>1 DEF Unregister
<1>5. \A t \in tabMap : t.dev = d /\ d \in Hardware => t \in found
  <2> SUFFICES ASSUME NEW t \in tabMap, t.dev = d, d \in Hardware
               PROVE  t.id = <<"device", Id(d, 1)>>
    OBVIOUS
  <2>1. \E n \in Nat : t.id = <<"device", IdOf(d, n)>>
    BY ConstantsOK DEF SessionInv, TabInv, Devices
  <2> QED BY <2>1, HardwareIds
<1>6. \A s, t \in found : s = t
  BY DEF SessionInv, TabInv
<1> HIDE DEF found
<1>7. /\ TabInv'
      /\ \A s \in tabMap' : s.dev = Welcome \/ (s \in tabMap /\ s \notin found)
      /\ \A s \in tabs' \ tabMap' : s \in tabs \ tabMap
  <2>1. CASE found = {}
    BY <1>1, <2>1 DEF SessionInv, TabInv
  <2>2. CASE found # {}
    <3>1. PICK t \in found : RemoveTab(t)
      BY <1>1, <2>2
    <3>2. t \in tabs
      BY <3>1 DEF found, SessionInv, TabInv
    <3>3. /\ TabInv'
          /\ \A s \in tabMap' : s.dev = Welcome \/ (s \in tabMap /\ s # t)
          /\ \A s \in tabs' \ tabMap' : s \in tabs \ tabMap
      BY <3>1, <3>2, RemoveTabAgrees DEF SessionInv
    <3> QED BY <1>6, <3>1, <3>3
  <2> QED BY <2>1, <2>2
<1>8. TabsAgree'
  <2> SUFFICES ASSUME ~scripted
               PROVE  /\ \A t \in tabMap' : t.dev \in Hardware => t.dev \in tree'
                      /\ \A t \in tabs' \ tabMap' : /\ t.dev \in Hardware => Serial(t.dev) \in shared'
                                                    /\ t.dev # Welcome
    BY <1>1 DEF TabsAgree
  <2>1. \A t \in tabMap' : t.dev \in Hardware => t.dev \in tree'
    BY <1>4, <1>5, <1>7, ConstantsOK DEF SessionInv, TabsAgree, Devices
  <2>2. \A t \in tabs' \ tabMap' : (t.dev \in Hardware => Serial(t.dev) \in shared') /\ t.dev # Welcome
    BY <1>1, <1>7 DEF SessionInv, TabsAgree
  <2> QED BY <2>1, <2>2
<1> QED
  BY <1>3, <1>7, <1>8 DEF SessionInv

LEMMA ScriptRemovesStep ==
  ASSUME SessionInv, NEW d \in Devices, ScriptRemoves(d)
  PROVE  SessionInv'
<1>1. /\ ~ended /\ ended' = ended /\ d \in tree /\ Unregister(d, Id(d, 1)) /\ shared' = shared
      /\ scripted /\ scripted' = scripted /\ tabs' = tabs /\ tabMap' = tabMap
  BY DEF ScriptRemoves, Alive, tabVars
<1>2. ids' \in Nat
  BY DEF ScriptRemoves, MakesIds, SessionInv, MapInv
<1>3. MapInv' /\ DevicesAgree'
  BY <1>1, <1>2, UnregisterAgrees DEF SessionInv
<1> QED
  BY <1>1, <1>3 DEF SessionInv, TabInv, TabsAgree

LEMMA CloseTabStep ==
  ASSUME SessionInv, NEW t \in tabs, CloseTab(t)
  PROVE  SessionInv'
<1>1. /\ RemoveTab(t) /\ scripted' = scripted /\ open' = open /\ deviceMap' = deviceMap
      /\ tree' = tree /\ ids' = ids /\ ended' = ended /\ shared' = shared
  BY DEF CloseTab, deviceVars
<1>2. /\ TabInv'
      /\ \A s \in tabMap' : s.dev = Welcome \/ (s \in tabMap /\ s # t)
      /\ \A s \in tabs' \ tabMap' : s \in tabs \ tabMap
  BY <1>1, RemoveTabAgrees DEF SessionInv
<1>3. MapInv' /\ DevicesAgree'
  BY <1>1 DEF SessionInv, MapInv, DevicesAgree
<1>4. TabsAgree'
  BY <1>1, <1>2, ConstantsOK DEF SessionInv, TabsAgree, Devices
<1> QED
  BY <1>2, <1>3, <1>4 DEF SessionInv

LEMMA SessionStep == SessionInv /\ [WorkspaceNext]_allVars => SessionInv'
<1> SUFFICES ASSUME SessionInv, [WorkspaceNext]_allVars
             PROVE  SessionInv'
  OBVIOUS
<1>1. ASSUME EndSession
      PROVE  SessionInv'
  BY <1>1 DEF EndSession, tabVars, SessionInv, MapInv, TabInv, DevicesAgree, TabsAgree
<1>2. ASSUME StartAnew
      PROVE  SessionInv'
  BY <1>2, ConstantsOK DEF StartAnew, WelcomeTab, SessionInv, MapInv, TabInv, DevicesAgree,
     TabsAgree, Devices
<1>3. ASSUME UNCHANGED vars
      PROVE  SessionInv'
  BY <1>3 DEF vars, deviceVars, tabVars, SessionInv, MapInv, TabInv, DevicesAgree, TabsAgree
<1> QED
  BY <1>1, <1>2, <1>3, SessionSteps, AddDeviceStep, ScriptAddsStep, DisconnectDeviceStep,
     ScriptRemovesStep, CloseTabStep

LEMMA SessionInvariance == WorkspaceSpec => []SessionInv
BY SessionInit, SessionStep, PTL DEF WorkspaceSpec

(* The devices that are open have the rows of the tree; the map of the     *)
(* session keeps none of the hardware that is removed, and loses none      *)
(* whose serial number no other has, also across restarts.                 *)
THEOREM DevicesKeepAgreeing == WorkspaceSpec => []DevicesAgree
BY SessionInvariance, PTL DEF SessionInv

(* In a window no script interferes with, a tab in the map is of a device  *)
(* that is connected, and only one of a shared serial number is not in it. *)
THEOREM TabsKeepAgreeing == WorkspaceSpec => []TabsAgree
BY SessionInvariance, PTL DEF SessionInv
-----------------------------------------------------------------------------
(* The views                                                               *)

(* The settings of a device are under an id that stays the same.           *)
Sid(d) == IF d \in Hardware THEN <<"hardware", Serial(d)>>
          ELSE IF d \in Users THEN <<"user", 0>> ELSE <<"demo", 0>>

Whats     == {"configurable", "property", "channel", "signal"}
Ref       == [dev : Devices, what : Whats]
SavedRef  == [dev : Seq({Sid(d) : d \in Devices}), what : Whats]
ViewKinds == {"control", "data", "timeplot", "sequenceoutput", "valuepanel"} \cup Pairs

IsView(v)  == v.kind \in ViewKinds /\ v.of \in Seq(Ref)
IsSaved(s) == s.kind \in ViewKinds /\ s.of \in Seq(SavedRef)

(* What a view of a tab of origin is in the settings                       *)
Stored(ref, origin) ==
  [dev |-> IF Sid(ref.dev) = Sid(origin) THEN <<>> ELSE <<Sid(ref.dev)>>, what |-> ref.what]
Keeps(s, w, origin) ==
  /\ IsSaved(s) /\ IsView(w) /\ s.id = w.id /\ s.kind = w.kind
  /\ \/ s.of = [i \in DOMAIN w.of |-> Stored(w.of[i], origin)]
     \/ /\ s.kind = "valuepanel" /\ w.of # <<>>
        /\ s.of = <<Stored(Of(w.of[1].dev, "signal"), origin)>>
KeepsAll(saves, leaves, origin) ==
  /\ \A s \in saves : \E w \in leaves : Keeps(s, w, origin)
  /\ \A w \in leaves : \E s \in saves : Keeps(s, w, origin)

(* The groups of the settings are those of the tabs the user left.         *)
GroupsAgree(groups, leaves, d) ==
  \A g \in groups : g.sid = Sid(d) =>
    /\ \E l \in leaves : l.sid = Sid(d)
    /\ \A l \in leaves : l.sid = Sid(d) => KeepsAll(g.views, l.views, d)
SavesAgree(groups, leaves) ==
  /\ \A g \in groups : \A s \in g.views : IsSaved(s)
  /\ \A d \in Hardware : GroupsAgree(groups, leaves, d)

(* A view is in a tab that is shown, and no view outlives the program.     *)
ShownInv ==
  /\ IsFiniteSet(tabs) /\ IsFiniteSet(deviceMap)
  /\ \A v \in views : IsView(v) /\ \E t \in tabs : t.n = v.tab
  /\ ended => views = {}
ViewsInv == ShownInv /\ SavesAgree(settings, left)

-----------------------------------------------------------------------------
(* A new tab has a number of its own.                                      *)
LEMMA NewTabIs ==
  ASSUME NEW shown, IsFiniteSet(shown)
  PROVE  NewTab(shown) \in Nat \ {0} /\ \A t \in shown : t.n # NewTab(shown)
<1> DEFINE c == Cardinality(shown)
           numbers == {t.n : t \in shown}
<1>1. c \in Nat
  BY FS_CardinalityType
<1>2. IsFiniteSet(numbers) /\ Cardinality(numbers) <= c
  <2> DEFINE f == [t \in shown |-> t.n]
  <2>1. f \in Surjection(shown, numbers)
    BY DEF Surjection
  <2> HIDE DEF f, numbers
  <2> QED BY <2>1, FS_Surjection
<1>3. Cardinality(numbers) \in Nat
  BY <1>2, FS_CardinalityType
<1> HIDE DEF c, numbers
<1>4. \E n \in 1 .. c + 1 : n \notin numbers
  <2> SUFFICES ASSUME 1 .. c + 1 \subseteq numbers
               PROVE  FALSE
    OBVIOUS
  <2>1. Cardinality(1 .. c + 1) <= Cardinality(numbers)
    BY <1>2, FS_Subset
  <2>2. Cardinality(1 .. c + 1) = c + 1
    <3>1. 1 \in Int /\ c + 1 \in Int /\ ~(1 > c + 1) /\ (c + 1) - 1 + 1 = c + 1
      BY <1>1
    <3> QED BY <3>1, FS_Interval
  <2> QED BY <1>1, <1>2, <1>3, <2>1, <2>2
<1>5. \E n \in 1 .. c + 1 : \A t \in shown : t.n # n
  BY <1>4 DEF numbers
<1>6. NewTab(shown) \in 1 .. c + 1 /\ \A t \in shown : t.n # NewTab(shown)
  BY <1>5, Zenon DEF NewTab, c
<1> QED BY <1>1, <1>6

(* A finite set is put in some order.                                      *)
LEMMA SetToSeqIs ==
  ASSUME NEW S, IsFiniteSet(S)
  PROVE  SetToSeq(S) \in Seq(S) /\ Len(SetToSeq(S)) = Cardinality(S)
<1> DEFINE n == Cardinality(S)
<1>1. n \in Nat /\ ExistsBijection(1..n, S)
  BY FS_CardinalityType
<1> HIDE DEF n
<1>2. \E f \in [1..n -> S] : IsInjective(f)
  BY <1>1 DEF ExistsBijection, Bijection, Injection, IsInjective
<1>3. SetToSeq(S) \in [1..n -> S]
  BY <1>2 DEF SetToSeq, n
<1>4. SetToSeq(S) \in Seq(S) /\ Len(SetToSeq(S)) = n
  BY <1>1, <1>3
<1> QED BY <1>4 DEF n

LEMMA SetToSeqOne ==
  ASSUME NEW x
  PROVE  SetToSeq({x}) = <<x>>
<1>1. IsFiniteSet({x}) /\ Cardinality({x}) = 1
  BY FS_Singleton
<1>2. SetToSeq({x}) \in Seq({x}) /\ Len(SetToSeq({x})) = 1
  BY <1>1, SetToSeqIs
<1> QED BY <1>2

LEMMA SeqIsSeq ==
  ASSUME NEW S, NEW T, S \subseteq T, NEW s \in Seq(S)
  PROVE  s \in Seq(T)
OBVIOUS


(* A set of numbers has a least element.                                   *)
LEMMA NatMin ==
  ASSUME NEW S \in SUBSET Nat, S # {}
  PROVE  \E m \in S : \A k \in S : m <= k
<1>1. PICK R : /\ IsWellFoundedOn(R, Nat)
               /\ \A k, m \in Nat : k < m => <<k, m>> \in R
  <2>1. \A k, m \in Nat : k < m => <<k, m>> \in OpToRel(<, Nat)
    BY SMT DEF OpToRel
  <2> QED BY <2>1, NatLessThanWellFounded, Zenon
<1>2. PICK m \in S : \A k \in S : ~ (<<k, m>> \in R)
  <2>1. S \subseteq Nat
    OBVIOUS
  <2>2. IsWellFoundedOn(R, Nat)
    BY <1>1
  <2> QED BY ONLY <2>1, <2>2, S # {}, WFMin
<1>3. ASSUME NEW k \in S, ~(m <= k)
      PROVE  FALSE
  <2>1. k \in Nat /\ m \in Nat /\ k < m
    BY <1>3
  <2> QED BY <1>1, <1>2, <2>1
<1> QED BY <1>3

LEMMA UpFrom ==
  ASSUME NEW S, NEW n \in Nat, 0 \in S, \A k \in 0..n : k < n /\ k \in S => k + 1 \in S
  PROVE  0..n \subseteq S
<1> DEFINE Out == {k \in 0..n : k \notin S}
<1>1. ASSUME Out # {}
      PROVE  FALSE
  <2>1. Out \in SUBSET Nat
    OBVIOUS
  <2>2. PICK m \in Out : \A k \in Out : m <= k
    BY <1>1, <2>1, NatMin
  <2>3. m \in 0..n /\ m \notin S /\ m # 0
    BY <2>2
  <2>4. m - 1 \in 0..n /\ m - 1 < n /\ ~(m <= m - 1)
    BY <2>3
  <2>5. m - 1 \in S
    BY <2>2, <2>4
  <2>6. (m - 1) + 1 \in S
    BY <2>4, <2>5
  <2> QED BY <2>3, <2>6
<1> QED BY <1>1

(* The sequences of a sequence, one after the other                        *)
LEMMA FlattenIs ==
  ASSUME NEW S, NEW c \in Seq(Seq(S)), NEW f \in [0..Len(c) -> Seq(S)],
         f[0] = <<>>, \A k \in 1..Len(c) : f[k] = f[k - 1] \o c[k]
  PROVE  FlattenSeq(c) = f[Len(c)]
<1> DEFINE n == Len(c)
<1>1. n \in Nat /\ DOMAIN c = 1..n
  BY LenProperties
<1>2. CASE n = 0
  <2>1. c = <<>>
    BY <1>2
  <2> QED BY <1>2, <2>1 DEF FlattenSeq
<1>3. CASE n # 0
  <2> DEFINE Eq(g) == g = [i \in 1..n |-> IF i = 1 THEN c[i] ELSE g[i - 1] \o c[i]]
             g == CHOOSE g : Eq(g)
             F == [i \in 1..n |-> f[i]]
  <2>1. Eq(F)
    <3>1. ASSUME NEW i \in 1..n
          PROVE  F[i] = IF i = 1 THEN c[i] ELSE F[i - 1] \o c[i]
      <4>1. F[i] = f[i - 1] \o c[i]
        BY <1>1
      <4>2. CASE i = 1
        <5>1. c[i] \in Seq(S) /\ f[i - 1] = <<>>
          BY <1>1, <4>2
        <5> QED BY <4>1, <4>2, <5>1
      <4>3. CASE i # 1
        <5>1. i - 1 \in 1..n
          BY <1>1, <4>3
        <5> QED BY <4>1, <4>3, <5>1
      <4> QED BY <4>2, <4>3
    <3> HIDE DEF n
    <3> QED BY <3>1, Zenon
  <2>2. Eq(g)
    <3> HIDE DEF Eq
    <3> QED BY <2>1
  <2> HIDE DEF g
  <2>3. ASSUME NEW j \in 1..n, g[j] # f[j]
        PROVE  FALSE
    <3> DEFINE D == {i \in Nat : i \in 1..n /\ g[i] # f[i]}
    <3>1. PICK m \in D : \A i \in D : m <= i
      <4>1. D \in SUBSET Nat /\ j \in D
        BY <2>3, <1>1
      <4> HIDE DEF D
      <4> QED BY <4>1, NatMin
    <3>2. m \in Nat /\ m \in 1..n /\ g[m] # f[m]
      BY <3>1
    <3>3. g[m] = IF m = 1 THEN c[m] ELSE g[m - 1] \o c[m]
      BY <2>2, <3>2
    <3>4. f[m] = F[m] /\ F[m] = IF m = 1 THEN c[m] ELSE F[m - 1] \o c[m]
      BY <2>1, <3>2
    <3>5. m # 1
      BY <3>2, <3>3, <3>4
    <3>6. m - 1 \in Nat /\ m - 1 \in 1..n /\ ~(m <= m - 1)
      BY <1>1, <3>2, <3>5
    <3>7. g[m - 1] = F[m - 1]
      BY <3>1, <3>6
    <3> QED BY <3>2, <3>3, <3>4, <3>5, <3>7
  <2>4. FlattenSeq(c) = g[n]
    BY <1>3, <1>1 DEF FlattenSeq, g
  <2>5. n \in 1..n
    BY <1>1, <1>3
  <2> QED BY <2>3, <2>4, <2>5
<1> QED BY <1>2, <1>3

LEMMA FlattenType ==
  ASSUME NEW T, NEW c \in Seq(Seq(T))
  PROVE  FlattenSeq(c) \in Seq(T)
<1> DEFINE n == Len(c)
           Upto(m, f) == f[0] = <<>> /\ \A k \in 1..m : f[k] = f[k - 1] \o c[k]
           S == {m \in 0..n : \E f \in [0..m -> Seq(T)] : Upto(m, f)}
<1>1. n \in Nat
  BY LenProperties
<1>2. 0 \in S
  <2>1. [k \in 0..0 |-> <<>>] \in [0..0 -> Seq(T)] /\ Upto(0, [k \in 0..0 |-> <<>>])
    OBVIOUS
  <2>2. 0 \in 0..n
    BY <1>1
  <2> QED BY <2>1, <2>2
<1>3. ASSUME NEW m \in 0..n, m < n, m \in S
      PROVE  m + 1 \in S
  <2>1. PICK f \in [0..m -> Seq(T)] : Upto(m, f)
    BY <1>3
  <2>2. /\ m \in Nat /\ m + 1 \in 0..n /\ (m + 1) - 1 = m /\ m + 1 \in 1..n
        /\ m \in 0..m /\ 0 \in 0..m /\ m + 1 # 0 /\ 0 \in 0..(m + 1)
    BY <1>1, <1>3
  <2>3. c[m + 1] \in Seq(T) /\ f[m] \in Seq(T)
    BY <2>1, <2>2
  <2> DEFINE g == [k \in 0..(m + 1) |-> IF k = m + 1 THEN f[m] \o c[m + 1] ELSE f[k]]
  <2>4. g \in [0..(m + 1) -> Seq(T)]
    <3>1. ASSUME NEW k \in 0..(m + 1)
          PROVE  (IF k = m + 1 THEN f[m] \o c[m + 1] ELSE f[k]) \in Seq(T)
      <4>1. CASE k = m + 1
        BY <2>3, <4>1
      <4>2. CASE k # m + 1
        <5>1. k \in 0..m
          BY <2>2, <4>2
        <5> QED BY <2>1, <4>2, <5>1
      <4> QED BY <4>1, <4>2
    <3> QED BY <3>1
  <2>5. ASSUME NEW k \in 1..(m + 1)
        PROVE  g[k] = g[k - 1] \o c[k]
    <3>1. CASE k = m + 1
      <4>1. g[k] = f[m] \o c[m + 1] /\ g[k - 1] = f[m]
        BY <2>2, <3>1
      <4> QED BY <3>1, <4>1
    <3>2. CASE k # m + 1
      <4>1. k \in 1..m /\ g[k] = f[k] /\ g[k - 1] = f[k - 1]
        BY <2>2, <3>2
      <4> QED BY <2>1, <4>1
    <3> QED BY <3>1, <3>2
  <2>6. g[0] = <<>>
    BY <2>1, <2>2
  <2> HIDE DEF g
  <2>7. Upto(m + 1, g)
    BY <2>5, <2>6
  <2> HIDE DEF Upto
  <2> QED BY <2>2, <2>4, <2>7
<1>4. n \in S
  <2> HIDE DEF S
  <2>1. 0..n \subseteq S
    BY <1>1, <1>2, <1>3, UpFrom
  <2> QED BY <1>1, <2>1
<1>5. PICK f \in [0..n -> Seq(T)] : Upto(n, f)
  BY <1>4
<1>6. FlattenSeq(c) = f[n]
  BY <1>5, FlattenIs
<1>7. n \in 0..n
  BY <1>1
<1> QED BY <1>5, <1>6, <1>7

LEMMA FlattenOnes ==
  ASSUME NEW T, NEW x \in Seq(T)
  PROVE  FlattenSeq([i \in DOMAIN x |-> <<x[i]>>]) = x
<1> DEFINE n == Len(x)
           c == [i \in DOMAIN x |-> <<x[i]>>]
           f == [k \in 0..n |-> SubSeq(x, 1, k)]
<1>1. n \in Nat /\ DOMAIN x = 1..n /\ \A i \in 1..n : x[i] \in T
  BY LenProperties
<1>2. c \in Seq(Seq(T)) /\ Len(c) = n /\ \A i \in 1..n : c[i] = <<x[i]>>
  BY <1>1
<1>3. ASSUME NEW k \in 0..n
      PROVE  /\ SubSeq(x, 1, k) \in Seq(T) /\ Len(SubSeq(x, 1, k)) = k
             /\ \A i \in 1..k : SubSeq(x, 1, k)[i] = x[i]
  BY <1>1, <1>3, SubSeqProperties
<1> HIDE DEF c
<1>4. f \in [0..n -> Seq(T)] /\ f[0] = <<>>
  BY <1>1, <1>3
<1>5. ASSUME NEW k \in 1..n
      PROVE  f[k] = f[k - 1] \o c[k]
  <2>1. k \in 0..n /\ k - 1 \in 0..n /\ k \in Nat /\ k - 1 \in Nat
    BY <1>1
  <2>2. f[k] = SubSeq(x, 1, k) /\ f[k - 1] = SubSeq(x, 1, k - 1) /\ c[k] = <<x[k]>> /\ x[k] \in T
    BY <1>1, <1>2, <2>1
  <2>3. /\ SubSeq(x, 1, k) \in Seq(T) /\ Len(SubSeq(x, 1, k)) = k
        /\ \A i \in 1..k : SubSeq(x, 1, k)[i] = x[i]
    BY <1>3, <2>1
  <2>4. /\ SubSeq(x, 1, k - 1) \in Seq(T) /\ Len(SubSeq(x, 1, k - 1)) = k - 1
        /\ \A i \in 1..(k - 1) : SubSeq(x, 1, k - 1)[i] = x[i]
    BY <1>3, <2>1
  <2> DEFINE a == SubSeq(x, 1, k)
             b == SubSeq(x, 1, k - 1)
             d == b \o <<x[k]>>
  <2> HIDE DEF f, a, b
  <2>5. a \in Seq(T) /\ Len(a) = k /\ \A i \in 1..k : a[i] = x[i]
    BY <2>3 DEF a
  <2>6. b \in Seq(T) /\ Len(b) = k - 1 /\ \A i \in 1..(k - 1) : b[i] = x[i]
    BY <2>4 DEF b
  <2>7. d \in Seq(T) /\ Len(d) = k /\ \A i \in 1..k : d[i] = x[i]
    BY <2>1, <2>2, <2>6
  <2> HIDE DEF d
  <2>8. a = d
    BY ONLY <2>1, <2>5, <2>7, SeqEqual
  <2> QED BY <2>2, <2>8 DEF a, b, d
<1> HIDE DEF f
<1>6. FlattenSeq(c) = f[n]
  BY <1>2, <1>4, <1>5, FlattenIs
<1>7. f[n] = SubSeq(x, 1, n) /\ n \in 0..n
  BY <1>1 DEF f
<1>8. SubSeq(x, 1, n) = x
  BY <1>1, <1>3, <1>7
<1> QED BY <1>6, <1>7, <1>8 DEF c

-----------------------------------------------------------------------------
(* What is saved of a tab.                                                 *)
LEMMA SidIs ==
  ASSUME NEW d \in Devices
  PROVE  SettingsId(d) = Sid(d) /\ SettingsId(d)' = Sid(d)
BY ConstantsOK DEF SettingsId, Id, Sid, Devices

(* Devices that share their settings are both of the hardware, or neither. *)
LEMMA HardwareSid ==
  ASSUME NEW d \in Hardware, NEW e, Sid(e) = Sid(d)
  PROVE  e \in Hardware
BY DEF Sid

LEMMA StoredIs ==
  ASSUME NEW ref \in Ref, NEW d \in Devices
  PROVE  SaveRef(ref, d) = Stored(ref, d) /\ Stored(ref, d) \in SavedRef
<1>1. ref.dev \in Devices /\ ref.what \in Whats
  BY DEF Ref
<1>2. SaveRef(ref, d) = Stored(ref, d)
  BY <1>1, SidIs DEF SaveRef, Stored
<1> DEFINE sids == {Sid(e) : e \in Devices}
<1>3. Sid(ref.dev) \in sids
  BY <1>1
<1> HIDE DEF sids
<1>4. <<>> \in Seq(sids) /\ <<Sid(ref.dev)>> \in Seq(sids)
  BY <1>3
<1> QED BY <1>1, <1>2, <1>4 DEF Stored, SavedRef, sids

LEMMA SaveViewKeeps ==
  ASSUME NEW d \in Devices, NEW v, IsView(v), v.kind = "valuepanel" => v.of # <<>>
  PROVE  Keeps(SaveView(v, d), v, d)
<1> DEFINE shown == IF v.kind = "valuepanel" THEN ShownByPanel(v) ELSE v.of
           s == SaveView(v, d)
<1>1. v.kind \in ViewKinds /\ v.of \in Seq(Ref)
  BY DEF IsView
<1>2. s = [id |-> v.id, kind |-> v.kind, of |-> [i \in DOMAIN shown |-> SaveRef(shown[i], d)]]
  BY DEF SaveView
<1> HIDE DEF s
<1>3. s.id = v.id /\ s.kind = v.kind /\ s.of = [i \in DOMAIN shown |-> SaveRef(shown[i], d)]
  BY <1>2
<1>4. \/ shown = v.of
      \/ v.kind = "valuepanel" /\ v.of # <<>> /\ shown = <<Of(v.of[1].dev, "signal")>>
  BY DEF ShownByPanel
<1>5. shown \in Seq(Ref)
  <2>1. CASE shown = v.of
    BY <1>1, <2>1
  <2>2. CASE v.of # <<>> /\ shown = <<Of(v.of[1].dev, "signal")>>
    <3>1. v.of[1] \in Ref
      BY <1>1, <2>2
    <3>2. Of(v.of[1].dev, "signal") \in Ref
      BY <3>1 DEF Ref, Of, Whats
    <3>3. <<Of(v.of[1].dev, "signal")>> \in Seq(Ref)
      BY <3>2
    <3> HIDE DEF shown
    <3> QED BY <2>2, <3>3
  <2> QED BY <1>4, <2>1, <2>2
<1> HIDE DEF shown
<1>6. \A i \in DOMAIN shown : shown[i] \in Ref
  BY <1>5
<1>7. s.of = [i \in DOMAIN shown |-> Stored(shown[i], d)]
  BY <1>3, <1>6, StoredIs
<1>8. s.of \in Seq(SavedRef)
  <2>1. \A i \in DOMAIN shown : Stored(shown[i], d) \in SavedRef
    BY <1>6, StoredIs
  <2>2. DOMAIN shown = 1..Len(shown) /\ Len(shown) \in Nat
    BY <1>5, LenProperties
  <2> QED BY <1>7, <2>1, <2>2
<1>9. IsSaved(s)
  BY <1>1, <1>3, <1>8 DEF IsSaved
<1>10. CASE shown = v.of
  BY <1>3, <1>7, <1>9, <1>10 DEF Keeps, s
<1>11. CASE v.kind = "valuepanel" /\ v.of # <<>> /\ shown = <<Of(v.of[1].dev, "signal")>>
  <2>1. s.of = <<Stored(Of(v.of[1].dev, "signal"), d)>>
    BY <1>7, <1>11
  <2> QED BY <1>3, <1>9, <1>11, <2>1 DEF Keeps, s
<1> QED BY <1>4, <1>10, <1>11

LEMMA TabKept ==
  ASSUME ShownInv, NEW tab, tab.dev \in Devices, ~CannotSave(tab)
  PROVE  LET saves == {SaveView(v, tab.dev) : v \in ViewsOf(tab.n)}
         IN  KeepsAll(saves, ViewsOf(tab.n), tab.dev) /\ \A s \in saves : IsSaved(s)
<1>1. ASSUME NEW v \in ViewsOf(tab.n)
      PROVE  Keeps(SaveView(v, tab.dev), v, tab.dev)
  <2>1. v \in views /\ IsView(v)
    BY DEF ViewsOf, ShownInv
  <2>2. v.kind = "valuepanel" => v.of # <<>>
    BY DEF CannotSave
  <2> QED BY <2>1, <2>2, SaveViewKeeps
<1>2. \A v \in ViewsOf(tab.n) : IsSaved(SaveView(v, tab.dev))
  BY <1>1 DEF Keeps
<1> QED BY <1>1, <1>2 DEF KeepsAll

(* What is saved depends on the id of the device only.                     *)
LEMMA KeptForTwin ==
  ASSUME NEW c, NEW d, Sid(c) = Sid(d), NEW saves, NEW leaves, KeepsAll(saves, leaves, c)
  PROVE  KeepsAll(saves, leaves, d)
<1>1. \A ref : Stored(ref, c) = Stored(ref, d)
  BY DEF Stored
<1>2. \A s, w : Keeps(s, w, c) => Keeps(s, w, d)
  BY <1>1, Zenon DEF Keeps
<1> QED BY <1>2 DEF KeepsAll

(* One tab after the other is saved, whatever order they are in.           *)
LEMMA SavesGoOn ==
  ASSUME ShownInv, NEW tab, tab.dev \in Devices \cup {Welcome}, ~CannotSave(tab),
         NEW groups, NEW leaves, SavesAgree(groups, leaves)
  PROVE  SavesAgree(SaveSettings(groups, tab), Leave(leaves, tab))
<1>1. CASE ~Saves(tab)
  BY <1>1 DEF SaveSettings, Leave
<1>2. CASE Saves(tab)
  <2> DEFINE c == tab.dev
             saves == {SaveView(v, c) : v \in ViewsOf(tab.n)}
             shown == ViewsOf(tab.n)
             groups2 == SaveSettings(groups, tab)
             leaves2 == Leave(leaves, tab)
  <2>1. c \in Devices
    BY <1>2, ConstantsOK DEF Saves, Devices
  <2>2. KeepsAll(saves, shown, c) /\ \A s \in saves : IsSaved(s)
    BY <2>1, TabKept
  <2>3. SettingsId(c) = Sid(c)
    BY <2>1, SidIs
  <2>4. groups2 = {g \in groups : g.sid # Sid(c)} \cup {[sid |-> Sid(c), views |-> saves]}
    BY <1>2, <2>3 DEF SaveSettings, Put
  <2>5. leaves2 = {l \in leaves : l.sid # Sid(c)} \cup {[sid |-> Sid(c), views |-> shown]}
    BY <1>2, <2>3 DEF Leave, Put
  <2> HIDE DEF groups2, leaves2, saves, shown, c
  <2>6. \A g \in groups2 : \/ g \in groups /\ g.sid # Sid(c)
                           \/ g.sid = Sid(c) /\ g.views = saves
    BY <2>4
  <2>7. \A l \in leaves2 : \/ l \in leaves /\ l.sid # Sid(c)
                           \/ l.sid = Sid(c) /\ l.views = shown
    BY <2>5
  <2>8. \A g \in groups2 : \A s \in g.views : IsSaved(s)
    BY <2>2, <2>6 DEF SavesAgree
  <2>9. ASSUME NEW d \in Hardware
        PROVE  GroupsAgree(groups2, leaves2, d)
    <3>1. GroupsAgree(groups, leaves, d)
      BY DEF SavesAgree
    <3>2. ASSUME NEW g \in groups2, g.sid = Sid(d), Sid(d) = Sid(c)
          PROVE  /\ \E l \in leaves2 : l.sid = Sid(d)
                 /\ \A l \in leaves2 : l.sid = Sid(d) => KeepsAll(g.views, l.views, d)
      <4>1. [sid |-> Sid(c), views |-> shown] \in leaves2
        BY <2>5
      <4>2. [sid |-> Sid(c), views |-> shown].sid = Sid(d)
        BY <3>2
      <4>3. g.views = saves /\ \A l \in leaves2 : l.sid = Sid(d) => l.views = shown
        BY <2>6, <2>7, <3>2
      <4>4. KeepsAll(saves, shown, d)
        BY <2>2, <3>2, KeptForTwin
      <4> QED BY <4>1, <4>2, <4>3, <4>4
    <3>3. ASSUME NEW g \in groups2, g.sid = Sid(d), Sid(d) # Sid(c)
          PROVE  /\ \E l \in leaves2 : l.sid = Sid(d)
                 /\ \A l \in leaves2 : l.sid = Sid(d) => KeepsAll(g.views, l.views, d)
      <4>1. Sid(c) # Sid(d)
        BY <3>3
      <4>2. g \in groups
        BY <2>6, <3>3, <4>1
      <4>3. /\ \E l \in leaves : l.sid = Sid(d)
            /\ \A l \in leaves : l.sid = Sid(d) => KeepsAll(g.views, l.views, d)
        BY <3>1, <3>3, <4>2 DEF GroupsAgree
      <4>4. \A l \in leaves : l.sid = Sid(d) => l \in leaves2
        BY <2>5, <4>1
      <4> QED BY <2>7, <4>1, <4>3, <4>4
    <3> QED BY <3>2, <3>3 DEF GroupsAgree
  <2>10. SavesAgree(groups2, leaves2)
    BY <2>8, <2>9 DEF SavesAgree
  <2> QED BY <2>10 DEF groups2, leaves2
<1> QED BY <1>1, <1>2

(* The recursive function Saving is defined as far as it goes.             *)
SavingStep(closed, k, f) ==
  [settings |-> SaveSettings(f.settings, closed[k]), left |-> Leave(f.left, closed[k])]

LEMMA SavingIs ==
  ASSUME NEW closed, Len(closed) \in Nat
  PROVE  /\ Saving(closed)[0] = [settings |-> settings, left |-> left]
         /\ \A k \in 1..Len(closed) :
              Saving(closed)[k] = SavingStep(closed, k, Saving(closed)[k - 1])
<1> DEFINE n == Len(closed)
           x == [settings |-> settings, left |-> left]
           Upto(m, h) == h = [k \in 0..m |-> IF k = 0 THEN x ELSE SavingStep(closed, k, h[k - 1])]
           S == {m \in 0..n : \E h : Upto(m, h)}
<1>1. n \in Nat
  OBVIOUS
<1> HIDE DEF x
<1>2. 0 \in S
  <2>1. Upto(0, [k \in 0..0 |-> x])
    OBVIOUS
  <2>2. 0 \in 0..n
    BY <1>1
  <2> HIDE DEF Upto
  <2> QED BY <2>1, <2>2
<1>3. ASSUME NEW m \in 0..n, m < n, m \in S
      PROVE  m + 1 \in S
  <2>1. PICK h : Upto(m, h)
    BY <1>3
  <2>2. m \in Nat /\ m + 1 \in 0..n /\ (m + 1) - 1 = m /\ m \in 0..m /\ m + 1 # 0
    BY <1>1, <1>3
  <2> DEFINE g == [k \in 0..(m + 1) |-> IF k = m + 1 THEN SavingStep(closed, m + 1, h[m]) ELSE h[k]]
  <2>3. ASSUME NEW k \in 0..(m + 1)
        PROVE  g[k] = IF k = 0 THEN x ELSE SavingStep(closed, k, g[k - 1])
    <3>1. CASE k = m + 1
      <4>1. g[k] = SavingStep(closed, m + 1, h[m]) /\ g[k - 1] = h[m] /\ k # 0
        BY <2>2, <3>1
      <4> QED BY <3>1, <4>1
    <3>2. CASE k # m + 1
      <4>1. k \in 0..m /\ g[k] = h[k] /\ (k # 0 => k - 1 \in 0..m /\ g[k - 1] = h[k - 1])
        BY <2>2, <2>3, <3>2
      <4>2. h[k] = IF k = 0 THEN x ELSE SavingStep(closed, k, h[k - 1])
        BY <2>1, <4>1
      <4> QED BY <4>1, <4>2
    <3> QED BY <3>1, <3>2
  <2>4. g = [k \in 0..(m + 1) |-> g[k]]
    OBVIOUS
  <2> HIDE DEF g
  <2>5. Upto(m + 1, g)
    BY <2>3, <2>4
  <2> HIDE DEF Upto
  <2> QED BY <2>2, <2>5
<1>4. n \in S
  <2> HIDE DEF S
  <2>1. 0..n \subseteq S
    BY <1>1, <1>2, <1>3, UpFrom
  <2> QED BY <1>1, <2>1
<1>5. \E h : Upto(n, h)
  BY <1>4
<1> DEFINE F == CHOOSE h : Upto(n, h)
<1>6. Upto(n, F)
  <2> HIDE DEF Upto
  <2> QED BY <1>5
<1>7. Saving(closed) = F
  BY Zenon DEF Saving, SavingStep, x
<1> HIDE DEF F
<1>8. F[0] = x
  <2>1. 0 \in 0..n
    BY <1>1
  <2> QED BY <1>6, <2>1
<1>9. ASSUME NEW k \in 1..n
      PROVE  F[k] = SavingStep(closed, k, F[k - 1])
  <2>1. k \in 0..n /\ k # 0
    BY <1>1
  <2> QED BY <1>6, <2>1
<1> QED BY <1>7, <1>8, <1>9 DEF x

LEMMA ClosedTabsAgree ==
  ASSUME ShownInv, SavesAgree(settings, left),
         NEW T, NEW closed \in Seq(T),
         \A t \in T : t.dev \in Devices \cup {Welcome} /\ ~CannotSave(t),
         CloseEvents(closed)
  PROVE  SavesAgree(settings', left')
<1> DEFINE n == Len(closed)
           f == Saving(closed)
           S == {k \in 0..n : SavesAgree(f[k].settings, f[k].left)}
<1>1. n \in Nat /\ \A k \in 1..n : closed[k] \in T
  BY LenProperties
<1>2. f[0] = [settings |-> settings, left |-> left]
  BY <1>1, SavingIs
<1>3. ASSUME NEW k \in 1..n
      PROVE  f[k] = SavingStep(closed, k, f[k - 1])
  BY <1>1, SavingIs
<1>4. settings' = f[n].settings /\ left' = f[n].left
  BY DEF CloseEvents
<1> HIDE DEF f
<1>5. 0 \in S
  BY <1>1, <1>2
<1>6. ASSUME NEW k \in 0..n, k < n, k \in S
      PROVE  k + 1 \in S
  <2>1. k + 1 \in 1..n /\ k + 1 \in 0..n /\ (k + 1) - 1 = k
    BY <1>1, <1>6
  <2>2. /\ f[k + 1].settings = SaveSettings(f[k].settings, closed[k + 1])
        /\ f[k + 1].left = Leave(f[k].left, closed[k + 1])
    <3>1. f[k + 1] = SavingStep(closed, k + 1, f[(k + 1) - 1])
      BY <1>3, <2>1
    <3>2. f[k + 1] = SavingStep(closed, k + 1, f[k])
      BY <2>1, <3>1
    <3> QED BY <3>2 DEF SavingStep
  <2>3. SavesAgree(f[k].settings, f[k].left)
    BY <1>6
  <2>4. closed[k + 1].dev \in Devices \cup {Welcome} /\ ~CannotSave(closed[k + 1])
    BY <1>1, <2>1
  <2>5. SavesAgree(f[k + 1].settings, f[k + 1].left)
    BY <2>2, <2>3, <2>4, SavesGoOn
  <2> QED BY <2>1, <2>5
<1>7. 0..n \subseteq S
  <2> HIDE DEF S
  <2> QED BY <1>1, <1>5, <1>6, UpFrom
<1>8. n \in S
  BY <1>1, <1>7
<1> QED BY <1>4, <1>8

-----------------------------------------------------------------------------
(* What is restored of a tab.                                              *)
MapGood == IsFiniteSet(deviceMap) /\ \A e \in deviceMap : e.dev \in Devices

LEMMA RestoreDeviceIs ==
  ASSUME MapGood', NEW saved, NEW d \in Devices
  PROVE  RestoreDevice(saved, d) \subseteq Devices /\ IsFiniteSet(RestoreDevice(saved, d))
<1>1. CASE saved.dev = <<>> \/ d \in Demos
  <2>1. RestoreDevice(saved, d) = {d}
    BY <1>1 DEF RestoreDevice
  <2> QED BY <2>1, FS_Singleton
<1>2. CASE ~(saved.dev = <<>> \/ d \in Demos)
  <2> DEFINE found == {f \in deviceMap' : f.id = saved.dev[1]}
             map == [e \in found |-> e.dev]
             image == {e.dev : e \in found}
  <2>1. RestoreDevice(saved, d) = image
    BY <1>2 DEF RestoreDevice
  <2>2. IsFiniteSet(found)
    BY FS_Subset DEF MapGood
  <2>3. image \subseteq Devices
    BY DEF MapGood
  <2> HIDE DEF found
  <2>4. map \in Surjection(found, image)
    BY DEF Surjection
  <2> HIDE DEF map, image
  <2> QED BY <2>1, <2>2, <2>3, <2>4, FS_Surjection
<1> QED BY <1>1, <1>2

LEMMA RestoreRefIs ==
  ASSUME MapGood', NEW saved, saved.what \in Whats, NEW d \in Devices
  PROVE  /\ RestoreRef(saved, d) \subseteq Ref /\ IsFiniteSet(RestoreRef(saved, d))
         /\ \A x \in RestoreRef(saved, d) : x.dev \in RestoreDevice(saved, d)
<1> DEFINE devs == {x \in RestoreDevice(saved, d) :
                      saved.what = "signal" => x \in received' \cup SourceSinks}
           what == saved.what
           image == {Of(x, what) : x \in devs}
           map == [x \in devs |-> Of(x, what)]
<1>1. RestoreRef(saved, d) = image
  BY DEF RestoreRef
<1>2. devs \subseteq RestoreDevice(saved, d) /\ devs \subseteq Devices /\ IsFiniteSet(devs)
  BY RestoreDeviceIs, FS_Subset
<1>3. what \in Whats
  OBVIOUS
<1> HIDE DEF devs, what
<1>4. map \in Surjection(devs, image)
  BY DEF Surjection
<1>5. IsFiniteSet(image)
  <2> HIDE DEF map, image
  <2> QED BY <1>2, <1>4, FS_Surjection
<1>6. \A x \in image : x \in Ref /\ x.dev \in devs
  BY <1>2, <1>3 DEF Of, Ref
<1> HIDE DEF image
<1> QED BY <1>1, <1>2, <1>5, <1>6

(* What is shown is on devices that the settings name.                     *)
FromSaved(of, saved, d) ==
  /\ of \in Seq(Ref)
  /\ \A j \in DOMAIN of : \E i \in DOMAIN saved.of : of[j].dev \in RestoreDevice(saved.of[i], d)

LEMMA FoundIs ==
  ASSUME MapGood', NEW saved, IsSaved(saved), NEW d \in Devices
  PROVE  /\ FromSaved(Found(saved, d), saved, d)
         /\ saved.of = <<>> => AllFound(saved, d)
<1> DEFINE D == DOMAIN saved.of
           T == UNION {RestoreRef(saved.of[i], d) : i \in D}
           c == [i \in D |-> SetToSeq(RestoreRef(saved.of[i], d))]
<1>1. saved.of \in Seq(SavedRef) /\ D = 1..Len(saved.of) /\ Len(saved.of) \in Nat
  BY LenProperties DEF IsSaved
<1>2. \A i \in D : saved.of[i].what \in Whats
  <2>1. \A i \in 1..Len(saved.of) : saved.of[i] \in SavedRef
    BY <1>1
  <2> HIDE DEF T, c
  <2> QED BY <1>1, <2>1 DEF SavedRef
<1>3. ASSUME NEW i \in D
      PROVE  /\ RestoreRef(saved.of[i], d) \subseteq Ref /\ IsFiniteSet(RestoreRef(saved.of[i], d))
             /\ \A x \in RestoreRef(saved.of[i], d) : x.dev \in RestoreDevice(saved.of[i], d)
  BY <1>2, RestoreRefIs
<1>4. T \subseteq Ref /\ \A x \in T : \E i \in D : x.dev \in RestoreDevice(saved.of[i], d)
  BY <1>3
<1>5. ASSUME NEW i \in D
      PROVE  SetToSeq(RestoreRef(saved.of[i], d)) \in Seq(T)
  <2>1. SetToSeq(RestoreRef(saved.of[i], d)) \in Seq(RestoreRef(saved.of[i], d))
    BY <1>3, SetToSeqIs
  <2>2. RestoreRef(saved.of[i], d) \subseteq T
    OBVIOUS
  <2> HIDE DEF T
  <2> QED BY <2>1, <2>2, SeqIsSeq
<1>6. Found(saved, d) = FlattenSeq(c)
  BY DEF Found
<1> HIDE DEF T
<1>7. c \in Seq(Seq(T)) /\ Len(c) = Len(saved.of)
  BY <1>1, <1>5
<1> HIDE DEF c
<1>8. FlattenSeq(c) \in Seq(T)
  BY <1>7, FlattenType
<1>9. FlattenSeq(c) \in Seq(Ref)
  BY <1>4, <1>8, SeqIsSeq
<1>10. \A j \in DOMAIN FlattenSeq(c) : FlattenSeq(c)[j] \in T
  BY <1>8
<1>11. FromSaved(Found(saved, d), saved, d)
  BY <1>4, <1>6, <1>9, <1>10 DEF FromSaved
<1>12. ASSUME saved.of = <<>>
       PROVE  AllFound(saved, d)
  <2>1. Len(saved.of) = 0 /\ Len(c) = 0
    BY <1>7, <1>12
  <2>2. FlattenSeq(c) = c
    BY <2>1 DEF FlattenSeq
  <2> QED BY <1>6, <2>1, <2>2 DEF AllFound
<1> QED BY <1>11, <1>12

LEMMA RestoredViewIs ==
  ASSUME MapGood', NEW saved, IsSaved(saved), NEW d \in Devices, NEW tab,
         NEW v \in RestoreView(saved, tab, d)
  PROVE  /\ v.tab = tab /\ v.id = saved.id /\ v.kind = saved.kind
         /\ IsView(v) /\ FromSaved(v.of, saved, d)
<1> DEFINE found == Found(saved, d)
           all == AllFound(saved, d)
           channels == RestoreRef([saved.of[1] EXCEPT !.what = "channel"], d)
<1>1. FromSaved(found, saved, d) /\ (saved.of = <<>> => all)
  BY FoundIs
<1>2. saved.kind \in ViewKinds /\ saved.of \in Seq(SavedRef)
  BY DEF IsSaved
<1>3. FromSaved(<<>>, saved, d)
  BY DEF FromSaved
<1>4. ASSUME ~all
      PROVE  FromSaved(SetToSeq(channels), saved, d)
  <2>1. 1 \in DOMAIN saved.of /\ saved.of[1] \in SavedRef
    BY <1>1, <1>2, <1>4
  <2> DEFINE ref == [saved.of[1] EXCEPT !.what = "channel"]
  <2>2. ref.what \in Whats /\ ref.dev = saved.of[1].dev
    BY <2>1 DEF SavedRef, Whats
  <2> HIDE DEF ref
  <2>3. /\ RestoreRef(ref, d) \subseteq Ref /\ IsFiniteSet(RestoreRef(ref, d))
        /\ \A x \in RestoreRef(ref, d) : x.dev \in RestoreDevice(ref, d)
    BY <2>2, RestoreRefIs
  <2>4. RestoreDevice(ref, d) = RestoreDevice(saved.of[1], d)
    BY <2>2 DEF RestoreDevice
  <2>5. channels = RestoreRef(ref, d)
    BY DEF ref
  <2> HIDE DEF channels
  <2>6. SetToSeq(channels) \in Seq(channels)
    BY <2>3, <2>5, SetToSeqIs
  <2>7. SetToSeq(channels) \in Seq(Ref)
    BY <2>3, <2>5, <2>6, SeqIsSeq
  <2>8. \A j \in DOMAIN SetToSeq(channels) : SetToSeq(channels)[j] \in channels
    BY <2>6
  <2> QED BY <2>1, <2>3, <2>4, <2>5, <2>7, <2>8 DEF FromSaved
<1>5. \E of : FromSaved(of, saved, d) /\ v = View(tab, saved.id, saved.kind, of)
  <2> HIDE DEF found, all, channels
  <2>1. CASE saved.kind \in {"data", "timeplot", "sequenceoutput"}
    <3>1. v = View(tab, saved.id, saved.kind, found)
      BY <2>1 DEF RestoreView, RestoreTable, RestoreTimePlot, RestoreSequence, Pairs, found
    <3> QED BY <1>1, <3>1
  <2>2. CASE saved.kind = "control"
    <3>1. v = View(tab, saved.id, saved.kind, found)
      BY <2>2 DEF RestoreView, InitControl, Pairs, found
    <3> QED BY <1>1, <3>1
  <2>3. CASE saved.kind \in Pairs
    <3>1. v = View(tab, saved.id, saved.kind, IF all THEN found ELSE <<>>)
      BY <2>3 DEF RestoreView, RestorePair, Pairs, found, all
    <3> QED BY <1>1, <1>3, <3>1
  <2>4. CASE saved.kind = "valuepanel"
    <3>1. v = View(tab, saved.id, saved.kind, IF all THEN found ELSE SetToSeq(channels))
      BY <2>4 DEF RestoreView, RestorePanel, Pairs, found, all, channels
    <3> QED BY <1>1, <1>4, <3>1
  <2> QED BY <1>2, <2>1, <2>2, <2>3, <2>4 DEF ViewKinds
<1>6. PICK of : FromSaved(of, saved, d) /\ v = View(tab, saved.id, saved.kind, of)
  BY <1>5
<1>7. v.tab = tab /\ v.id = saved.id /\ v.kind = saved.kind /\ v.of = of
  BY <1>6 DEF View
<1>8. IsView(v)
  BY <1>2, <1>6, <1>7 DEF IsView, FromSaved
<1> QED BY <1>6, <1>7, <1>8

(* A device is restored to one with the same id.                           *)
LEMMA RestoredSid ==
  ASSUME MapInv', NEW ref \in Ref, NEW d \in Hardware,
         NEW x \in RestoreDevice(Stored(ref, d), d)
  PROVE  x \in Devices /\ Sid(x) = Sid(ref.dev)
<1>1. d \in Devices /\ d \notin Demos /\ ref.dev \in Devices
  BY ConstantsOK DEF Devices, Ref
<1>2. CASE Sid(ref.dev) = Sid(d)
  BY <1>1, <1>2 DEF RestoreDevice, Stored
<1>3. CASE Sid(ref.dev) # Sid(d)
  <2>1. Stored(ref, d).dev = <<Sid(ref.dev)>>
    BY <1>3 DEF Stored
  <2>2. PICK e \in deviceMap' : e.id = Sid(ref.dev) /\ x = e.dev
    BY <1>1, <2>1 DEF RestoreDevice
  <2>3. PICK n : e.dev \in Devices /\ e.id = IdOf(e.dev, n)
    BY DEF MapInv
  <2>4. IdOf(x, n) = Sid(ref.dev) /\ x \in Devices
    BY <2>2, <2>3
  <2> QED BY <2>4 DEF IdOf, Sid
<1> QED BY <1>2, <1>3

(* It is one device if one with the id is there.                           *)
NowOf(c, d) == IF Sid(c) = Sid(d) THEN {d}
               ELSE {e.dev : e \in {f \in deviceMap' : f.id = Sid(c)}}

LEMMA RestoredOne ==
  ASSUME MapInv', NEW ref \in Ref, NEW d \in Hardware, NEW x \in NowOf(ref.dev, d)
  PROVE  /\ RestoreDevice(Stored(ref, d), d) = {x}
         /\ x \in Devices /\ Sid(x) = Sid(ref.dev)
<1>1. d \notin Demos
  BY ConstantsOK
<1>2. RestoreDevice(Stored(ref, d), d) = NowOf(ref.dev, d)
  <2>1. CASE Sid(ref.dev) = Sid(d)
    BY <2>1 DEF RestoreDevice, Stored, NowOf
  <2>2. CASE Sid(ref.dev) # Sid(d)
    <3>1. Stored(ref, d).dev = <<Sid(ref.dev)>>
      BY <2>2 DEF Stored
    <3> QED BY <1>1, <2>2, <3>1 DEF RestoreDevice, NowOf
  <2> QED BY <2>1, <2>2
<1>3. \A y \in NowOf(ref.dev, d) : y = x
  <2>1. CASE Sid(ref.dev) = Sid(d)
    BY <2>1 DEF NowOf
  <2>2. CASE Sid(ref.dev) # Sid(d)
    BY <2>2 DEF NowOf, MapInv
  <2> QED BY <2>1, <2>2
<1>4. x \in Devices /\ Sid(x) = Sid(ref.dev)
  BY <1>2, RestoredSid
<1> QED BY <1>2, <1>3, <1>4

LEMMA FoundWhole ==
  ASSUME NEW saved, NEW x \in Seq(Ref), DOMAIN saved.of = DOMAIN x, saved.of \in Seq(SavedRef),
         NEW d, \A i \in DOMAIN x : RestoreRef(saved.of[i], d) = {x[i]}
  PROVE  Found(saved, d) = x /\ AllFound(saved, d)
<1>1. \A i \in DOMAIN x : SetToSeq(RestoreRef(saved.of[i], d)) = <<x[i]>>
  BY SetToSeqOne
<1>2. [i \in DOMAIN saved.of |-> SetToSeq(RestoreRef(saved.of[i], d))] = [i \in DOMAIN x |-> <<x[i]>>]
  BY <1>1
<1>3. Found(saved, d) = x
  BY <1>2, FlattenOnes DEF Found
<1>4. Len(saved.of) = Len(x)
  BY LenProperties
<1> QED BY <1>3, <1>4 DEF AllFound

(* A view restored from what was saved of another shows only devices with  *)
(* the ids of those that one showed.                                       *)
LEMMA RestoredIsPart ==
  ASSUME MapGood', MapInv', NEW d \in Hardware, NEW s, NEW w, Keeps(s, w, d),
         NEW tab, NEW v \in RestoreView(s, tab, d)
  PROVE  Part(v, w)'
<1>1. d \in Devices
  BY DEF Devices
<1>2. IsSaved(s) /\ IsView(w) /\ s.id = w.id /\ s.kind = w.kind
  BY DEF Keeps
<1>3. /\ v.id = s.id /\ v.kind = s.kind /\ v.of \in Seq(Ref)
      /\ \A j \in DOMAIN v.of : \E i \in DOMAIN s.of : v.of[j].dev \in RestoreDevice(s.of[i], d)
  BY <1>1, <1>2, RestoredViewIs DEF FromSaved
<1>4. w.of \in Seq(Ref)
  BY <1>2 DEF IsView
<1>5. ASSUME NEW i \in DOMAIN s.of
      PROVE  \E k \in DOMAIN w.of : \E ref \in Ref :
               s.of[i] = Stored(ref, d) /\ ref.dev = w.of[k].dev
  <2>1. CASE s.of = [k \in DOMAIN w.of |-> Stored(w.of[k], d)]
    <3>1. i \in DOMAIN w.of /\ w.of[i] \in Ref /\ s.of[i] = Stored(w.of[i], d)
      BY <1>4, <1>5, <2>1
    <3> QED BY <3>1
  <2>2. CASE w.of # <<>> /\ s.of = <<Stored(Of(w.of[1].dev, "signal"), d)>>
    <3>1. 1 \in DOMAIN w.of /\ w.of[1] \in Ref
      BY <1>4, <2>2
    <3>2. Of(w.of[1].dev, "signal") \in Ref /\ Of(w.of[1].dev, "signal").dev = w.of[1].dev
      BY <3>1 DEF Of, Ref, Whats
    <3>3. s.of[i] = Stored(Of(w.of[1].dev, "signal"), d)
      BY <1>5, <2>2
    <3> QED BY <3>1, <3>2, <3>3
  <2> QED BY <2>1, <2>2 DEF Keeps
<1>6. ASSUME NEW j \in DOMAIN v.of
      PROVE  \E k \in DOMAIN w.of : SettingsId(v.of[j].dev)' = SettingsId(w.of[k].dev)'
  <2>1. PICK i \in DOMAIN s.of : v.of[j].dev \in RestoreDevice(s.of[i], d)
    BY <1>3
  <2>2. PICK k \in DOMAIN w.of : \E ref \in Ref : s.of[i] = Stored(ref, d) /\ ref.dev = w.of[k].dev
    BY <1>5
  <2>3. PICK ref \in Ref : s.of[i] = Stored(ref, d) /\ ref.dev = w.of[k].dev
    BY <2>2
  <2>4. v.of[j].dev \in Devices /\ Sid(v.of[j].dev) = Sid(w.of[k].dev)
    BY <2>1, <2>3, RestoredSid
  <2>5. w.of[k].dev \in Devices
    BY <2>3 DEF Ref
  <2> QED BY <2>4, <2>5, SidIs
<1>7. v.id = w.id /\ v.kind = w.kind
  BY <1>2, <1>3
<1>8. {SettingsId(r.dev)' : r \in Range(v.of)} \subseteq {SettingsId(r.dev)' : r \in Range(w.of)}
  BY <1>6, Zenon DEF Range
<1> QED BY <1>7, <1>8 DEF Part

(* It is the same view when everything that one showed is there.           *)
SidRef(r, q) == r.dev \in Devices /\ q.dev \in Devices /\ Sid(r.dev) = Sid(q.dev)
SameBySid(v, w) ==
  /\ v.id = w.id /\ v.kind = w.kind /\ \A i \in DOMAIN v.of : SidRef(v.of[i], w.of[i])
  /\ v.kind # "valuepanel" =>
       DOMAIN v.of = DOMAIN w.of /\ \A i \in DOMAIN v.of : v.of[i].what = w.of[i].what

LEMMA SameIs ==
  ASSUME NEW v, NEW w, SameBySid(v, w)
  PROVE  Same(v, w)'
<1>1. \A i \in DOMAIN v.of : SettingsId(v.of[i].dev)' = SettingsId(w.of[i].dev)'
  BY SidIs DEF SameBySid, SidRef
<1> QED BY <1>1 DEF SameBySid, Same, SameRef

LEMMA RestoredIsSame ==
  ASSUME MapGood', MapInv', NEW d \in Hardware, NEW s, NEW w, Keeps(s, w, d),
         \A i \in DOMAIN w.of : \E x \in NowOf(w.of[i].dev, d) :
            w.of[i].what = "signal" => x \in received' \cup SourceSinks,
         NEW tab
  PROVE  \E v \in RestoreView(s, tab, d) : SameBySid(v, w)
<1>1. d \in Devices
  BY DEF Devices
<1>2. IsSaved(s) /\ IsView(w) /\ s.id = w.id /\ s.kind = w.kind
  BY DEF Keeps
<1>3. w.of \in Seq(Ref) /\ s.of \in Seq(SavedRef) /\ s.kind \in ViewKinds
  BY <1>2 DEF IsView, IsSaved
<1> DEFINE fits(x, i) == /\ x \in NowOf(w.of[i].dev, d)
                         /\ w.of[i].what = "signal" => x \in received' \cup SourceSinks
           new(i) == CHOOSE x : fits(x, i)
<1>4. ASSUME NEW i \in DOMAIN w.of
      PROVE  /\ w.of[i] \in Ref /\ new(i) \in Devices /\ Sid(new(i)) = Sid(w.of[i].dev)
             /\ w.of[i].dev \in Devices
             /\ w.of[i].what = "signal" => new(i) \in received' \cup SourceSinks
             /\ \A ref \in Ref : ref.dev = w.of[i].dev =>
                  RestoreDevice(Stored(ref, d), d) = {new(i)}
  <2>1. w.of[i] \in Ref
    BY <1>3
  <2>2. \E x : fits(x, i)
    OBVIOUS
  <2>3. fits(new(i), i)
    <3> HIDE DEF fits
    <3> QED BY <2>2
  <2>4. new(i) \in NowOf(w.of[i].dev, d) /\
        (w.of[i].what = "signal" => new(i) \in received' \cup SourceSinks)
    BY <2>3
  <2> HIDE DEF new
  <2>5. new(i) \in Devices /\ Sid(new(i)) = Sid(w.of[i].dev)
    BY <2>1, <2>4, RestoredOne
  <2>6. \A ref \in Ref : ref.dev = w.of[i].dev => RestoreDevice(Stored(ref, d), d) = {new(i)}
    BY <2>4, RestoredOne
  <2>7. w.of[i].dev \in Devices
    BY <2>1 DEF Ref
  <2> QED BY <2>1, <2>4, <2>5, <2>6, <2>7
<1> HIDE DEF new, fits
<1>5. CASE s.of = [i \in DOMAIN w.of |-> Stored(w.of[i], d)]
  <2> DEFINE of == [i \in DOMAIN w.of |-> Of(new(i), w.of[i].what)]
  <2>1. of \in Seq(Ref) /\ DOMAIN of = DOMAIN w.of
    <3>1. \A i \in DOMAIN w.of : Of(new(i), w.of[i].what) \in Ref
      BY <1>4 DEF Of, Ref
    <3>2. DOMAIN w.of = 1..Len(w.of) /\ Len(w.of) \in Nat
      BY <1>3, LenProperties
    <3> QED BY <3>1, <3>2
  <2>2. ASSUME NEW i \in DOMAIN of
        PROVE  RestoreRef(s.of[i], d) = {of[i]}
    <3> DEFINE ref == w.of[i]
    <3>1. i \in DOMAIN w.of /\ ref \in Ref
      BY <1>4, <2>1
    <3>2. s.of[i] = Stored(ref, d) /\ Stored(ref, d).what = ref.what
      BY <1>5, <3>1 DEF Stored
    <3>3. RestoreDevice(Stored(ref, d), d) = {new(i)}
      BY <1>4, <3>1
    <3>4. ref.what = "signal" => new(i) \in received' \cup SourceSinks
      BY <1>4, <3>1
    <3>5. of[i] = Of(new(i), ref.what)
      BY <3>1
    <3> HIDE DEF ref, of
    <3>6. RestoreRef(Stored(ref, d), d) = {Of(x, ref.what) : x \in {new(i)}}
      BY <3>2, <3>3, <3>4 DEF RestoreRef
    <3> QED BY <3>2, <3>5, <3>6
  <2>3. \A i \in DOMAIN of : SidRef(of[i], w.of[i]) /\ of[i].what = w.of[i].what
    <3> SUFFICES ASSUME NEW i \in DOMAIN of
                 PROVE  SidRef(of[i], w.of[i]) /\ of[i].what = w.of[i].what
      OBVIOUS
    <3>1. of[i].dev = new(i) /\ of[i].what = w.of[i].what /\ i \in DOMAIN w.of
      BY <2>1 DEF Of
    <3> HIDE DEF of
    <3> QED BY <1>4, <3>1 DEF SidRef
  <2> HIDE DEF of
  <2>4. Found(s, d) = of /\ AllFound(s, d)
    <3>1. DOMAIN s.of = DOMAIN of
      BY <1>5, <2>1
    <3> QED BY <1>3, <2>1, <2>2, <3>1, FoundWhole
  <2> DEFINE v == View(tab, s.id, s.kind, of)
  <2>5. v \in RestoreView(s, tab, d)
    <3> HIDE DEF v
    <3>1. CASE s.kind \in {"data", "timeplot", "sequenceoutput"}
      BY <2>4, <3>1 DEF v, RestoreView, RestoreTable, RestoreTimePlot, RestoreSequence, Pairs
    <3>2. CASE s.kind = "control"
      BY <2>4, <3>2 DEF v, RestoreView, InitControl, Pairs
    <3>3. CASE s.kind \in Pairs
      BY <2>4, <3>3 DEF v, RestoreView, RestorePair, Pairs
    <3>4. CASE s.kind = "valuepanel"
      BY <2>4, <3>4 DEF v, RestoreView, RestorePanel, Pairs
    <3> QED BY <1>3, <3>1, <3>2, <3>3, <3>4 DEF ViewKinds
  <2>6. v.id = w.id /\ v.kind = w.kind /\ v.of = of
    BY <1>2 DEF View
  <2> HIDE DEF v
  <2>7. SameBySid(v, w)
    BY <2>1, <2>3, <2>6 DEF SameBySid
  <2> QED BY <2>5, <2>7
<1>6. CASE s.kind = "valuepanel" /\ w.of # <<>> /\ s.of = <<Stored(Of(w.of[1].dev, "signal"), d)>>
  <2> DEFINE ref == Of(w.of[1].dev, "signal")
             found == Found(s, d)
             all == AllFound(s, d)
             channels == RestoreRef([s.of[1] EXCEPT !.what = "channel"], d)
             v == View(tab, s.id, s.kind, IF all THEN found ELSE SetToSeq(channels))
  <2>1. 1 \in DOMAIN w.of
    BY <1>3, <1>6
  <2>2. ref \in Ref /\ ref.dev = w.of[1].dev
    BY <1>4, <2>1 DEF Of, Ref, Whats
  <2>3. RestoreDevice(Stored(ref, d), d) = {new(1)}
    <3> HIDE DEF ref
    <3> QED BY <1>4, <2>1, <2>2
  <2>4. v \in RestoreView(s, tab, d)
    <3> HIDE DEF v
    <3> QED BY <1>6 DEF v, RestoreView, RestorePanel, Pairs
  <2>5. v.id = s.id /\ v.kind = s.kind /\ FromSaved(v.of, s, d)
    <3> HIDE DEF v
    <3> QED BY <1>1, <1>2, <2>4, RestoredViewIs
  <2>6. s.of = <<Stored(ref, d)>>
    BY <1>6
  <2>7. Len(v.of) <= 1
    <3>1. v.of = IF all THEN found ELSE SetToSeq(channels)
      BY DEF View
    <3>2. CASE all
      <4>1. Len(found) = Len(s.of) /\ v.of = found
        BY <3>1, <3>2 DEF AllFound
      <4> HIDE DEF ref, found, v, channels
      <4>2. Len(s.of) = 1
        BY <2>6
      <4>3. Len(v.of) = 1
        BY <4>1, <4>2
      <4> QED BY ONLY <4>3
    <3>3. CASE ~all
      <4>1. s.of[1] = Stored(ref, d)
        BY <2>6
      <4> DEFINE saved == [s.of[1] EXCEPT !.what = "channel"]
      <4>2. saved.what = "channel" /\ saved.dev = Stored(ref, d).dev
        BY <4>1 DEF Stored
      <4> HIDE DEF saved, ref
      <4>3. RestoreDevice(saved, d) = {new(1)}
        BY <2>3, <4>2 DEF RestoreDevice
      <4>4. RestoreRef(saved, d) = {Of(x, "channel") : x \in {new(1)}}
        BY <4>2, <4>3 DEF RestoreRef
      <4>5. channels = {Of(new(1), "channel")}
        BY <4>4 DEF saved
      <4> HIDE DEF channels
      <4>6. SetToSeq(channels) = <<Of(new(1), "channel")>>
        BY <4>5, SetToSeqOne
      <4>7. v.of = SetToSeq(channels)
        BY <3>1, <3>3
      <4> HIDE DEF v
      <4> QED BY <4>6, <4>7
    <3> QED BY <3>2, <3>3
  <2> HIDE DEF v, ref
  <2>8. ASSUME NEW j \in DOMAIN v.of
        PROVE  SidRef(v.of[j], w.of[j])
    <3>1. j = 1
      <4>1. v.of \in Seq(Ref)
        BY <2>5 DEF FromSaved
      <4>2. DOMAIN v.of = 1..Len(v.of) /\ Len(v.of) \in Nat
        BY <4>1, LenProperties
      <4> QED BY <2>7, <4>2
    <3>2. PICK i \in DOMAIN s.of : v.of[j].dev \in RestoreDevice(s.of[i], d)
      BY <2>5 DEF FromSaved
    <3>3. s.of[i] = Stored(ref, d)
      BY <2>6, <3>2
    <3>4. v.of[j].dev = new(1)
      BY <2>3, <3>2, <3>3
    <3> QED BY <1>4, <2>1, <3>1, <3>4 DEF SidRef
  <2>9. v.id = w.id /\ v.kind = w.kind /\ v.kind = "valuepanel"
    BY <1>2, <1>6, <2>5
  <2>10. SameBySid(v, w)
    BY <2>8, <2>9 DEF SameBySid
  <2> QED BY <2>4, <2>10
<1> QED BY <1>5, <1>6 DEF Keeps

-----------------------------------------------------------------------------
(* The steps of the views                                                  *)
LEMMA MapGoodIs ==
  /\ ShownInv /\ MapInv => MapGood
  /\ ShownInv' /\ MapInv' => MapGood'
BY DEF ShownInv, MapInv, MapGood

(* Tabs go, and their views.                                               *)
LEMMA CloseViews ==
  ASSUME SessionInv, ViewsInv, Close, IsFiniteSet(tabs'), IsFiniteSet(deviceMap'),
         ended' = ended, ~ended
  PROVE  ViewsInv'
<1>1. Gone \subseteq tabs /\ IsFiniteSet(Gone)
  BY FS_Subset DEF Gone, ViewsInv, ShownInv
<1>2. SetToSeq(Gone) \in Seq(Gone)
  BY <1>1, SetToSeqIs
<1>3. \A t \in Gone : t.dev \in Devices \cup {Welcome} /\ ~CannotSave(t)
  BY <1>1 DEF SessionInv, TabInv, Close
<1>4. SavesAgree(settings', left')
  BY <1>2, <1>3, ClosedTabsAgree DEF Close, ViewsInv
<1>5. ASSUME NEW v \in views'
      PROVE  IsView(v) /\ \E t \in tabs' : t.n = v.tab
  <2>1. v \in views /\ \A t \in Gone : v.tab # t.n
    BY DEF Close
  <2>2. PICK t \in tabs : t.n = v.tab
    BY <2>1 DEF ViewsInv, ShownInv
  <2>3. t \in tabs'
    BY <2>1, <2>2 DEF Gone
  <2> QED BY <2>1, <2>2, <2>3 DEF ViewsInv, ShownInv
<1> QED BY <1>4, <1>5 DEF ViewsInv, ShownInv

LEMMA RemoveTabFinite ==
  ASSUME IsFiniteSet(tabs), NEW t, RemoveTab(t)
  PROVE  IsFiniteSet(tabs')
<1> DEFINE kept == tabs \ {t}
           new == WelcomeTab(NewTab(tabs \ {t}))
<1>1. IsFiniteSet(kept)
  BY FS_Subset
<1>2. tabs' = kept \cup {new} \/ tabs' = kept \cup {}
  BY DEF RemoveTab
<1> HIDE DEF kept, new
<1>3. IsFiniteSet(kept \cup {new})
  BY <1>1, FS_AddElement
<1> QED BY <1>1, <1>2, <1>3

LEMMA DisconnectStep ==
  ASSUME SessionInv, ViewsInv, NEW d \in Devices, Disconnect(d)
  PROVE  ViewsInv'
<1>1. IsFiniteSet(tabs) /\ IsFiniteSet(deviceMap)
  BY DEF ViewsInv, ShownInv
<1>2. ~ended /\ ended' = ended
  BY DEF Disconnect, DisconnectDevice, ScriptRemoves, Alive
<1>3. IsFiniteSet(deviceMap')
  <2>1. \E id : deviceMap' = Erase(deviceMap, id)
    BY DEF Disconnect, DisconnectDevice, ScriptRemoves, Unregister
  <2> QED BY <1>1, <2>1, FS_Subset DEF Erase
<1>4. tabs' = tabs \/ \E t : RemoveTab(t)
  BY DEF Disconnect, DisconnectDevice, ScriptRemoves, tabVars
<1>5. IsFiniteSet(tabs')
  BY <1>1, <1>4, RemoveTabFinite
<1> QED BY <1>2, <1>3, <1>5, CloseViews DEF Disconnect

LEMMA CloseTabOfStep ==
  ASSUME SessionInv, ViewsInv, NEW t \in tabs, CloseTabOf(t)
  PROVE  ViewsInv'
<1>1. IsFiniteSet(tabs) /\ IsFiniteSet(deviceMap)
  BY DEF ViewsInv, ShownInv
<1>2. ~ended /\ ended' = ended /\ deviceMap' = deviceMap /\ RemoveTab(t)
  BY DEF CloseTabOf, CloseTab, Alive, deviceVars
<1>3. IsFiniteSet(tabs')
  BY <1>1, <1>2, RemoveTabFinite
<1> QED BY <1>1, <1>2, <1>3, CloseViews DEF CloseTabOf

LEMMA QuitStep ==
  ASSUME SessionInv, ViewsInv, Quit
  PROVE  ViewsInv'
<1>1. PICK order \in SetToSeqs(tabMap) : CloseEvents(order)
  BY DEF Quit
<1>2. tabMap \subseteq tabs /\ IsFiniteSet(tabMap)
  BY FS_Subset DEF SessionInv, TabInv, ViewsInv, ShownInv
<1>3. order \in Seq(tabMap)
  <2>1. order \in [1..Cardinality(tabMap) -> tabMap] /\ Cardinality(tabMap) \in Nat
    BY <1>2, FS_CardinalityType DEF SetToSeqs
  <2> QED BY <2>1
<1>4. \A t \in tabMap : t.dev \in Devices \cup {Welcome} /\ ~CannotSave(t)
  BY <1>2 DEF SessionInv, TabInv, Quit
<1>5. SavesAgree(settings', left')
  BY <1>1, <1>3, <1>4, ClosedTabsAgree DEF ViewsInv
<1>6. tabs' = tabs /\ deviceMap' = deviceMap /\ views' = {}
  BY DEF Quit, EndSession, tabVars
<1> QED BY <1>5, <1>6 DEF ViewsInv, ShownInv

LEMMA AddViewStep ==
  ASSUME SessionInv, ViewsInv, NEW t \in tabs, NEW offer \in Accept, AddView(t, offer)
  PROVE  ViewsInv'
<1>1. DeviceBox \subseteq Devices /\ IsFiniteSet(DeviceBox)
  <2> DEFINE map == [e \in deviceMap |-> e.dev]
  <2>1. DeviceBox \subseteq Devices
    BY DEF DeviceBox, SessionInv, MapInv
  <2>2. map \in Surjection(deviceMap, DeviceBox)
    BY DEF Surjection, DeviceBox
  <2>3. IsFiniteSet(deviceMap)
    BY DEF ViewsInv, ShownInv
  <2> HIDE DEF map
  <2> QED BY <2>1, <2>2, <2>3, FS_Surjection
<1>2. \A c \in Devices, what \in Whats : Of(c, what) \in Ref
  BY DEF Of, Ref
<1>3. SelectConfigurableForm \subseteq Ref
  BY <1>1, <1>2 DEF SelectConfigurableForm, ConfigurableBox, Whats
<1>4. SelectPropertyForm \subseteq Ref
  <2>1. \A c \in Ref : [c EXCEPT !.what = "property"] \in Ref
    BY DEF Ref, Whats
  <2> QED BY <1>3, <2>1 DEF SelectPropertyForm, ConfigKeyBox
<1>5. /\ SelectSignalWidget \subseteq Ref /\ CheckedChannels \subseteq Ref
      /\ CheckedSignals \subseteq Ref
  BY <1>1, <1>2 DEF SelectSignalWidget, CheckedChannels, CheckedSignals, Whats
<1>6. IsFiniteSet(CheckedSignals)
  <2> DEFINE devs == {x \in DeviceBox : HasSignal(x)}
             map == [x \in devs |-> Of(x, "signal")]
  <2>1. IsFiniteSet(devs)
    BY <1>1, FS_Subset
  <2>2. CheckedSignals = {Of(x, "signal") : x \in devs}
    BY DEF CheckedSignals
  <2> HIDE DEF devs
  <2>3. map \in Surjection(devs, CheckedSignals)
    BY <2>2 DEF Surjection
  <2> HIDE DEF map
  <2> QED BY <2>1, <2>3, FS_Surjection
<1>7. \A S \in SUBSET Ref : {<<x>> : x \in S} \subseteq Seq(Ref)
  <2>1. \A x \in Ref : <<x>> \in Seq(Ref)
    OBVIOUS
  <2> QED BY <2>1
<1>8. \A S \in SUBSET Ref : S \X S \subseteq Seq(Ref)
  <2>1. \A x, y \in Ref : <<x, y>> \in Seq(Ref)
    OBVIOUS
  <2>2. \A S : \A p \in S \X S : \E x, y \in S : p = <<x, y>>
    OBVIOUS
  <2> QED BY <2>1, <2>2
<1>9. \A s \in SUBSET CheckedSignals : SetToSeq(s) \in Seq(Ref)
  BY <1>5, <1>6, FS_Subset, SetToSeqIs, SeqIsSeq
<1>10. offer.kind \in ViewKinds /\ offer.of \in Seq(Ref)
  <2>1. \A kind, ofs : \A o \in Offer(kind, ofs) : o.kind = kind /\ o.of \in ofs
    BY DEF Offer
  <2>2. CASE offer \in ControlTab
    BY <1>3, <1>7, <2>1, <2>2 DEF ControlTab, ViewKinds
  <2>3. CASE offer \in SequenceTab
    BY <1>4, <1>7, <2>1, <2>3 DEF SequenceTab, ViewKinds
  <2>4. CASE offer \in PanelTab
    BY <1>5, <1>7, <2>1, <2>4 DEF PanelTab, ViewKinds
  <2>5. CASE offer \in TimePlotTab
    BY <1>5, <1>7, <2>1, <2>5 DEF TimePlotTab, ViewKinds
  <2>6. CASE offer \in XYPlotTab
    BY <1>5, <1>8, <2>1, <2>6 DEF XYPlotTab, ViewKinds, Pairs
  <2>7. CASE offer \in DataTableTab
    BY <1>9, <2>1, <2>7 DEF DataTableTab, ViewKinds
  <2>8. CASE offer \in PowerPanelTab
    BY <1>5, <1>8, <2>1, <2>8 DEF PowerPanelTab, ViewKinds, Pairs
  <2> QED BY <2>2, <2>3, <2>4, <2>5, <2>6, <2>7, <2>8 DEF Accept
<1>11. PICK id : views' = views \cup {View(t.n, id, offer.kind, offer.of)}
  BY DEF AddView
<1>12. ASSUME NEW v, v = View(t.n, id, offer.kind, offer.of)
       PROVE  IsView(v) /\ v.tab = t.n
  BY <1>10, <1>12 DEF View, IsView
<1>13. /\ tabs' = tabs /\ deviceMap' = deviceMap /\ ended' = ended /\ ~ended
       /\ settings' = settings /\ left' = left
  BY DEF AddView, Alive, vars, deviceVars, tabVars
<1>14. \A v \in views' : IsView(v) /\ \E u \in tabs : u.n = v.tab
  BY <1>11, <1>12 DEF ViewsInv, ShownInv
<1> QED BY <1>13, <1>14 DEF ViewsInv, ShownInv

LEMMA TabForDeviceIs ==
  ASSUME NEW d \in Devices, NEW tab, NEW v \in TabForDevice(tab, d)
  PROVE  IsView(v) /\ v.tab = tab
<1>1. \A what \in Whats : Of(d, what) \in Ref
  BY DEF Of, Ref
<1>2. \A what \in Whats : /\ <<Of(d, what)>> \in Seq(Ref)
                          /\ <<Of(d, what), Of(d, what)>> \in Seq(Ref)
  BY <1>1
<1>3. ASSUME NEW id, NEW kind \in ViewKinds, NEW of \in Seq(Ref), v = View(tab, id, kind, of)
      PROVE  IsView(v) /\ v.tab = tab
  BY <1>3 DEF IsView, View
<1>4. \E id : \E kind \in ViewKinds : \E of \in Seq(Ref) : v = View(tab, id, kind, of)
  <2>1. v \in SourceSinkTab(tab, d) \/ v \in MeasurementTab(tab, d)
    BY DEF TabForDevice, UserTab
  <2>2. /\ {"control", "timeplot", "powerpanel", "valuepanel"} \subseteq ViewKinds
        /\ {"configurable", "signal", "channel"} \subseteq Whats
    BY DEF ViewKinds, Pairs, Whats
  <2>3. CASE v \in SourceSinkTab(tab, d)
    BY <1>2, <2>2, <2>3, Zenon DEF SourceSinkTab
  <2>4. CASE v \in MeasurementTab(tab, d)
    BY <1>2, <2>2, <2>4, Zenon DEF MeasurementTab
  <2> QED BY <2>1, <2>3, <2>4
<1> QED BY <1>3, <1>4

(* A device and its tab come: what the new tab is.                         *)
LEMMA OpenTabIs ==
  ASSUME SessionInv, ViewsInv, NEW d \in Devices, OpenTab(d)
  PROVE  LET n == NewTab(tabs)
         IN  /\ n # 0 /\ \A t \in tabs : t.n # n
             /\ \E t : t.n = n /\ t.dev = d /\ tabs' = tabs \cup {t}
             /\ IsFiniteSet(tabs') /\ IsFiniteSet(deviceMap')
             /\ ~ended /\ ended' = ended /\ settings' = settings /\ left' = left
             /\ OpenViews(n, d)
<1> DEFINE n == NewTab(tabs)
           t == [n |-> NewTab(tabs), id |-> <<"device", Id(d, 2)>>, dev |-> d]
<1>1. IsFiniteSet(tabs) /\ IsFiniteSet(deviceMap)
  BY DEF ViewsInv, ShownInv
<1>2. n # 0 /\ \A u \in tabs : u.n # n
  BY <1>1, NewTabIs
<1>3. t.n = n /\ t.dev = d
  OBVIOUS
<1>4. tabs' = tabs \cup {t} /\ Register(d) /\ ~ended /\ ended' = ended
  BY DEF OpenTab, AddDevice, AddTab, New, Alive
<1>5. \E e : deviceMap' = deviceMap \/ deviceMap' = deviceMap \cup {e}
  BY <1>4 DEF Register, Insert
<1>6. settings' = settings /\ left' = left /\ OpenViews(n, d)
  BY DEF OpenTab
<1> HIDE DEF t, n
<1>7. IsFiniteSet(tabs') /\ IsFiniteSet(deviceMap')
  BY <1>1, <1>4, <1>5, FS_AddElement
<1> QED BY <1>2, <1>3, <1>4, <1>6, <1>7 DEF n

LEMMA OpenTabStep ==
  ASSUME SessionInv, SessionInv', ViewsInv, NEW d \in Devices, OpenTab(d)
  PROVE  ViewsInv'
<1> DEFINE n == NewTab(tabs)
<1>1. PICK t : t.n = n /\ t.dev = d /\ tabs' = tabs \cup {t}
  BY OpenTabIs
<1>2. /\ IsFiniteSet(tabs') /\ IsFiniteSet(deviceMap')
      /\ ~ended /\ ended' = ended /\ settings' = settings /\ left' = left
      /\ OpenViews(n, d)
  BY OpenTabIs
<1> HIDE DEF n
<1>3. MapGood'
  BY <1>2 DEF MapGood, SessionInv, MapInv
<1>4. ASSUME NEW v \in views'
      PROVE  IsView(v) /\ \E u \in tabs' : u.n = v.tab
  <2>1. CASE v \in views
    BY <1>1, <2>1 DEF ViewsInv, ShownInv
  <2>2. CASE v \in TabForDevice(n, d)
    BY <1>1, <2>2, TabForDeviceIs
  <2>3. CASE Restores(d) /\ \E s \in Get(settings, SettingsId(d)) : v \in RestoreView(s, n, d)
    <3>1. PICK s \in Get(settings, SettingsId(d)) : v \in RestoreView(s, n, d)
      BY <2>3
    <3>2. \E g \in settings : g.sid = SettingsId(d)
      BY <2>3 DEF Restores, Has
    <3>3. \E g \in settings : Get(settings, SettingsId(d)) = g.views
      BY <3>2, Zenon DEF Get
    <3>4. IsSaved(s)
      BY <3>1, <3>3 DEF ViewsInv, SavesAgree
    <3> QED BY <1>1, <1>3, <3>1, <3>4, RestoredViewIs
  <2>4. \/ v \in views \/ v \in TabForDevice(n, d)
        \/ Restores(d) /\ v \in UNION {RestoreView(s, n, d) : s \in Get(settings, SettingsId(d))}
    BY <1>2 DEF OpenViews
  <2> QED BY <2>1, <2>2, <2>3, <2>4
<1> QED BY <1>2, <1>4 DEF ViewsInv, ShownInv

LEMMA ViewsInit == WorkspaceInit => ViewsInv
<1> SUFFICES ASSUME WorkspaceInit
             PROVE  ViewsInv
  OBVIOUS
<1>1. /\ tabs = {WelcomeTab(1)} /\ deviceMap = {} /\ views = {}
      /\ settings = {} /\ left = {}
  BY DEF WorkspaceInit, Init, InitViews
<1>2. IsFiniteSet(tabs) /\ IsFiniteSet(deviceMap)
  BY <1>1, FS_Singleton, FS_EmptySet
<1> QED BY <1>1, <1>2 DEF ViewsInv, ShownInv, SavesAgree, GroupsAgree

LEMMA ViewsStep ==
  ASSUME SessionInv, SessionInv', ViewsInv, [WorkspaceNext]_allVars
  PROVE  ViewsInv'
<1>1. ASSUME NEW d \in Devices, ConnectOnly(d)
      PROVE  ViewsInv'
  <2>1. /\ tabs' = tabs /\ views' = views /\ settings' = settings /\ left' = left
        /\ ended' = ended /\ Register(d)
    BY <1>1 DEF ConnectOnly, ScriptAdds, tabVars
  <2>2. \E e : deviceMap' = deviceMap \/ deviceMap' = deviceMap \cup {e}
    BY <2>1 DEF Register, Insert
  <2>3. IsFiniteSet(deviceMap')
    BY <2>2, FS_AddElement DEF ViewsInv, ShownInv
  <2> QED BY <2>1, <2>3 DEF ViewsInv, ShownInv
<1>2. ASSUME NEW d \in Devices, Receive(d)
      PROVE  ViewsInv'
  BY <1>2 DEF Receive, vars, deviceVars, tabVars, ViewsInv, ShownInv
<1>3. ASSUME NEW v \in views, RemoveView(v)
      PROVE  ViewsInv'
  <2>1. /\ tabs' = tabs /\ deviceMap' = deviceMap /\ settings' = settings /\ left' = left
        /\ ended' = ended /\ views' \subseteq views
    BY <1>3 DEF RemoveView, vars, deviceVars, tabVars
  <2> QED BY <2>1 DEF ViewsInv, ShownInv
<1>4. ASSUME Crash
      PROVE  ViewsInv'
  <2>1. /\ tabs' = tabs /\ deviceMap' = deviceMap /\ settings' = settings /\ left' = left
        /\ views' = {}
    BY <1>4 DEF Crash, EndSession, tabVars
  <2> QED BY <2>1 DEF ViewsInv, ShownInv
<1>5. ASSUME Restart
      PROVE  ViewsInv'
  <2>1. /\ tabs' = {WelcomeTab(1)} /\ deviceMap' = {} /\ settings' = settings /\ left' = left
        /\ ~ended' /\ views' = views /\ ended
    BY <1>5 DEF Restart
  <2>2. views' = {}
    BY <2>1 DEF ViewsInv, ShownInv
  <2>3. IsFiniteSet(tabs') /\ IsFiniteSet(deviceMap')
    BY <2>1, FS_Singleton, FS_EmptySet
  <2> QED BY <2>1, <2>2, <2>3 DEF ViewsInv, ShownInv
<1>6. ASSUME UNCHANGED allVars
      PROVE  ViewsInv'
  BY <1>6 DEF allVars, vars, viewVars, deviceVars, tabVars, ViewsInv, ShownInv
<1> QED
  BY <1>1, <1>2, <1>3, <1>4, <1>5, <1>6, OpenTabStep, DisconnectStep, CloseTabOfStep,
     QuitStep, AddViewStep DEF WorkspaceNext

LEMMA ViewsInvariance == WorkspaceSpec => []ViewsInv
<1>1. SessionInv /\ SessionInv' /\ ViewsInv /\ [WorkspaceNext]_allVars => ViewsInv'
  BY ViewsStep
<1> QED BY <1>1, ViewsInit, SessionInvariance, PTL DEF WorkspaceSpec

(* No other step restores a tab.                                           *)
LEMMA OnlyOpenTabRestores ==
  ASSUME WorkspaceNext
  PROVE  restored' = 0 \/ \E d \in Devices : OpenTab(d)
BY DEF WorkspaceNext, ConnectOnly, Disconnect, Receive, CloseTabOf, Close, AddView, RemoveView,
   Quit, Crash, Restart

LEMMA OpenTabRestores ==
  ASSUME SessionInv, SessionInv', ViewsInv, ViewsInv', NEW d \in Devices, OpenTab(d)
  PROVE  RestoredAsLeft'
<1> SUFFICES ASSUME restored' # 0, Restored'.dev \in Hardware
             PROVE  RestoredAsLeft'
  BY DEF RestoredAsLeft
<1> DEFINE n == NewTab(tabs)
<1>1. PICK t : t.n = n /\ t.dev = d /\ tabs' = tabs \cup {t}
  BY OpenTabIs
<1>2. /\ \A u \in tabs : u.n # n
      /\ settings' = settings /\ left' = left /\ OpenViews(n, d)
  BY OpenTabIs
<1> HIDE DEF n
<1>3. MapGood' /\ MapInv'
  BY MapGoodIs DEF SessionInv, ViewsInv
<1>4. Restores(d) /\ restored' = n
  BY <1>2 DEF OpenViews
<1>5. Restored' = t
  <2>1. \A u \in tabs' : u.n = restored' <=> u = t
    BY <1>1, <1>2, <1>4
  <2>2. t \in tabs'
    BY <1>1
  <2> QED BY <2>1, <2>2 DEF Restored
<1>6. d \in Hardware
  BY <1>1, <1>5
<1>7. SettingsId(d) = Sid(d) /\ SettingsId(d)' = Sid(d)
  BY SidIs
<1> DEFINE saves == Get(settings, Sid(d))
           before == Get(left, Sid(d))
<1>8. Before' = before
  <2>1. Before' = Get(left', SettingsId(Restored.dev)')
    BY DEF Before
  <2>2. Restored'.dev = d
    BY <1>1, <1>5
  <2> QED BY <1>2, <1>7, <2>1, <2>2
<1>9. KeepsAll(saves, before, d)
  <2>1. \E g \in settings : g.sid = Sid(d)
    BY <1>4, <1>7 DEF Restores, Has
  <2>2. PICK g \in settings : g.sid = Sid(d) /\ saves = g.views
    BY <2>1, Zenon DEF Get
  <2>3. GroupsAgree(settings, left, d)
    BY <1>6 DEF ViewsInv, SavesAgree
  <2>4. \E l \in left : l.sid = Sid(d)
    BY <2>2, <2>3 DEF GroupsAgree
  <2>5. PICK l \in left : l.sid = Sid(d) /\ before = l.views
    BY <2>4, Zenon DEF Get
  <2> QED BY <2>2, <2>3, <2>5 DEF GroupsAgree
<1>10. ViewsOf(restored)' = UNION {RestoreView(s, n, d) : s \in saves}
  <2>1. views' = views \cup UNION {RestoreView(s, n, d) : s \in saves}
    BY <1>2, <1>4, <1>7 DEF OpenViews
  <2>2. \A v \in views : v.tab # n
    BY <1>2 DEF ViewsInv, ShownInv
  <2>3. ASSUME NEW s \in saves, NEW v \in RestoreView(s, n, d)
        PROVE  v.tab = n
    <3>1. IsSaved(s)
      BY <1>9 DEF KeepsAll, Keeps
    <3> QED BY <1>3, <3>1, RestoredViewIs
  <2>4. ViewsOf(restored)' = {v \in views' : v.tab = n}
    BY <1>4 DEF ViewsOf
  <2> HIDE DEF saves
  <2> QED BY <2>1, <2>2, <2>3, <2>4
<1> HIDE DEF saves, before
<1>11. ASSUME NEW v \in ViewsOf(restored)'
       PROVE  \E w \in Before' : Part(v, w)'
  <2>1. PICK s \in saves : v \in RestoreView(s, n, d)
    BY <1>10, <1>11
  <2>2. PICK w \in before : Keeps(s, w, d)
    BY <1>9 DEF KeepsAll
  <2>3. Part(v, w)'
    BY <1>3, <1>6, <2>1, <2>2, RestoredIsPart
  <2> QED BY <1>8, <2>2, <2>3
<1>12. ASSUME NEW w \in Before',
              \A i \in DOMAIN w.of : w.of[i].dev \in Hardware /\ There(w.of[i])'
       PROVE  \E v \in ViewsOf(restored)' : Same(v, w)'
  <2>1. PICK s \in saves : Keeps(s, w, d)
    BY <1>8, <1>9, <1>12 DEF KeepsAll
  <2>3. \A i \in DOMAIN w.of : \E x \in NowOf(w.of[i].dev, d) :
           w.of[i].what = "signal" => x \in received' \cup SourceSinks
    <3> SUFFICES ASSUME NEW i \in DOMAIN w.of
                 PROVE  \E x \in NowOf(w.of[i].dev, d) :
                          w.of[i].what = "signal" => x \in received' \cup SourceSinks
      OBVIOUS
    <3>1. w.of[i].dev \in Devices /\ There(w.of[i])'
      BY <1>12 DEF Devices
    <3>2. SettingsId(w.of[i].dev)' = Sid(w.of[i].dev)
      BY <3>1, SidIs
    <3>3. Restored'.dev = d
      BY <1>1, <1>5
    <3>4. Now(w.of[i].dev)' = NowOf(w.of[i].dev, d)
      BY <1>7, <3>2, <3>3 DEF Now, NowOf
    <3> QED BY <3>1, <3>4 DEF There, HasSignal
  <2>2. \E v \in RestoreView(s, n, d) : SameBySid(v, w)
    BY <1>3, <1>6, <2>1, <2>3, RestoredIsSame
  <2>4. \E v \in RestoreView(s, n, d) : Same(v, w)'
    BY <2>2, SameIs
  <2> QED BY <1>10, <2>4
<1> QED BY <1>11, <1>12 DEF RestoredAsLeft

(* A tab of a device of the hardware comes back with what the user left in *)
(* the last one for it, over any number of restarts and whichever devices  *)
(* the views show: save_settings(), restore_settings() and closeEvent().   *)
THEOREM ViewsComeBack == WorkspaceSpec => []RestoredAsLeft
<1>1. WorkspaceInit => RestoredAsLeft
  BY DEF WorkspaceInit, InitViews, RestoredAsLeft
<1>2. ASSUME SessionInv, SessionInv', ViewsInv, ViewsInv', RestoredAsLeft, [WorkspaceNext]_allVars
      PROVE  RestoredAsLeft'
  <2>1. CASE WorkspaceNext
    <3>1. ASSUME restored' = 0
          PROVE  RestoredAsLeft'
      BY <3>1 DEF RestoredAsLeft
    <3> QED BY <1>2, <2>1, <3>1, OnlyOpenTabRestores, OpenTabRestores
  <2>2. CASE UNCHANGED allVars
    <3>1. /\ restored' = restored /\ tabs' = tabs /\ left' = left /\ views' = views
          /\ deviceMap' = deviceMap /\ received' = received /\ ids' = ids
      BY <2>2 DEF allVars, vars, viewVars, deviceVars, tabVars
    <3>2. \A x : SettingsId(x)' = SettingsId(x)
      BY <3>1 DEF SettingsId, Id
    <3>3. Restored' = Restored /\ ViewsOf(restored)' = ViewsOf(restored)
      BY <3>1 DEF Restored, ViewsOf
    <3>4. Before' = Before
      BY <3>1, <3>2, <3>3 DEF Before
    <3>5. \A v, w : Part(v, w)' <=> Part(v, w)
      BY <3>2 DEF Part
    <3>6. \A r : There(r)' <=> There(r)
      BY <3>1, <3>2, <3>3 DEF There, HasSignal, Now
    <3>7. \A v, w : Same(v, w)' <=> Same(v, w)
      BY <3>2 DEF Same, SameRef
    <3> QED BY <1>2, <3>1, <3>3, <3>4, <3>5, <3>6, <3>7 DEF RestoredAsLeft
  <2> QED BY <1>2, <2>1, <2>2
<1> QED
  BY <1>1, <1>2, SessionInvariance, ViewsInvariance, PTL DEF WorkspaceSpec
=============================================================================
