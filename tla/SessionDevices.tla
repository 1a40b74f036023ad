--------------------------- MODULE SessionDevices ---------------------------
(***************************************************************************)
(* The devices of a session and what shows them: the map of the session    *)
(* from device ids to devices, the rows of the device tree, and the tabs   *)
(* of the main window with their map from tab ids to tabs.  Each is kept   *)
(* by a handler of its own, and each but the tree finds a device by its id.*)
(*                                                                         *)
(* A device is an object: every scan makes new ones, so two of them may be *)
(* connected under one id.  Opening, which never reports that it failed,   *)
(* and closing are those of the module Acquisition, here in one step.  The *)
(* handlers run one after the other, also those a script calls; what races *)
(* there when they do not is left out.                                     *)
(***************************************************************************)
EXTENDS Naturals, FiniteSets

CONSTANTS
  Serials,      (* serial numbers and connections                          *)
  Copies,       (* bound: the objects of one serial number at a time       *)
  Users,        (* user devices: they have neither                         *)
  Demos,        (* demo devices                                            *)
  Welcome,      (* what the welcome tab shows                              *)
  MaxAdds       (* bound: devices added in one behaviour                   *)

Hardware  == Serials \X Copies
Serial(d) == d[1]
Devices   == Hardware \cup Users \cup Demos

ASSUME ConstantsOK ==
  /\ Hardware \cap Users = {} /\ Hardware \cap Demos = {} /\ Users \cap Demos = {}
  /\ Welcome \notin Devices
  /\ MaxAdds \in Nat

VARIABLES
  scripted,     (* scripts add and remove devices                          *)
  open,         (* the devices that are open                               *)
  deviceMap,    (* device_map_: entries [id, dev]                          *)
  tree,         (* the devices that have a row in the tree                 *)
  tabs,         (* the tabs shown: [n, id, dev]                            *)
  tabMap,       (* tab_window_map_: those of them it holds                 *)
  ids,          (* ids made up for demo devices so far                     *)
  adds,         (* devices added so far                                    *)
  shared,       (* history: serials that two devices had at once           *)
  ended         (* the session is destroyed                                *)

deviceVars == <<open, deviceMap, tree>>
tabVars    == <<tabs, tabMap>>
vars == <<scripted, deviceVars, tabVars, ids, adds, shared, ended>>

WelcomeTab(n) == [n |-> n, id |-> <<"welcome", 0>>, dev |-> Welcome]

Init ==
  /\ scripted \in BOOLEAN
  /\ open = {} /\ deviceMap = {} /\ tree = {}
  /\ tabs = {WelcomeTab(1)} /\ tabMap = tabs
  /\ ids = 0 /\ adds = 0 /\ shared = {} /\ ended = FALSE

-----------------------------------------------------------------------------
(* Plausible bugs, put in the place of the definitions they are named      *)
(* after.                                                                  *)
EraseForgotten(m, id)    == m
UnmapForgotten(t)        == UNCHANGED tabMap

-----------------------------------------------------------------------------
Alive == ~ended

(* id(), the k-th time in a handler: a demo device makes up a new one.     *)
Id(d, k) == IF d \in Hardware THEN <<"hardware", Serial(d)>>
            ELSE IF d \in Users THEN <<"user", 0>> ELSE <<"demo", ids + k>>

(* std::map::insert() and erase()                                          *)
Insert(m, entry) == IF \E e \in m : e.id = entry.id THEN m ELSE m \cup {entry}
Erase(m, id)     == {e \in m : e.id # id}

Twin(d, c) == d \in Hardware /\ c \in Hardware /\ c # d /\ Serial(c) = Serial(d)

(* add_device() of the session, when the device has been opened            *)
Register(d) ==
  /\ open' = open \cup {d}
  /\ deviceMap' = Insert(deviceMap, [id |-> Id(d, 1), dev |-> d])
  /\ tree' = tree \cup {d}
  /\ shared' = shared \cup {Serial(c) : c \in {x \in tree : Twin(d, x)}}

(* remove_device() of the session                                          *)
Unregister(d, id) ==
  /\ open' = open \ {d}
  /\ deviceMap' = Erase(deviceMap, id)
  /\ tree' = tree \ {d}

(* The tabs shown are different objects; here, numbers.                    *)
NewTab(shown) == CHOOSE n \in 1 .. Cardinality(shown) + 1 : \A t \in shown : t.n # n

AddTab(tab) ==
  /\ tabs' = tabs \cup {tab}
  /\ tabMap' = Insert(tabMap, tab)

(* remove_tab(): when the map gets empty, the welcome tab is shown.        *)
NeedsWelcome(map) == map = {}
Unmap(t) == IF NeedsWelcome(tabMap \ {t}) THEN tabMap' = {WelcomeTab(NewTab(tabs \ {t}))}
                                          ELSE tabMap' = tabMap \ {t}
RemoveTab(t) ==
  /\ Unmap(t)
  /\ tabs' = (tabs \ {t}) \cup (IF NeedsWelcome(tabMap \ {t})
                               THEN {WelcomeTab(NewTab(tabs \ {t}))} ELSE {})

MakesIds(d, n) == ids' = IF d \in Demos THEN ids + n ELSE ids

-----------------------------------------------------------------------------
(* A new object, which nothing holds yet; a device that nothing holds any  *)
(* more stands for the next one.                                           *)
Fresh(d) == /\ d \notin open \cup tree
            /\ \A e \in deviceMap : e.dev # d
            /\ \A t \in tabs : t.dev # d
New(d) == Alive /\ adds < MaxAdds /\ Fresh(d) /\ adds' = adds + 1

(* The connect dialog, or a new user device, and its tab                   *)
AddDevice(d) ==
  /\ New(d)
  /\ Register(d)
  /\ AddTab([n |-> NewTab(tabs), id |-> <<"device", Id(d, 2)>>, dev |-> d])
  /\ MakesIds(d, 2)
  /\ UNCHANGED <<scripted, ended>>

ScriptAdds(d) ==
  /\ scripted /\ New(d)
  /\ Register(d)
  /\ MakesIds(d, 1)
  /\ UNCHANGED <<scripted, tabVars, ended>>

(* The tab of the device is found by its id, if it is still there.         *)
DisconnectDevice(d) ==
  /\ Alive /\ d \in tree
  /\ LET found == {t \in tabMap : t.id = <<"device", Id(d, 1)>>}
     IN IF found = {} THEN UNCHANGED tabVars
                      ELSE RemoveTab(CHOOSE t \in found : TRUE)
  /\ Unregister(d, Id(d, 2))
  /\ MakesIds(d, 2)
  /\ UNCHANGED <<scripted, adds, shared, ended>>

ScriptRemoves(d) ==
  /\ scripted /\ Alive /\ d \in tree
  /\ Unregister(d, Id(d, 1))
  /\ MakesIds(d, 1)
  /\ UNCHANGED <<scripted, tabVars, adds, shared, ended>>

(* A closed tab leaves its device connected.                               *)
CloseTab(t) ==
  /\ Alive /\ t \in tabs
  /\ RemoveTab(t)
  /\ UNCHANGED <<scripted, deviceVars, ids, adds, shared, ended>>

(* ~Session()                                                              *)
EndSession ==
  /\ Alive
  /\ ended' = TRUE
  /\ open' = open \ {e.dev : e \in deviceMap}
  /\ UNCHANGED <<scripted, deviceMap, tree, tabVars, ids, adds, shared>>

-----------------------------------------------------------------------------
(* bindings.cpp: devices() is to "Return all connected devices.", and      *)
(* remove_device() to "Close a device and remove it from the session.":    *)
(* the tree and the devices agree on what is connected.  The map of the    *)
(* session, from which a script and the views take their devices, never    *)
(* keeps one of the hardware that is removed, and has all of those whose   *)
(* serial number no other has had meanwhile.  (It loses the second device  *)
(* under one id, and the first one when the second is removed.)            *)
DevicesAgree ==
  ~ended => /\ tree = open
            /\ \A e \in deviceMap : e.dev \in Hardware => e.dev \in tree
            /\ \A d \in tree \cap Hardware :
                 Serial(d) \notin shared => \E e \in deviceMap : e.dev = d

(* basedevice.hpp: "Get the unique Id of the device.": a tab in the map of *)
(* the main window is of a connected device, and only a device that shared *)
(* its id has a tab which is not in the map, and which stays.  This is so  *)
(* if the devices are disconnected in the window: nothing closes the tab   *)
(* of a device a script removes.                                           *)
TabsAgree ==
  ~scripted =>
    /\ \A t \in tabMap : t.dev \in Hardware => t.dev \in tree
    /\ \A t \in tabs \ tabMap : t.dev \in Hardware => Serial(t.dev) \in shared
    /\ \A t \in tabs \ tabMap : t.dev # Welcome
=============================================================================
