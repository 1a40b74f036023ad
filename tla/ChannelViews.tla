---------------------------- MODULE ChannelViews ----------------------------
(***************************************************************************)
(* A channel to which samples are pushed, and one of its three watchers:   *)
(* a value panel, the device tree, or the boxes of a dialog.               *)
(***************************************************************************)
EXTENDS SelectSignal

VARIABLE watcher   (* "panel", "tree" or "boxes" *)

others  == <<structure, treeVars, selectVars>>
allVars == <<vars, others, watcher>>

ViewsInit ==
  /\ Init /\ InitChannels /\ InitTree /\ InitSelect
  /\ watcher \in {"panel", "tree", "boxes"}
  /\ watcher = "panel" => /\ groupMap.second = NoGroups /\ Cardinality(channelMap.main) = 1
                          /\ DOMAIN groupMap.main = {""} /\ filter = "any"
  /\ watcher = "tree" => groupMap.second = NoGroups /\ filter = "any"
  /\ watcher = "boxes" => ~user

WatchPanel == watcher = "panel" /\ Next /\ UNCHANGED <<others, watcher>>
WatchTree  == watcher = "tree" /\ TreeNext /\ UNCHANGED <<selectVars, watcher>>
WatchBoxes == watcher = "boxes" /\ SelectNext /\ UNCHANGED watcher

ViewsNext == WatchPanel \/ WatchTree \/ WatchBoxes

(* As in ChannelSignals: a push that has begun ends, and the GUI thread    *)
(* handles its events.                                                     *)
ViewsSpec ==
  /\ ViewsInit /\ [][ViewsNext]_allVars
  /\ WF_allVars(WatchPanel /\ (AddSignal \/ SwitchSignal \/ PushSamples))
  /\ WF_allVars(WatchPanel /\ (ConnectChannel \/ OnSignalChanged))
=============================================================================
