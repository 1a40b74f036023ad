----------------------------- MODULE DeviceTree -----------------------------
(***************************************************************************)
(* The device tree: a row for the main device, its channel groups, their   *)
(* channels and the signals of these, and the configurables with their     *)
(* properties.  A channel has a row in each of its groups.                 *)
(*                                                                         *)
(* The tree is made and changed in the GUI thread.  A channel that is      *)
(* added is told at once, a new signal of the pushing thread by a queued   *)
(* event, which makes the tree look through the whole channel again.       *)
(***************************************************************************)
EXTENDS DeviceChannels

VARIABLES
  tree,         (* "none"; "adding": in add_device(); "shown"; "removed":  *)
                (* without the row of the device; "crashed"                *)
  connected,    (* the tree is connected to signal_added of the channel    *)
  rows,         (* the rows below the device: [kind, group, channel, n]    *)
  posted        (* events queued for on_signal_added()                     *)

treeVars == <<tree, connected, rows, posted>>

InitTree == tree = "none" /\ connected = FALSE /\ rows = {} /\ posted = 0

-----------------------------------------------------------------------------
(* Plausible bugs, put in the place of the definitions they are named      *)
(* after.                                                                  *)
InFirstGroup(channel) == {CHOOSE g \in GroupsOf(channel, groupMap.main) : TRUE}

-----------------------------------------------------------------------------
NoChannel == Channel("", "", "none")
Row(kind, g, channel, n) == [kind |-> kind, group |-> g, channel |-> channel, n |-> n]

(* The group "" is the device itself.                                      *)
ChannelGroupRows(g) == IF g = "" THEN {} ELSE {Row("group", g, NoChannel, 0)}

SignalRows(channel, g) == {Row("signal", g, channel, n) : n \in SignalsOf(channel)}

ChannelRows(channel, groups) ==
  UNION {ChannelGroupRows(g) \cup {Row("channel", g, channel, 0)} \cup SignalRows(channel, g) :
         g \in groups}

(* The device has a configurable of its own, and one per channel group.    *)
ConfigurableRows(name) ==
  ChannelGroupRows(name) \cup
    {Row("configurable", name, NoChannel, 0), Row("property", name, NoChannel, 0)}

(* find_channel(): in any of the groups                                    *)
FindChannel(channel) == \E row \in rows : row.kind = "channel" /\ row.channel = channel

ShownGroups(channel) == GroupsOf(channel, groupMap.main)

-----------------------------------------------------------------------------
(* add_device() connects to the channels, and then asks for their signals. *)
ConnectDevice ==
  /\ tree = "none" /\ tree' = "adding"
  /\ connected' = ~FindChannel(Live)
  /\ UNCHANGED <<rows, posted, vars, structure>>

AddDevice ==
  /\ tree = "adding" /\ tree' = "shown"
  /\ rows' = (UNION {ChannelRows(c, ShownGroups(c)) : c \in channelMap.main}) \cup
             (UNION {ConfigurableRows(g) : g \in {""} \cup ShownGroups(Live)})
  /\ UNCHANGED <<connected, posted, vars, structure>>

(* on_channel_added(), and on_signal_added() for the signal of a math      *)
(* channel, in the GUI thread.                                             *)
OnChannelAdded(channel, g) ==
  /\ tree \in {"none", "shown"} /\ UserAddsChannel(channel, g)
  /\ rows' = IF tree = "shown" THEN rows \cup ChannelRows(channel, {g}) ELSE rows
  /\ UNCHANGED <<tree, connected, posted, vars>>

(* on_signal_added(): the row of the device is looked for, and what is not *)
(* there is dereferenced.                                                  *)
OnSignalAdded ==
  /\ tree \in {"shown", "removed"} /\ posted > 0 /\ posted' = posted - 1
  /\ IF tree = "shown"
     THEN rows' = rows \cup ChannelRows(Live, ShownGroups(Live)) /\ UNCHANGED tree
     ELSE tree' = "crashed" /\ UNCHANGED rows
  /\ UNCHANGED <<connected, vars, structure>>

(* The session has closed the device before, and with it the acquisition   *)
(* thread; a script that holds the channel goes on.                        *)
OnDeviceRemoved ==
  /\ tree = "shown" /\ tree' = "removed"
  /\ user \/ pusher = "idle"
  /\ rows' = {}
  /\ UNCHANGED <<connected, posted, vars, structure>>

Push ==
  /\ tree # "crashed" /\ (tree = "removed" => user)
  /\ Pusher
  /\ posted' = IF connected /\ signals' # signals THEN posted + 1 ELSE posted
  /\ UNCHANGED <<tree, connected, rows, structure>>

TreeNext ==
  \/ ConnectDevice \/ AddDevice \/ OnSignalAdded \/ OnDeviceRemoved \/ Push
  \/ \E channel \in NewChannels : \E g \in DOMAIN groupMap.main \cup {"User"} :
       OnChannelAdded(channel, g)

-----------------------------------------------------------------------------
(* Whenever the events are handled, the tree shows what is there: every    *)
(* channel and signal in every group, once, however many of them have come *)
(* while the tree was set up.  (Of two channels with one name, one can be  *)
(* missing that was there before the tree.)                                *)
TreeIsComplete ==
  tree = "shown" /\ posted = 0 =>
    /\ \A c \in channelMap.main : ChannelRows(c, GroupsOf(c, groupMap.main)) \subseteq rows
    /\ \A row \in rows : row.kind \in {"channel", "signal"} =>
         /\ row.group \in GroupsOf(row.channel, groupMap.main)
         /\ row.kind = "signal" => row.n \in SignalsOf(row.channel)

(* devicetreemodel.cpp, in on_channel_added(): "Device must exist".        *)
DeviceMustExist == tree # "crashed"
=============================================================================
