---------------------------- MODULE SelectSignal ----------------------------
(***************************************************************************)
(* The boxes for the choice of a signal: device, channel group, channel    *)
(* and signal.  A change of one box fills the next, which tells the one    *)
(* after it in turn; a box that has nothing to fill in from tells nobody.  *)
(* Boxes are not filled again when channels or signals are added.          *)
(***************************************************************************)
EXTENDS DeviceTree

CONSTANT MaxSeen  (* bound: samples and signals that come meanwhile        *)

VARIABLES
  filter,       (* the quantity the boxes are filtered by, or "any"        *)
  boxes         (* [device, groups, group, channels, channel, items, item] *)

selectVars == <<filter, boxes>>

NoItem    == <<NoChannel, 0>>
SomeFirst(items, none) == IF items = {} THEN none ELSE CHOOSE x \in items : TRUE

Empty == [device |-> "none", groups |-> {}, group |-> "", channels |-> {},
          channel |-> NoChannel, items |-> {}, item |-> NoItem]

(* Filters are set for the power panel only.                               *)
InitSelect == filter \in {"any", "voltage"} /\ boxes = Empty

-----------------------------------------------------------------------------
Passes(channel, n) == filter = "any" \/ QuantityOf(channel, n) = filter

(* Mutant: with nothing to show, the box is left before it is cleared.     *)
FillSignalsKeepsLast(b, channel) ==
  LET items == {<<channel, n>> : n \in {k \in SignalsOf(channel) : Passes(channel, k)}}
  IN  IF channel = NoChannel \/ items = {} THEN b
      ELSE [b EXCEPT !.items = items, !.item = CHOOSE x \in items : TRUE]

(* The first item of a box that is filled is chosen.  (Which one that is   *)
(* makes no difference: the user can choose any.)                          *)
FillSignals(b, channel) ==
  LET items == {<<channel, n>> : n \in {k \in SignalsOf(channel) : Passes(channel, k)}}
  IN  IF channel = NoChannel THEN [b EXCEPT !.items = {}, !.item = NoItem]
      ELSE [b EXCEPT !.items = items, !.item = SomeFirst(items, NoItem)]

ChannelChanged(b, channel) == FillSignals(b, channel)

FillChannels(b, g) ==
  LET groups   == groupMap[b.device]
      channels == {c \in ToSet(groups[g]) :
                     filter = "any" \/ \E n \in SignalsOf(c) : Passes(c, n)}
      channel  == SomeFirst(channels, NoChannel)
  IN  IF g \notin DOMAIN groups THEN [b EXCEPT !.channels = {}, !.channel = NoChannel]
      ELSE ChannelChanged([b EXCEPT !.channels = channels, !.channel = channel], channel)

FillGroups(b) ==
  LET groups == DOMAIN groupMap[b.device]
      g      == SomeFirst(groups, "")
  IN  FillChannels([b EXCEPT !.groups = groups, !.group = g], g)

(* A box tells of a choice that changes it.                                *)
SelectDevice(device) ==
  /\ boxes.device # device
  /\ boxes' = FillGroups([boxes EXCEPT !.device = device])
SelectGroup(g) ==
  /\ g \in boxes.groups \ {boxes.group}
  /\ boxes' = FillChannels([boxes EXCEPT !.group = g], g)
SelectChannel(c) ==
  /\ c \in boxes.channels \ {boxes.channel}
  /\ boxes' = ChannelChanged([boxes EXCEPT !.channel = c], c)
SelectItem(item) ==
  /\ item \in boxes.items \ {boxes.item}
  /\ boxes' = [boxes EXCEPT !.item = item]

Select ==
  /\ \/ \E d \in {"main", "second"} : SelectDevice(d)
     \/ \E g \in boxes.groups : SelectGroup(g)
     \/ \E c \in boxes.channels : SelectChannel(c)
     \/ \E item \in boxes.items : SelectItem(item)
  /\ UNCHANGED <<filter, vars, structure, treeVars>>

(* Meanwhile samples come, and a script adds channels.                     *)
Meanwhile ==
  /\ \/ /\ pusher = "idle" => Len(stored) + scripted < MaxSeen
        /\ Pusher /\ UNCHANGED structure
     \/ /\ UNCHANGED vars
        /\ \E channel \in NewChannels : \E g \in DOMAIN groupMap.main \cup {"User"} :
             UserAddsChannel(channel, g)
  /\ UNCHANGED <<treeVars, selectVars>>

SelectNext == Select \/ Meanwhile

-----------------------------------------------------------------------------
(* The signal that is chosen is one of the channel, group and device that  *)
(* the boxes show, and of the right quantity, in whatever order they are   *)
(* changed and whatever is added meanwhile.  (When the device has no       *)
(* channels at all, the signal of the one before stays.)                   *)
SelectedIsShown ==
  boxes.item # NoItem =>
    /\ Passes(boxes.item[1], boxes.item[2])
    /\ groupMap[boxes.device] # NoGroups =>
         /\ boxes.item[1] = boxes.channel
         /\ boxes.channel \in ToSet(groupMap[boxes.device][boxes.group])
=============================================================================
