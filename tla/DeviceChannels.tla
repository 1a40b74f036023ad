--------------------------- MODULE DeviceChannels ---------------------------
(***************************************************************************)
(* The channels of the devices and their groups.  The main device has the  *)
(* channel of the module ChannelSignals, in one or more channel groups,    *)
(* and gets further ones from the user; the second one is a power supply   *)
(* or load, whose channels have a fixed signal and which adds math         *)
(* channels to every group, or a user device without channels.             *)
(***************************************************************************)
EXTENDS ChannelSignals, FiniteSets

CONSTANTS
  MainGroups,   (* the sets of groups the channel of the main device is in *)
  FixedPrefixes,(* the sets of prefixes of the channels of a power supply  *)
  MaxChannels   (* bound: channels the user adds                           *)

ASSUME GroupsOK == {} \notin MainGroups

VARIABLES
  groupMap,     (* channel_group_map_ of "main" and "second"               *)
  channelMap    (* channel_map_ of both: the channels it holds             *)

structure == <<groupMap, channelMap>>

Channel(prefix, suffix, kind) == [name |-> <<prefix, suffix>>, kind |-> kind]
Live == Channel("c", "", "live")

Mapped(groups) == UNION {ToSet(groups[g]) : g \in DOMAIN groups}

-----------------------------------------------------------------------------
(* SourceSinkDevice::init_channels()                                       *)

(* What the prefix of the name says of a channel, and of a math channel.   *)
FixedQuantity(prefix) ==
  CASE prefix = "V" -> "voltage"
    [] prefix = "I" -> "current"
    [] prefix = "P" -> "power"
    [] prefix = "R" -> "resistance"
    [] prefix = "F" -> "frequency"
    [] prefix \in {"Wh", "E"} -> "energy"
    [] prefix = "Ah" -> "charge"

(* The suffix of the names, as long as the channels agree.                 *)
GetChannelNameSuffix(known, name) ==
  IF known.initialized THEN [known EXCEPT !.initialized = (known.suffix = name[2])]
                       ELSE [suffix |-> name[2], initialized |-> TRUE]

Suffix(channels) ==
  FoldLeft(LAMBDA known, c : GetChannelNameSuffix(known, c.name),
           [suffix |-> "", initialized |-> FALSE], channels).suffix

(* Power and resistance of voltage and current, energy of the power, and   *)
(* charge of the current, where the device does not measure them itself.   *)
MathChannels(channels) ==
  LET has(q) == \E c \in ToSet(channels) : FixedQuantity(c.name[1]) = q
      both   == has("voltage") /\ has("current")
      add(prefix, wanted) ==
        IF wanted /\ ~has(FixedQuantity(prefix))
        THEN <<Channel(prefix, Suffix(channels), "math")>> ELSE <<>>
  IN  add("P", both) \o add("R", both) \o add("Wh", both \/ has("power"))
        \o add("Ah", has("current"))

(* A power supply has one group, or two whose channels are numbered.       *)
SourceSink(prefixes, groups) ==
  [g \in groups |->
     LET channels == [i \in DOMAIN SetToSeq(prefixes) |->
                        Channel(SetToSeq(prefixes)[i], g, "fixed")]
     IN  channels \o MathChannels(channels)]

NoGroups == [g \in {} |-> <<>>]

SecondDevices ==
  {NoGroups} \cup {SourceSink(p, {""}) : p \in FixedPrefixes}
             \cup {SourceSink(p, {"1", "2"}) : p \in FixedPrefixes}

InitChannels ==
  \E main \in MainGroups : \E second \in SecondDevices :
    /\ groupMap = [main |-> [g \in main |-> <<Live>>], second |-> second]
    /\ channelMap = [main |-> {Live}, second |-> Mapped(second)]

-----------------------------------------------------------------------------
(* BaseDevice                                                              *)

GroupsOf(channel, groups) == {g \in DOMAIN groups : channel \in ToSet(groups[g])}

(* add_channel(): the group takes every channel, the map of the device     *)
(* only one of each name.                                                  *)
AddChannel(channel, g) ==
  LET groups == groupMap.main
      known  == IF g \in DOMAIN groups THEN groups[g] ELSE <<>>
  IN  /\ groupMap' = [groupMap EXCEPT !.main =
           [h \in DOMAIN groups \cup {g} |-> IF h = g THEN Append(known, channel) ELSE groups[h]]]
      /\ channelMap' = IF \E c \in channelMap.main : c.name = channel.name THEN channelMap
                       ELSE [channelMap EXCEPT !.main = @ \cup {channel}]

(* The dialogs for user and math channels: any name, also one in use, and  *)
(* a group of the device or a new one.                                     *)
NewChannels == [name : {"c", "u"} \X {""}, kind : {"user", "math"}]
Added       == Mapped(groupMap.main) \ {Live}

UserAddsChannel(channel, g) ==
  /\ Cardinality(Added) < MaxChannels
  /\ g \in DOMAIN groupMap.main \cup {"User"}
  /\ AddChannel(channel, g)

(* The signals of a channel, by their number: those of the live one come   *)
(* with the samples, a fixed or math channel has one from the start.       *)
SignalsOf(channel) ==
  CASE channel.kind = "live" -> DOMAIN signals
    [] channel.kind = "user" -> {}
    [] OTHER -> {1}

(* The channel whose signal the user multiplies is of the main device.     *)
QuantityOf(channel, n) ==
  CASE channel.kind = "live" -> signals[n]
    [] channel.name[1] \in {"c", "u"} -> "voltage"
    [] OTHER -> FixedQuantity(channel.name[1])
=============================================================================
