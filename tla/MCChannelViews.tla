--------------------------- MODULE MCChannelViews ---------------------------
(* The module ChannelViews for TLC: the groups and prefixes of channels.   *)
EXTENDS ChannelViews

MCMainGroups == {{""}, {"A", "B"}}
MCPrefixes == {{"V", "I"}, {"V", "I", "E", "Ah"}}
=============================================================================
