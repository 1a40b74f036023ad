---------------------------- MODULE SignalViews ----------------------------
(***************************************************************************)
(* What follows or takes the samples of signals in the GUI thread, beside  *)
(* the devices that push them and the user who deletes them: the data      *)
(* view, the power panel, a math channel and the save dialog.              *)
(***************************************************************************)
EXTENDS DataView, PowerPanel, MathChannels, SignalSave

CONSTANT MaxPanelSamples   (* bound: samples while the panel is open        *)

VARIABLE open   (* bound: one of them is open; the run ends with the save  *)

vars == <<sourceVars, dataVars, panelVars, mathVars, saveVars, open>>

Init ==
  /\ InitSource /\ InitDataView /\ InitPowerPanel /\ InitMathChannels /\ InitSignalSave
  /\ open \in {"table", "panel", "math", "save"}
  /\ open # "panel" => \A s \in Signals : digits[s] = Max(Digits)

(* Only the panel looks at the digits, and only at last samples.  The      *)
(* table does not look at values: there they alternate.  The math channels *)
(* do not look at the distance of time stamps, and the panel not at time   *)
(* stamps: there a packet has one, or one sample.                          *)
Alternates ==
  \A s \in Signals : Count(s) < Len(samples'[s]) =>
    (Last(samples'[s]).v = Max(Values)) = (pushed % 2 = 0)
OneStamp == \A s \in Signals : packet'[s].stride = 0
World ==
  \/ /\ open = "panel" => pushed < MaxPanelSamples
     /\ SamplesCome
     /\ open = "table" => Alternates
     /\ open = "math" => OneStamp
     /\ open = "panel" => packet' = packet
  \/ open = "panel" /\ DigitsCome
Others == UNCHANGED <<dataVars, panelVars, mathVars, saveVars>>

Next ==
  /\ UNCHANGED open
  /\ \/ World /\ dialog = "open" /\ Others
     \/ open = "table" /\ DataViewNext     /\ UNCHANGED <<panelVars, mathVars, saveVars>>
     \/ open = "panel" /\ PowerPanelNext   /\ UNCHANGED <<dataVars, mathVars, saveVars>>
     \/ open = "math"  /\ MathChannelsNext /\ UNCHANGED <<dataVars, panelVars, saveVars>>
     \/ open = "save"  /\ SignalSaveNext   /\ UNCHANGED <<dataVars, panelVars, mathVars>>

Spec == Init /\ [][Next]_vars
=============================================================================
