---- MODULE MCSignalViews ----
(* Values that a .cfg cannot hold, for the instance that TLC checks. *)
EXTENDS SignalViews

\* Millionths: -2 m and 1 m.
MCValues == {-2000, 1000}
MCDigits == {-4, 5}
====
