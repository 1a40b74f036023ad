---------------------------- MODULE SignalSource ----------------------------
(***************************************************************************)
(* Signals as the views and the file dialog meet them in the GUI thread:   *)
(* samples that other threads append, with the events that announce them,  *)
(* and that the user may delete.  SignalPipeline and CombineSignals have   *)
(* the steps inside a push.                                                *)
(***************************************************************************)
EXTENDS Integers, Sequences, FiniteSets, SequencesExt, FiniteSetsExt

CONSTANTS
  Signals,      (* the signals                                             *)
  Values,       (* values of samples, in millionths                        *)
  Gaps,         (* milliseconds between two things that happen             *)
  Digits,       (* digits after the point that devices report              *)
  Strides,      (* milliseconds between two samples of a packet            *)
  MaxPacket,    (* bound: samples of a packet                              *)
  MaxSamples,   (* bound: samples of all signals                           *)
  MaxClears     (* bound: how often the user deletes a signal              *)

ASSUME SourceConstantsOK ==
  /\ Values \subseteq Int /\ Gaps \subseteq Nat /\ Digits \subseteq Int
  /\ Strides \subseteq Nat /\ MaxPacket \in Nat
  /\ MaxSamples \in Nat /\ MaxClears \in Nat

VARIABLES
  samples,      (* time_ and data_ of each signal: [t, v]                  *)
  latest,       (* last_timestamp_ and last_value_ of each: [t, v]         *)
  packet,       (* what each is being pushed: [left, t, stride]            *)
  backward,     (* signals that were pushed a packet from before latest    *)
  digits,       (* sr_digits_ of each signal                               *)
  now,          (* the clock, in milliseconds                              *)
  pushed,       (* samples pushed so far                                   *)
  clears,       (* the signals the user has deleted, one after the other   *)
  listening,    (* connections of sample_appended() of each signal         *)
  queued,       (* sample_appended() events under way                      *)
  watched,      (* signals whose digits_changed() is connected             *)
  announced     (* digits_changed() events under way                       *)

pushVars   == <<latest, packet, backward, pushed>>
sourceVars == <<samples, pushVars, digits, now, clears, listening, queued, watched, announced>>
digitVars  == <<digits, watched, announced>>

NoPacket == [left |-> 0, t |-> 0, stride |-> 0]

InitSource ==
  /\ samples = [s \in Signals |-> <<>>]
  /\ latest = [s \in Signals |-> [t |-> 0, v |-> 0]]
  /\ packet = [s \in Signals |-> NoPacket] /\ backward = {}
  /\ \E d \in Digits : digits = [s \in Signals |-> d]
  /\ watched = {} /\ announced = 0
  /\ now = 1 /\ pushed = 0 /\ clears = <<>>
  /\ listening = [s \in Signals |-> 0] /\ queued = 0

Count(s)   == Len(samples[s])
Cleared(s) == s \in Range(clears)

(* One pass of the loop of push_samples() in a device's thread, with what  *)
(* is left of the packet.  The event is sent behind the last one.  (In the *)
(* GUI thread the slots are called at once, which is one of the orders.)   *)
PushSample(s, v, what) ==
  LET sample == [t |-> what.t, v |-> v]
      ends   == what.left = 1
  IN  /\ pushed < MaxSamples /\ pushed' = pushed + 1
      /\ samples' = [samples EXCEPT ![s] = Append(@, sample)]
      /\ latest' = [latest EXCEPT ![s] = IF ends THEN sample ELSE @]
      /\ packet' = [packet EXCEPT ![s] =
           IF ends THEN NoPacket
           ELSE [what EXCEPT !.left = @ - 1, !.t = @ + what.stride]]
      /\ queued' = IF ends THEN queued + listening[s] ELSE queued
      /\ UNCHANGED <<digitVars, clears, listening>>

(* A packet has the time on the clock, which stands still in a frame, and  *)
(* its samples are a stride apart: they may be ahead of the packet that    *)
(* follows.  push_sample() is a packet of one sample.                      *)
PushSamples(s, v, gap, size, stride) ==
  /\ packet[s] = NoPacket
  /\ now' = now + gap
  /\ backward' = IF now' < latest[s].t THEN backward \cup {s} ELSE backward
  /\ PushSample(s, v, [left |-> size, t |-> now', stride |-> stride])
PushNext(s, v) ==
  /\ packet[s] # NoPacket
  /\ PushSample(s, v, packet[s])
  /\ UNCHANGED <<now, backward>>

ClearSignal(s) ==
  /\ Len(clears) < MaxClears /\ Count(s) > 0
  /\ samples' = [samples EXCEPT ![s] = <<>>]
  /\ clears' = Append(clears, s)
  /\ UNCHANGED <<digitVars, pushVars, now, listening, queued>>

(* The first samples of another resolution.                                *)
ChangeDigits(s, d) ==
  /\ d # digits[s] /\ announced = 0
  /\ digits' = [digits EXCEPT ![s] = d]
  /\ announced' = IF s \in watched THEN 1 ELSE 0
  /\ UNCHANGED <<samples, pushVars, now, clears, listening, queued, watched>>

SamplesCome ==
  \/ \E s \in Signals, v \in Values :
       \/ \E gap \in Gaps, size \in 1 .. MaxPacket, stride \in Strides :
            PushSamples(s, v, gap, size, stride)
       \/ PushNext(s, v)
  \/ \E s \in Signals : ClearSignal(s)
DigitsCome == \E s \in Signals, d \in Digits : ChangeDigits(s, d)

Listen(s) == listening' = [listening EXCEPT ![s] = @ + 1]
TakeEvent == queued > 0 /\ queued' = queued - 1

(* Every sample has been announced.                                        *)
Still == queued = 0 /\ \A s \in Signals : packet[s] = NoPacket
=============================================================================
