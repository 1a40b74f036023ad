---------------------------- MODULE MathChannels ----------------------------
(***************************************************************************)
(* The channels that multiply a signal with a factor or average its last   *)
(* samples, as the dialog adds them.  (SignalPipeline has the channels     *)
(* that add a constant or integrate, CombineSignals those of two signals.) *)
(***************************************************************************)
EXTENDS SignalSource

CONSTANTS
  Factors,      (* factors that are entered                                *)
  Windows       (* numbers of samples to average                           *)

ASSUME MathAssumption == Factors \subseteq Int /\ Windows \subseteq Nat \ {0}

VARIABLES
  channel,      (* [kind, signal, by], or <<>>: not added yet              *)
  next,         (* next_signal_pos_                                        *)
  window,       (* avg_samples_                                            *)
  results       (* the samples of the channel                              *)

mathVars == <<channel, next, window, results>>

InitMathChannels == channel = <<>> /\ next = 0 /\ window = <<>> /\ results = <<>>

-----------------------------------------------------------------------------
(* accept() of the dialog wants a name, a signal, and a factor that is a   *)
(* number; the box for the samples has no number below 1.                  *)
MultiplySFChannel(s, factor) ==
  /\ channel' = <<[kind |-> "MultiplySF", signal |-> s, by |-> factor]>>
  /\ window' = <<>>

MovingAvgChannel(s, size) ==
  /\ channel' = <<[kind |-> "MovingAvg", signal |-> s, by |-> size]>>
  /\ window' = [i \in 1 .. size |-> 0]

AddMathChannel(s) ==
  /\ channel = <<>>
  /\ \/ \E factor \in Factors : MultiplySFChannel(s, factor)
     \/ \E size \in Windows : MovingAvgChannel(s, size)
  /\ Listen(s)
  /\ UNCHANGED <<samples, digitVars, pushVars, now, clears, queued, next, results>>

(* The loop over the ring: the sum of its first k samples, and of all.      *)
Sums(values) == LET sum[k \in Nat] == IF k = 0 THEN 0 ELSE sum[k - 1] + values[k] IN sum
Total(values) == Sums(values)[Len(values)]

(* Mutant: the slot of the sample is counted from 1.                       *)
SlotPastEnd(pos, size) == IF pos + 2 > size THEN size ELSE pos + 2
(* Place of a sample in the ring.                                          *)
Slot(pos, size) == (pos % size) + 1

(* A channel between two samples: [next, window, results].                 *)
Process(state) ==
  LET c      == Head(channel)
      sample == samples[c.signal][state.next + 1]
      ring   == IF c.kind = "MovingAvg"
                THEN [state.window EXCEPT ![Slot(state.next, c.by)] = sample.v] ELSE state.window
      v      == IF c.kind = "MovingAvg" THEN Total(ring) \div c.by ELSE c.by * sample.v
  IN  [next |-> state.next + 1, window |-> ring, results |-> Append(state.results, [t |-> sample.t, v |-> v])]

(* The channel after k passes of the loop.                                 *)
Passes ==
  LET after[k \in Nat] == IF k = 0 THEN [next |-> next, window |-> window, results |-> results]
                                   ELSE Process(after[k - 1])
  IN  after

(* on_sample_appended(): everything that has come since the last time.     *)
OnSampleAppended ==
  LET come   == Count(Head(channel).signal) - next
      now_is == Passes[IF come > 0 THEN come ELSE 0]
  IN  /\ TakeEvent
      /\ next' = now_is.next /\ window' = now_is.window /\ results' = now_is.results
      /\ UNCHANGED <<samples, digitVars, pushVars, now, clears, listening, channel>>

MathChannelsNext == (\E s \in Signals : AddMathChannel(s)) \/ OnSampleAppended

-----------------------------------------------------------------------------
(* A result for every sample, at its time, and the right one: the product, *)
(* or, once as many samples have come as are averaged, the mean of these.  *)
(* Before that the mean has zeros in it.  (A signal that was deleted is    *)
(* left alone until it has more samples than before.)                      *)
Mean(values, upto, size) == Total(SubSeq(values, upto - size + 1, upto)) \div size
ResultsAreRight ==
  channel # <<>> /\ ~Cleared(Head(channel).signal) =>
    LET c  == Head(channel)
        of == [k \in DOMAIN samples[c.signal] |-> samples[c.signal][k].v]
    IN  /\ Len(results) = next /\ (Still /\ results # <<>> => next = Len(of))
        /\ \A k \in DOMAIN results :
             /\ results[k].t = samples[c.signal][k].t
             /\ c.kind = "MultiplySF" => results[k].v = c.by * of[k]
             /\ c.kind = "MovingAvg" /\ k >= c.by => results[k].v = Mean(of, k, c.by)
=============================================================================
