-------------------------------- MODULE Rtt ---------------------------------
(***************************************************************************)
(* The round-trip-time estimator (internal/rtt): the premultiplied EWMA    *)
(* that paces NACK retries and the raw last sample that gates              *)
(* retransmissions.                                                        *)
(***************************************************************************)
EXTENDS Integers

CONSTANTS RTTMin, RTTMax,   \* configured rtt_min, rtt_max
          RTTFloor          \* rttMinFloor, the hard 3 ms floor

ASSUME RttAssumption ==
  /\ RTTMin \in Nat /\ RTTMax \in Nat /\ RTTFloor \in Nat
  /\ RTTMin <= RTTMax /\ RTTFloor <= RTTMax

Estimators == [eightTimesRTT : Nat, lastSample : Nat]

\* Cold start: the first smoothed reading is RTTMin.
NewEstimator == [eightTimesRTT |-> 8 * RTTMin, lastSample |-> 0]

\* One sample folded into the average; a negative sample counts as zero.
Observe(e, sample) ==
  LET s == IF sample < 0 THEN 0 ELSE sample
  IN  [eightTimesRTT |-> e.eightTimesRTT - (e.eightTimesRTT \div 8) + s,
       lastSample    |-> s]

Smoothed(e) == e.eightTimesRTT \div 8

EffectiveRTTMin == IF RTTMin < RTTFloor THEN RTTFloor ELSE RTTMin

Clamp(rtt) == IF rtt < EffectiveRTTMin THEN EffectiveRTTMin
              ELSE IF rtt > RTTMax THEN RTTMax ELSE rtt

Clamped(e)     == Clamp(Smoothed(e))
LastClamped(e) == Clamp(e.lastSample)

\* 1.1 times the clamped average, truncated.
RetryInterval(e) == (Clamped(e) * 11) \div 10

=============================================================================
