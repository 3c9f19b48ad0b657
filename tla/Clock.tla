------------------------------- MODULE Clock --------------------------------
(***************************************************************************)
(* Clock conversions (internal/clock): the local clock counts ticks (one   *)
(* microsecond in the code), a media timestamp is a finer NTP-64 count.    *)
(***************************************************************************)
EXTENDS Integers

CONSTANT NtpPerTick     \* NTP-64 units in one local clock tick

ASSUME ClockAssumption == NtpPerTick \in Nat \ {0}

\* Instants before the epoch are clamped to it.
NTPTimeFromTimestamp(t) == IF t < 0 THEN 0 ELSE t * NtpPerTick

\* Rounded to the nearest tick.
Timestamp(ntp) == (ntp + (NtpPerTick \div 2)) \div NtpPerTick

=============================================================================
