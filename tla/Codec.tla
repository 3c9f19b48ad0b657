------------------------------- MODULE Codec --------------------------------
(***************************************************************************)
(* The Simple-profile codec of the session (internal/session/codec.go).    *)
(* The wire narrows the sequence and the source time; the receiving end    *)
(* widens both again from what it has seen before.                         *)
(***************************************************************************)
EXTENDS SeqNum, Clock

CONSTANTS
  WireSpace,        \* 2^16: the RTP sequence field
  TsSpace,          \* 2^32: the RTP timestamp field
  RtpNum, RtpDen    \* RTP ticks per clock tick, 9 / 100

ASSUME CodecAssumption ==
  /\ WireSpace \in Nat \ {0} /\ TsSpace \in Nat \ {0}
  /\ SeqSpace % WireSpace = 0 /\ WireSpace % 2 = 0 /\ TsSpace % 2 = 0
  /\ RtpNum \in Nat \ {0} /\ RtpDen \in Nat \ {0}

\* int32(b - a).
SignedGap(a, b) == IF Gap(a, b) < HalfSpace THEN Gap(a, b) ELSE Gap(a, b) - SeqSpace

\* Go's division truncates towards zero; d is positive.
Quot(n, d) == IF n >= 0 THEN n \div d ELSE -((-n) \div d)

-----------------------------------------------------------------------------
(* Encoding. *)

WireSeq(s) == s % WireSpace

\* rtpTSFromSource: NTP-64 to the 32-bit RTP timestamp, through the clock.
WireTs(src) == Quot(Timestamp(src) * RtpNum, RtpDen) % TsSpace

-----------------------------------------------------------------------------
(* Decoding. *)

\* x with its low part replaced by w, moved by one period when that is nearer.
NearestTo(w, ref, space) ==
  LET cand == (ref \div space) * space + w
  IN  IF cand - ref > space \div 2 THEN cand - space
      ELSE IF cand - ref < -(space \div 2) THEN cand + space ELSE cand

WidenSeq(w, ref) == Wrap(NearestTo(w, ref, WireSpace))

\* Mutant: the period of the reference, whichever is nearer.
WidenTicksSame(w, ref) == (ref \div TsSpace) * TsSpace + w

WidenTicks(w, ref) == NearestTo(w, ref, TsSpace)

\* The greatest sequence with low part w that is not after ref.
WidenSeqAtMost(w, ref) ==
  LET cand == (ref \div WireSpace) * WireSpace + w
  IN  Wrap(IF cand > ref THEN cand - WireSpace ELSE cand)

\* mediaDecoder: the last sequence, and the first and the newest sequence with
\* their tick counts.
Decoders == [started : BOOLEAN, refSeq : SeqNums, tsBaseSeq : SeqNums,
             tsBaseTicks : Int, tsRefSeq : SeqNums, tsRefTicks : Int]

NewDecoder == [started |-> FALSE, refSeq |-> 0, tsBaseSeq |-> 0,
               tsBaseTicks |-> 0, tsRefSeq |-> 0, tsRefTicks |-> 0]

\* sourceTicks: the timestamp is widened nearest the tick count extrapolated to
\* the packet's sequence at the average rate so far.
SourceTicks(d, s, ts) ==
  LET span == SignedGap(d.tsBaseSeq, d.tsRefSeq)
      rate == Quot(d.tsRefTicks - d.tsBaseTicks, span)
  IN  IF ~d.started THEN ts
      ELSE WidenTicks(ts, IF span > 0
                          THEN d.tsRefTicks + SignedGap(d.tsRefSeq, s) * rate
                          ELSE d.tsRefTicks)

DecodedSeq(d, w) == IF d.started THEN WidenSeq(w, d.refSeq) ELSE w

\* The decoder after a packet: a new high-water sequence moves the front.
Decoded(d, w, ts) ==
  LET s     == DecodedSeq(d, w)
      ticks == SourceTicks(d, s, ts)
      next  == [d EXCEPT !.started = TRUE, !.refSeq = s]
  IN  IF ~d.started
      THEN [next EXCEPT !.tsBaseSeq = s, !.tsBaseTicks = ticks,
                        !.tsRefSeq = s, !.tsRefTicks = ticks]
      ELSE IF SignedGap(d.tsRefSeq, s) > 0
      THEN [next EXCEPT !.tsRefSeq = s, !.tsRefTicks = ticks]
      ELSE next

\* The NTP-64 source time handed to the flow core.
DecodedSource(d, w, ts) ==
  LET ticks == SourceTicks(d, DecodedSeq(d, w), ts)
  IN  NTPTimeFromTimestamp(Quot(ticks * RtpDen, RtpNum))

=============================================================================
