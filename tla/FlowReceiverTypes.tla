------------------------- MODULE FlowReceiverTypes --------------------------
(***************************************************************************)
(* Type correctness of FlowReceiver, proved for every ring, sequence       *)
(* width, buffer window, packet set and clock, and the facts about its     *)
(* operators that the safety proofs rest on.                               *)
(***************************************************************************)
EXTENDS FlowReceiver, SeqNumProofs, FiniteSetTheorems, WellFoundedInduction

\* Types, and the history counter the delivery positions are counted from.
TypeInv == RTypeOK /\ anchor.lost <= stats.lost

Clocks == [offset : Int, maxSource : Nat, lastPacket : Int, lastResync : Int,
           short : BOOLEAN]

Deliveries == [seq : SeqNums, src : Nat, payload : Payloads, discontinuity : BOOLEAN,
               pos : Nat]

Log == Seq(Deliveries)

Counters == [lost : Nat, recovered : Nat, missing : Nat, abandoned : Nat,
             discontinuities : Nat]

TimerMap(w) == DOMAIN w \subseteq Timers /\ w \in [DOMAIN w -> Int]

-----------------------------------------------------------------------------
(* Types of the operators. *)

\* Every sequence has a slot.
LEMMA IndexType ==
  ASSUME NEW s \in SeqNums
  PROVE  Index(s) \in 0 .. RingSize - 1
BY ReceiverAssumption, HalfSpaceAssumption, Z3 DEF Index, SeqNums, SeqSpace

\* The cleared slot is a slot.
LEMMA EmptySlotType == EmptySlot \in Slots /\ ~EmptySlot.filled
<1>1. (CHOOSE x \in Payloads : TRUE) \in Payloads
  BY ReceiverAssumption
<1>2. 0 \in SeqNums
  BY HalfSpaceAssumption DEF SeqNums, SeqSpace
<1> QED BY <1>1, <1>2 DEF EmptySlot, Slots

\* The estimator's readings are durations.
LEMMA EstimatorTypes ==
  /\ NewEstimator \in Estimators
  /\ \A e \in Estimators : /\ Smoothed(e) \in Nat /\ Clamped(e) \in Nat
                           /\ RetryInterval(e) \in Nat
                           /\ \A s \in Int : Observe(e, s) \in Estimators
<1>1. NewEstimator \in Estimators
  BY RttAssumption DEF NewEstimator, Estimators
<1>2. ASSUME NEW e \in Estimators
      PROVE  Smoothed(e) \in Nat /\ Clamped(e) \in Nat
  BY RttAssumption DEF Smoothed, Estimators, Clamped, Clamp, EffectiveRTTMin
<1>3. ASSUME NEW e \in Estimators
      PROVE  RetryInterval(e) \in Nat
  BY <1>2 DEF RetryInterval
<1>4. ASSUME NEW e \in Estimators, NEW s \in Int
      PROVE  Observe(e, s) \in Estimators
  BY DEF Observe, Estimators
<1> QED BY <1>1, <1>2, <1>3, <1>4

\* A media timestamp converts to a clock reading.
LEMMA TimestampType ==
  ASSUME NEW n \in Nat
  PROVE  Timestamp(n) \in Int
BY ClockAssumption, Z3 DEF Timestamp

\* Setting and clearing timers.
LEMMA TimerMaps ==
  ASSUME NEW w, TimerMap(w), NEW id \in Timers, NEW d \in Int
  PROVE  /\ TimerMap(SetTimer(w, id, d))
         /\ DOMAIN SetTimer(w, id, d) = DOMAIN w \union {id}
         /\ SetTimer(w, id, d)[id] = d
         /\ \A t \in DOMAIN w : t # id => SetTimer(w, id, d)[t] = w[t]
BY DEF TimerMap, SetTimer

LEMMA TimerCleared ==
  ASSUME NEW w, TimerMap(w), NEW id
  PROVE  /\ TimerMap(ClearTimer(w, id))
         /\ DOMAIN ClearTimer(w, id) = DOMAIN w \ {id}
         /\ \A t \in DOMAIN w \ {id} : ClearTimer(w, id)[t] = w[t]
BY DEF TimerMap, ClearTimer

\* Tracking the source clock keeps its types, and every packet has a time.
LEMMA ClockTypes ==
  ASSUME TypeInv, NEW p \in Packets
  PROVE  ClockAfter(p) \in Clocks /\ PacketTime(ClockAfter(p), p) \in Int
<1>1. p.src \in Nat /\ p.short \in BOOLEAN
  BY ReceiverAssumption
<1>2. Timestamp(p.src) \in Int
  BY <1>1, TimestampType
<1>3. now \in Int /\ buffer \in Int /\ clk \in Clocks
  BY DEF TypeInv, RTypeOK, Clocks
<1>4. Reframe(clk, p) \in Clocks
  <2>1. [offset |-> now - Timestamp(p.src), maxSource |-> p.src,
         lastPacket |-> now, lastResync |-> now, short |-> p.short] \in Clocks
    BY <1>1, <1>2, <1>3 DEF Clocks
  <2> QED BY <1>3, <2>1, Zenon DEF Reframe
<1>5. ASSUME NEW c \in Clocks PROVE Rewrap(c, p) \in Clocks
  <2> DEFINE o == c.offset + SrcWrapTicks
  <2>1. o \in Int /\ Timestamp(p.src) + o \in Int
    BY <1>2, ReceiverAssumption DEF Clocks
  <2> HIDE DEF o
  <2>2. [c EXCEPT !.offset = o, !.maxSource = p.src,
                  !.lastPacket = Timestamp(p.src) + o, !.lastResync = now] \in Clocks
    BY <1>1, <1>3, <2>1 DEF Clocks
  <2> QED BY <2>2, Zenon DEF Rewrap, o
<1>6. ASSUME NEW c \in Clocks PROVE PacketTime(c, p) \in Int
  BY <1>2, <1>3 DEF PacketTime, Clocks
<1>7. ASSUME NEW c \in Clocks PROVE Track(c, p) \in Clocks
  BY <1>1, <1>6 DEF Track, Clocks
<1> QED BY <1>4, <1>5, <1>6, <1>7, Zenon DEF ClockAfter

\* The missing queue is finite.
LEMMA MissingFinite ==
  ASSUME TypeInv
  PROVE  IsFiniteSet(DOMAIN missing) /\ Cardinality(DOMAIN missing) \in Nat
<1>1. stats.missing \in Nat /\ DOMAIN missing \subseteq 1 .. stats.missing
  BY DEF TypeInv, RTypeOK
<1>2. IsFiniteSet(1 .. stats.missing)
  BY <1>1, FS_Interval
<1>3. IsFiniteSet(DOMAIN missing)
  BY <1>1, <1>2, FS_Subset
<1> QED BY <1>3, FS_CardinalityType

\* markMissing queues less than a ring of sequences, and no more than fit.
LEMMA MarkCountBound ==
  ASSUME TypeInv, NEW c \in Clocks, NEW gap \in Nat
  PROVE  /\ MarkCount(c, gap) \in 0 .. RingSize - 1
         /\ MissingBounded =>
              Cardinality(DOMAIN missing) + MarkCount(c, gap) <= MissingCounterMax + 1
<1>1. /\ Cardinality(DOMAIN missing) \in Int
      /\ MissingCounterMax \in Nat /\ RingSize \in Nat /\ RingSize >= 2
  BY MissingFinite, ReceiverAssumption
<1> QED BY <1>1 DEF MarkCount, NatMin, MissingBounded

\* A queued entry is well-formed.
LEMMA EntryType ==
  ASSUME TypeInv, NEW s \in SeqNums, NEW t \in Int
  PROVE  Entry(s, t) \in Entries
<1>1. now \in Int /\ buffer \in Int /\ est \in Estimators
  BY DEF TypeInv, RTypeOK
<1>2. Clamped(est) \in Nat
  BY <1>1, EstimatorTypes
<1>3. ReorderBuffer \in Nat
  BY ReceiverAssumption
<1> QED BY <1>1, <1>2, <1>3 DEF Entry, Entries

\* The queue after markMissing: at most n more entries, all well-formed.
LEMMA MarkMissingType ==
  ASSUME TypeInv, NEW p \in Packets, NEW c \in Clocks, PacketTime(c, p) \in Int,
         NEW r \in [0 .. RingSize - 1 -> Slots], NEW n \in 0 .. RingSize - 1
  PROVE  LET q == MarkMissing(c, p, r, n) IN
         /\ DOMAIN q \subseteq 1 .. stats.missing + n
         /\ q \in [DOMAIN q -> Entries]
         /\ IsFiniteSet(DOMAIN q)
         /\ Cardinality(DOMAIN q) <= Cardinality(DOMAIN missing) + n
<1> DEFINE q    == MarkMissing(c, p, r, n)
           tail == stats.missing
           new  == (tail + 1) .. (tail + n)
           gap  == Gap(lastFound, p.seq)
           time == PacketTime(c, p)
           last == IF Holds(r, lastFound) THEN r[Index(lastFound)].packetTime ELSE now
           step == IF time < last THEN 0 ELSE (time - last) \div (gap + 1)
<1>1. /\ tail \in Nat /\ lastFound \in SeqNums /\ now \in Nat
      /\ DOMAIN missing \subseteq 1 .. tail /\ missing \in [DOMAIN missing -> Entries]
  BY DEF TypeInv, RTypeOK
<1>2. n \in Nat /\ n < RingSize /\ RingSize \in Nat /\ RingSize <= HalfSpace
  BY ReceiverAssumption
<1>3. gap \in Nat
  <2>1. p.seq \in SeqNums
    BY ReceiverAssumption
  <2>2. gap \in SeqNums
    BY <1>1, <2>1, GapType
  <2> QED BY <2>2, HalfSpaceAssumption DEF SeqNums, SeqSpace
<1>4. last \in Int
  <2>1. r[Index(lastFound)].packetTime \in Int
    BY <1>1, IndexType DEF Slots
  <2> QED BY <1>1, <2>1
<1> HIDE DEF gap, last
<1>5. step \in Int
  BY <1>3, <1>4
<1> HIDE DEF step, time
<1>6. ASSUME NEW k \in new
      PROVE  Entry(Add(lastFound, k - tail), last + (k - tail) * step) \in Entries
  <2>1. k - tail \in 1 .. n
    BY <1>1, <1>2
  <2> DEFINE d == k - tail
  <2>d. d \in Int /\ -SeqSpace <= d /\ d <= SeqSpace
    BY <1>2, <2>1, HalfSpaceAssumption DEF SeqSpace
  <2> HIDE DEF d
  <2>2. Add(lastFound, d) \in SeqNums
    BY <1>1, <2>d, AddType
  <2>3. (k - tail) * step \in Int
    BY <1>5, <2>1
  <2>4. last + (k - tail) * step \in Int
    BY <1>4, <2>3
  <2> QED BY <2>2, <2>4, EntryType DEF d
<1>7. q = [k \in DOMAIN missing \union new |->
             IF k \in DOMAIN missing THEN missing[k]
             ELSE Entry(Add(lastFound, k - tail), last + (k - tail) * step)]
  BY DEF MarkMissing, gap, last, step, time
<1> HIDE DEF q
<1>8. DOMAIN q = DOMAIN missing \union new
  BY <1>7
<1>9. q \in [DOMAIN q -> Entries]
  BY <1>1, <1>6, <1>7, <1>8
<1>10. DOMAIN q \subseteq 1 .. tail + n
  BY <1>1, <1>2, <1>8
<1>11. IsFiniteSet(new) /\ Cardinality(new) = n
  <2>0. tail + 1 \in Int /\ tail + n \in Int
    BY <1>1, <1>2
  <2>1. IsFiniteSet(new) /\ Cardinality(new) =
          IF tail + 1 > tail + n THEN 0 ELSE (tail + n) - (tail + 1) + 1
    BY <2>0, FS_Interval, Zenon
  <2> QED BY <1>1, <1>2, <2>1
<1>12. IsFiniteSet(DOMAIN q) /\ Cardinality(DOMAIN q) <= Cardinality(DOMAIN missing) + n
  <2>1. /\ IsFiniteSet(DOMAIN missing \union new)
        /\ Cardinality(DOMAIN missing \union new) =
             Cardinality(DOMAIN missing) + Cardinality(new)
               - Cardinality(DOMAIN missing \intersect new)
    BY <1>11, MissingFinite, FS_Union
  <2>2. IsFiniteSet(DOMAIN missing \intersect new)
    BY <1>11, FS_Intersection, MissingFinite
  <2>3. Cardinality(DOMAIN missing \intersect new) \in Nat
    BY <2>2, FS_CardinalityType
  <2> QED BY <1>2, <1>8, <1>11, <2>1, <2>3, MissingFinite
<1> QED BY <1>9, <1>10, <1>12 DEF q

-----------------------------------------------------------------------------
(* Type correctness. *)

\* Arming the playout timer.
LEMMA ArmPlayoutType ==
  ASSUME TypeInv, NEW armed \in BOOLEAN, NEW w, TimerMap(w), NEW d \in Int,
         ArmPlayout(armed, w, d)
  PROVE  playoutArmed' \in BOOLEAN /\ playoutDeadline' \in Int /\ TimerMap(timers')
<1>1. playoutDeadline \in Int
  BY DEF TypeInv, RTypeOK
<1>2. "playout" \in Timers
  BY DEF Timers
<1>3. TimerMap(SetTimer(w, "playout", d))
  BY <1>2, TimerMaps
<1> QED BY <1>1, <1>3 DEF ArmPlayout

\* Updates of counters and of a queue entry.
LEMMA CountersUpdate ==
  ASSUME NEW x \in Counters, NEW a \in Nat, NEW b \in Nat
  PROVE  /\ [x EXCEPT !.recovered = @ + a, !.abandoned = @ + b] \in Counters
         /\ [x EXCEPT !.lost = @ + a, !.discontinuities = @ + b] \in Counters
         /\ [x EXCEPT !.missing = @ + a] \in Counters
<1>1. \A m \in Nat, n \in Nat :
        /\ [x EXCEPT !.recovered = m, !.abandoned = n] \in Counters
        /\ [x EXCEPT !.lost = m, !.discontinuities = n] \in Counters
        /\ [x EXCEPT !.missing = m] \in Counters
  BY DEF Counters
<1>2. /\ x.recovered + a \in Nat /\ x.abandoned + b \in Nat /\ x.lost + a \in Nat
      /\ x.discontinuities + b \in Nat /\ x.missing + a \in Nat
  BY DEF Counters
<1> QED BY <1>1, <1>2, Zenon

LEMMA EntryUpdate ==
  ASSUME NEW e \in Entries, NEW t \in Int
  PROVE  [e EXCEPT !.nackCount = @ + 1, !.nextNack = t] \in Entries
<1>1. \A n \in Nat : [e EXCEPT !.nackCount = n, !.nextNack = t] \in Entries
  BY DEF Entries
<1>2. e.nackCount + 1 \in Nat
  BY DEF Entries
<1> QED BY <1>1, <1>2, Zenon

\* The NACK pass.
LEMMA ProcessNacksType ==
  ASSUME TypeInv, ProcessNacks
  PROVE  /\ DOMAIN missing' \subseteq DOMAIN missing
         /\ missing' \in [DOMAIN missing' -> Entries]
         /\ tokens' \in Int /\ tokensTime' \in Nat
         /\ stats' \in Counters
         /\ stats'.lost = stats.lost /\ stats'.missing = stats.missing
<1>1. /\ missing \in [DOMAIN missing -> Entries]
      /\ tokens \in Int /\ tokensTime \in Nat /\ now \in Nat
      /\ stats \in Counters
  BY DEF TypeInv, RTypeOK, Counters
<1>2. est \in Estimators
  BY DEF TypeInv, RTypeOK
<1>3. CASE DOMAIN missing = {}
  BY <1>1, <1>3 DEF ProcessNacks, nackVars
<1>4. CASE DOMAIN missing # {}
  <2>1. /\ IsFiniteSet(RecoveredNow) /\ IsFiniteSet(Abandoned) /\ IsFiniteSet(Nacked)
    <3>1. /\ RecoveredNow \subseteq DOMAIN missing /\ Abandoned \subseteq DOMAIN missing
          /\ Nacked \subseteq DOMAIN missing
      BY DEF RecoveredNow, Abandoned, Nacked, NackDue, Kept
    <3> QED BY <3>1, MissingFinite, FS_Subset
  <2>2. /\ Cardinality(RecoveredNow) \in Nat /\ Cardinality(Abandoned) \in Nat
        /\ Cardinality(Nacked) \in Nat
    BY <2>1, FS_CardinalityType
  <2>3. stats' = [stats EXCEPT !.recovered = @ + Cardinality(RecoveredNow),
                               !.abandoned = @ + Cardinality(Abandoned)]
    BY <1>4 DEF ProcessNacks
  <2>4. /\ stats' \in Counters
        /\ stats'.lost = stats.lost /\ stats'.missing = stats.missing
    <3>1. stats' \in Counters
      BY <1>1, <2>2, <2>3, CountersUpdate
    <3>2. stats'.lost = stats.lost /\ stats'.missing = stats.missing
      BY <1>1, <2>3 DEF Counters
    <3> QED BY <3>1, <3>2
  <2>5. tokens' \in Int /\ tokensTime' \in Nat
    <3>1. Refilled \in Int
      <4>1. (now - tokensTime) * NackRate \in Int
        BY <1>1, ReceiverAssumption
      <4>2. MaxNacks \in Int
        BY ReceiverAssumption
      <4> QED BY <1>1, <4>1, <4>2 DEF Refilled, NatMin
    <3>2. Refilled - Cardinality(Nacked) \in Int
      BY <2>2, <3>1
    <3> QED BY <1>1, <1>4, <3>2, Zenon DEF ProcessNacks
  <2>6. /\ DOMAIN missing' \subseteq DOMAIN missing
        /\ missing' \in [DOMAIN missing' -> Entries]
    <3>1. RetryInterval(est) \in Nat
      BY <1>2, EstimatorTypes
    <3>2. ASSUME NEW k \in DOMAIN missing
          PROVE  [missing[k] EXCEPT !.nackCount = @ + 1,
                                    !.nextNack = now + RetryInterval(est)] \in Entries
      <4>1. missing[k] \in Entries /\ now + RetryInterval(est) \in Int
        BY <1>1, <3>1
      <4> QED BY <4>1, EntryUpdate
    <3>3. Kept \subseteq DOMAIN missing
      BY DEF Kept
    <3>4. missing' = [k \in Kept |->
                       IF k \in Nacked
                       THEN [missing[k] EXCEPT !.nackCount = @ + 1,
                                               !.nextNack = now + RetryInterval(est)]
                       ELSE missing[k]]
      BY <1>4 DEF ProcessNacks
    <3> QED BY <1>1, <3>2, <3>3, <3>4, Zenon
  <2> QED BY <2>4, <2>5, <2>6
<1> QED BY <1>3, <1>4

\* The initial state.
LEMMA TypeInit == RInit => TypeInv
<1> SUFFICES ASSUME RInit PROVE TypeInv
  OBVIOUS
<1>1. 0 \in SeqNums
  BY HalfSpaceAssumption DEF SeqNums, SeqSpace
<1>2. ring \in [0 .. RingSize - 1 -> Slots]
  BY EmptySlotType DEF RInit
<1>3. est \in Estimators
  BY EstimatorTypes DEF RInit
<1>4. buffer \in Nat
  BY ReceiverAssumption DEF RInit
<1>5. tokens \in Int
  BY ReceiverAssumption DEF RInit
<1>6. /\ DOMAIN missing \subseteq 1 .. stats.missing /\ missing \in [DOMAIN missing -> Entries]
      /\ DOMAIN timers \subseteq Timers /\ timers \in [DOMAIN timers -> Int]
  BY DEF RInit, EmptyQueue
<1>7. /\ log \in Log /\ anchor \in [seq : SeqNums, lost : Nat] /\ anchor.lost <= stats.lost
      /\ stats \in Counters
  BY <1>1 DEF RInit, Log, Deliveries, Counters
<1>8. clk \in Clocks
  BY DEF RInit, Clocks
<1> QED BY <1>1, <1>2, <1>3, <1>4, <1>5, <1>6, <1>7, <1>8
        DEF RInit, TypeInv, RTypeOK, Log, Deliveries, Counters, Clocks

\* A packet that starts a flow.
LEMMA StartType == ASSUME TypeInv, NEW p \in Packets, Start(p) PROVE TypeInv'
<1>1. /\ p.seq \in SeqNums /\ p.src \in Nat /\ p.ssrc \in Nat /\ p.payload \in Payloads
      /\ p.short \in BOOLEAN
  BY ReceiverAssumption
<1>2. now \in Nat /\ buffer \in Nat /\ TimerMap(timers) /\ stats \in Counters
  BY DEF TypeInv, RTypeOK, TimerMap, Counters
<1>3. clk' \in Clocks
  <2>1. Timestamp(p.src) \in Int
    BY <1>1, TimestampType
  <2>2. now - Timestamp(p.src) \in Int /\ now \in Int
    BY <1>2, <2>1
  <2>3. clk' = [offset |-> now - Timestamp(p.src), maxSource |-> p.src,
                lastPacket |-> now, lastResync |-> now, short |-> p.short]
    BY Zenon DEF Start
  <2> QED BY <1>1, <2>2, <2>3, Zenon DEF Clocks
<1>4. ring' \in [0 .. RingSize - 1 -> Slots]
  <2>1. SlotOf(p, now) \in Slots
    BY <1>1, <1>2 DEF SlotOf, Slots
  <2> QED BY <2>1, EmptySlotType, Zenon DEF Start
<1>5. playoutArmed' \in BOOLEAN /\ playoutDeadline' \in Int /\ TimerMap(timers')
  <2>1. "rttEcho" \in Timers /\ now + EchoInterval \in Int /\ now + buffer \in Int
    BY <1>2, ReceiverAssumption DEF Timers
  <2> DEFINE w == IF mode.noRecovery THEN timers
                  ELSE SetTimer(timers, "rttEcho", now + EchoInterval)
  <2>2. TimerMap(w)
    BY <1>2, <2>1, TimerMaps, Zenon
  <2>3. ArmPlayout(FALSE, w, now + buffer)
    BY DEF Start
  <2> HIDE DEF w
  <2> QED BY <2>1, <2>2, <2>3, ArmPlayoutType
<1>6. anchor' \in [seq : SeqNums, lost : Nat] /\ anchor'.lost <= stats'.lost
  BY <1>1, <1>2 DEF Start, Counters
<1>7. log' \in Log
  BY DEF Start, Log, Deliveries
<1>8. DOMAIN missing' \subseteq 1 .. stats'.missing /\ missing' \in [DOMAIN missing' -> Entries]
  BY DEF Start, EmptyQueue
<1> QED BY <1>1, <1>3, <1>4, <1>5, <1>6, <1>7, <1>8
        DEF Start, TypeInv, RTypeOK, TimerMap, Clocks, Log, Deliveries, clockVars, bufferVars

\* A packet that is dropped.
LEMMA ShedType == ASSUME TypeInv, NEW p \in Packets, Shed(p) PROVE TypeInv'
<1>1. clk' \in Clocks
  <2>1. clk \in Clocks
    BY DEF TypeInv, RTypeOK, Clocks
  <2> QED BY <2>1, ClockTypes DEF Shed
<1> QED BY <1>1 DEF Shed, TypeInv, RTypeOK, Clocks, clockVars, cursorVars, playoutVars,
                    armVars, nackVars, bufferVars

\* A packet that is buffered, and what its gap adds to the missing queue.
LEMMA AcceptQueue ==
  ASSUME TypeInv, NEW p \in Packets, Accept(p)
  PROVE  /\ stats' \in Counters /\ stats'.lost = stats.lost
         /\ DOMAIN missing' \subseteq 1 .. stats'.missing
         /\ missing' \in [DOMAIN missing' -> Entries]
         /\ IsFiniteSet(DOMAIN missing')
         /\ MissingBounded => Cardinality(DOMAIN missing') <= MissingCounterMax + 1
         /\ nackArmed' = ScheduledNack(nackArmed, missing')
         /\ ring' = [ring EXCEPT ![Index(p.seq)] = SlotOf(p, PacketTime(ClockAfter(p), p))]
         /\ ring' \in [0 .. RingSize - 1 -> Slots]
<1> DEFINE c      == ClockAfter(p)
           time   == PacketTime(c, p)
           marked == IF (~p.rtx /\ ~(Displaced(c, p) /\ ~p.rtx)) /\ p.seq # Add(lastFound, 1)
                     THEN MarkCount(c, Gap(lastFound, p.seq)) ELSE 0
           r      == [ring EXCEPT ![Index(p.seq)] = SlotOf(p, time)]
           q      == MarkMissing(c, p, r, marked)
<1>1. /\ missing' = q /\ stats' = [stats EXCEPT !.missing = @ + marked] /\ ring' = r
      /\ nackArmed' = ScheduledNack(nackArmed, q)
  BY DEF Accept
<1>2. c \in Clocks /\ time \in Int
  BY ClockTypes
<1>3. /\ stats \in Counters /\ buffer \in Nat /\ lastFound \in SeqNums
      /\ ring \in [0 .. RingSize - 1 -> Slots]
  BY DEF TypeInv, RTypeOK, Counters
<1>4. p.seq \in SeqNums /\ p.src \in Nat /\ p.payload \in Payloads
  BY ReceiverAssumption
<1>5. Gap(lastFound, p.seq) \in Nat
  <2>1. Gap(lastFound, p.seq) \in SeqNums
    BY <1>3, <1>4, GapType
  <2> QED BY <2>1, HalfSpaceAssumption DEF SeqNums, SeqSpace
<1> HIDE DEF c, time
<1>6. /\ marked \in 0 .. RingSize - 1
      /\ MissingBounded => Cardinality(DOMAIN missing) + marked <= MissingCounterMax + 1
  <2>1. 0 \in 0 .. RingSize - 1
    BY ReceiverAssumption
  <2>2. MissingBounded => Cardinality(DOMAIN missing) + 0 <= MissingCounterMax + 1
    BY MissingFinite DEF MissingBounded
  <2> QED BY <1>2, <1>5, <2>1, <2>2, MarkCountBound, Zenon
<1>7. r \in [0 .. RingSize - 1 -> Slots]
  <2>1. SlotOf(p, time) \in Slots
    BY <1>2, <1>3, <1>4 DEF SlotOf, Slots
  <2> QED BY <1>3, <2>1
<1> HIDE DEF marked, r
<1>8. /\ DOMAIN q \subseteq 1 .. stats.missing + marked /\ q \in [DOMAIN q -> Entries]
      /\ IsFiniteSet(DOMAIN q)
      /\ Cardinality(DOMAIN q) <= Cardinality(DOMAIN missing) + marked
  BY <1>2, <1>6, <1>7, MarkMissingType DEF time
<1> HIDE DEF q
<1>9. Cardinality(DOMAIN q) \in Nat
  BY <1>8, FS_CardinalityType
<1>10. MissingBounded => Cardinality(DOMAIN q) <= MissingCounterMax + 1
  BY <1>6, <1>8, <1>9, MissingFinite, ReceiverAssumption
<1>11. stats' \in Counters
  <2>1. marked \in Nat
    BY <1>6
  <2> QED BY <1>1, <1>3, <2>1, CountersUpdate
<1>12. stats'.lost = stats.lost /\ stats'.missing = stats.missing + marked
  BY <1>1, <1>3 DEF Counters
<1> QED BY <1>1, <1>7, <1>8, <1>10, <1>11, <1>12, Zenon DEF r, c, time

\* scheduleNack keeps the timer map, and with a queue the timer is in it.
LEMMA ScheduleNackType ==
  ASSUME NEW armed \in BOOLEAN, NEW q, NEW w, TimerMap(w), now \in Nat
  PROVE  LET v == ScheduleNack(armed, q, w) IN
         /\ TimerMap(v)
         /\ DOMAIN w \subseteq DOMAIN v
         /\ \A t \in DOMAIN w : t # "nack" => v[t] = w[t]
         /\ ScheduledNack(armed, q) /\ (armed => "nack" \in DOMAIN w) => "nack" \in DOMAIN v
<1>1. "nack" \in Timers /\ now + NackCadence \in Int
  BY ReceiverAssumption DEF Timers
<1>2. CASE DOMAIN q = {} \/ armed
  <2>1. ScheduleNack(armed, q, w) = w
    BY <1>2 DEF ScheduleNack
  <2> QED BY <1>2, <2>1 DEF ScheduledNack
<1>3. CASE ~(DOMAIN q = {} \/ armed)
  <2>1. ScheduleNack(armed, q, w) = SetTimer(w, "nack", now + NackCadence)
    BY <1>3 DEF ScheduleNack
  <2> DEFINE d == now + NackCadence
             v == SetTimer(w, "nack", d)
  <2>d. d \in Int
    BY <1>1
  <2> HIDE DEF d
  <2>2. /\ TimerMap(v) /\ DOMAIN v = DOMAIN w \union {"nack"}
        /\ \A t \in DOMAIN w : t # "nack" => v[t] = w[t]
    BY <1>1, <2>d, TimerMaps
  <2> HIDE DEF v
  <2> QED BY <2>1, <2>2, Zenon DEF v, d
<1> QED BY <1>2, <1>3

LEMMA AcceptType == ASSUME TypeInv, NEW p \in Packets, Accept(p) PROVE TypeInv'
<1> DEFINE c    == ClockAfter(p)
           time == PacketTime(c, p)
<1>1. c \in Clocks /\ time \in Int
  BY ClockTypes
<1>2. /\ now \in Nat /\ buffer \in Nat /\ TimerMap(timers) /\ p.seq \in SeqNums
      /\ playoutArmed \in BOOLEAN /\ nackArmed \in BOOLEAN
  BY ReceiverAssumption DEF TypeInv, RTypeOK, TimerMap
<1>3. playoutArmed' \in BOOLEAN /\ playoutDeadline' \in Int /\ TimerMap(timers')
  <2>1. TimerMap(ScheduleNack(nackArmed, missing', timers))
    BY <1>2, ScheduleNackType
  <2>2. time + buffer \in Int
    BY <1>1, <1>2
  <2>3. ArmPlayout(playoutArmed, ScheduleNack(nackArmed, missing', timers), time + buffer)
    BY DEF Accept
  <2> HIDE DEF time
  <2> QED BY <1>2, <2>1, <2>2, <2>3, ArmPlayoutType
<1>4. clk' \in Clocks
  BY <1>1 DEF Accept
<1>5. highest' \in SeqNums /\ lastFound' \in SeqNums
  BY <1>2 DEF Accept, TypeInv, RTypeOK
<1>6. nackArmed' \in BOOLEAN
  BY <1>2, AcceptQueue DEF ScheduledNack
<1>7. anchor'.lost <= stats'.lost
  BY AcceptQueue DEF Accept, TypeInv
<1> QED BY <1>3, <1>4, <1>5, <1>6, <1>7, AcceptQueue
        DEF Accept, TypeInv, RTypeOK, TimerMap, Clocks, Counters, clockVars, bufferVars

\* A non-empty set of naturals has a least element.
LEMMA LeastNat ==
  ASSUME NEW T, T \subseteq Nat, T # {}
  PROVE  \E x \in T : \A y \in T : x <= y
<1> DEFINE R == OpToRel(<, Nat)
<1>1. PICK x \in T : \A y \in T : ~(<<y, x>> \in R)
  <2>1. IsWellFoundedOn(R, Nat)
    BY NatLessThanWellFounded
  <2> HIDE DEF R
  <2> QED BY <2>1, WFMin
<1>2. \A y \in T : <<y, x>> \in R <=> y < x
  BY DEF OpToRel
<1> HIDE DEF R
<1>3. \A y \in T : ~(y < x)
  BY <1>1, <1>2, Zenon
<1> QED BY <1>3

\* The scan behind a hole finds the nearest buffered packet.
LEMMA NearestLeast ==
  ASSUME Candidates # {}
  PROVE  /\ Nearest \in Candidates /\ Nearest \in 1 .. RingSize
         /\ \A j \in Candidates : Nearest <= j
<1>1. Candidates \subseteq 1 .. RingSize
  BY DEF Candidates
<1>2. Candidates \subseteq Nat
  BY <1>1, ReceiverAssumption
<1>3. \E k \in Candidates : \A j \in Candidates : k <= j
  BY <1>2, LeastNat
<1>4. Nearest \in Candidates /\ \A j \in Candidates : Nearest <= j
  BY <1>3, Zenon DEF Nearest
<1> QED BY <1>1, <1>4

\* One iteration of the playout loop.
LEMMA DeliverDueType == ASSUME TypeInv, DeliverDue PROVE TypeInv'
<1>1. /\ ring \in [0 .. RingSize - 1 -> Slots] /\ deliverNext \in SeqNums
      /\ highest \in SeqNums /\ TimerMap(timers) /\ playoutArmed \in BOOLEAN
      /\ playoutDeadline \in Int /\ stats \in Counters /\ log \in Log
      /\ pendingDiscontinuity \in BOOLEAN
  BY DEF TypeInv, RTypeOK, TimerMap, Counters, Log, Deliveries
<1>2. anchor \in [seq : SeqNums, lost : Nat] /\ anchor.lost <= stats.lost
  BY DEF TypeInv, RTypeOK
<1>3. ASSUME EmitDeliver
      PROVE  /\ ring' \in [0 .. RingSize - 1 -> Slots] /\ deliverNext' \in SeqNums
             /\ log' \in Log /\ pendingDiscontinuity' \in BOOLEAN
  <2>1. ring' \in [0 .. RingSize - 1 -> Slots]
    BY <1>1, <1>3, EmptySlotType DEF EmitDeliver
  <2>2. deliverNext' \in SeqNums
    BY <1>1, <1>3, AddType, HalfSpaceAssumption DEF EmitDeliver, SeqSpace
  <2> DEFINE s == ring[Index(deliverNext)]
             n == Len(log) + (stats.lost - anchor.lost)
  <2>3. s \in Slots
    BY <1>1, IndexType
  <2>4. n \in Nat
    <3>1. Len(log) \in Nat
      BY <1>1 DEF Log, Deliveries
    <3>2. stats.lost \in Nat /\ anchor.lost \in Nat
      BY <1>1, <1>2 DEF Counters
    <3> QED BY <1>2, <3>1, <3>2
  <2> HIDE DEF s, n
  <2>5. [seq |-> s.seq, src |-> s.src, payload |-> s.payload,
         discontinuity |-> pendingDiscontinuity, pos |-> n]
          \in [seq : SeqNums, src : Nat, payload : Payloads, discontinuity : BOOLEAN,
               pos : Nat]
    BY <1>1, <2>3, <2>4 DEF Slots
  <2>6. log' = Append(log, [seq |-> s.seq, src |-> s.src, payload |-> s.payload,
                            discontinuity |-> pendingDiscontinuity, pos |-> n])
    BY <1>3 DEF EmitDeliver, s, n
  <2>7. log' \in Log
    BY <1>1, <2>5, <2>6 DEF Log, Deliveries
  <2> QED BY <1>3, <2>1, <2>2, <2>7 DEF EmitDeliver
<1>4. ASSUME NEW n \in 1 .. RingSize, SkipTo(n)
      PROVE  /\ ring' \in [0 .. RingSize - 1 -> Slots] /\ deliverNext' \in SeqNums
             /\ stats' \in Counters /\ anchor'.lost <= stats'.lost
             /\ stats'.missing = stats.missing
  <2>1. ring' \in [0 .. RingSize - 1 -> Slots]
    BY <1>1, <1>4, EmptySlotType, Zenon DEF SkipTo, Cleared
  <2>2. n \in Nat /\ n <= SeqSpace /\ -SeqSpace <= n
    BY ReceiverAssumption, HalfSpaceAssumption DEF SeqSpace
  <2>3. deliverNext' \in SeqNums
    BY <1>1, <1>4, <2>2, AddType DEF SkipTo
  <2>4. stats' \in Counters
    BY <1>1, <1>4, <2>2, CountersUpdate DEF SkipTo
  <2>5. anchor' = anchor /\ stats' = [stats EXCEPT !.lost = @ + n, !.discontinuities = @ + 1]
    BY <1>4 DEF SkipTo
  <2>6. stats'.lost = stats.lost + n /\ stats'.missing = stats.missing
    BY <1>1, <2>5 DEF Counters
  <2>7. anchor'.lost <= stats'.lost
    <3>1. stats.lost \in Nat /\ anchor.lost \in Nat
      BY <1>1, <1>2 DEF Counters
    <3> QED BY <1>2, <2>2, <2>5, <2>6, <3>1
  <2> QED BY <2>1, <2>3, <2>4, <2>6, <2>7
<1>5. CASE DeliverContinue
  <2>1. CASE EmitDeliver
    BY <1>3, <1>5, <2>1 DEF DeliverContinue, DeliverDue, EmitDeliver, TypeInv, RTypeOK,
       Log, Deliveries, clockVars, sourceVars, cursorVars, nackVars, bufferVars, armVars
  <2>2. ASSUME NEW n \in 1 .. RingSize, SkipTo(n) PROVE TypeInv'
    BY <1>4, <1>5, <2>2 DEF DeliverContinue, DeliverDue, SkipTo, TypeInv, RTypeOK,
       Counters, clockVars, sourceVars, cursorVars, nackVars, bufferVars, armVars
  <2>3. RingSize \in 1 .. RingSize
    BY ReceiverAssumption
  <2>4. Candidates # {} => Nearest \in 1 .. RingSize
    BY NearestLeast
  <2> QED BY <1>5, <2>1, <2>2, <2>3, <2>4 DEF DeliverContinue
<1>6. CASE DeliverReturn
  <2>1. playoutArmed' \in BOOLEAN /\ playoutDeadline' \in Int /\ TimerMap(timers')
    <3>1. ASSUME NEW s \in SeqNums, ArmPlayout(playoutArmed, timers, ring[Index(s)].outputTime)
          PROVE  playoutArmed' \in BOOLEAN /\ playoutDeadline' \in Int /\ TimerMap(timers')
      <4>1. ring[Index(s)].outputTime \in Int
        BY <1>1, IndexType DEF Slots
      <4> QED BY <1>1, <3>1, <4>1, ArmPlayoutType
    <3>2. CASE DisarmPlayout
      <4>1. TimerMap(ClearTimer(timers, "playout"))
        BY <1>1, TimerCleared
      <4> QED BY <1>1, <3>2, <4>1 DEF DisarmPlayout
    <3>3. Candidates # {} => Add(deliverNext, Nearest) \in SeqNums
      <4>1. Candidates # {} => Nearest \in Int /\ Nearest <= SeqSpace /\ -SeqSpace <= Nearest
        BY NearestLeast, ReceiverAssumption, HalfSpaceAssumption DEF SeqSpace
      <4> QED BY <1>1, <4>1, AddType
    <3> QED BY <1>1, <1>6, <3>1, <3>2, <3>3 DEF DeliverReturn
  <2> QED BY <1>6, <2>1 DEF DeliverReturn, DeliverDue, TypeInv, RTypeOK, TimerMap,
         clockVars, sourceVars, cursorVars, nackVars, bufferVars, playoutVars
<1> QED BY <1>5, <1>6 DEF DeliverDue

\* The size auto-scaling asks for is a number.
LEMMA RateLimitedType == ASSUME TypeInv PROVE RateLimited(Desired) \in Int
<1>1. /\ senderMax \in Nat /\ buffer \in Nat /\ lossSnap \in Nat /\ recoveredSnap \in Nat
      /\ stats \in Counters /\ est \in Estimators
  BY DEF TypeInv, RTypeOK, Counters
<1> DEFINE lost == stats.lost - lossSnap
           recovered == stats.recovered - recoveredSnap
           base == Smoothed(est) * RTTMultiplier + ReorderBuffer
           percent == 100 + 5 * lost + 2 * recovered
<1>2. lost \in Int /\ recovered \in Int
  BY <1>1 DEF Counters
<1>3. base \in Int
  <2>1. Smoothed(est) \in Nat /\ RTTMultiplier \in Nat /\ ReorderBuffer \in Nat
    BY <1>1, EstimatorTypes, ReceiverAssumption
  <2>2. Smoothed(est) * RTTMultiplier \in Int
    BY <2>1
  <2> QED BY <2>1, <2>2
<1> HIDE DEF lost, recovered, base
<1>4. percent \in Int
  BY <1>2
<1> HIDE DEF percent
<1>5. base * percent \in Int
  BY <1>3, <1>4
<1>6. (base * percent) \div 100 \in Int
  BY <1>5
<1>7. Desired \in Int
  <2>1. Desired = IF lost > HighLoss THEN senderMax ELSE (base * percent) \div 100
    BY DEF Desired, lost, recovered, base, percent
  <2>2. senderMax \in Int
    BY <1>1
  <2> QED BY <1>6, <2>1, <2>2, Zenon
<1>8. DecreaseStep \in Nat
  BY ReceiverAssumption
<1> QED BY <1>1, <1>7, <1>8 DEF RateLimited

\* Resizing stays in the window, given that the sender retains at least the
\* smallest buffer.
LEMMA AutoScaleWindow ==
  ASSUME TypeInv, BufferWindow, senderMax = 0 \/ senderMax >= BufferMin, AutoScale
  PROVE  buffer' \in BufferMin .. BufferMax
<1>1. BufferMin \in Nat /\ BufferMax \in Nat /\ BufferMin <= BufferMax
  BY ReceiverAssumption
<1>2. senderMax \in Nat /\ buffer \in Nat
  BY DEF TypeInv, RTypeOK
<1>3. CASE ~Scalable
  BY <1>3 DEF AutoScale, bufferVars, BufferWindow
<1>4. CASE Scalable
  <2>1. RateLimited(Desired) \in Int
    BY RateLimitedType
  <2>2. InWindow(RateLimited(Desired)) \in BufferMin .. BufferMax
    BY <1>1, <2>1 DEF InWindow
  <2>3. buffer' = NatMin(InWindow(RateLimited(Desired)), senderMax)
    BY <1>4 DEF AutoScale
  <2>4. senderMax >= BufferMin
    BY <1>1, <1>2, <1>4 DEF Scalable
  <2> QED BY <1>1, <1>2, <2>2, <2>3, <2>4 DEF NatMin
<1> QED BY <1>3, <1>4

\* Resizing keeps the types.
LEMMA AutoScaleType ==
  ASSUME TypeInv, AutoScale
  PROVE  buffer' \in Nat /\ senderMax' \in Nat /\ lossSnap' \in Nat /\ recoveredSnap' \in Nat
<1>1. BufferMin \in Nat /\ BufferMax \in Nat
  BY ReceiverAssumption
<1>2. /\ senderMax \in Nat /\ buffer \in Nat /\ lossSnap \in Nat /\ recoveredSnap \in Nat
      /\ stats \in Counters
  BY DEF TypeInv, RTypeOK, Counters
<1>3. CASE ~Scalable
  BY <1>2, <1>3 DEF AutoScale, bufferVars
<1>4. CASE Scalable
  <2>1. InWindow(RateLimited(Desired)) \in Nat
    BY <1>1, RateLimitedType DEF InWindow
  <2>2. buffer' \in Nat
    BY <1>2, <1>4, <2>1 DEF AutoScale, NatMin
  <2>3. stats.lost \in Nat /\ stats.recovered \in Nat
    BY <1>2 DEF Counters
  <2> QED BY <1>2, <1>4, <2>2, <2>3 DEF AutoScale
<1> QED BY <1>3, <1>4

\* Every step keeps the types.
LEMMA TypeStep == TypeInv /\ [RNext]_rvars => TypeInv'
<1> SUFFICES ASSUME TypeInv, [RNext]_rvars PROVE TypeInv'
  OBVIOUS
<1> USE DEF clockVars, sourceVars, cursorVars, playoutVars, armVars, nackVars, bufferVars
<1>1. TimerMap(timers) /\ now \in Nat /\ stats \in Counters
  BY DEF TypeInv, RTypeOK, TimerMap, Counters
<1>2. ASSUME NEW p \in Packets, Feed(p) PROVE TypeInv'
  BY <1>2, StartType, ShedType, AcceptType DEF Feed
<1>3. CASE HandlePlayoutTimer
  <2>1. TimerMap(timers')
    BY <1>1, <1>3, TimerCleared DEF HandlePlayoutTimer
  <2> QED BY <1>3, <2>1 DEF HandlePlayoutTimer, TypeInv, RTypeOK, TimerMap
<1>4. CASE HandleNackTimer
  <2>1. TimerMap(ClearTimer(timers, "nack"))
    BY <1>1, TimerCleared
  <2>2. TimerMap(timers') /\ nackArmed' \in BOOLEAN
    BY <1>1, <1>4, <2>1, ScheduleNackType DEF HandleNackTimer, ScheduledNack
  <2>3. ProcessNacks
    BY <1>4 DEF HandleNackTimer
  <2>4. DOMAIN missing' \subseteq 1 .. stats'.missing /\ anchor'.lost <= stats'.lost
    BY <1>4, <2>3, ProcessNacksType DEF HandleNackTimer, TypeInv, RTypeOK
  <2> QED BY <1>4, <2>2, <2>3, <2>4, ProcessNacksType
          DEF HandleNackTimer, TypeInv, RTypeOK, TimerMap, Counters
<1>5. CASE HandleEchoTimer
  <2>1. TimerMap(timers')
    <3>1. now + EchoInterval \in Int /\ "rttEcho" \in Timers
      BY <1>1, ReceiverAssumption DEF Timers
    <3>2. /\ TimerMap(SetTimer(timers, "rttEcho", now + EchoInterval))
          /\ TimerMap(ClearTimer(timers, "rttEcho"))
      BY <1>1, <3>1, TimerMaps, TimerCleared, Zenon
    <3> QED BY <1>5, <3>2 DEF HandleEchoTimer
  <2>2. buffer' \in Nat /\ senderMax' \in Nat /\ lossSnap' \in Nat /\ recoveredSnap' \in Nat
    BY <1>5, AutoScaleType DEF HandleEchoTimer, TypeInv, RTypeOK
  <2> QED BY <1>5, <2>1, <2>2 DEF HandleEchoTimer, TypeInv, RTypeOK, TimerMap
<1>6. CASE Tick
  BY <1>6 DEF Tick, TypeInv, RTypeOK
<1>7. CASE TickNacks
  <2>1. ProcessNacks
    BY <1>7 DEF TickNacks
  <2>2. DOMAIN missing' \subseteq 1 .. stats'.missing /\ anchor'.lost <= stats'.lost
    BY <1>7, <2>1, ProcessNacksType DEF TickNacks, TypeInv, RTypeOK
  <2> QED BY <1>7, <2>1, <2>2, ProcessNacksType DEF TickNacks, TypeInv, RTypeOK, Counters
<1>8. ASSUME NEW s \in RttSamples, FeedEchoResponse(s) PROVE TypeInv'
  <2>1. est' \in Estimators
    BY <1>8, EstimatorTypes, ReceiverAssumption DEF FeedEchoResponse, TypeInv, RTypeOK
  <2> QED BY <1>8, <2>1 DEF FeedEchoResponse, TypeInv, RTypeOK
<1>9. ASSUME NEW m \in SenderMaxes, SetSenderMaxBuffer(m) PROVE TypeInv'
  <2>1. m \in Nat
    BY ReceiverAssumption
  <2>2. stats.lost \in Nat /\ stats.recovered \in Nat
    BY <1>1 DEF Counters
  <2>3. senderMax' \in Nat /\ lossSnap' \in Nat /\ recoveredSnap' \in Nat
    BY <1>9, <2>1, <2>2 DEF SetSenderMaxBuffer, TypeInv, RTypeOK
  <2> QED BY <1>9, <2>3 DEF SetSenderMaxBuffer, TypeInv, RTypeOK
<1>10. CASE Advance
  <2>1. now' \in Nat
    BY <1>10, ReceiverAssumption DEF Advance
  <2> QED BY <1>10, <2>1 DEF Advance, TypeInv, RTypeOK
<1>11. CASE UNCHANGED rvars
  BY <1>11 DEF rvars, TypeInv, RTypeOK
<1> QED BY <1>2, <1>3, <1>4, <1>5, <1>6, <1>7, <1>8, <1>9, <1>10, <1>11, DeliverDueType
        DEF RNext

\* The receiver's state keeps its types, for every configuration and packet set.
THEOREM TypeCorrect == RSpec => []RTypeOK
<1>1. RSpec => []TypeInv
  BY TypeInit, TypeStep, PTL DEF RSpec
<1>2. TypeInv => RTypeOK
  BY DEF TypeInv
<1> QED BY <1>1, <1>2, PTL

=============================================================================
