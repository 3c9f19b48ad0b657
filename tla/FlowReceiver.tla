---------------------------- MODULE FlowReceiver ----------------------------
(***************************************************************************)
(* The receiver half of the sans-I/O flow core (internal/flow/receiver.go, *)
(* flow.go) together with the timer map of the session that hosts it.      *)
(*                                                                         *)
(* A packet is kept in the ring slot of its sequence until its playout     *)
(* instant; playout is in order, a hole is skipped when the packet behind  *)
(* it is due, and holes are asked for again by the NACK queue meanwhile.   *)
(* The host runs one event-loop goroutine, so the calls into the core are  *)
(* atomic; the loop of deliverDue is taken one iteration per step, during  *)
(* which `job' keeps every other action disabled.                          *)
(***************************************************************************)
EXTENDS SeqNum, Clock, Rtt, FiniteSets, Sequences

CONSTANTS
  RingSize,           \* len(ring), a power of two
  MaxGap16,           \* seq.MaxGap16, the gap cap of 16-bit flows
  BufferMin,          \* Config.RecoveryBufferMin
  BufferMax,          \* Config.RecoveryBufferMax
  ReorderBuffer,      \* Config.ReorderBuffer
  MaxRetries,         \* Config.MaxRetries
  MissingCounterMax,  \* bound of the missing queue
  MaxNacks,           \* ristMaxNacks, sequences in one NackRequest
  NackRate,           \* return-bandwidth tokens per tick, 0 = unlimited
  NackCadence,        \* nackCadence
  EchoInterval,       \* rttEchoInterval
  RTTMultiplier,      \* Config.RTTMultiplier
  DecreaseStep,       \* bufferDecreaseStep
  HighLoss,           \* bufferHighLossThreshold
  SrcWrapTicks,       \* srcWrapPeriodMicros
  Modes,              \* configurations: [timing, noRecovery]
  Payloads,           \* application payloads
  Packets,            \* packets that may arrive
  RttSamples,         \* round trips the echo exchange may measure
  SenderMaxes,        \* buffers the peer may advertise
  Instants            \* the clock readings of a run

ASSUME ReceiverAssumption ==
  /\ RingSize \in Nat /\ RingSize >= 2 /\ RingSize <= HalfSpace
  /\ MaxGap16 \in Nat /\ BufferMin \in Nat /\ BufferMax \in Nat
  /\ BufferMin <= BufferMax
  /\ ReorderBuffer \in Nat /\ MaxRetries \in Nat /\ MissingCounterMax \in Nat
  /\ MaxNacks \in Nat /\ NackRate \in Nat
  /\ NackCadence \in Nat \ {0} /\ EchoInterval \in Nat \ {0}
  /\ RTTMultiplier \in Nat /\ DecreaseStep \in Nat /\ HighLoss \in Nat
  /\ SrcWrapTicks \in Nat \ {0}
  /\ Modes \subseteq [timing : {"source", "arrival", "rtc"}, noRecovery : BOOLEAN]
  /\ Payloads # {}
  /\ Packets \subseteq [seq : SeqNums, src : Nat, ssrc : Nat, payload : Payloads,
                        rtx : BOOLEAN, short : BOOLEAN]
  /\ RttSamples \subseteq Int /\ SenderMaxes \subseteq Nat
  /\ Instants \subseteq Nat

VARIABLES
  mode,            \* the configuration of this flow, fixed
  now,             \* the local clock
  started, ssrc,   \* receiverState.started, ssrc
  clk,             \* source-clock mapping: offset, maxSourceTime,
                   \* lastPacketTime, lastResync, shortSeq
  ring,            \* the receive ring, a slot per index
  lastFound, highest, deliverNext,
  pendingDiscontinuity,
  missing,         \* the missing queue: list position -> entry
  playoutArmed, playoutDeadline, nackArmed,
  timers,          \* Session.timers: pending timer -> deadline
  tokens, tokensTime,
  est,             \* rtt.Estimator
  buffer,          \* recoveryBuffer
  senderMax, lossSnap, recoveredSnap,
  stats,           \* the Stats counters the code or the properties read
  job,             \* the entry point in progress
  anchor, log      \* history: where the flow started, its deliveries

clockVars   == <<mode, now>>
sourceVars  == <<started, ssrc, clk>>
cursorVars  == <<lastFound, highest>>
playoutVars == <<ring, deliverNext, pendingDiscontinuity, anchor, log>>
armVars     == <<playoutArmed, playoutDeadline>>
nackVars    == <<missing, tokens, tokensTime>>
bufferVars  == <<buffer, senderMax, lossSnap, recoveredSnap>>

rvars == <<clockVars, sourceVars, cursorVars, playoutVars, armVars, nackArmed,
           timers, nackVars, est, bufferVars, stats, job>>

-----------------------------------------------------------------------------
(* Values. *)

Timers == {"playout", "nack", "rttEcho"}

Slots == [filled : BOOLEAN, seq : SeqNums, src : Nat, payload : Payloads,
          packetTime : Int, outputTime : Int]

Entries == [seq : SeqNums, nackCount : Nat, insertion : Int, nextNack : Int]

EmptySlot == [filled |-> FALSE, seq |-> 0, src |-> 0,
              payload |-> CHOOSE x \in Payloads : TRUE,
              packetTime |-> 0, outputTime |-> 0]

EmptyQueue == [k \in {} |-> 0]

Index(s) == s % RingSize

\* The slot of s is filled and holds s.
Holds(r, s) == r[Index(s)].filled /\ r[Index(s)].seq = s

FlowId(x) == x \div 2              \* SSRC without the retransmit bit

Mul110(d) == (d * 11) \div 10

NatMin(a, b) == IF a < b THEN a ELSE b

-----------------------------------------------------------------------------
(* Timers.  SetTimer and ClearTimer effects are drained into the session's *)
(* map by the same loop iteration that made the call.                      *)

SetTimer(w, id, d) == [t \in DOMAIN w \union {id} |-> IF t = id THEN d ELSE w[t]]

ClearTimer(w, id) == [t \in DOMAIN w \ {id} |-> w[t]]

\* fireTimers: timers are delivered in deadline order, ties in any order.
Due(id) ==
  /\ id \in DOMAIN timers
  /\ timers[id] <= now
  /\ \A t \in DOMAIN timers : timers[id] <= timers[t]

\* Mutant: an armed timer is never moved earlier.
ArmPlayoutOnce(armed, w, d) ==
  IF armed
  THEN playoutArmed' = armed /\ UNCHANGED playoutDeadline /\ timers' = w
  ELSE playoutArmed' = TRUE /\ playoutDeadline' = d /\ timers' = SetTimer(w, "playout", d)

\* armPlayout on top of the timer map w.
ArmPlayout(armed, w, d) ==
  IF armed /\ d >= playoutDeadline
  THEN /\ playoutArmed' = armed
       /\ UNCHANGED playoutDeadline
       /\ timers' = w
  ELSE /\ playoutArmed' = TRUE
       /\ playoutDeadline' = d
       /\ timers' = SetTimer(w, "playout", d)

DisarmPlayout ==
  /\ playoutArmed' = FALSE
  /\ UNCHANGED playoutDeadline
  /\ timers' = IF playoutArmed THEN ClearTimer(timers, "playout") ELSE timers

\* scheduleNack: the timer map after it, given the map and queue it sees.
ScheduledNack(armed, q) == armed \/ DOMAIN q # {}

ScheduleNack(armed, q, w) ==
  IF DOMAIN q = {} \/ armed THEN w ELSE SetTimer(w, "nack", now + NackCadence)


-----------------------------------------------------------------------------
(* Feed: one inbound packet.                                               *)

\* A started flow sees a new source flow: a fresh packet of another flow id.
FlowIdChange(p) == started /\ ~p.rtx /\ FlowId(p.ssrc) # FlowId(ssrc)

\* Framing change: the timing baseline is locked again on this packet.
Reframe(c, p) ==
  IF ~p.rtx /\ p.short # c.short
  THEN [offset |-> now - Timestamp(p.src), maxSource |-> p.src,
        lastPacket |-> now, lastResync |-> now, short |-> p.short]
  ELSE c

\* Backward wrap of the source counter: the offset moves by one period.
Rewrap(c, p) ==
  LET wrapped == /\ mode.timing = "source" /\ ~p.rtx
                 /\ c.maxSource - p.src > (SrcWrapTicks * NtpPerTick) \div 2
                 /\ now - c.lastResync >= 3 * buffer
      offset  == c.offset + SrcWrapTicks
  IN  IF wrapped
      THEN [c EXCEPT !.offset = offset, !.maxSource = p.src,
                     !.lastPacket = Timestamp(p.src) + offset,
                     !.lastResync = now]
      ELSE c

PacketTime(c, p) ==
  IF mode.timing = "arrival" THEN now ELSE Timestamp(p.src) + c.offset

\* The newest source time and its packet time.
Track(c, p) ==
  IF p.src > c.maxSource
  THEN [c EXCEPT !.maxSource = p.src, !.lastPacket = PacketTime(c, p)]
  ELSE c

ClockAfter(p) == Track(Rewrap(Reframe(clk, p), p), p)

\* Older than the newest packet and not the immediate successor of lastFound.
Displaced(c, p) ==
  /\ mode.timing # "arrival"
  /\ PacketTime(c, p) < c.lastPacket
  /\ p.seq # Add(lastFound, 1)

\* Mutant: no playout-cursor guard.
TooLateByTime(c, p) == Displaced(c, p) /\ now > PacketTime(c, p) + Mul110(buffer)

TooLate(c, p) ==
  \/ Displaced(c, p) /\ now > PacketTime(c, p) + Mul110(buffer)
  \/ Less(p.seq, deliverNext)

\* Mutant: a retransmitted copy is never taken for a duplicate.
DuplicateFresh(p) == ~p.rtx /\ Holds(ring, p.seq) /\ ring[Index(p.seq)].src = p.src

Duplicate(p) == Holds(ring, p.seq) /\ ring[Index(p.seq)].src = p.src

SlotOf(p, packetTime) ==
  [filled |-> TRUE, seq |-> p.seq, src |-> p.src, payload |-> p.payload,
   packetTime |-> packetTime, outputTime |-> packetTime + buffer]

\* Mutant: the age of a gap counts from the packet before it.
EntryOld(s, nackTime) ==
  LET first == Clamped(est) \div 2
  IN  [seq |-> s, nackCount |-> 0, insertion |-> nackTime - buffer,
       nextNack |-> now + (IF first < ReorderBuffer THEN ReorderBuffer ELSE first)]

\* addMissing: the interpolated time, or now when it is out of range.
Entry(s, nackTime) ==
  LET first == Clamped(est) \div 2
  IN  [seq |-> s, nackCount |-> 0,
       insertion |-> IF nackTime > now \/ nackTime < now - buffer
                     THEN now ELSE nackTime,
       nextNack |-> now + (IF first < ReorderBuffer THEN ReorderBuffer ELSE first)]

\* Mutants: the last sequence of the gap is forgotten; the queue has no bound.
MarkCountShort(c, gap) ==
  IF mode.noRecovery \/ gap < 2 \/ gap > MaxGap16 THEN 0
  ELSE NatMin(gap - 2, NatMin((MissingCounterMax + 1) - Cardinality(DOMAIN missing),
                              RingSize - 1))

MarkCountUnbounded(c, gap) ==
  LET maxGap == IF c.short THEN MaxGap16 ELSE RingSize \div 2
  IN  IF mode.noRecovery \/ gap > maxGap \/ gap = 0 THEN 0
      ELSE NatMin(gap - 1, RingSize - 1)

\* markMissing: how many sequences behind lastFound it queues.
MarkCount(c, gap) ==
  LET maxGap == IF c.short THEN MaxGap16 ELSE RingSize \div 2
      room   == (MissingCounterMax + 1) - Cardinality(DOMAIN missing)
  IN  IF mode.noRecovery \/ gap > maxGap \/ gap = 0 \/ room <= 0 THEN 0
      ELSE NatMin(gap - 1, NatMin(room, RingSize - 1))

\* The missing queue after markMissing queued n entries behind its tail; r is
\* the ring that already holds the packet.
MarkMissing(c, p, r, n) ==
  LET gap   == Gap(lastFound, p.seq)
      time  == PacketTime(c, p)
      last  == IF Holds(r, lastFound) THEN r[Index(lastFound)].packetTime ELSE now
      step  == IF time < last THEN 0 ELSE (time - last) \div (gap + 1)
      tail  == stats.missing
  IN  [k \in DOMAIN missing \union (tail + 1) .. (tail + n) |->
         IF k \in DOMAIN missing THEN missing[k]
         ELSE Entry(Add(lastFound, k - tail), last + (k - tail) * step)]

\* start: the first packet locks the clock and seeds the cursors.  A flow-id
\* change discards the buffered state first (resetReceiver); an unstarted
\* receiver is already in the state that leaves.
Start(p) ==
  /\ ~started \/ FlowIdChange(p)
  /\ ~p.rtx
  /\ started' = TRUE
  /\ ssrc' = p.ssrc
  /\ clk' = [offset |-> now - Timestamp(p.src), maxSource |-> p.src,
             lastPacket |-> now, lastResync |-> now, short |-> p.short]
  /\ lastFound' = p.seq
  /\ highest' = p.seq
  /\ deliverNext' = p.seq
  /\ ring' = [i \in 0 .. RingSize - 1 |->
                IF i = Index(p.seq) THEN SlotOf(p, now) ELSE EmptySlot]
  /\ missing' = EmptyQueue
  /\ pendingDiscontinuity' = FALSE
  /\ nackArmed' = FALSE
  /\ ArmPlayout(FALSE,
                IF mode.noRecovery THEN timers
                ELSE SetTimer(timers, "rttEcho", now + EchoInterval),
                now + buffer)
  /\ anchor' = [seq |-> p.seq, lost |-> stats.lost]
  /\ log' = <<>>
  /\ UNCHANGED <<clockVars, tokens, tokensTime, est, bufferVars, stats, job>>

\* A retransmit cannot start a flow; too-late packets and duplicates are shed
\* after the source clock has been tracked.
Shed(p) ==
  /\ ~FlowIdChange(p)
  /\ \/ ~started /\ p.rtx /\ UNCHANGED clk
     \/ /\ started
        /\ TooLate(ClockAfter(p), p) \/ Duplicate(p)
        /\ clk' = ClockAfter(p)
  /\ UNCHANGED <<clockVars, started, ssrc, cursorVars, playoutVars, armVars,
                 nackArmed, timers, nackVars, est, bufferVars, stats, job>>

\* The packet takes its slot, overwriting what the slot held, advances the
\* cursors, reveals a gap, and arms the timers.
Accept(p) ==
  LET c          == ClockAfter(p)
      time       == PacketTime(c, p)
      outOfOrder == Displaced(c, p) /\ ~p.rtx
      inOrder    == ~p.rtx /\ ~outOfOrder
      ringWith   == [ring EXCEPT ![Index(p.seq)] = SlotOf(p, time)]
      marked     == IF inOrder /\ p.seq # Add(lastFound, 1)
                    THEN MarkCount(c, Gap(lastFound, p.seq)) ELSE 0
      queue      == MarkMissing(c, p, ringWith, marked)
  IN
  /\ started /\ ~FlowIdChange(p)
  /\ ~TooLate(c, p) /\ ~Duplicate(p)
  /\ clk' = c
  /\ ring' = ringWith
  /\ highest' = IF Less(highest, p.seq) THEN p.seq ELSE highest
  /\ lastFound' = IF inOrder THEN p.seq ELSE lastFound
  /\ missing' = queue
  /\ stats' = [stats EXCEPT !.missing = @ + marked]
  /\ nackArmed' = ScheduledNack(nackArmed, queue)
  /\ ArmPlayout(playoutArmed, ScheduleNack(nackArmed, queue, timers), time + buffer)
  /\ UNCHANGED <<clockVars, started, ssrc, deliverNext, pendingDiscontinuity,
                 tokens, tokensTime, est, bufferVars, job, anchor, log>>

Feed(p) ==
  /\ job = "idle"
  /\ Start(p) \/ Shed(p) \/ Accept(p)

-----------------------------------------------------------------------------
(* The NACK pass (processNacks), over the whole queue in list order.       *)

SlotFor(k) == ring[Index(missing[k].seq)]

\* Mutant: one NACK per entry.
KeptUntilNacked == {k \in DOMAIN missing : ~SlotFor(k).filled /\ missing[k].nackCount < 1}

\* Entries whose slot is filled are recovered or stale and leave the queue, as
\* do entries out of retries or out of time.
Kept ==
  {k \in DOMAIN missing :
     /\ ~SlotFor(k).filled
     /\ missing[k].nackCount < MaxRetries
     /\ now - missing[k].insertion <= Mul110(buffer)}

Abandoned == {k \in DOMAIN missing \ Kept : ~SlotFor(k).filled}

NackDue == {k \in Kept : now >= missing[k].nextNack}

\* The return-bandwidth bucket, refilled for the time since the last pass.
Refilled ==
  IF now > tokensTime
  THEN NatMin(tokens + (now - tokensTime) * NackRate, MaxNacks) ELSE tokens

NackBudget == IF NackRate = 0 THEN MaxNacks ELSE NatMin(MaxNacks, Refilled)

\* The due entries that fit the budget, oldest first; the others stay due.
Nacked == {k \in NackDue : Cardinality({j \in NackDue : j <= k}) <= NackBudget}

\* The sequences of the NackRequest this pass emits.
NackBatch == {missing[k].seq : k \in Nacked}

RecoveredNow ==
  {k \in DOMAIN missing : Holds(ring, missing[k].seq) /\ missing[k].nackCount > 0}

ProcessNacks ==
  IF DOMAIN missing = {} THEN UNCHANGED <<nackVars, stats>>
  ELSE /\ missing' = [k \in Kept |->
                        IF k \in Nacked
                        THEN [missing[k] EXCEPT !.nackCount = @ + 1,
                                                !.nextNack = now + RetryInterval(est)]
                        ELSE missing[k]]
       /\ stats' = [stats EXCEPT !.recovered = @ + Cardinality(RecoveredNow),
                                 !.abandoned = @ + Cardinality(Abandoned)]
       /\ tokens' = IF NackRate = 0 THEN tokens ELSE Refilled - Cardinality(Nacked)
       /\ tokensTime' = IF NackRate = 0 THEN tokensTime ELSE now

-----------------------------------------------------------------------------
(* Playout (deliverDue).                                                   *)

Ahead == Distance(deliverNext, highest)

\* The buffered packets the scan behind a hole at the cursor can find.
Candidates ==
  {k \in 1 .. RingSize : k <= Ahead /\ Holds(ring, Add(deliverNext, k))}

Nearest == CHOOSE k \in Candidates : \A j \in Candidates : k <= j

\* Mutant: the packet behind the hole is cleared too.
ClearedBeyond(n) ==
  [i \in 0 .. RingSize - 1 |->
     IF \E k \in 0 .. n : i = Index(Add(deliverNext, k)) THEN EmptySlot ELSE ring[i]]

\* Every filled slot of the n sequences passed over is cleared, whatever it holds.
Cleared(n) ==
  [i \in 0 .. RingSize - 1 |->
     IF \E k \in 0 .. n - 1 : i = Index(Add(deliverNext, k)) THEN EmptySlot ELSE ring[i]]

\* Mutant: a gap counts as one lost sequence.
SkipToOne(n) ==
  /\ ring' = Cleared(n)
  /\ deliverNext' = Add(deliverNext, n)
  /\ pendingDiscontinuity' = TRUE
  /\ stats' = [stats EXCEPT !.lost = @ + 1, !.discontinuities = @ + 1]
  /\ UNCHANGED <<log, anchor>>

\* skipTo: the n sequences from the cursor on are given up as lost.
SkipTo(n) ==
  /\ ring' = Cleared(n)
  /\ deliverNext' = Add(deliverNext, n)
  /\ pendingDiscontinuity' = TRUE
  /\ stats' = [stats EXCEPT !.lost = @ + n, !.discontinuities = @ + 1]
  /\ UNCHANGED <<log, anchor>>

\* Mutant: the flag is never lowered.
EmitDeliverFlagged ==
  LET s == ring[Index(deliverNext)] IN
  /\ log' = Append(log, [seq |-> s.seq, src |-> s.src, payload |-> s.payload,
                         discontinuity |-> pendingDiscontinuity,
                         pos |-> Len(log) + (stats.lost - anchor.lost)])
  /\ ring' = [ring EXCEPT ![Index(deliverNext)] = EmptySlot]
  /\ deliverNext' = Add(deliverNext, 1)
  /\ UNCHANGED <<stats, anchor, pendingDiscontinuity>>

\* emitDeliver.
EmitDeliver ==
  LET s == ring[Index(deliverNext)] IN
  /\ log' = Append(log, [seq |-> s.seq, src |-> s.src, payload |-> s.payload,
                         discontinuity |-> pendingDiscontinuity,
                         pos |-> Len(log) + (stats.lost - anchor.lost)])
  /\ pendingDiscontinuity' = FALSE
  /\ ring' = [ring EXCEPT ![Index(deliverNext)] = EmptySlot]
  /\ deliverNext' = Add(deliverNext, 1)
  /\ UNCHANGED <<stats, anchor>>

\* The iterations that go round the loop again.
DeliverContinue ==
  /\ \/ /\ Holds(ring, deliverNext)
        /\ now >= ring[Index(deliverNext)].outputTime
        /\ EmitDeliver
     \/ /\ ~Holds(ring, deliverNext) /\ Candidates # {}
        /\ now >= ring[Index(Add(deliverNext, Nearest))].outputTime
        /\ SkipTo(Nearest)
     \/ /\ ~Holds(ring, deliverNext) /\ Candidates = {}
        /\ Ahead > RingSize
        /\ SkipTo(RingSize)
  /\ UNCHANGED <<armVars, timers, job>>

\* Mutant: waiting behind a hole arms no timer.
DeliverReturnAsleep ==
  /\ \/ /\ Holds(ring, deliverNext)
        /\ now < ring[Index(deliverNext)].outputTime
        /\ ArmPlayout(playoutArmed, timers, ring[Index(deliverNext)].outputTime)
     \/ /\ ~Holds(ring, deliverNext)
        /\ Candidates # {} => now < ring[Index(Add(deliverNext, Nearest))].outputTime
        /\ Ahead <= RingSize
        /\ DisarmPlayout
  /\ job' = IF job = "tick" THEN "nacks" ELSE "idle"
  /\ UNCHANGED <<playoutVars, stats>>

\* The iterations that return: wait for the packet at the cursor, wait for the
\* one behind the hole, or nothing is buffered.  Tick goes on to the NACKs.
DeliverReturn ==
  /\ LET wait(s) == /\ now < ring[Index(s)].outputTime
                    /\ ArmPlayout(playoutArmed, timers, ring[Index(s)].outputTime)
     IN  \/ Holds(ring, deliverNext) /\ wait(deliverNext)
         \/ /\ ~Holds(ring, deliverNext) /\ Candidates # {}
            /\ wait(Add(deliverNext, Nearest))
         \/ /\ ~Holds(ring, deliverNext) /\ Candidates = {}
            /\ Ahead <= RingSize
            /\ DisarmPlayout
  /\ job' = IF job = "tick" THEN "nacks" ELSE "idle"
  /\ UNCHANGED <<playoutVars, stats>>

DeliverDue ==
  /\ job \in {"playout", "tick"}
  /\ DeliverContinue \/ DeliverReturn
  /\ UNCHANGED <<clockVars, sourceVars, cursorVars, nackArmed, nackVars, est,
                 bufferVars>>

-----------------------------------------------------------------------------
(* Timers, Tick, feedback and negotiation.                                 *)

\* Mutant: the shadow flag survives the timer.
HandlePlayoutTimerArmed ==
  /\ job = "idle" /\ Due("playout")
  /\ timers' = ClearTimer(timers, "playout")
  /\ job' = IF started THEN "playout" ELSE "idle"
  /\ UNCHANGED <<clockVars, sourceVars, cursorVars, playoutVars, armVars,
                 nackArmed, nackVars, est, bufferVars, stats>>

\* HandleTimer(TimerPlayout) enters the deliverDue loop.
HandlePlayoutTimer ==
  /\ job = "idle" /\ Due("playout")
  /\ timers' = ClearTimer(timers, "playout")
  /\ playoutArmed' = FALSE
  /\ job' = IF started THEN "playout" ELSE "idle"
  /\ UNCHANGED <<clockVars, sourceVars, cursorVars, playoutVars, playoutDeadline,
                 nackArmed, nackVars, est, bufferVars, stats>>

\* Mutant: the pass does not schedule the next one.
HandleNackTimerOnce ==
  /\ job = "idle" /\ Due("nack")
  /\ ProcessNacks
  /\ nackArmed' = FALSE
  /\ timers' = ClearTimer(timers, "nack")
  /\ UNCHANGED <<clockVars, sourceVars, cursorVars, playoutVars, armVars, est,
                 bufferVars, job>>

HandleNackTimer ==
  /\ job = "idle" /\ Due("nack")
  /\ ProcessNacks
  /\ nackArmed' = ScheduledNack(FALSE, missing')
  /\ timers' = ScheduleNack(FALSE, missing', ClearTimer(timers, "nack"))
  /\ UNCHANGED <<clockVars, sourceVars, cursorVars, playoutVars, armVars, est,
                 bufferVars, job>>

\* Tick does due playout and then a NACK pass without touching the NACK timer.
Tick ==
  /\ job = "idle"
  /\ job' = IF started THEN "tick" ELSE "nacks"
  /\ UNCHANGED <<clockVars, sourceVars, cursorVars, playoutVars, armVars,
                 nackArmed, timers, nackVars, est, bufferVars, stats>>

TickNacks ==
  /\ job = "nacks"
  /\ ProcessNacks
  /\ job' = "idle"
  /\ UNCHANGED <<clockVars, sourceVars, cursorVars, playoutVars, armVars,
                 nackArmed, timers, est, bufferVars>>

\* autoScaleBuffer: desired size from the smoothed round trip and the loss of
\* the period, its decrease limited, then clamped to the window and to what the
\* sender retains.
Scalable == RTTMultiplier > 0 /\ BufferMin # BufferMax /\ senderMax > 0

Desired ==
  LET lost      == stats.lost - lossSnap
      recovered == stats.recovered - recoveredSnap
      base      == Smoothed(est) * RTTMultiplier + ReorderBuffer
  IN  IF lost > HighLoss THEN senderMax
      ELSE (base * (100 + 5 * lost + 2 * recovered)) \div 100

RateLimited(d) == IF buffer - d > DecreaseStep THEN buffer - DecreaseStep ELSE d

InWindow(d) == IF d < BufferMin THEN BufferMin
               ELSE IF d > BufferMax THEN BufferMax ELSE d

AutoScale ==
  IF ~Scalable THEN UNCHANGED bufferVars
  ELSE /\ buffer' = NatMin(InWindow(RateLimited(Desired)), senderMax)
       /\ lossSnap' = stats.lost
       /\ recoveredSnap' = stats.recovered
       /\ UNCHANGED senderMax

\* HandleTimer(TimerRttEcho): originate an echo request, arm the next one and
\* resize the buffer.
HandleEchoTimer ==
  /\ job = "idle" /\ Due("rttEcho")
  /\ IF started
     THEN /\ timers' = SetTimer(timers, "rttEcho", now + EchoInterval)
          /\ AutoScale
     ELSE /\ timers' = ClearTimer(timers, "rttEcho")
          /\ UNCHANGED bufferVars
  /\ UNCHANGED <<clockVars, sourceVars, cursorVars, playoutVars, armVars,
                 nackArmed, nackVars, est, stats, job>>

\* FeedFeedback(RttEchoResponse).
FeedEchoResponse(sample) ==
  /\ job = "idle"
  /\ est' = Observe(est, sample)
  /\ UNCHANGED <<clockVars, sourceVars, cursorVars, playoutVars, armVars,
                 nackArmed, timers, nackVars, bufferVars, stats, job>>

\* Mutant: any advertised buffer is taken.
SetSenderMaxBufferAny(m) ==
  /\ job = "idle"
  /\ senderMax' = m
  /\ UNCHANGED <<clockVars, sourceVars, cursorVars, playoutVars, armVars, nackArmed,
                 timers, nackVars, est, buffer, lossSnap, recoveredSnap, stats, job>>

\* SetSenderMaxBuffer: a value below the window disables auto-scaling; turning
\* it on takes the loss counters as the baseline.
SetSenderMaxBuffer(m) ==
  /\ job = "idle"
  /\ senderMax' = IF m < BufferMin THEN 0 ELSE m
  /\ lossSnap' = IF m >= BufferMin /\ senderMax = 0 THEN stats.lost ELSE lossSnap
  /\ recoveredSnap' = IF m >= BufferMin /\ senderMax = 0
                      THEN stats.recovered ELSE recoveredSnap
  /\ UNCHANGED <<clockVars, sourceVars, cursorVars, playoutVars, armVars,
                 nackArmed, timers, nackVars, est, buffer, stats, job>>

\* Time passes between calls, by any amount: the loop may wake up late.
Advance ==
  /\ job = "idle"
  /\ \E t \in Instants : t > now /\ now' = t
  /\ UNCHANGED <<mode, sourceVars, cursorVars, playoutVars, armVars, nackArmed,
                 timers, nackVars, est, bufferVars, stats, job>>

-----------------------------------------------------------------------------

\* New(RoleReceiver, cfg).
RInit ==
  /\ mode \in Modes
  /\ now = 0
  /\ started = FALSE /\ ssrc = 0
  /\ clk = [offset |-> 0, maxSource |-> 0, lastPacket |-> 0, lastResync |-> 0,
            short |-> FALSE]
  /\ ring = [i \in 0 .. RingSize - 1 |-> EmptySlot]
  /\ lastFound = 0 /\ highest = 0 /\ deliverNext = 0
  /\ pendingDiscontinuity = FALSE
  /\ missing = EmptyQueue
  /\ playoutArmed = FALSE /\ playoutDeadline = 0 /\ nackArmed = FALSE
  /\ timers = EmptyQueue
  /\ tokens = (IF NackRate = 0 THEN 0 ELSE MaxNacks) /\ tokensTime = 0
  /\ est = NewEstimator
  /\ buffer = (BufferMax - BufferMin) \div 2 + BufferMin
  /\ senderMax = 0 /\ lossSnap = 0 /\ recoveredSnap = 0
  /\ stats = [lost |-> 0, recovered |-> 0, missing |-> 0,
             abandoned |-> 0, discontinuities |-> 0]
  /\ job = "idle"
  /\ anchor = [seq |-> 0, lost |-> 0] /\ log = <<>>

HandleTimer == HandlePlayoutTimer \/ HandleNackTimer \/ HandleEchoTimer

RNext ==
  \/ \E p \in Packets : Feed(p)
  \/ HandlePlayoutTimer
  \/ HandleNackTimer
  \/ HandleEchoTimer
  \/ DeliverDue
  \/ Tick
  \/ TickNacks
  \/ \E s \in RttSamples : FeedEchoResponse(s)
  \/ \E m \in SenderMaxes : SetSenderMaxBuffer(m)
  \/ Advance

RSpec == RInit /\ [][RNext]_rvars

-----------------------------------------------------------------------------
(* Properties.                                                             *)

\* Types of the receiver's state.
RTypeOK ==
  /\ mode \in Modes /\ now \in Nat
  /\ started \in BOOLEAN /\ ssrc \in Nat
  /\ clk \in [offset : Int, maxSource : Nat, lastPacket : Int,
              lastResync : Int, short : BOOLEAN]
  /\ ring \in [0 .. RingSize - 1 -> Slots]
  /\ lastFound \in SeqNums /\ highest \in SeqNums /\ deliverNext \in SeqNums
  /\ pendingDiscontinuity \in BOOLEAN
  /\ DOMAIN missing \subseteq 1 .. stats.missing
  /\ missing \in [DOMAIN missing -> Entries]
  /\ playoutArmed \in BOOLEAN /\ playoutDeadline \in Int /\ nackArmed \in BOOLEAN
  /\ DOMAIN timers \subseteq Timers
  /\ timers \in [DOMAIN timers -> Int]
  /\ tokens \in Int /\ tokensTime \in Nat
  /\ est \in Estimators
  /\ buffer \in Nat /\ senderMax \in Nat /\ lossSnap \in Nat /\ recoveredSnap \in Nat
  /\ stats \in [lost : Nat, recovered : Nat, missing : Nat, abandoned : Nat,
               discontinuities : Nat]
  /\ job \in {"idle", "playout", "tick", "nacks"}
  /\ anchor \in [seq : SeqNums, lost : Nat]
  /\ log \in Seq([seq : SeqNums, src : Nat, payload : Payloads,
                  discontinuity : BOOLEAN, pos : Nat])

\* The sequences from the playout cursor to the newest one inserted.
Span == Gap(deliverNext, Add(highest, 1))

\* Every buffered packet sits in the slot of its sequence and lies between the
\* playout cursor and `highest', the window the playout scan looks at: nothing
\* is stranded behind the cursor, and no circular comparison is ambiguous.
BufferedInWindow ==
  started =>
    /\ Span <= HalfSpace
    /\ \A i \in 0 .. RingSize - 1 :
         ring[i].filled => /\ Index(ring[i].seq) = i
                           /\ Gap(deliverNext, ring[i].seq) < Span

\* Between two calls a buffered packet always has a playout timer pending in
\* the session's map, at the deadline the core believes it asked for: playout
\* cannot stall with the shadow flag set and no timer behind it.
PlayoutNeverStalls ==
  /\ playoutArmed => /\ "playout" \in DOMAIN timers
                     /\ timers["playout"] = playoutDeadline
  /\ job = "idle" /\ (\E i \in 0 .. RingSize - 1 : ring[i].filled) => playoutArmed

\* Likewise a queued missing entry always has a NACK timer pending.
NacksNeverStall ==
  /\ nackArmed => "nack" \in DOMAIN timers
  /\ DOMAIN missing # {} => nackArmed

\* The recovery buffer never leaves the configured window, however auto-scaling,
\* loss and renegotiation move it.
BufferWindow == buffer \in BufferMin .. BufferMax

\* The missing queue is bounded by the overflow guard of markMissing.
MissingBounded == Cardinality(DOMAIN missing) <= MissingCounterMax + 1

\* Delivered and lost sequences together account for every sequence the cursor
\* has passed since the flow started.
Passed == Len(log) + (stats.lost - anchor.lost)

Accounting == started => deliverNext = (anchor.seq + Passed) % SeqSpace

\* Deliveries are in order, none twice, and a delivery carries the
\* discontinuity flag exactly when the sequence before it was not delivered.
InOrderPlayout ==
  \A i \in 1 .. Len(log) :
    LET prev == IF i = 1 THEN -1 ELSE log[i - 1].pos
    IN  /\ prev < log[i].pos
        /\ log[i].seq = (anchor.seq + log[i].pos) % SeqSpace
        /\ log[i].discontinuity <=> log[i].pos # prev + 1

\* A buffered packet keeps the playout instant it was given when it was
\* inserted, whatever copies arrive and however the buffer is resized.
DeadlineFixed ==
  [][\A i \in 0 .. RingSize - 1 :
       /\ ring[i].filled /\ ring'[i].filled
       /\ ring'[i].seq = ring[i].seq /\ ring'[i].src = ring[i].src
       /\ ssrc' = ssrc
       => ring'[i].outputTime = ring[i].outputTime]_rvars

\* The first packet playout will reach is not overslept: the playout timer is
\* set no later than the instant that packet is due.
FirstBuffered ==
  {k \in 0 .. RingSize - 1 :
     /\ Holds(ring, Add(deliverNext, k))
     /\ \A j \in 0 .. k - 1 : ~Holds(ring, Add(deliverNext, j))}

NeverOverslept ==
  job = "idle" =>
    \A k \in FirstBuffered :
      playoutDeadline <= ring[Index(Add(deliverNext, k))].outputTime

\* From the cursor to lastFound every sequence that is not buffered is in
\* the missing queue, until one is abandoned: no hole goes unrequested in a
\* flow whose gaps the queue has room for.
HolesTracked ==
  started /\ ~mode.noRecovery =>
    \A k \in 0 .. RingSize :
      LET s == Add(deliverNext, k) IN
      k < Gap(deliverNext, lastFound) /\ Gap(deliverNext, lastFound) <= HalfSpace =>
        \/ Holds(ring, s)
        \/ \E e \in DOMAIN missing : missing[e].seq = s
        \/ stats.abandoned > 0

\* In a ring the stream does not lap, a buffered packet leaves by being delivered,
\* by being replaced by another packet of its own sequence, or with its whole
\* flow.  A lapped ring overwrites packets: feed takes the slot of one a ring
\* span older.
LeavesByDelivery ==
  [][\A i \in 0 .. RingSize - 1 :
       ring[i].filled /\ ring'[i] # ring[i] =>
         \/ Len(log') > Len(log) /\ log'[Len(log')].seq = ring[i].seq
         \/ ring'[i].filled /\ ring'[i].seq = ring[i].seq
         \/ FlowId(ssrc') # FlowId(ssrc)]_rvars

\* A hole is skipped only when the next buffered packet, the nearest one ahead
\* of the cursor, is itself due.
SkipsBehindDuePacket ==
  [][stats'.lost > stats.lost =>
       \E i \in 0 .. RingSize - 1 :
         /\ ring[i].filled /\ ring[i].outputTime <= now
         /\ \A j \in 0 .. RingSize - 1 :
              ring[j].filled =>
                Gap(deliverNext, ring[i].seq) <= Gap(deliverNext, ring[j].seq)]_rvars

=============================================================================
