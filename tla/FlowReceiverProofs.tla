------------------------- MODULE FlowReceiverProofs -------------------------
(***************************************************************************)
(* Safety of FlowReceiver, proved for every ring, sequence width, buffer   *)
(* window, packet set and clock.                                           *)
(***************************************************************************)
EXTENDS FlowReceiverTypes

\* An unstarted receiver buffers nothing, and playout runs on a started one.
Unstarted == ~started => \A i \in 0 .. RingSize - 1 : ~ring[i].filled

Running == job \in {"playout", "tick"} => started

WindowInv == TypeInv /\ BufferedInWindow /\ Unstarted /\ Running

-----------------------------------------------------------------------------
(* The playout window. *)

\* The cursor moves n sequences ahead and the slots of those are cleared: what
\* stays buffered is still in the window.
LEMMA WindowMoves ==
  ASSUME TypeInv, BufferedInWindow, started, started' = started,
         NEW n \in 1 .. Span, highest' = highest,
         deliverNext' = Add(deliverNext, n),
         \A i \in 0 .. RingSize - 1 :
           ring'[i].filled =>
             ring'[i] = ring[i] /\ \A k \in 0 .. n - 1 : i # Index(Add(deliverNext, k))
  PROVE  BufferedInWindow'
<1>1. /\ deliverNext \in SeqNums /\ highest \in SeqNums
      /\ ring \in [0 .. RingSize - 1 -> Slots]
  BY DEF TypeInv, RTypeOK
<1>2. Add(highest, 1) \in SeqNums
  BY <1>1, AddType, HalfSpaceAssumption DEF SeqSpace
<1>3. Span \in SeqNums /\ Span <= HalfSpace
  BY <1>1, <1>2, GapType DEF Span, BufferedInWindow
<1>4. n \in SeqNums /\ n <= Span
  BY <1>3, HalfSpaceAssumption DEF SeqNums, SeqSpace
<1>5. Span' = Span - n
  BY <1>1, <1>2, <1>4, GapMoved DEF Span
<1>6. Span' <= HalfSpace
  BY <1>3, <1>4, <1>5, HalfSpaceAssumption DEF SeqNums
<1>7. ASSUME NEW i \in 0 .. RingSize - 1, ring'[i].filled
      PROVE  Index(ring'[i].seq) = i /\ Gap(deliverNext', ring'[i].seq) < Span'
  <2> DEFINE s == ring[i].seq
             k == Gap(deliverNext, s)
  <2>1. ring'[i] = ring[i] /\ \A m \in 0 .. n - 1 : i # Index(Add(deliverNext, m))
    BY <1>7
  <2>2. s \in SeqNums
    BY <1>1 DEF Slots
  <2>3. Index(s) = i /\ k < Span
    BY <1>7, <2>1 DEF BufferedInWindow
  <2>4. k \in SeqNums /\ Add(deliverNext, k) = s
    BY <1>1, <2>2, GapType, AddGap
  <2> HIDE DEF s, k
  <2>5. k \notin 0 .. n - 1
    BY <2>1, <2>3, <2>4
  <2>6. n <= k
    BY <1>4, <2>4, <2>5 DEF SeqNums
  <2>7. Gap(deliverNext', s) = k - n
    BY <1>1, <1>4, <2>2, <2>6, GapMoved DEF k
  <2>8. k - n < Span - n
    BY <1>3, <1>4, <2>3, <2>4, HalfSpaceAssumption DEF SeqNums, SeqSpace
  <2> QED BY <1>5, <2>1, <2>3, <2>7, <2>8 DEF s
<1> QED BY <1>6, <1>7 DEF BufferedInWindow

\* A sequence at the cursor or found by the scan lies in the window.
LEMMA ScanInWindow ==
  ASSUME TypeInv, BufferedInWindow, started
  PROVE  /\ Holds(ring, deliverNext) => 1 \in 1 .. Span
         /\ \A k \in 1 .. RingSize : k <= Ahead => k \in 1 .. Span
         /\ Ahead > RingSize => RingSize \in 1 .. Span
         /\ \A i \in 0 .. RingSize - 1 :
              ring[i].filled /\ Ahead <= RingSize =>
                Holds(ring, deliverNext) \/ Candidates # {}
<1>1. /\ deliverNext \in SeqNums /\ highest \in SeqNums
      /\ ring \in [0 .. RingSize - 1 -> Slots]
  BY DEF TypeInv, RTypeOK
<1>2. Add(highest, 1) \in SeqNums
  BY <1>1, AddType, HalfSpaceAssumption DEF SeqSpace
<1>3. Span \in SeqNums /\ Span <= HalfSpace
  BY <1>1, <1>2, GapType DEF Span, BufferedInWindow
<1>4. Ahead \in Int /\ (Ahead >= 0 => Span = Ahead + 1) /\ (Span > 0 => Ahead = Span - 1)
  BY <1>1, <1>3, HalfSpaceAssumption
     DEF Ahead, Distance, Span, Gap, Add, Wrap, SeqNums, SeqSpace
<1>5. Span \in Nat
  BY <1>3, HalfSpaceAssumption DEF SeqNums, SeqSpace
<1>6. RingSize \in Nat /\ RingSize >= 2
  BY ReceiverAssumption
<1>7. Holds(ring, deliverNext) => 1 \in 1 .. Span
  <2> SUFFICES ASSUME Holds(ring, deliverNext) PROVE 1 \in 1 .. Span
    OBVIOUS
  <2>1. Index(deliverNext) \in 0 .. RingSize - 1
    BY <1>1, IndexType
  <2>2. Gap(deliverNext, deliverNext) < Span
    BY <2>1 DEF Holds, BufferedInWindow
  <2>3. Gap(deliverNext, deliverNext) = 0
    BY <1>1, HalfSpaceAssumption DEF Gap, Wrap, SeqNums, SeqSpace
  <2> QED BY <1>5, <2>2, <2>3
<1>8. \A k \in 1 .. RingSize : k <= Ahead => k \in 1 .. Span
  BY <1>4, <1>5, <1>6
<1>9. Ahead > RingSize => RingSize \in 1 .. Span
  BY <1>4, <1>5, <1>6
<1>10. ASSUME NEW i \in 0 .. RingSize - 1, ring[i].filled, Ahead <= RingSize
       PROVE  Holds(ring, deliverNext) \/ Candidates # {}
  <2> DEFINE s == ring[i].seq
             k == Gap(deliverNext, s)
  <2>1. s \in SeqNums
    BY <1>1 DEF Slots
  <2>2. Index(s) = i /\ k < Span
    BY <1>10 DEF BufferedInWindow
  <2>3. k \in SeqNums /\ Add(deliverNext, k) = s
    BY <1>1, <2>1, GapType, AddGap
  <2>4. Holds(ring, s)
    BY <1>10, <2>2 DEF Holds
  <2> HIDE DEF s, k
  <2>5. k \in Nat
    BY <2>3, HalfSpaceAssumption DEF SeqNums, SeqSpace
  <2>6. CASE k = 0
    <3>1. Add(deliverNext, 0) = deliverNext
      BY <1>1, HalfSpaceAssumption DEF Add, Wrap, SeqNums, SeqSpace
    <3> QED BY <2>3, <2>4, <2>6, <3>1
  <2>7. CASE k # 0
    <3>1. k <= Ahead /\ k \in 1 .. RingSize
      BY <1>4, <1>5, <1>6, <1>10, <2>2, <2>5, <2>7
    <3>2. k \in Candidates
      BY <2>3, <2>4, <3>1 DEF Candidates
    <3> QED BY <3>2
  <2> QED BY <2>6, <2>7
<1> QED BY <1>7, <1>8, <1>9, <1>10

\* An accepted packet enters the window and nothing leaves it.
LEMMA AcceptWindow ==
  ASSUME WindowInv, NEW p \in Packets, Accept(p)
  PROVE  BufferedInWindow'
<1>1. /\ deliverNext \in SeqNums /\ highest \in SeqNums /\ p.seq \in SeqNums
      /\ ring \in [0 .. RingSize - 1 -> Slots]
  BY ReceiverAssumption DEF WindowInv, TypeInv, RTypeOK
<1>2. started /\ started' /\ deliverNext' = deliverNext
  BY DEF Accept
<1>3. ~Less(p.seq, deliverNext)
  BY DEF Accept, TooLate
<1>4. highest' = IF Less(highest, p.seq) THEN p.seq ELSE highest
  BY DEF Accept
<1>5. Gap(deliverNext, Add(highest, 1)) <= HalfSpace
  BY <1>2 DEF WindowInv, BufferedInWindow, Span
<1>6. /\ Gap(deliverNext, Add(highest', 1)) <= HalfSpace
      /\ Gap(deliverNext, p.seq) < Gap(deliverNext, Add(highest', 1))
      /\ Gap(deliverNext, Add(highest, 1)) <= Gap(deliverNext, Add(highest', 1))
  BY <1>1, <1>3, <1>4, <1>5, WindowGrows
<1>7. Span' <= HalfSpace /\ Gap(deliverNext, p.seq) < Span' /\ Span <= Span'
  BY <1>2, <1>6 DEF Span
<1>8. Span \in Int /\ Span' \in Int
  <2>1. highest' \in SeqNums
    BY <1>1, <1>4
  <2>2. Add(highest, 1) \in SeqNums /\ Add(highest', 1) \in SeqNums
    BY <1>1, <2>1, AddType, HalfSpaceAssumption DEF SeqSpace
  <2>3. Gap(deliverNext, Add(highest, 1)) \in SeqNums
        /\ Gap(deliverNext, Add(highest', 1)) \in SeqNums
    BY <1>1, <2>2, GapType
  <2> QED BY <1>2, <2>3, HalfSpaceAssumption DEF Span, SeqNums, SeqSpace
<1>9. ASSUME NEW i \in 0 .. RingSize - 1, ring'[i].filled
      PROVE  Index(ring'[i].seq) = i /\ Gap(deliverNext', ring'[i].seq) < Span'
  <2>1. CASE i = Index(p.seq)
    <3>1. ring'[i] = SlotOf(p, PacketTime(ClockAfter(p), p))
      BY <1>1, <2>1, AcceptQueue DEF WindowInv
    <3>2. ring'[i].seq = p.seq
      BY <3>1 DEF SlotOf
    <3> QED BY <1>2, <1>7, <2>1, <3>2
  <2>2. CASE i # Index(p.seq)
    <3>1. ring'[i] = ring[i]
      BY <1>1, <2>2, AcceptQueue DEF WindowInv
    <3>2. Index(ring[i].seq) = i /\ Gap(deliverNext, ring[i].seq) < Span
      BY <1>2, <1>9, <3>1 DEF WindowInv, BufferedInWindow
    <3>3. Gap(deliverNext, ring[i].seq) \in Int
      <4>1. Gap(deliverNext, ring[i].seq) \in SeqNums
        BY <1>1, GapType DEF Slots
      <4> QED BY <4>1, HalfSpaceAssumption DEF SeqNums, SeqSpace
    <3> QED BY <1>2, <1>7, <1>8, <3>1, <3>2, <3>3
  <2> QED BY <2>1, <2>2
<1> QED BY <1>7, <1>9 DEF BufferedInWindow

\* A flow starts with a window of one packet.
LEMMA StartWindow ==
  ASSUME WindowInv, NEW p \in Packets, Start(p)
  PROVE  BufferedInWindow'
<1>1. p.seq \in SeqNums
  BY ReceiverAssumption
<1>2. deliverNext' = p.seq /\ highest' = p.seq
  BY DEF Start
<1>3. Gap(p.seq, Add(p.seq, 1)) = 1
  BY <1>1, GapAdd, HalfSpaceAssumption DEF SeqNums, SeqSpace
<1>4. Span' = 1
  BY <1>2, <1>3 DEF Span
<1>5. ASSUME NEW i \in 0 .. RingSize - 1, ring'[i].filled
      PROVE  Index(ring'[i].seq) = i /\ Gap(deliverNext', ring'[i].seq) < Span'
  <2>1. ring'[i] = IF i = Index(p.seq) THEN SlotOf(p, now) ELSE EmptySlot
    BY DEF Start
  <2>2. i = Index(p.seq) /\ ring'[i] = SlotOf(p, now)
    BY <1>5, <2>1, EmptySlotType
  <2>3. ring'[i].seq = p.seq
    BY <2>2 DEF SlotOf
  <2>4. Gap(p.seq, p.seq) = 0
    BY <1>1, HalfSpaceAssumption DEF Gap, Wrap, SeqNums, SeqSpace
  <2> QED BY <1>2, <1>4, <2>2, <2>3, <2>4
<1> QED BY <1>4, <1>5, HalfSpaceAssumption DEF BufferedInWindow

\* An iteration of playout moves the window.
LEMMA DeliverWindow ==
  ASSUME WindowInv, DeliverDue
  PROVE  BufferedInWindow'
<1>1. /\ deliverNext \in SeqNums /\ ring \in [0 .. RingSize - 1 -> Slots]
      /\ started /\ started' = started /\ highest' = highest
  BY DEF WindowInv, Running, TypeInv, RTypeOK, DeliverDue, sourceVars, cursorVars
<1>2. CASE EmitDeliver /\ Holds(ring, deliverNext)
  <2>1. 1 \in 1 .. Span
    BY <1>1, <1>2, ScanInWindow DEF WindowInv
  <2>2. deliverNext' = Add(deliverNext, 1)
    BY <1>2 DEF EmitDeliver
  <2>3. ASSUME NEW i \in 0 .. RingSize - 1, ring'[i].filled
        PROVE  ring'[i] = ring[i] /\ \A k \in 0 .. 1 - 1 : i # Index(Add(deliverNext, k))
    <3>1. ring' = [ring EXCEPT ![Index(deliverNext)] = EmptySlot]
      BY <1>2 DEF EmitDeliver
    <3>2. i # Index(deliverNext)
      BY <1>1, <2>3, <3>1, EmptySlotType
    <3>3. ring'[i] = ring[i]
      BY <1>1, <3>1, <3>2
    <3>4. Add(deliverNext, 0) = deliverNext
      BY <1>1, HalfSpaceAssumption DEF Add, Wrap, SeqNums, SeqSpace
    <3>5. \A k \in 0 .. 1 - 1 : k = 0
      OBVIOUS
    <3> QED BY <3>2, <3>3, <3>4, <3>5
  <2> QED BY <1>1, <2>1, <2>2, <2>3, WindowMoves DEF WindowInv
<1>3. ASSUME NEW n \in 1 .. Span, SkipTo(n) PROVE BufferedInWindow'
  <2>1. deliverNext' = Add(deliverNext, n)
    BY <1>3 DEF SkipTo
  <2>2. ASSUME NEW i \in 0 .. RingSize - 1, ring'[i].filled
        PROVE  ring'[i] = ring[i] /\ \A k \in 0 .. n - 1 : i # Index(Add(deliverNext, k))
    <3>1. ring'[i] = IF \E k \in 0 .. n - 1 : i = Index(Add(deliverNext, k))
                     THEN EmptySlot ELSE ring[i]
      BY <1>3 DEF SkipTo, Cleared
    <3> QED BY <2>2, <3>1, EmptySlotType, Zenon
  <2> QED BY <1>1, <2>1, <2>2, WindowMoves DEF WindowInv
<1>4. CASE DeliverContinue
  <2>1. Candidates # {} => Nearest \in 1 .. Span
    <3>1. Candidates # {} => Nearest \in 1 .. RingSize /\ Nearest <= Ahead
      BY NearestLeast DEF Candidates
    <3> QED BY <1>1, <3>1, ScanInWindow DEF WindowInv
  <2>2. Ahead > RingSize => RingSize \in 1 .. Span
    BY <1>1, ScanInWindow DEF WindowInv
  <2> QED BY <1>2, <1>3, <1>4, <2>1, <2>2 DEF DeliverContinue
<1>5. CASE DeliverReturn
  BY <1>1, <1>5 DEF WindowInv, DeliverReturn, playoutVars, BufferedInWindow, Span
<1> QED BY <1>4, <1>5 DEF DeliverDue

\* The calls that touch neither ring, cursor nor `highest'.
LEMMA OtherSteps ==
  ASSUME RNext, \A p \in Packets : ~Feed(p), ~DeliverDue
  PROVE  /\ UNCHANGED <<sourceVars, playoutVars, cursorVars>>
         /\ Running => Running'
<1> USE DEF clockVars, sourceVars, cursorVars, playoutVars, Running
<1>1. CASE HandlePlayoutTimer BY <1>1 DEF HandlePlayoutTimer
<1>2. CASE HandleNackTimer BY <1>2 DEF HandleNackTimer
<1>3. CASE HandleEchoTimer BY <1>3 DEF HandleEchoTimer
<1>4. CASE Tick BY <1>4 DEF Tick
<1>5. CASE TickNacks BY <1>5 DEF TickNacks
<1>6. ASSUME NEW s \in RttSamples, FeedEchoResponse(s)
      PROVE  UNCHANGED <<sourceVars, playoutVars, cursorVars>> /\ (Running => Running')
  BY <1>6 DEF FeedEchoResponse
<1>7. ASSUME NEW m \in SenderMaxes, SetSenderMaxBuffer(m)
      PROVE  UNCHANGED <<sourceVars, playoutVars, cursorVars>> /\ (Running => Running')
  BY <1>7 DEF SetSenderMaxBuffer
<1>8. CASE Advance BY <1>8 DEF Advance
<1> QED BY <1>1, <1>2, <1>3, <1>4, <1>5, <1>6, <1>7, <1>8 DEF RNext

\* Every step keeps the window.
LEMMA WindowStep == WindowInv /\ [RNext]_rvars => WindowInv'
<1> SUFFICES ASSUME WindowInv, [RNext]_rvars PROVE WindowInv'
  OBVIOUS
<1>1. TypeInv'
  BY TypeStep DEF WindowInv
<1>2. ASSUME NEW p \in Packets, Feed(p) PROVE WindowInv'
  <2>1. CASE Start(p)
    <3>1. started'
      BY <2>1 DEF Start
    <3> QED BY <1>1, <2>1, <3>1, StartWindow DEF WindowInv, Unstarted, Running
  <2>2. CASE Accept(p)
    <3>1. started'
      BY <2>2 DEF Accept
    <3> QED BY <1>1, <2>2, <3>1, AcceptWindow DEF WindowInv, Unstarted, Running
  <2>3. CASE Shed(p)
    BY <1>1, <2>3 DEF Shed, WindowInv, Unstarted, Running, BufferedInWindow, Span,
       cursorVars, playoutVars
  <2> QED BY <1>2, <2>1, <2>2, <2>3 DEF Feed
<1>3. CASE DeliverDue
  <2>1. started'
    BY <1>3 DEF WindowInv, Running, DeliverDue, sourceVars
  <2> QED BY <1>1, <1>3, <2>1, DeliverWindow DEF WindowInv, Unstarted, Running
<1>4. CASE RNext /\ (\A p \in Packets : ~Feed(p)) /\ ~DeliverDue
  <2>1. UNCHANGED <<sourceVars, playoutVars, cursorVars>> /\ Running'
    BY <1>4, OtherSteps DEF WindowInv
  <2> QED BY <1>1, <2>1 DEF WindowInv, Unstarted, BufferedInWindow, Span, sourceVars,
         playoutVars, cursorVars
<1>5. CASE UNCHANGED rvars
  BY <1>1, <1>5 DEF rvars, WindowInv, Unstarted, Running, BufferedInWindow, Span,
     sourceVars, playoutVars, cursorVars
<1> QED BY <1>2, <1>3, <1>4, <1>5

LEMMA WindowInit == RInit => WindowInv
BY TypeInit, EmptySlotType DEF RInit, WindowInv, BufferedInWindow, Unstarted, Running

LEMMA WindowInvariant == RSpec => []WindowInv
BY WindowInit, WindowStep, PTL DEF RSpec

\* Whatever arrives, in whatever order and however late the loop wakes up, every
\* buffered packet is in its slot and in the window the playout scan looks at,
\* and the window never outgrows half the sequence space (feed, deliverDue).
THEOREM WindowSafe == RSpec => []BufferedInWindow
<1>1. WindowInv => BufferedInWindow
  BY DEF WindowInv
<1> QED BY <1>1, WindowInvariant, PTL

-----------------------------------------------------------------------------
(* A buffered packet keeps its playout instant. *)

\* A re-sent or repeated copy never moves the playout instant of the packet it
\* repeats, nor does resizing the buffer (the duplicate test of feed).
THEOREM DeadlineNeverMoves == RSpec => DeadlineFixed
<1> DEFINE Fixed ==
      \A i \in 0 .. RingSize - 1 :
        /\ ring[i].filled /\ ring'[i].filled
        /\ ring'[i].seq = ring[i].seq /\ ring'[i].src = ring[i].src
        /\ ssrc' = ssrc
        => ring'[i].outputTime = ring[i].outputTime
<1>1. ASSUME WindowInv, [RNext]_rvars PROVE [Fixed]_rvars
  <2>1. ASSUME NEW p \in Packets, Start(p) PROVE Fixed
    <3>1. ~started \/ ssrc' # ssrc
      BY <2>1 DEF Start, FlowIdChange
    <3> QED BY <1>1, <3>1 DEF WindowInv, Unstarted
  <2>2. ASSUME NEW p \in Packets, Accept(p) PROVE Fixed
    <3> SUFFICES ASSUME NEW i \in 0 .. RingSize - 1,
                        ring[i].filled, ring'[i].seq = ring[i].seq,
                        ring'[i].src = ring[i].src
                 PROVE  ring'[i].outputTime = ring[i].outputTime
      OBVIOUS
    <3>1. p.seq \in SeqNums /\ ring \in [0 .. RingSize - 1 -> Slots]
      BY <1>1, ReceiverAssumption DEF WindowInv, TypeInv, RTypeOK
    <3>2. ring' = [ring EXCEPT ![Index(p.seq)] = SlotOf(p, PacketTime(ClockAfter(p), p))]
      BY <1>1, <2>2, AcceptQueue DEF WindowInv
    <3>3. CASE i = Index(p.seq)
      <4>1. ring'[i] = SlotOf(p, PacketTime(ClockAfter(p), p))
        BY <3>1, <3>2, <3>3
      <4>2. ring[i].seq = p.seq /\ ring[i].src = p.src
        <5>1. \A t : SlotOf(p, t).seq = p.seq /\ SlotOf(p, t).src = p.src
          BY Zenon DEF SlotOf
        <5> QED BY <4>1, <5>1, Zenon
      <4>3. Duplicate(p)
        BY <3>3, <4>2 DEF Duplicate, Holds
      <4> QED BY <2>2, <4>3 DEF Accept
    <3>4. CASE i # Index(p.seq)
      BY <3>1, <3>2, <3>4
    <3> QED BY <3>3, <3>4
  <2>3. ASSUME NEW p \in Packets, Shed(p) PROVE Fixed
    BY <2>3 DEF Shed, playoutVars
  <2>4. CASE DeliverDue
    <3>1. \A i \in 0 .. RingSize - 1 : ring'[i].filled => ring'[i] = ring[i]
      <4>1. ring \in [0 .. RingSize - 1 -> Slots]
        BY <1>1 DEF WindowInv, TypeInv, RTypeOK
      <4>2. CASE EmitDeliver
        BY <4>1, <4>2, EmptySlotType DEF EmitDeliver
      <4>3. ASSUME NEW n, SkipTo(n)
            PROVE  \A i \in 0 .. RingSize - 1 : ring'[i].filled => ring'[i] = ring[i]
        BY <4>3, EmptySlotType, Zenon DEF SkipTo, Cleared
      <4>4. CASE DeliverReturn
        BY <4>4 DEF DeliverReturn, playoutVars
      <4> QED BY <2>4, <4>2, <4>3, <4>4 DEF DeliverDue, DeliverContinue
    <3> QED BY <3>1
  <2>5. CASE RNext /\ (\A p \in Packets : ~Feed(p)) /\ ~DeliverDue
    BY <2>5, OtherSteps DEF playoutVars
  <2> QED BY <1>1, <2>1, <2>2, <2>3, <2>4, <2>5 DEF Feed
<1>2. RSpec => [][RNext]_rvars
  BY PTL DEF RSpec
<1>3. WindowInv /\ [RNext]_rvars => [Fixed]_rvars
  BY <1>1
<1>4. DeadlineFixed <=> [][Fixed]_rvars
  BY DEF DeadlineFixed
<1> HIDE DEF Fixed
<1> QED BY <1>2, <1>3, <1>4, WindowInvariant, PTL

-----------------------------------------------------------------------------
(* The timers behind the shadow flags. *)

Buffered == \E i \in 0 .. RingSize - 1 : ring[i].filled

\* The playout flag tells the truth about the session's map, and outside the
\* playout loop a buffered packet has it set; Tick is outside the loop when it
\* turns to the NACKs.
PlayoutInv ==
  /\ WindowInv
  /\ PlayoutNeverStalls
  /\ job \in {"idle", "nacks"} /\ Buffered => playoutArmed

\* Arming leaves the timer pending no later than asked, and no other timer lost.
LEMMA ArmPlayoutEffect ==
  ASSUME TypeInv, NEW armed \in BOOLEAN, NEW w, TimerMap(w), NEW d \in Int,
         armed => "playout" \in DOMAIN w /\ w["playout"] = playoutDeadline,
         ArmPlayout(armed, w, d)
  PROVE  /\ playoutArmed' /\ playoutDeadline' <= d
         /\ "playout" \in DOMAIN timers' /\ timers'["playout"] = playoutDeadline'
         /\ DOMAIN w \subseteq DOMAIN timers'
<1>1. playoutDeadline \in Int
  BY DEF TypeInv, RTypeOK
<1>2. CASE armed /\ d >= playoutDeadline
  BY <1>1, <1>2 DEF ArmPlayout
<1>3. CASE ~(armed /\ d >= playoutDeadline)
  <2>1. timers' = SetTimer(w, "playout", d) /\ playoutDeadline' = d /\ playoutArmed' = TRUE
    BY <1>3 DEF ArmPlayout
  <2>2. "playout" \in Timers
    BY DEF Timers
  <2>3. /\ DOMAIN SetTimer(w, "playout", d) = DOMAIN w \union {"playout"}
        /\ SetTimer(w, "playout", d)["playout"] = d
    BY <2>2, TimerMaps
  <2> QED BY <2>1, <2>3
<1> QED BY <1>2, <1>3

\* Every packet fed leaves the flag set when it buffers something.
LEMMA FeedPlayout ==
  ASSUME PlayoutInv, NEW p \in Packets, Start(p) \/ Accept(p)
  PROVE  /\ playoutArmed' /\ "playout" \in DOMAIN timers'
         /\ timers'["playout"] = playoutDeadline'
<1>1. /\ TypeInv /\ now \in Nat /\ buffer \in Nat /\ TimerMap(timers)
      /\ playoutArmed \in BOOLEAN /\ nackArmed \in BOOLEAN
      /\ playoutArmed => "playout" \in DOMAIN timers /\ timers["playout"] = playoutDeadline
  BY DEF PlayoutInv, WindowInv, TypeInv, RTypeOK, TimerMap, PlayoutNeverStalls
<1>2. CASE Start(p)
  <2> DEFINE w == IF mode.noRecovery THEN timers
                  ELSE SetTimer(timers, "rttEcho", now + EchoInterval)
  <2>1. "rttEcho" \in Timers /\ now + EchoInterval \in Int /\ now + buffer \in Int
    BY <1>1, ReceiverAssumption DEF Timers
  <2>2. TimerMap(w)
    BY <1>1, <2>1, TimerMaps, Zenon
  <2>3. ArmPlayout(FALSE, w, now + buffer)
    BY <1>2 DEF Start
  <2> HIDE DEF w
  <2> QED BY <1>1, <2>1, <2>2, <2>3, ArmPlayoutEffect
<1>3. CASE Accept(p)
  <2> DEFINE w == ScheduleNack(nackArmed, missing', timers)
             d == PacketTime(ClockAfter(p), p) + buffer
  <2>1. /\ TimerMap(w) /\ DOMAIN timers \subseteq DOMAIN w
        /\ \A t \in DOMAIN timers : t # "nack" => w[t] = timers[t]
    BY <1>1, ScheduleNackType
  <2>2. d \in Int
    BY <1>1, ClockTypes
  <2>3. ArmPlayout(playoutArmed, w, d)
    BY <1>3 DEF Accept
  <2> HIDE DEF w, d
  <2>4. playoutArmed => "playout" \in DOMAIN w /\ w["playout"] = playoutDeadline
    BY <1>1, <2>1
  <2> QED BY <1>1, <2>1, <2>2, <2>3, <2>4, ArmPlayoutEffect
<1> QED BY <1>2, <1>3

\* The playout loop returns with the flag set or with nothing buffered.
LEMMA DeliverPlayout ==
  ASSUME PlayoutInv, DeliverDue
  PROVE  /\ playoutArmed' => /\ "playout" \in DOMAIN timers'
                             /\ timers'["playout"] = playoutDeadline'
         /\ job' \in {"idle", "nacks"} /\ Buffered' => playoutArmed'
<1>1. /\ TypeInv /\ BufferedInWindow /\ started /\ TimerMap(timers)
      /\ playoutArmed \in BOOLEAN
      /\ ring \in [0 .. RingSize - 1 -> Slots] /\ deliverNext \in SeqNums
      /\ playoutArmed => "playout" \in DOMAIN timers /\ timers["playout"] = playoutDeadline
  BY DEF PlayoutInv, WindowInv, Running, DeliverDue, TypeInv, RTypeOK, TimerMap,
     PlayoutNeverStalls
<1>2. CASE DeliverContinue
  <2>1. job' \notin {"idle", "nacks"}
    BY <1>2 DEF DeliverContinue, DeliverDue
  <2> QED BY <1>1, <1>2, <2>1 DEF DeliverContinue, armVars
<1>3. ASSUME NEW s \in SeqNums, ArmPlayout(playoutArmed, timers, ring[Index(s)].outputTime)
      PROVE  playoutArmed' /\ "playout" \in DOMAIN timers'
             /\ timers'["playout"] = playoutDeadline'
  <2>1. ring[Index(s)].outputTime \in Int
    BY <1>1, IndexType DEF Slots
  <2> QED BY <1>1, <1>3, <2>1, ArmPlayoutEffect
<1>4. Candidates # {} => Add(deliverNext, Nearest) \in SeqNums
  <2>1. Candidates # {} => Nearest \in Int /\ Nearest <= SeqSpace /\ -SeqSpace <= Nearest
    BY NearestLeast, ReceiverAssumption, HalfSpaceAssumption DEF SeqSpace
  <2> QED BY <1>1, <2>1, AddType
<1>5. ASSUME ~Holds(ring, deliverNext), Candidates = {}, Ahead <= RingSize, DisarmPlayout,
             UNCHANGED playoutVars
      PROVE  ~playoutArmed' /\ ~Buffered'
  <2>1. \A i \in 0 .. RingSize - 1 : ~ring[i].filled
    BY <1>1, <1>5, ScanInWindow
  <2> QED BY <1>5, <2>1 DEF DisarmPlayout, Buffered, playoutVars
<1>6. CASE DeliverReturn
  BY <1>1, <1>3, <1>4, <1>5, <1>6 DEF DeliverReturn
<1> QED BY <1>2, <1>6 DEF DeliverDue

\* Every step keeps the playout flag truthful.
LEMMA PlayoutStep == PlayoutInv /\ [RNext]_rvars => PlayoutInv'
<1> SUFFICES ASSUME PlayoutInv, [RNext]_rvars PROVE PlayoutInv'
  OBVIOUS
<1>1. WindowInv'
  BY WindowStep DEF PlayoutInv
<1>2. TimerMap(timers) /\ now \in Nat /\ playoutArmed \in BOOLEAN
  BY DEF PlayoutInv, WindowInv, TypeInv, RTypeOK, TimerMap
<1> DEFINE Truthful == playoutArmed => /\ "playout" \in DOMAIN timers
                                       /\ timers["playout"] = playoutDeadline
           Awake    == job \in {"idle", "nacks"} /\ Buffered => playoutArmed
<1>3. Truthful /\ Awake
  BY DEF PlayoutInv, PlayoutNeverStalls
<1>4. SUFFICES Truthful' /\ Awake'
  BY <1>1, <1>4 DEF PlayoutInv, PlayoutNeverStalls, Buffered
<1> USE DEF Buffered, armVars, playoutVars
<1>5. ASSUME NEW p \in Packets, Feed(p) PROVE Truthful' /\ Awake'
  <2>1. CASE Start(p) \/ Accept(p)
    BY <2>1, FeedPlayout
  <2>2. CASE Shed(p)
    BY <1>3, <2>2 DEF Shed
  <2> QED BY <1>5, <2>1, <2>2 DEF Feed
<1>6. CASE HandlePlayoutTimer
  <2>1. started => job' = "playout"
    BY <1>6 DEF HandlePlayoutTimer
  <2>2. ~started => ~Buffered'
    BY <1>6 DEF HandlePlayoutTimer, PlayoutInv, WindowInv, Unstarted
  <2> QED BY <1>6, <2>1, <2>2 DEF HandlePlayoutTimer
<1>7. CASE HandleNackTimer
  <2>1. /\ TimerMap(ClearTimer(timers, "nack"))
        /\ DOMAIN ClearTimer(timers, "nack") = DOMAIN timers \ {"nack"}
        /\ \A t \in DOMAIN timers \ {"nack"} : ClearTimer(timers, "nack")[t] = timers[t]
    BY <1>2, TimerCleared
  <2> DEFINE w == ClearTimer(timers, "nack")
  <2> HIDE DEF w
  <2>2. timers' = ScheduleNack(FALSE, missing', w)
    BY <1>7 DEF HandleNackTimer, w
  <2>3. DOMAIN w \subseteq DOMAIN timers' /\ \A t \in DOMAIN w : t # "nack" => timers'[t] = w[t]
    BY <2>2 DEF ScheduleNack, SetTimer
  <2>4. "playout" \in DOMAIN timers =>
          "playout" \in DOMAIN timers' /\ timers'["playout"] = timers["playout"]
    BY <2>1, <2>3 DEF w
  <2> QED BY <1>3, <1>7, <2>4 DEF HandleNackTimer
<1>8. CASE HandleEchoTimer
  <2>1. now + EchoInterval \in Int /\ "rttEcho" \in Timers
    BY <1>2, ReceiverAssumption DEF Timers
  <2> DEFINE d == now + EchoInterval
  <2> HIDE DEF d
  <2>2. timers' = SetTimer(timers, "rttEcho", d) \/ timers' = ClearTimer(timers, "rttEcho")
    BY <1>8 DEF HandleEchoTimer, d
  <2>3. d \in Int
    BY <2>1 DEF d
  <2>4. "playout" \in DOMAIN timers =>
          "playout" \in DOMAIN timers' /\ timers'["playout"] = timers["playout"]
    <3>1. CASE timers' = SetTimer(timers, "rttEcho", d)
      BY <3>1 DEF SetTimer
    <3>2. CASE timers' = ClearTimer(timers, "rttEcho")
      BY <1>2, <3>2, TimerCleared
    <3> QED BY <2>2, <3>1, <3>2
  <2> QED BY <1>3, <1>8, <2>4 DEF HandleEchoTimer
<1>9. CASE Tick BY <1>3, <1>9 DEF Tick
<1>10. CASE TickNacks BY <1>3, <1>10 DEF TickNacks
<1>11. ASSUME NEW s \in RttSamples, FeedEchoResponse(s) PROVE Truthful' /\ Awake'
  BY <1>3, <1>11 DEF FeedEchoResponse
<1>12. ASSUME NEW m \in SenderMaxes, SetSenderMaxBuffer(m) PROVE Truthful' /\ Awake'
  BY <1>3, <1>12 DEF SetSenderMaxBuffer
<1>13. CASE Advance BY <1>3, <1>13 DEF Advance
<1>14. CASE DeliverDue BY <1>14, DeliverPlayout
<1>15. CASE UNCHANGED rvars BY <1>3, <1>15 DEF rvars
<1> QED BY <1>5, <1>6, <1>7, <1>8, <1>9, <1>10, <1>11, <1>12, <1>13, <1>14, <1>15 DEF RNext

\* Playout never stalls: between two calls a buffered packet has a playout timer
\* pending in the session's map at the deadline the core's flag stands for,
\* through restarts of the flow, late wake-ups and Tick (armPlayout, deliverDue).
THEOREM PlayoutTimerPending == RSpec => []PlayoutNeverStalls
<1>1. RInit => PlayoutInv
  BY WindowInit, EmptySlotType DEF RInit, PlayoutInv, PlayoutNeverStalls, Buffered
<1>2. PlayoutInv => PlayoutNeverStalls
  BY DEF PlayoutInv
<1> QED BY <1>1, <1>2, PlayoutStep, PTL DEF RSpec

NackInv == TypeInv /\ NacksNeverStall

\* Every step keeps a queued hole's NACK timer pending.
LEMMA NackStep == NackInv /\ [RNext]_rvars => NackInv'
<1> SUFFICES ASSUME NackInv, [RNext]_rvars PROVE NackInv'
  OBVIOUS
<1>1. TypeInv'
  BY TypeStep DEF NackInv
<1>2. /\ TypeInv /\ TimerMap(timers) /\ now \in Nat /\ buffer \in Nat
      /\ playoutArmed \in BOOLEAN /\ nackArmed \in BOOLEAN
  BY DEF NackInv, TypeInv, RTypeOK, TimerMap
<1>3. (nackArmed => "nack" \in DOMAIN timers) /\ (DOMAIN missing # {} => nackArmed)
  BY DEF NackInv, NacksNeverStall
<1>4. SUFFICES (nackArmed => "nack" \in DOMAIN timers)' /\ (DOMAIN missing # {} => nackArmed)'
  BY <1>1, <1>4 DEF NackInv, NacksNeverStall
<1> USE DEF armVars, playoutVars, nackVars
<1> DEFINE Goal == (nackArmed' => "nack" \in DOMAIN timers') /\ (DOMAIN missing' # {} => nackArmed')
<1>a. ASSUME NEW armed, NEW w, NEW d, ArmPlayout(armed, w, d), "nack" \in DOMAIN w
      PROVE  "nack" \in DOMAIN timers'
  BY <1>a DEF ArmPlayout, SetTimer
<1>5. ASSUME NEW p \in Packets, Feed(p) PROVE Goal
  <2>1. CASE Start(p)
    BY <2>1 DEF Start, EmptyQueue
  <2>2. CASE Accept(p)
    <3> DEFINE w == ScheduleNack(nackArmed, missing', timers)
               d == PacketTime(ClockAfter(p), p) + buffer
    <3>1. nackArmed' = ScheduledNack(nackArmed, missing')
      BY <1>2, <2>2, AcceptQueue
    <3>2. ArmPlayout(playoutArmed, w, d)
      BY <2>2 DEF Accept
    <3>3. ScheduledNack(nackArmed, missing') => "nack" \in DOMAIN w
      BY <1>2, <1>3, ScheduleNackType
    <3> HIDE DEF w, d
    <3>4. nackArmed' => "nack" \in DOMAIN timers'
      BY <1>a, <3>1, <3>2, <3>3
    <3> QED BY <3>1, <3>4 DEF ScheduledNack
  <2>3. CASE Shed(p)
    BY <1>3, <2>3 DEF Shed
  <2> QED BY <1>5, <2>1, <2>2, <2>3 DEF Feed
<1>6. CASE HandlePlayoutTimer
  <2>1. DOMAIN timers' = DOMAIN timers \ {"playout"}
    BY <1>2, <1>6, TimerCleared DEF HandlePlayoutTimer
  <2> QED BY <1>3, <1>6, <2>1 DEF HandlePlayoutTimer
<1>7. CASE HandleNackTimer
  <2> DEFINE w == ClearTimer(timers, "nack")
  <2>1. TimerMap(w)
    BY <1>2, TimerCleared
  <2> HIDE DEF w
  <2>2. timers' = ScheduleNack(FALSE, missing', w) /\ nackArmed' = ScheduledNack(FALSE, missing')
    BY <1>7 DEF HandleNackTimer, w
  <2>3. ScheduledNack(FALSE, missing') => "nack" \in DOMAIN timers'
    BY <1>2, <2>1, <2>2, ScheduleNackType
  <2> QED BY <2>2, <2>3 DEF ScheduledNack
<1>8. CASE HandleEchoTimer
  <2>1. "nack" \in DOMAIN timers => "nack" \in DOMAIN timers'
    BY <1>8 DEF HandleEchoTimer, SetTimer, ClearTimer
  <2> QED BY <1>3, <1>8, <2>1 DEF HandleEchoTimer
<1>9. CASE Tick BY <1>3, <1>9 DEF Tick
<1>10. CASE TickNacks
  <2>1. DOMAIN missing' \subseteq DOMAIN missing
    BY <1>2, <1>10, ProcessNacksType DEF TickNacks
  <2> QED BY <1>3, <1>10, <2>1 DEF TickNacks
<1>11. ASSUME NEW s \in RttSamples, FeedEchoResponse(s) PROVE Goal
  BY <1>3, <1>11 DEF FeedEchoResponse
<1>12. ASSUME NEW m \in SenderMaxes, SetSenderMaxBuffer(m) PROVE Goal
  BY <1>3, <1>12 DEF SetSenderMaxBuffer
<1>13. CASE Advance BY <1>3, <1>13 DEF Advance
<1>14. CASE DeliverDue
  <2>1. "nack" \in DOMAIN timers => "nack" \in DOMAIN timers'
    BY <1>14, <1>a DEF DeliverDue, DeliverContinue, DeliverReturn, DisarmPlayout, ClearTimer
  <2> QED BY <1>3, <1>14, <2>1 DEF DeliverDue
<1>15. CASE UNCHANGED rvars BY <1>3, <1>15 DEF rvars
<1> QED BY <1>5, <1>6, <1>7, <1>8, <1>9, <1>10, <1>11, <1>12, <1>13, <1>14, <1>15 DEF RNext

\* A queued hole always has a NACK timer pending (scheduleNack, processNacks).
THEOREM NackTimerPending == RSpec => []NacksNeverStall
<1>1. RInit => NackInv
  BY TypeInit DEF RInit, NackInv, NacksNeverStall, EmptyQueue
<1>2. NackInv => NacksNeverStall
  BY DEF NackInv
<1> QED BY <1>1, <1>2, NackStep, PTL DEF RSpec

-----------------------------------------------------------------------------
(* Bounds. *)

ScaleInv == TypeInv /\ BufferWindow /\ (senderMax = 0 \/ senderMax >= BufferMin)

\* The recovery buffer stays in the configured window through auto-scaling and
\* renegotiation: what the sender advertises is taken only when it is at least
\* the smallest buffer (SetSenderMaxBuffer, autoScaleBuffer).
THEOREM BufferStaysInWindow == RSpec => []BufferWindow
<1>1. RInit => ScaleInv
  <2> SUFFICES ASSUME RInit PROVE ScaleInv
    OBVIOUS
  <2>1. buffer \in BufferMin .. BufferMax
    <3>1. buffer = (BufferMax - BufferMin) \div 2 + BufferMin
      BY Zenon DEF RInit
    <3>2. BufferMin \in Nat /\ BufferMax \in Nat /\ BufferMin <= BufferMax
      BY ReceiverAssumption
    <3> QED BY <3>1, <3>2
  <2> QED BY <2>1, TypeInit DEF RInit, ScaleInv, BufferWindow
<1>2. ScaleInv /\ [RNext]_rvars => ScaleInv'
  <2> SUFFICES ASSUME ScaleInv, [RNext]_rvars PROVE ScaleInv'
    OBVIOUS
  <2>1. TypeInv'
    BY TypeStep DEF ScaleInv
  <2>2. CASE HandleEchoTimer
    <3>1. buffer' \in BufferMin .. BufferMax /\ senderMax' = senderMax
      BY <2>2, AutoScaleWindow
         DEF HandleEchoTimer, AutoScale, ScaleInv, BufferWindow, bufferVars
    <3> QED BY <2>1, <3>1 DEF ScaleInv, BufferWindow
  <2>3. ASSUME NEW m \in SenderMaxes, SetSenderMaxBuffer(m) PROVE ScaleInv'
    <3>1. m \in Nat /\ BufferMin \in Nat
      BY ReceiverAssumption
    <3>2. senderMax' = 0 \/ senderMax' >= BufferMin
      BY <2>3, <3>1 DEF SetSenderMaxBuffer
    <3>3. buffer' = buffer
      BY <2>3 DEF SetSenderMaxBuffer
    <3> QED BY <2>1, <3>2, <3>3 DEF ScaleInv, BufferWindow
  <2>4. ASSUME UNCHANGED <<buffer, senderMax>> PROVE ScaleInv'
    BY <2>1, <2>4 DEF ScaleInv, BufferWindow
  <2> QED BY <2>2, <2>3, <2>4 DEF RNext, Feed, Start, Shed, Accept, HandlePlayoutTimer,
        HandleNackTimer, DeliverDue, Tick, TickNacks, FeedEchoResponse, Advance, rvars,
        bufferVars
<1>3. ScaleInv => BufferWindow
  BY DEF ScaleInv
<1> QED BY <1>1, <1>2, <1>3, PTL DEF RSpec

\* The missing queue never holds more than the overflow guard allows, however
\* gaps and NACK passes interleave (markMissing).
THEOREM MissingQueueBounded == RSpec => []MissingBounded
<1>1. RInit => TypeInv /\ MissingBounded
  <2> SUFFICES ASSUME RInit PROVE MissingBounded
    BY TypeInit
  <2>1. DOMAIN missing = {}
    BY DEF RInit, EmptyQueue
  <2>2. Cardinality({}) = 0
    BY FS_EmptySet
  <2> QED BY <2>1, <2>2, ReceiverAssumption DEF MissingBounded
<1>2. TypeInv /\ MissingBounded /\ [RNext]_rvars => TypeInv' /\ MissingBounded'
  <2> SUFFICES ASSUME TypeInv, MissingBounded, [RNext]_rvars PROVE MissingBounded'
    BY TypeStep
  <2>1. ASSUME NEW p \in Packets, Start(p) PROVE MissingBounded'
    <3>1. DOMAIN missing' = {}
      BY <2>1 DEF Start, EmptyQueue
    <3>2. Cardinality({}) = 0
      BY FS_EmptySet
    <3> QED BY <3>1, <3>2, ReceiverAssumption DEF MissingBounded
  <2>2. ASSUME NEW p \in Packets, Accept(p) PROVE MissingBounded'
    BY <2>2, AcceptQueue DEF MissingBounded
  <2>3. CASE ProcessNacks
    <3>1. DOMAIN missing' \subseteq DOMAIN missing
      BY <2>3, ProcessNacksType
    <3>2. IsFiniteSet(DOMAIN missing') /\ Cardinality(DOMAIN missing') <= Cardinality(DOMAIN missing)
      BY <3>1, MissingFinite, FS_Subset
    <3>3. Cardinality(DOMAIN missing') \in Nat
      BY <3>2, FS_CardinalityType
    <3> QED BY <3>2, <3>3, MissingFinite, ReceiverAssumption DEF MissingBounded
  <2>4. CASE UNCHANGED missing
    BY <2>4 DEF MissingBounded
  <2> QED BY <2>1, <2>2, <2>3, <2>4 DEF RNext, Feed, Shed, HandlePlayoutTimer,
        HandleNackTimer, HandleEchoTimer, DeliverDue, Tick, TickNacks, FeedEchoResponse,
        SetSenderMaxBuffer, Advance, rvars, nackVars
<1> QED BY <1>1, <1>2, PTL DEF RSpec

-----------------------------------------------------------------------------
(* Order and accounting of the deliveries. *)

\* The position of the newest delivery.
LastPos == IF Len(log) = 0 THEN -1 ELSE log[Len(log)].pos

\* The pending flag is up exactly when sequences have been given up since the
\* newest delivery.
OrderInv ==
  /\ WindowInv
  /\ Accounting
  /\ InOrderPlayout
  /\ LastPos < Passed
  /\ pendingDiscontinuity <=> Passed # LastPos + 1

\* Positions are numbers, and the newest one is known to be.
LEMMA PositionTypes ==
  ASSUME TypeInv
  PROVE  /\ Len(log) \in Nat /\ LastPos \in Int /\ Passed \in Nat
         /\ \A i \in 1 .. Len(log) : log[i].pos \in Nat
         /\ anchor.seq \in Nat /\ anchor.lost \in Nat /\ stats.lost \in Nat
<1>1. log \in Log
  BY DEF TypeInv, RTypeOK, Log, Deliveries
<1>2. Len(log) \in Nat /\ \A i \in 1 .. Len(log) : log[i].pos \in Nat
  <2>1. Len(log) \in Nat /\ \A i \in 1 .. Len(log) : log[i] \in Deliveries
    BY <1>1 DEF Log
  <2> QED BY <2>1 DEF Deliveries
<1>3. LastPos \in Int
  BY <1>2 DEF LastPos
<1>4. stats.lost \in Nat /\ anchor.lost \in Nat /\ anchor.lost <= stats.lost
  BY DEF TypeInv, RTypeOK
<1>5. anchor.seq \in Nat
  BY HalfSpaceAssumption DEF TypeInv, RTypeOK, SeqNums, SeqSpace
<1>6. Passed \in Nat
  BY <1>2, <1>4 DEF Passed
<1> QED BY <1>2, <1>3, <1>4, <1>5, <1>6

\* A delivery takes the position after everything passed so far.
LEMMA EmitOrder ==
  ASSUME OrderInv, started, started' = started, Holds(ring, deliverNext), EmitDeliver
  PROVE  /\ Accounting' /\ InOrderPlayout' /\ (LastPos < Passed)'
         /\ (pendingDiscontinuity <=> Passed # LastPos + 1)'
<1>1. TypeInv /\ log \in Log
  BY DEF OrderInv, WindowInv, TypeInv, RTypeOK, Log, Deliveries
<1> DEFINE e == [seq |-> ring[Index(deliverNext)].seq, src |-> ring[Index(deliverNext)].src,
                 payload |-> ring[Index(deliverNext)].payload,
                 discontinuity |-> pendingDiscontinuity, pos |-> Passed]
           n == Len(log)
<1>2. log' = Append(log, e)
  BY DEF EmitDeliver, Passed
<1>3. e.seq = deliverNext /\ e.pos = Passed /\ e.discontinuity = pendingDiscontinuity
  BY DEF Holds
<1> HIDE DEF e
<1>4. Len(log') = n + 1 /\ log'[n + 1] = e /\ \A i \in 1 .. n : log'[i] = log[i]
  BY <1>1, <1>2 DEF Log
<1>5. n \in Nat /\ Passed \in Nat /\ LastPos \in Int /\ anchor.seq \in Nat
  BY <1>1, PositionTypes
<1>6. anchor' = anchor /\ stats' = stats /\ deliverNext' = Add(deliverNext, 1)
  BY DEF EmitDeliver
<1>7. Passed' = Passed + 1
  <2>1. stats.lost \in Nat /\ anchor.lost \in Nat
    BY <1>1, PositionTypes
  <2>2. Passed = n + (stats.lost - anchor.lost) /\ Passed' = (n + 1) + (stats.lost - anchor.lost)
    BY <1>4, <1>6, Zenon DEF Passed
  <2> QED BY <1>5, <2>1, <2>2
<1>8. LastPos' = Passed
  <2>1. n + 1 # 0
    BY <1>5
  <2>2. Len(log') # 0 /\ log'[Len(log')].pos = Passed
    BY <1>3, <1>4, <2>1, Zenon
  <2> QED BY <2>2, Zenon DEF LastPos
<1>9. deliverNext = (anchor.seq + Passed) % SeqSpace
  BY DEF OrderInv, Accounting
<1>10. Accounting'
  <2>1. anchor.seq + Passed \in Nat
    BY <1>5
  <2>2. 1 \in Nat /\ 1 <= SeqSpace
    BY HalfSpaceAssumption DEF SeqSpace
  <2>3. Add((anchor.seq + Passed) % SeqSpace, 1) = ((anchor.seq + Passed) + 1) % SeqSpace
    BY <2>1, <2>2, AddMod
  <2>4. (anchor.seq + Passed) + 1 = anchor'.seq + Passed'
    BY <1>5, <1>6, <1>7
  <2> QED BY <1>6, <1>9, <2>3, <2>4 DEF Accounting
<1>11. InOrderPlayout'
  <2>1. ASSUME NEW i \in 1 .. Len(log')
        PROVE  LET prev == IF i = 1 THEN -1 ELSE log'[i - 1].pos
               IN  /\ prev < log'[i].pos
                   /\ log'[i].seq = (anchor'.seq + log'[i].pos) % SeqSpace
                   /\ log'[i].discontinuity <=> log'[i].pos # prev + 1
    <3>1. CASE i \in 1 .. n
      <4>1. log'[i] = log[i] /\ (i # 1 => log'[i - 1] = log[i - 1])
        BY <1>4, <1>5, <3>1
      <4>2. LET prev == IF i = 1 THEN -1 ELSE log[i - 1].pos
            IN  /\ prev < log[i].pos
                /\ log[i].seq = (anchor.seq + log[i].pos) % SeqSpace
                /\ log[i].discontinuity <=> log[i].pos # prev + 1
        BY <3>1 DEF OrderInv, InOrderPlayout
      <4> QED BY <1>6, <4>1, <4>2, Zenon
    <3>2. CASE i = n + 1
      <4>1. (IF i = 1 THEN -1 ELSE log'[i - 1].pos) = LastPos
        BY <1>4, <1>5, <3>2 DEF LastPos
      <4>2. LastPos < e.pos /\ (e.discontinuity <=> e.pos # LastPos + 1)
        BY <1>3 DEF OrderInv
      <4>3. e.seq = (anchor'.seq + e.pos) % SeqSpace
        BY <1>3, <1>6, <1>9
      <4>4. log'[i] = e
        BY <1>4, <3>2
      <4> QED BY <4>1, <4>2, <4>3, <4>4, Zenon
    <3> QED BY <1>4, <1>5, <3>1, <3>2
  <2> QED BY <2>1 DEF InOrderPlayout
<1>12. (LastPos < Passed)' /\ (pendingDiscontinuity <=> Passed # LastPos + 1)'
  BY <1>5, <1>7, <1>8 DEF EmitDeliver
<1> QED BY <1>10, <1>11, <1>12

\* Giving up n sequences moves the cursor by n positions and raises the flag.
LEMMA SkipOrder ==
  ASSUME OrderInv, started, started' = started, NEW n \in 1 .. RingSize, SkipTo(n)
  PROVE  /\ Accounting' /\ InOrderPlayout' /\ (LastPos < Passed)'
         /\ (pendingDiscontinuity <=> Passed # LastPos + 1)'
<1>1. TypeInv /\ stats \in Counters
  BY DEF OrderInv, WindowInv, TypeInv, RTypeOK, Counters
<1>2. /\ Passed \in Nat /\ LastPos \in Int /\ anchor.seq \in Nat /\ Len(log) \in Nat
      /\ stats.lost \in Nat /\ anchor.lost \in Nat
  BY <1>1, PositionTypes
<1>3. /\ anchor' = anchor /\ log' = log /\ deliverNext' = Add(deliverNext, n)
      /\ pendingDiscontinuity' = TRUE
      /\ stats' = [stats EXCEPT !.lost = @ + n, !.discontinuities = @ + 1]
  BY DEF SkipTo
<1>4. stats'.lost = stats.lost + n
  BY <1>1, <1>3 DEF Counters
<1>5. n \in Nat /\ n >= 1 /\ n <= SeqSpace
  BY ReceiverAssumption, HalfSpaceAssumption DEF SeqSpace
<1>6. Passed' = Passed + n /\ LastPos' = LastPos
  BY <1>2, <1>3, <1>4, <1>5 DEF Passed, LastPos
<1>7. Accounting'
  <2>1. deliverNext = (anchor.seq + Passed) % SeqSpace /\ anchor.seq + Passed \in Nat
    BY <1>2 DEF OrderInv, Accounting
  <2>2. Add((anchor.seq + Passed) % SeqSpace, n) = ((anchor.seq + Passed) + n) % SeqSpace
    BY <1>5, <2>1, AddMod
  <2>3. (anchor.seq + Passed) + n = anchor'.seq + Passed'
    BY <1>2, <1>3, <1>5, <1>6
  <2> QED BY <1>3, <2>1, <2>2, <2>3 DEF Accounting
<1>8. InOrderPlayout'
  BY <1>3 DEF OrderInv, InOrderPlayout
<1>9. LastPos < Passed
  BY DEF OrderInv
<1>10. (LastPos < Passed)' /\ (pendingDiscontinuity <=> Passed # LastPos + 1)'
  BY <1>2, <1>3, <1>5, <1>6, <1>9
<1> QED BY <1>7, <1>8, <1>10

\* A flow starts at position 0.
LEMMA StartOrder ==
  ASSUME OrderInv, NEW p \in Packets, Start(p)
  PROVE  /\ Accounting' /\ InOrderPlayout' /\ (LastPos < Passed)'
         /\ (pendingDiscontinuity <=> Passed # LastPos + 1)'
<1>1. /\ log' = <<>> /\ anchor' = [seq |-> p.seq, lost |-> stats.lost] /\ stats' = stats
      /\ deliverNext' = p.seq /\ pendingDiscontinuity' = FALSE
  BY DEF Start
<1>2. stats.lost \in Nat
  BY PositionTypes DEF OrderInv, WindowInv
<1>3. Passed' = 0 /\ LastPos' = -1 /\ Len(log') = 0
  BY <1>1, <1>2 DEF Passed, LastPos
<1>4. p.seq % SeqSpace = p.seq
  <2>1. SeqSpace \in Nat /\ SeqSpace > 0 /\ p.seq \in 0 .. SeqSpace - 1
    BY HalfSpaceAssumption, ReceiverAssumption DEF SeqNums, SeqSpace
  <2>2. p.seq = 0 * SeqSpace + p.seq /\ p.seq \in Int /\ 0 \in Int
    BY <2>1
  <2> QED BY <2>1, <2>2, ModUnique
<1>5. anchor'.seq + Passed' = p.seq
  <2>1. p.seq \in Int
    BY HalfSpaceAssumption, ReceiverAssumption DEF SeqNums, SeqSpace
  <2> QED BY <1>1, <1>3, <2>1
<1>6. Accounting'
  BY <1>1, <1>4, <1>5 DEF Accounting
<1>7. InOrderPlayout'
  <2>1. 1 .. Len(log') = {}
    BY <1>3
  <2> QED BY <2>1, Zenon DEF InOrderPlayout
<1> QED BY <1>1, <1>3, <1>6, <1>7

\* Every step keeps the order.
LEMMA OrderStep == OrderInv /\ [RNext]_rvars => OrderInv'
<1> SUFFICES ASSUME OrderInv, [RNext]_rvars PROVE OrderInv'
  OBVIOUS
<1>1. WindowInv' /\ TypeInv
  BY WindowStep DEF OrderInv, WindowInv
<1>2. ASSUME NEW p \in Packets, Start(p) PROVE OrderInv'
  BY <1>1, <1>2, StartOrder DEF OrderInv
<1>3. CASE DeliverContinue /\ DeliverDue
  <2>1. started /\ started' = started
    BY <1>3 DEF OrderInv, WindowInv, Running, DeliverDue, sourceVars
  <2>2. CASE Holds(ring, deliverNext) /\ EmitDeliver
    BY <1>1, <2>1, <2>2, EmitOrder DEF OrderInv
  <2>3. ASSUME NEW n \in 1 .. RingSize, SkipTo(n) PROVE OrderInv'
    BY <1>1, <2>1, <2>3, SkipOrder DEF OrderInv
  <2>4. RingSize \in 1 .. RingSize
    BY ReceiverAssumption
  <2>5. Candidates # {} => Nearest \in 1 .. RingSize
    BY NearestLeast
  <2> QED BY <1>3, <2>2, <2>3, <2>4, <2>5 DEF DeliverContinue
<1>4. ASSUME UNCHANGED <<started, deliverNext, pendingDiscontinuity, anchor, log>>,
             stats'.lost = stats.lost
      PROVE  OrderInv'
  BY <1>1, <1>4 DEF OrderInv, Accounting, InOrderPlayout, LastPos, Passed
<1>5. ASSUME NEW p \in Packets, Accept(p) PROVE OrderInv'
  BY <1>1, <1>4, <1>5, AcceptQueue DEF Accept
<1>6. ASSUME NEW p \in Packets, Shed(p) PROVE OrderInv'
  BY <1>4, <1>6 DEF Shed, playoutVars
<1>7. CASE DeliverReturn /\ DeliverDue
  BY <1>4, <1>7 DEF DeliverReturn, DeliverDue, playoutVars, sourceVars
<1>8. CASE HandleNackTimer \/ TickNacks
  <2>1. stats'.lost = stats.lost
    BY <1>1, <1>8, ProcessNacksType DEF HandleNackTimer, TickNacks
  <2> QED BY <1>4, <1>8, <2>1 DEF HandleNackTimer, TickNacks, sourceVars, playoutVars
<1> QED BY <1>2, <1>3, <1>4, <1>5, <1>6, <1>7, <1>8
        DEF RNext, Feed, DeliverDue, HandlePlayoutTimer, HandleEchoTimer, Tick,
            FeedEchoResponse, SetSenderMaxBuffer, Advance, rvars, sourceVars, playoutVars

LEMMA OrderInvariant == RSpec => []OrderInv
<1>1. RInit => OrderInv
  <2> SUFFICES ASSUME RInit PROVE OrderInv
    OBVIOUS
  <2>1. WindowInv
    BY WindowInit
  <2>2. /\ log = <<>> /\ stats.lost = 0 /\ anchor.lost = 0
        /\ ~started /\ pendingDiscontinuity = FALSE
    BY DEF RInit
  <2>3. Len(log) = 0 /\ Passed = 0 /\ LastPos = -1
    BY <2>2 DEF Passed, LastPos
  <2>4. 1 .. Len(log) = {}
    BY <2>3
  <2>5. InOrderPlayout /\ Accounting
    BY <2>2, <2>4, Zenon DEF InOrderPlayout, Accounting
  <2> QED BY <2>1, <2>2, <2>3, <2>5 DEF OrderInv
<1> QED BY <1>1, OrderStep, PTL DEF RSpec

\* Every sequence the cursor passes is delivered or counted as lost, across any
\* number of wraps of the sequence space (emitDeliver, skipTo).
THEOREM EverySequenceAccounted == RSpec => []Accounting
<1>1. OrderInv => Accounting
  BY DEF OrderInv
<1> QED BY <1>1, OrderInvariant, PTL

\* Playout is in order without repeats, and exactly the deliveries behind a gap
\* carry the discontinuity flag (deliverDue).
THEOREM PlayoutInOrder == RSpec => []InOrderPlayout
<1>1. OrderInv => InOrderPlayout
  BY DEF OrderInv
<1> QED BY <1>1, OrderInvariant, PTL

=============================================================================
