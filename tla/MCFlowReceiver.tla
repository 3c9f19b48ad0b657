--------------------------- MODULE MCFlowReceiver ---------------------------
(***************************************************************************)
(* FlowReceiver for TLC: a small ring at the wrap of the sequence space, a *)
(* handful of packets that arrive in any order and any number of times up  *)
(* to MaxFeeds, and a sparse clock.                                        *)
(***************************************************************************)
EXTENDS FlowReceiver

CONSTANTS MaxFeeds,   \* packets fed in one behaviour
          FeedUntil,  \* no packet arrives after this instant
          MaxTicks,   \* bound on Tick calls and echo responses
          MaxEchoes   \* bound on measured round trips and negotiations

VARIABLES fed, ticked, echoed

mcvars == <<rvars, fed, ticked, echoed>>

Packet(seq, src, flow, rtx, short) ==
  [seq |-> seq, src |-> src, ssrc |-> flow, payload |-> src, rtx |-> rtx,
   short |-> short]

Fresh(seq, src) == Packet(seq, src, 2, FALSE, TRUE)
Resent(seq, src) == Packet(seq, src, 3, TRUE, TRUE)

\* Packets of one flow across the sequence wrap, two of them stamped with the
\* same source time, a re-sent copy, one re-keyed, one after a wrap of the
\* source clock, and one of another flow.
WrapPackets ==
  {Fresh(30, 20), Fresh(31, 22), Fresh(0, 24), Fresh(1, 24), Resent(31, 22),
   Fresh(0, 25), Fresh(1, 2), Packet(5, 6, 4, FALSE, TRUE)}

\* A short flow with a hole and its re-sent copy.
HolePackets == {Fresh(30, 20), Fresh(0, 24), Resent(31, 22)}

\* One flow whose sequence runs ahead of a two-slot ring in an eight-number
\* space, so that slots are lapped and the cursor wraps, and a packet of another
\* flow, which resets the receiver with timers of the first still pending.
LapPackets ==
  {Fresh(6, 20), Fresh(7, 22), Fresh(0, 24), Fresh(1, 26), Fresh(3, 30),
   Resent(7, 22), Packet(1, 26, 2, FALSE, FALSE), Packet(5, 6, 4, FALSE, TRUE)}

Recovering(t) == [timing |-> t, noRecovery |-> FALSE]

SourceTiming == {Recovering("source")}
RtcTiming    == {Recovering("rtc")}

SourceAndOneWay == {Recovering("source"), [timing |-> "arrival", noRecovery |-> TRUE]}

\* Round trips measured; a clock step can make one negative.
Samples == {-1, 60}

MCInit == RInit /\ fed = 0 /\ ticked = 0 /\ echoed = 0

FeedOne ==
  /\ fed < MaxFeeds /\ now <= FeedUntil
  /\ \E p \in Packets : Feed(p)
  /\ fed' = fed + 1
  /\ UNCHANGED <<ticked, echoed>>

TickOne ==
  /\ ticked < MaxTicks
  /\ Tick
  /\ ticked' = ticked + 1
  /\ UNCHANGED <<fed, echoed>>

PeerMessage ==
  /\ echoed < MaxEchoes
  /\ \/ \E s \in RttSamples : FeedEchoResponse(s)
     \/ \E m \in SenderMaxes : SetSenderMaxBuffer(m)
  /\ echoed' = echoed + 1
  /\ UNCHANGED <<fed, ticked>>

Timed == HandleTimer /\ UNCHANGED <<fed, ticked, echoed>>

Loop == (DeliverDue \/ TickNacks) /\ UNCHANGED <<fed, ticked, echoed>>

Wait == Advance /\ UNCHANGED <<fed, ticked, echoed>>

MCNext == FeedOne \/ TickOne \/ PeerMessage \/ Timed \/ Loop \/ Wait

\* The event loop has something to do, or time can pass.
Busy == \/ job # "idle"
        \/ \E t \in DOMAIN timers : Due(t)
        \/ \E t \in Instants : t > now

\* The event loop never stops, and its host clock goes on.
MCSpec == /\ MCInit /\ [][MCNext]_mcvars
          /\ []<>~Busy \/ []<><<Timed \/ Loop \/ Wait>>_mcvars

\* A buffered packet does not stay buffered: the timers it relies on fire until
\* it has been played out, replaced or dropped with its flow.
Drains ==
  \A s \in {p.seq : p \in Packets} : Holds(ring, s) ~> ~Holds(ring, s)

=============================================================================
