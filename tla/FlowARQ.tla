------------------------------ MODULE FlowARQ -------------------------------
(***************************************************************************)
(* A sending and a receiving flow joined by a network that loses, delays,  *)
(* duplicates and reorders: the Simple-profile path of a session, media    *)
(* one way and NACKs the other, both through the 16-bit wire.              *)
(***************************************************************************)
EXTENDS FlowReceiver, Codec

CONSTANTS HistorySize, StartSeq, MaxNacksPerLoop, Congestion, NoRecovery,
          StartAt,     \* the source starts at this instant
          MaxPushes,   \* payloads pushed in a behaviour
          MaxLosses,   \* datagrams the network loses
          MaxCopies,   \* datagrams it delivers twice
          Timely,      \* whether network, event loops and source keep pace
          MaxDelay,    \* then: ticks a datagram spends in the network
          MaxPause     \* then: ticks between two pushes

VARIABLES
  history, nextSeq, sending, gateEst, echoAt,   \* the sending flow
  media,         \* media packets in transit
  nacks,         \* NACK datagrams in transit
  highestSent,   \* the sending session's reference for widening NACKs
  dec,           \* the receiving session's mediaDecoder
  pushed, lastPush, lost, copied

S == INSTANCE FlowSender

senderVars == <<history, nextSeq, sending, gateEst, echoAt, highestSent, pushed,
                lastPush>>
netVars    == <<media, nacks, lost, copied>>
arqVars    == <<rvars, senderVars, netVars, dec>>

ARQInit ==
  /\ RInit /\ S!SInit
  /\ nacks = {} /\ highestSent = 0 /\ dec = NewDecoder
  /\ pushed = 0 /\ lastPush = StartAt /\ lost = 0 /\ copied = 0

\* The application writes; drain keeps the newest sequence sent.
Push ==
  /\ job = "idle" /\ pushed < MaxPushes /\ now >= StartAt
  /\ S!PushApp(pushed + 1)
  /\ highestSent' = IF SignedGap(highestSent, nextSeq) > 0 THEN nextSeq ELSE highestSent
  /\ pushed' = pushed + 1
  /\ lastPush' = now
  /\ UNCHANGED <<rvars, nacks, lost, copied, dec>>

\* A media datagram is decoded and fed; the network may keep a copy.
Arrive(m) ==
  LET w  == WireSeq(m.seq)
      ts == WireTs(m.src)
  IN  /\ Feed([seq |-> DecodedSeq(dec, w), src |-> DecodedSource(dec, w, ts),
               ssrc |-> 2, payload |-> m.payload, rtx |-> m.rtx, short |-> TRUE])
      /\ dec' = Decoded(dec, w, ts)
      /\ \/ media' = media \ {m} /\ UNCHANGED copied
         \/ copied < MaxCopies /\ copied' = copied + 1 /\ UNCHANGED media
      /\ UNCHANGED <<senderVars, nacks, lost>>

\* The NACK pass; its request leaves at once, narrowed to the wire.
SendNacks ==
  /\ HandleNackTimer
  /\ nacks' = IF NackBatch = {} THEN nacks
              ELSE nacks \union {[seqs |-> {WireSeq(s) : s \in NackBatch}, at |-> now]}
  /\ UNCHANGED <<senderVars, media, lost, copied, dec>>

NackArrives(n) ==
  /\ job = "idle"
  /\ S!ServiceNack({WidenSeqAtMost(w, highestSent) : w \in n.seqs}, FALSE)
  /\ nacks' = nacks \ {n}
  /\ UNCHANGED <<rvars, highestSent, pushed, lastPush, lost, copied, dec>>

Lose ==
  /\ job = "idle" /\ lost < MaxLosses
  /\ \/ \E m \in media : media' = media \ {m} /\ UNCHANGED nacks
     \/ \E n \in nacks : nacks' = nacks \ {n} /\ UNCHANGED media
  /\ lost' = lost + 1
  /\ UNCHANGED <<rvars, senderVars, copied, dec>>

ReceiverTimer ==
  /\ HandlePlayoutTimer \/ HandleEchoTimer \/ DeliverDue
  /\ UNCHANGED <<senderVars, netVars, dec>>

SenderTimer ==
  /\ job = "idle" /\ S!EchoTimer
  /\ UNCHANGED <<rvars, highestSent, pushed, lastPush, nacks, lost, copied, dec>>

\* In a timely run no timer, datagram or push is overdue when time passes, and
\* time passes one tick at a time.
KeepsPace ==
  /\ now' = now + 1
  /\ \A t \in DOMAIN timers : timers[t] > now
  /\ \A d \in media \union nacks : d.at + MaxDelay > now
  /\ pushed < MaxPushes => lastPush + MaxPause > now

Wait ==
  /\ Advance
  /\ Timely => KeepsPace
  /\ UNCHANGED <<senderVars, netVars, dec>>

ARQNext ==
  \/ Push
  \/ \E m \in media : Arrive(m)
  \/ \E n \in nacks : NackArrives(n)
  \/ SendNacks
  \/ ReceiverTimer
  \/ SenderTimer
  \/ Lose
  \/ Wait

\* Something other than a loss can happen: a loop iteration or a due timer, a
\* datagram or a payload, or the passing of time.
Busy ==
  \/ job # "idle" \/ media # {} \/ nacks # {} \/ pushed < MaxPushes
  \/ \E t \in DOMAIN timers : Due(t)
  \/ now + 1 \in Instants

\* The system as a whole never stops while it is busy, the least that two event
\* loops, a source, a network and a clock that go on guarantee.
Progress == []<>~Busy \/ []<><<ARQNext>>_arqVars

ARQSpec == ARQInit /\ [][ARQNext]_arqVars /\ Progress

-----------------------------------------------------------------------------
(* Properties.                                                             *)

\* The two flows and the network together are an ordered stream: whatever is
\* lost, late, repeated or reordered, payloads come out in the order they were
\* pushed, at most once, with every gap flagged.
Stream == INSTANCE OrderedStream WITH
  out <- [i \in 1 .. Len(log) |-> [payload |-> log[i].payload,
                                   discontinuity |-> log[i].discontinuity]]

StreamSpec == Stream!Spec

\* When network, loops and source keep pace, ARQ is fast enough: no sequence is
\* given up although MaxLosses datagrams, retransmissions and NACKs included,
\* were lost.
NothingLost == stats.lost = 0

\* Payload x is at or after the receiver's anchor and a later one is buffered.
Behind(x) ==
  \E i \in DOMAIN ring :
    /\ ring[i].filled /\ ring[i].payload > x
    /\ Gap(anchor.seq, ring[i].seq) >= ring[i].payload - x

\* A hole a later payload has revealed is filled and played out in the end.
HolesFilled ==
  \A x \in 1 .. MaxPushes - 1 : Behind(x) ~> \E i \in DOMAIN log : log[i].payload = x

\* The sender's own source time of payload x, while its history has it.
SourceOf(x) == {h.src : h \in {history[i] : i \in {j \in DOMAIN history :
                                  history[j].filled /\ history[j].payload = x}}}

\* Although sequence and timestamp wrap on the wire, buffered packets keep the
\* spacing the sender gave them, up to the rounding of the two conversions, and
\* a copy in transit of a buffered packet will be decoded to the sequence and
\* source time of that packet, on which the duplicate test rests.
DecodedFaithfully ==
  /\ \A i, j \in {k \in DOMAIN ring : ring[k].filled} :
       \A a \in SourceOf(ring[i].payload), b \in SourceOf(ring[j].payload) :
         (ring[i].src - ring[j].src) - (a - b)
           \in -(2 * NtpPerTick) .. 2 * NtpPerTick
  /\ \A m \in media, i \in DOMAIN ring :
       ring[i].filled /\ ring[i].payload = m.payload =>
         /\ DecodedSeq(dec, WireSeq(m.seq)) = ring[i].seq
         /\ DecodedSource(dec, WireSeq(m.seq), WireTs(m.src)) = ring[i].src

=============================================================================
