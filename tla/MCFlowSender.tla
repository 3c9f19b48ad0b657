---------------------------- MODULE MCFlowSender ----------------------------
(***************************************************************************)
(* FlowSender for TLC: a few payloads around the wrap of a small sequence  *)
(* space, any NACKs, and nothing leaves the network.                       *)
(***************************************************************************)
EXTENDS FlowSender

CONSTANTS RelaySeqs,   \* sequences a relay supplies
          Samples,     \* measured round trips
          MaxNackeds,  \* NACK requests received
          MaxEchoes,   \* round trips measured
          Horizon      \* last instant of a run

VARIABLES pushes, relayed, nacked, echoes,
          asked        \* the sequences a NACK named in the last step

mcvars == <<svars, pushes, relayed, nacked, echoes, asked>>

MCPayloads == 1 .. 3

MCInit == SInit /\ pushes = 0 /\ relayed = {} /\ nacked = 0 /\ echoes = 0 /\ asked = {}

PushNext ==
  /\ pushes < Cardinality(Payloads)
  /\ PushApp(pushes + 1)
  /\ pushes' = pushes + 1
  /\ asked' = {}
  /\ UNCHANGED <<relayed, nacked, echoes>>

\* A relay passes on a block with the upstream sequence and source time.
Relay ==
  /\ pushes < Cardinality(Payloads)
  /\ \E s \in RelaySeqs :
       /\ PushAppBlock(s, NTPTimeFromTimestamp(now) + s, pushes + 1)
       /\ relayed' = relayed \union {pushes + 1}
  /\ pushes' = pushes + 1
  /\ asked' = {}
  /\ UNCHANGED <<nacked, echoes>>

Nack ==
  /\ nacked < MaxNackeds
  /\ \E requested \in SUBSET {m.seq : m \in media}, over \in BOOLEAN :
       /\ requested # {} /\ ServiceNack(requested, over)
       /\ asked' = requested
  /\ nacked' = nacked + 1
  /\ UNCHANGED <<pushes, relayed, echoes>>

Echo ==
  /\ \/ /\ echoes < MaxEchoes /\ echoes' = echoes + 1
        /\ \E sample \in Samples : ObserveEcho(sample)
     \/ EchoTimer /\ UNCHANGED echoes
  /\ asked' = {}
  /\ UNCHANGED <<pushes, relayed, nacked>>

Tock ==
  /\ now < Horizon /\ now' = now + 1 /\ asked' = {}
  /\ UNCHANGED <<history, nextSeq, sending, gateEst, echoAt, media, pushes,
                 relayed, nacked, echoes>>

MCNext == PushNext \/ Relay \/ Nack \/ Echo \/ Tock

MCSpec == MCInit /\ [][MCNext]_mcvars

\* RecentRetained, while every sequence was the sender's own.
OwnHistoryRetained == relayed = {} /\ ~NoRecovery => RecentRetained(pushes)

\* Every retransmission answers a NACK for its own sequence: serviceNack resends
\* nothing in place of a sequence whose slot was reused, and nothing leaves
\* unasked.
ResendsOnlyAsked ==
  [][\A m \in media' \ media : m.rtx => m.seq \in asked']_mcvars

\* A sequence the sender assigns itself never repeats one a relay supplied
\* before, so the two cannot be taken for copies of one packet.
AutoSeqNeverCollides ==
  \A f, g \in media :
    /\ ~f.rtx /\ ~g.rtx /\ f.payload < g.payload
    /\ f.payload \in relayed /\ g.payload \notin relayed
    => f.seq # g.seq

=============================================================================
