----------------------------- MODULE FlowSender -----------------------------
(***************************************************************************)
(* The sender half of the flow core (internal/flow/sender.go): sequence    *)
(* assignment, the retransmit history ring, and the gates a NACKed         *)
(* sequence passes before it is sent again.                                *)
(***************************************************************************)
EXTENDS SeqNum, Clock, Rtt, FiniteSets

CONSTANTS
  HistorySize,      \* len(sender.ring), a power of two
  StartSeq,         \* Config.StartSeq
  MaxRetries,       \* Config.MaxRetries
  MaxNacksPerLoop,  \* retransmissions in one service pass
  Congestion,       \* Config.CongestionControl: "off", "normal", "aggressive"
  NoRecovery,       \* Config.NoRecovery
  EchoInterval,     \* rttEchoInterval
  Payloads          \* application payloads

ASSUME SenderAssumption ==
  /\ HistorySize \in Nat \ {0} /\ StartSeq \in SeqNums
  /\ MaxRetries \in Nat /\ MaxNacksPerLoop \in Nat \ {0}
  /\ Congestion \in {"off", "normal", "aggressive"} /\ NoRecovery \in BOOLEAN
  /\ EchoInterval \in Nat \ {0}
  /\ Payloads # {}

VARIABLES
  now,        \* the local clock
  history,    \* senderState.ring
  nextSeq,    \* senderState.nextSeq
  sending,    \* senderState.started
  gateEst,    \* the sender's rtt.Estimator
  echoAt,     \* deadline of its TimerRttEcho, or NoEcho
  media       \* the media packets emitted and still in transit

svars == <<now, history, nextSeq, sending, gateEst, echoAt, media>>

NoEcho == -1

HistorySlots == [filled : BOOLEAN, seq : SeqNums, src : Nat, payload : Payloads,
                 transmitCount : Nat, retried : BOOLEAN, lastRetry : Nat]

UnusedSlot == [filled |-> FALSE, seq |-> 0, src |-> 0,
               payload |-> CHOOSE x \in Payloads : TRUE,
               transmitCount |-> 0, retried |-> FALSE, lastRetry |-> 0]

\* Mutant: the ring mask is off by one.
HistoryIndexShort(s) == s % (HistorySize - 1)

HistoryIndex(s) == s % HistorySize

\* A packet handed to the codec, with the instant it was; its SSRC is the
\* flow's own.  It is the nth retransmission, or with 0 the first transmission:
\* a record of the model's, not on the wire, that tells two copies of one
\* instant apart.
Media(s, src, x, nth) ==
  [seq |-> s, src |-> src, payload |-> x, rtx |-> nth > 0, nth |-> nth, at |-> now]

\* pushAppBlock: sequence s is the next one, or the one a relay supplies; src
\* is derived from the clock, or supplied.  Without recovery nothing is kept.
PushAppBlock(s, src, x) ==
  /\ sending' = TRUE
  /\ echoAt' = IF sending \/ NoRecovery THEN echoAt ELSE now + EchoInterval
  /\ nextSeq' = Add(s, 1)
  /\ history' = IF NoRecovery THEN history
                ELSE [history EXCEPT ![HistoryIndex(s)] =
                        [UnusedSlot EXCEPT !.filled = TRUE, !.seq = s,
                                           !.src = src, !.payload = x]]
  /\ media' = media \union {Media(s, src, x, 0)}
  /\ UNCHANGED <<now, gateEst>>

PushApp(x) == PushAppBlock(nextSeq, NTPTimeFromTimestamp(now), x)

-----------------------------------------------------------------------------
(* serviceNack.                                                            *)

\* Mutant: the slot's sequence is not compared.
RetainedAny(s) == history[HistoryIndex(s)].filled

Retained(s) == history[HistoryIndex(s)].filled /\ history[HistoryIndex(s)].seq = s

\* Mutant: the raw sample, not clamped.
RetryGateRaw == gateEst.lastSample

\* The spacing between two retransmissions of one packet.
RetryGate == IF Congestion = "aggressive" THEN 2 * LastClamped(gateEst)
             ELSE LastClamped(gateEst)

Suppressed(s) == LET h == history[HistoryIndex(s)]
                 IN  h.retried /\ now - h.lastRetry < RetryGate

Exhausted(s) == history[HistoryIndex(s)].transmitCount >= MaxRetries

\* What the bandwidth gate can say: anything once the bitrates are compared.
OverBudgetVerdicts == IF Congestion = "off" THEN {FALSE} ELSE BOOLEAN

\* Mutant: a retransmission is stamped with the instant it leaves.
ResendStamped(h) ==
  Media(h.seq, NTPTimeFromTimestamp(now), h.payload, h.transmitCount + 1)

\* The retransmission of a slot: everything in it is the slot's.
Resend(h) == Media(h.seq, h.src, h.payload, h.transmitCount + 1)

\* The requested sequences no gate refuses.  The bitrate averages do not move
\* within one pass, so the bandwidth gate refuses all of it or none.
Resendable(requested, overBudget) ==
  {s \in requested : Retained(s) /\ ~Suppressed(s) /\ ~overBudget /\ ~Exhausted(s)}

\* The pass stops after MaxNacksPerLoop retransmissions; which ones come first
\* is the order of the request.
ServiceNack(requested, overBudget) ==
  \E resent \in SUBSET Resendable(requested, overBudget) :
    /\ overBudget \in OverBudgetVerdicts
    /\ \/ resent = Resendable(requested, overBudget)
       \/ Cardinality(resent) = MaxNacksPerLoop
    /\ Cardinality(resent) <= MaxNacksPerLoop
    /\ history' = [i \in 0 .. HistorySize - 1 |->
                    IF \E s \in resent : HistoryIndex(s) = i
                    THEN [history[i] EXCEPT !.lastRetry = now, !.retried = TRUE,
                                            !.transmitCount = @ + 1]
                    ELSE history[i]]
    /\ media' = media \union {Resend(history[HistoryIndex(s)]) : s \in resent}
    /\ UNCHANGED <<now, nextSeq, sending, gateEst, echoAt>>

\* FeedFeedback(RttEchoResponse).
ObserveEcho(sample) ==
  /\ gateEst' = Observe(gateEst, sample)
  /\ UNCHANGED <<now, history, nextSeq, sending, echoAt, media>>

\* senderHandleTimer(TimerRttEcho).
EchoTimer ==
  /\ echoAt # NoEcho /\ echoAt <= now
  /\ echoAt' = IF sending THEN now + EchoInterval ELSE NoEcho
  /\ UNCHANGED <<now, history, nextSeq, sending, gateEst, media>>

\* New(RoleSender, cfg).
SInit ==
  /\ now = 0
  /\ history = [i \in 0 .. HistorySize - 1 |-> UnusedSlot]
  /\ nextSeq = StartSeq
  /\ sending = FALSE
  /\ gateEst = NewEstimator
  /\ echoAt = NoEcho
  /\ media = {}

-----------------------------------------------------------------------------
(* Properties.                                                             *)

\* Types of the sender's state.
STypeOK ==
  /\ now \in Nat
  /\ history \in [0 .. HistorySize - 1 -> HistorySlots]
  /\ nextSeq \in SeqNums /\ sending \in BOOLEAN
  /\ gateEst \in Estimators
  /\ echoAt \in Int
  /\ media \subseteq [seq : SeqNums, src : Nat, payload : Payloads,
                      rtx : BOOLEAN, nth : Nat, at : Nat]

\* Every retransmission repeats the newest first transmission of its sequence,
\* payload and source time unchanged, although slots are reused and a relay may
\* send a sequence again.
RetransmitsOriginal ==
  \A m \in media : m.rtx =>
    \E f \in media :
      /\ ~f.rtx /\ f.seq = m.seq /\ f.src = m.src /\ f.payload = m.payload
      /\ \A g \in media : ~g.rtx /\ g.seq = m.seq /\ g.at < m.at => g.at <= f.at

\* Two retransmissions of one packet are never closer than the smallest round
\* trip, two of one instant included, whatever NACKs arrive and however the
\* estimate moves between them.
RetriesSpaced ==
  \A m, n \in media :
    /\ m.rtx /\ n.rtx /\ m.payload = n.payload
    /\ m.nth < n.nth
    => n.at - m.at >= EffectiveRTTMin

\* Until a relay chooses sequences itself, the newest HistorySize sequences can
\* be retransmitted, across the wrap of the sequence space.
RecentRetained(n) ==
  \A k \in 1 .. HistorySize : k <= n => Retained(Add(nextSeq, -k))

=============================================================================
