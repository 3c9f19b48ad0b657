# A formal model of ristgo

ristgo is a RIST media transport in Go. A sending flow numbers and stamps
payloads, keeps a retransmit history and answers NACKs. A receiving flow
reorders, removes duplicates, asks for what is missing and hands payloads out in
order, each a fixed time after the source sent it. This directory holds TLA+
modules translated from that code, TLC runs that check them on small instances,
and TLAPS proofs that hold for every instance.

## The system

| Part | State | Operations | What is hard about it |
|---|---|---|---|
| `internal/flow` receiver | ring, cursors `deliverNext`, `highest`, `lastFound`, missing queue, source-clock offset, armed flags, recovery buffer | `Feed`, `HandleTimer`, `Tick`, `FeedFeedback`, `SetSenderMaxBuffer` | circular arithmetic, a ring that is lapped, flags that shadow the host's timers, a buffer resized under waiting packets |
| `internal/flow` sender | history ring, `nextSeq`, bitrate averages | `PushApp`, `PushAppBlock`, NACK service, echo timer | slot reuse, retry spacing under a moving RTT, sequences chosen by a relay |
| `internal/rtt`, `seq`, `clock` | EWMA; pure functions | | clamps, wraps, rounding |
| `internal/session` codec | decoder references | encode, decode, widen | 16-bit sequences and 32-bit timestamps that wrap |
| `internal/session` loop | timer map, read and write channels, authentication gate, peer liveness | one `select` iteration per input, then `drain` and `rearm` | one goroutine owns the flow; Read, Write and Close run on others |
| delivery path | open fragment run, held half of a split pair, read queue | `deliverFragment`, `Merger.Deliver`, `queueDelivery` | losses inside a run; overflow ends the session |
| `internal/bonding`, `session/bonded.go` | paths, last-seen instants, weights | observe, select, add, remove | stale liveness, rotation credit |
| `session/multi.go` | map of flows, accept channel | `flowFor`, `retire`, `Accept`, `Close` | retirement races re-creation |
| `internal/eap`, `srp`, `crypto`, `dtls` | handshake states, keys, nonces, replay window | one per frame or record | lost frames, re-authentication, key changes in flight |
| `internal/fec` | row and column groups, decoder window | push media, push FEC | iterative recovery, eviction |
| `internal/adapt`, `npd`, `lpc`, `rtcp`, `rtp`, `adv`, `gre`, `wire`, `socket` | little or none | conversions and I/O | byte layout |

The properties that make each part correct: the flow hands out an ordered stream
with its gaps flagged, asks for every hole in time and never sleeps on a
deliverable packet; the sender repeats what it first sent; the codec's widening
inverts its narrowing; the delivery path never joins pieces of different
payloads; bonding never routes to a path that is gone; `MultiReceiver` has one
session per key; authentication gates every byte of media; FEC recovers only what
was sent. Of these the flow and the Simple-profile codec are modelled so far; the
`components` of `PROJECT.json` list the others with what is planned for them.

## Modules

| Module | Models | How its state and actions correspond to the code |
|---|---|---|
| `SeqNum` | `internal/seq` | circular numbers over a space of `2 * HalfSpace` |
| `Clock` | `internal/clock/ntp.go` | local ticks to and from NTP units, the reverse direction rounded |
| `Rtt` | `internal/rtt` | the estimator as a record; both clamps |
| `FlowReceiver` | `flow/receiver.go`, the receiver half of `flow/flow.go`, the session's timer map | one action per entry point |
| `FlowSender` | `flow/sender.go`, `flow/congestion.go` | one action per entry point |
| `Codec` | `session/codec.go` | narrowing, widening, `mediaDecoder` |
| `OrderedStream` | what a flow promises | abstract: push, and deliver any later payload with its gap flagged |
| `FlowARQ` | a sending and a receiving session | both flows, both codecs, a network that loses, delays, repeats and reorders |
| `MCFlowReceiver`, `MCFlowSender`, `MCFlowARQ` | | the instances TLC checks |
| `SeqNumProofs`, `FlowReceiverTypes`, `FlowReceiverProofs` | | theorems |

**Atomicity.** The session's loop goroutine owns the flow and handles one input
at a time, so an entry point is one atomic action, with one exception: the
`for` loop of `deliverDue`. Each of its iterations is a `DeliverDue` step, and
the variable `job` says which call is inside the loop. No other action is
enabled until the loop returns (`job = "idle"`), so the iterations are not
interleaved with inputs. This keeps the scan free of recursion, and the
invariants are checked between iterations too.

**Timers.** `timers` is the session's map from timer to deadline (`setTimer`,
`clearTimer`). `playoutArmed`, `playoutDeadline` and `nackArmed` are the flow's
own idea of it. `fireTimers` fires due timers earliest first (`Due`). Timers may
fire arbitrarily late, because a Go loop may be busy or descheduled.

**History variables.** `log` lists the deliveries since the flow was anchored,
with the position of each, and `anchor` is where it was anchored. The field `nth`
of a media packet counts the retransmissions of its slot. No action reads them.

**Abstractions.** Payloads are opaque. Byte counters, inter-packet-spacing
statistics, the per-path bits of a slot and `lastPath` are left out: no decision
reads them. The floating-point loss modifier of the auto-scaler is an integer
percentage and the NACK tokens are integers. The sender's bitrate averages appear
as one Boolean per NACK pass, since they do not move within a pass
(`bitrateEWMA.feed` runs its window test at the start of it); any value is
allowed unless congestion control is off. `SetRTTMultiplier` is the constant
`RTTMultiplier`. A service pass takes the requested sequences in the order of the
request, which the model leaves open. `Tick` is an action of `FlowReceiver` (the
code promises it is always safe) and not of `FlowARQ` (no host calls it).

## Runs

Deadlock checking is off in every run: each behaviour ends when the bounded
clock and the bounded inputs are used up.

| Run | Question | Bounds |
|---|---|---|
| `receiver` | With a ring nothing laps: types (`RTypeOK`); the playout timer is never later than the first buffered packet (`NeverOverslept`); each hole is queued for recovery (`HolesTracked`); a packet leaves the ring only by delivery, replacement or a flow change (`LeavesByDelivery`); everything buffered comes out (`Drains`) | 4 feeds out of 8 packets: a sequence wrap, a source-clock wrap, equal source times, a retransmission, another flow id; source timing with recovery and arrival timing without |
| `receiver_lap` | The invariants of the proofs where they are hardest: `BufferedInWindow`, `PlayoutNeverStalls`, `NacksNeverStall`, `MissingBounded`, `Accounting`, `InOrderPlayout` | a two-slot ring, eight sequence numbers, cap 0 on the missing queue, one NACK token, both wire framings, a packet of another flow id, one `Tick` |
| `receiver_scale` | The buffer stays in its window (`BufferWindow`) and no waiting packet's deadline moves (`DeadlineFixed`) | sender maxima below, inside and above the window; round trips of -1 and 60; 3 peer messages |
| `receiver_skip` | Expected violation, below | as `receiver_lap` |
| `sender` | Only a sequence the NACK named is resent, though its slot may have been reused (`ResendsOnlyAsked`); a retransmission repeats the original, payload and source time (`RetransmitsOriginal`); retries keep their distance, two in one instant included (`RetriesSpaced`); the newest packets can be resent (`OwnHistoryRetained`); types | 3 payloads over a two-slot history and a sequence wrap, one relayed sequence, any 3 NACKs, one RTT sample |
| `sender_collide` | Expected violation, below | two relayed sequences |
| `arq_timely` | When everything keeps pace and two datagrams are lost, media, retransmissions or NACKs, no sequence between two that arrived is given up at playout (`NothingLost`), each hole a later payload reveals is filled in the end (`HolesFilled`), and what the wire narrowed is restored (`DecodedFaithfully`) | 3 payloads, 8 wire sequences of 32, 16 wire timestamps, delay at most 1 tick, buffer of 10 |
| `arq_network` | The composition implements `OrderedStream` (`StreamSpec`) | 4 payloads, one loss, one duplicate, any delay and order |

Bounds are chosen so that each branch is taken: a space of 8 or 32 numbers wraps
within four packets, a ring of 2 is lapped by three, and the instants let each
timer be early, on time and late. Every action and every disjunct of the
next-state relations fires in some passing run. Every property has a mutant, a
plausible bug of a mapped definition, under which TLC finds the property
violated; the mutants stand before the definitions they alter.

`NeverOverslept`, `HolesTracked` and `LeavesByDelivery` are checked where the
ring is not lapped. In a lapped ring a newer packet may overwrite a buffered one,
and the armed deadline may belong to a packet that is gone. `HolesTracked`
supposes that the queue's cap does not truncate a gap, and says nothing once an
entry was abandoned. `NothingLost` and `HolesFilled` are about holes: a packet
lost before the first that arrives, or after the last, is never missed by the
receiver and so never asked for.

**Fairness.** `receiver` assumes that the loop goroutine keeps running and the
clock advances: while something is due or time can pass, such a step happens.
`arq_timely` and `arq_network` assume only that the system as a whole does not
stop while it is busy. Both are written with an explicit guard, `Busy`. Go's
scheduler and the host timer justify them: a loop iteration is never blocked,
and `rearm` sets the host timer to the earliest deadline after each input. The
network owes no delivery in `arq_network`. In `arq_timely` its promptness is the
premise `Timely`.

**Two disagreements between comment and code.** Neither is a fault in ordinary
use.

- `receiver_skip`: the comment of `deliverDue` (`receiver.go:895`) says a hole is
  skipped only when the next buffered packet is itself due. A ring that was
  lapped is also skipped, a ring span at a time, with nothing due
  (`receiver.go:943`). In the run's trace the skipped sequences are already too
  late by their source time; nothing in the code makes sure of that.
- `sender_collide`: the comments of `pushAppBlock` (`sender.go:92`, `114`) say the
  automatic counter is advanced past an explicit sequence so that a later send
  cannot collide. It is *set* to its successor (`sender.go:121`), so explicit 7,
  then explicit 6, then an automatic send yields 7 twice.

## Proofs

All theorems are about `RSpec`, the receiver with any packets, samples, maxima
and instants. They assume only what the `ASSUME`s state: the ring has at least two
slots and at most half the sequence space (`deriveRingSize` caps it at 2^21, the
space is 2^32), `BufferMin <= BufferMax`, and the constants have their types.

| Theorem | States |
|---|---|
| `LessTotal`, `AddMod` | circular order is total, ambiguous only at the antipode; addition is modular |
| `TypeCorrect` | `[]RTypeOK` |
| `WindowSafe` | `[]BufferedInWindow` |
| `DeadlineNeverMoves` | `DeadlineFixed` |
| `PlayoutTimerPending`, `NackTimerPending` | `[]PlayoutNeverStalls`, `[]NacksNeverStall` |
| `BufferStaysInWindow`, `MissingQueueBounded` | `[]BufferWindow`, `[]MissingBounded` |
| `EverySequenceAccounted`, `PlayoutInOrder` | `[]Accounting`, `[]InOrderPlayout` |

The argument is layered. `TypeInv` adds to the types that losses counted at the
anchor never exceed those counted now, which makes positions natural numbers.
`WindowInv` adds `BufferedInWindow`, that an unstarted receiver has an empty ring,
and that the playout loop runs only on a started one. The heart is the lemma
`WindowMoves`: when the cursor moves n sequences and their slots are cleared, what
remains is still ahead of it and less than half the space away. That is why no
comparison in `deliverDue` is ambiguous. `PlayoutInv` extends the timer
invariant to the moment when `Tick` has left the playout loop and not yet
processed NACKs. `NackInv` and `ScaleInv` need only types, and for the buffer
that an accepted sender maximum is at least the window's lower end; without it
the final clamp to the sender's maximum would leave the window. `OrderInv` adds
that the pending discontinuity flag is up exactly when something was given up
since the newest delivery, without which the flag on the next delivery could not
be shown right.

Only model-checked: liveness (`Drains`, `HolesFilled`), the refinement of
`OrderedStream`, the sender, the codec, and the three receiver properties that
need an unlapped ring. Liveness and `ENABLED` are outside the prover's reach.

## Not modelled, and the plan

1. Delivery path and the application's calls: fragment reassembly, split and
   merge, the read queue with its overflow, Read, Write and Close against the
   loop; composed with the flow's deliveries, refining a stream of whole payloads.
2. The session around the flow: peer liveness, keepalives, caller rebind, the
   EAP state machines of both sides with lost frames, the gate they control and
   re-authentication with its deadline.
3. `MultiReceiver` and bonding: creation, retirement and the accept backlog; path
   liveness, weighted rotation, NACK routing, adding and removing paths.
4. FEC recovery, the DTLS replay window and handshake flights, PSK nonce
   rotation, as small machines with an abstract specification each.
5. Proofs: the sender's history and retry spacing, the codec's widening, the
   replay window, the safety part of the refinement of `OrderedStream`.

Left out for good: byte layouts, ciphers and SRP arithmetic, operating-system
I/O, configuration parsing, statistics export, the simulator and the command-line
tools. In `FlowARQ` the echo timers of both sides run and every echo response is
lost, so the estimates keep their cold-start value; measured round trips are
exercised in `receiver_scale` and `sender`.
The hazard at `session.go:1243` (`highestSent` when a relay starts in the upper
half of the sequence space) awaits the reflector.
