# RET in TLA+

RET is a delay-based congestion control for RDMA. The repository holds two
implementations of it:

* `src/test-bed-rswift`: a client and a server over InfiniBand verbs, with the
  controller (`rdmacc`) in user space, one thread per flow;
* `src/simulation-ret`: an ns-3 tree with a datacenter model (switch buffers,
  PFC, DCQCN, link-level go-back-N) and the RET sender and receiver as
  applications.

This directory models the parts whose correctness depends on interleaving,
loss, reordering or unsigned accounting, checks the models with TLC and proves
what matters most for every value of the constants with TLAPS.

## The system

| Component | State | Operations | What makes it correct | Module |
|---|---|---|---|---|
| Client, sender thread (`rc_client.cpp:29`, `rc_pingpong.hpp:742`) | next sequence number, local copy of the window | read the window, wait or pace, post a burst, record each segment | never more out than the window; each slot of the ring used by one segment | RSwiftClient |
| Client, completion thread (`rc_client.cpp:111`) | entries polled, segments left | poll, wait for the slot, uncount, measure, update the window, free the slot | each RTT from its own post time; no busy wait is endless; ends exactly when all is acknowledged | RSwiftClient |
| Client, shared state | atomic in-flight counter, 64 slots of (available, post time), window, begin flag | no lock | counter and ring agree up to half-done updates | RSwiftClient |
| Controller (`rdmacc.cpp`) | window, filtered delay, last decrease | `receive_ack` | window stays within its bounds; one decrease per RTT | partly: RSwiftClient |
| Server (`rc_server.cpp`) | receives posted, segments left | poll, post again, return at an error | its receive queue stays full; ends with its client | TestBed |
| Scripts (`multy_flow_*.py`), set-up | processes started, signal sent, output read | launch, signal, wait | the measurement ends | partly: TestBed |
| NIC link layer (`qbb-net-device.cc`) | queue and sending buffer per flow, milestones, timer, expected number | send, retransmit, NACK, ACK | nothing discarded too early; no idle NIC with work; every packet received | L2GoBackN |
| Switch buffers (`broadcom-node.cc`) | ten unsigned byte counters | admit, charge, release | counters match what is stored, for ever | BroadcomMMU |
| PFC (`qbb-net-device.cc:1084`) | paused classes, resume timers | pause, resume, recheck | no loss of a lossless class; every pause ends | PriorityFlowControl |
| Egress queue (`broadcom-egress-queue.cc`) | queues, byte counts, round-robin position, guarantees, sending buffers | enqueue or refuse, three ways to dequeue, acknowledge, recover | counts match the queues; nobody is passed over for long; going back keeps the order and what was not sent | BEgressQueue |
| DCQCN (`qbb-net-device.cc:1252-1599`) | rates, alpha, stages per flow | CNP, byte, timer and alpha events | rate within its bounds, stages as their counters say, recovery | partly: Dcqcn |
| RET sender (`timely-sender.cc`) | window, sent and acknowledged numbers, pacing event | send a burst, pace, acknowledgement, stop | never more out than the window; never without its next event | RetSender |
| RET receiver, node (`timely-receiver.cc`, `node.cc`) | acknowledgements sent, shared target delay, marks in a row, timer | receive, raise, lower | target bounded and never stuck | TargetDelay, RetSender |

Interactions. A client thread talks to the other only through the shared state;
the NIC connects them (a posted request becomes a completion). The scripts see
processes, signals and pipes. In the simulator everything is a callback of one
event queue: an application's `Send` enters the NIC, the NIC schedules
`TransmitComplete`, `m_nextSend` and `m_retransmit`, the channel delivers to
`Receive` of the peer, a switch calls `BroadcomNode` when a packet enters a
queue and when it leaves. The target delay travels in the acknowledgement from
the receiving node to the sender.

What is hard: the half-done updates of two unlocked threads; a completion that
overtakes the bookkeeping of its own post; answers that overtake each other or
get lost; timers that race answers; wake-ups that are never scheduled or whose
handle is overwritten; unsigned counters that are patched for packets of
different sizes; shares of a link among queues that come, pause and go back.
`PROJECT.json` lists each hazard at its line, with the properties about it or
the reason why there is none.

## Modules

Each component has a module with its state, one action per handler or step,
and its properties; the proofs about it are in `<module>_proofs`. A definition
that is called a mutant in its comment is a plausible bug, used to see that a
property notices it; no specification uses it.

### RSwiftClient (with MCRSwiftClient, SegmentStream)

One action is one access to shared memory. `pc[f]` names the next statement of
`cc_send_segments` / `pp_post_send` of flow `f`, `cpc` that of `cc_send_cqe`.

| Actions | Code |
|---|---|
| ReadWindow, CompareWindow, Pace, ReadInflight, ScanSlots | `rc_client.cpp:35-96`: three separate reads of window, counter, counter, then the slots |
| PostSend, PostSendFails, StampSlot, CountSegment, MarkSlotBusy | `rc_pingpong.hpp:767-785`, in program order; the sequence number advances with the last one |
| PollCq, EntryFailed, AwaitSlotBusy, UncountSegment, ReceiveAck, ClampWindow, ReleaseSlot | `rc_client.cpp:148-199`; the window is stored twice by `receive_ack` (update, clamp), and a sender may read it in between |
| SigHandler, JoinAll | `rc_client.cpp:230`, `:458-466` |
| Complete, ConnectionFails | the NIC (external): requests complete in order, or all the rest fail |

Abstractions. Times are sequence numbers (`slotTime` remembers *which* segment's
post time a slot holds). Windows are whole numbers of `1/Unit` segment. The
controller may leave any window from a fifth of the old one (its largest
decrease is by 80 %) to one additive step above it, and is then clamped; the
delay computation is not modelled. The memory model is sequential consistency:
the Makefile builds without optimisation for x86, and every racing pair is one
writer and one reader of an aligned word.

`SegmentStream` is what the client promises for a flow: segments are posted one
by one, at most `Limit` unacknowledged, each acknowledged once, and in the end
all of them. The refinement mapping counts a segment as posted when it is
counted and as acknowledged when it is uncounted.

### TestBed

The processes around the client: `LaunchClient`, `KeyPressed`, `Kill`, `Wait`
are the loop of `multy_flow_client.py`, `LaunchServer`, `WaitServer` that of
`multy_flow_server.py`. A client is *loading* until its signal handler is
installed, *connecting* until the exchange of addresses (`Connect`, one step;
refused when nobody listens) and *ready* until `ClientEnds`; what it does in
between is in RSwiftClient, here it is `Arrive` (a segment uses a receive of the
server) and `Write` (a line into the pipe the script does not read yet). `Poll`
is one round of `cc_recv_cqe`: for each of `ne` completions it posts `ne`
receives, up to the depth of the queue, and it ends when its count is exactly 0.
`PollFails` and `CompletionFails` are its two error returns (`rc_server.cpp:25`,
`:33`): the thread returns at once, at a failed completion without counting the
poll, and `main` prints that the server is complete and closes the queue pair.
After that, or when its count ends a server early, the segments of its client
complete with an error, so the client spins for ever (`rc_client.cpp:160`): in
the model `Arrive` and `ClientEnds` stop. A connection that fails while the
server runs is in RSwiftClient (`ConnectionFails`), not here.
A client may be signalled before its handler is there, may come before its
server, may print more than a pipe holds, and sends any number of segments
(`Segments`, `Iters` are separate arguments of two command lines).

### L2GoBackN

One flow between two NICs of the simulator, with QCN enabled (a queue per flow).
The queue of the flow is the interval `nxt .. hi-1` of packets and its sending
buffer `lo .. hi-1`, because both are filled and emptied in order. `Send`,
`TransmitComplete`, `NextSendFires`, `Retransmit`, `ReceiveNack`, `ReceiveAck`
are the callbacks; each ends, where the code does, in the operator
`DequeueAndTransmit` applied to the state the handler leaves. `ReceiveData` is
`ReceiverCheckSeq` with the answer it leads to. Time is abstracted to whether
the flow's next time is now, soon (a pacing gap) or far (32767 s). PFC pauses
do not occur. A NACK may overtake ACKs, packets and answers may be lost.

### BEgressQueue

The transmit queue of a device, in the three ways it is used (`mode`): per flow
on a NIC with QCN (`DequeueQCN`), per priority on a NIC (`DequeueNIC`), per
priority on a switch (`DequeueRR`). `Enqueue` is `DoEnqueue` with the flow table
of `QbbNetDevice::Send`, `Dequeue` picks a queue with `Chosen` and updates the
counts, the round-robin position and the guarantee. `Hold` and `Release` are
pauses and next times of flows. On a NIC with QCN, `Send` puts a packet into the
sending buffer of its flow (`Keep`), which drops its oldest packet when it is
full (`Kept`), and then into the queue, which may refuse it (`Enqueue`).
`RecoverQueue` is a NACK, which discards what it acknowledges, or the
retransmission timer: the queue is emptied and filled from the sending buffer.
`Acknowledge` discards any number of packets that were sent, whatever is in the
queue: after a go-back an ACK that was on its way takes packets from the buffer
whose copies the queue keeps. `unsent` and `refused` are history variables, of
the packets that were never sent and of the flows that miss one. In mode RR,
time passes (`Tick`) while a packet leaves or nothing can be sent. `skipped[i]`
is a history variable: the packets of others since queue `i` waits (`Waits`),
which it does when it may be served and, on a switch, is below its guarantee.

### BroadcomMMU

The byte counters of a switch with the exact unsigned arithmetic (modulo
`Word`), the three admission tests and the two patches for packets of different
sizes. `Admit` is the switch part of `QbbNetDevice::Send`, `DequeueAndTransmit`
that of the function of that name; which queue is served next is left open, so every
scheduler and every pattern of pauses is included. The queues remember the
ingress port and size of each packet (the packet's `FlowIdTag` and size).

### PriorityFlowControl

A switch with the peers of its ports. The module EXTENDS BroadcomMMU, and its
actions call `Admit` and `DequeueAndTransmit`. `QbbNetDevice::Send` of a switch
is three actions in a row, `Send` (admission), `SendTransmits` (the egress
device serves a queue if it can) and `SendChecks` (`CheckQueueFull`); `event`
keeps everything else out until it is done, as one callback of the simulator
does. `Recheck` is the timer of `CheckQueueFull` (one per egress device, ingress
port and class, while `m_pause_remote` is shared), `Transmit` is
`TransmitComplete`, and `PeerSend`, `ReceiveFrame`, `PauseFinish` are the peer.
Time is discrete: `Tick` waits until nothing is due. A frame may save up to
`FrameJitter` units on its way, because it waits for the packet that its device
is sending. Which thresholds apply is a choice of Init (`dynamicth`). The egress
devices are not paused themselves.

### Dcqcn

The reaction point for one flow. `CnmReceived` is `rpr_cnm_received`, `Transmit`
the byte counter in `DequeueAndTransmit` with the byte event it may lead to,
`TimerEvent` and `ResumeAlpha` the two timers. Stages 1 to 3 are fast recovery,
active and hyper increase (`FastRecovery`, `ActiveIncrease`, `HyperIncrease`,
`AdjustRates`); the byte and the timer event choose among them differently, as
the code does. Rates are whole numbers rounded as `DataRate` rounds them, alpha
is a multiple of `1/AlphaUnit`, the factor of the hyper increase is unsigned.
The three settings of the target's clamp are a choice of Init. Notifications
come at any time, more often than `CheckandSendQCN` sends them.

### RetSender and TargetDelay

`TargetDelay` is the state that all flows of a receiving node share: `PacketRead`
counts marks in a row and raises the target (`IncreaseEvent_f`), `DecreaseEvent`
is the timer that lowers it and that every change starts again, until 10 s.
The timer runs from the beginning, because `Node::Construct` starts it
(`node.cc:193`), so the target may fall before the first mark. `base` is a
history variable: the target when the count of marks was 0 last. RiseBounded
bounds the rise from there, not from the start: several runs of marks with
unmarked packets between them may raise the target to its ceiling.

`RetSender` EXTENDS it with one flow. `Send` is the function of that name, with
the window, the in-flight count and the pacing events that are pending as its
arguments; `SendEventFires`, `OrphanFires`, `Receive`, `StopApplication` are its
callers. An event whose handle is overwritten runs all the same, so `orphans`
counts such events. `HandleRead` is the receiver, `NodeEvent` the node. An
acknowledgement carries the receiver's count, not the number of the packet; the
sender's in-flight count is the unsigned difference. `Updated` are the windows
that `UpdateWindow_forfabric` can leave when a segment took a delay and the
target is known: at most an additive step more, at most two fifths less, or
unchanged within a round trip of the last decrease. The network may lose packets
and acknowledgements and the link layer may deliver a packet twice. Assertions
are those of an optimized build: not checked.

## Runs

| Run | Instance | Shows |
|---|---|---|
| client_safety | 2 flows x 3 segments, 2 slots, window up to 2 segments, 3 work requests, NIC may fail, flows symmetric | TypeOK, InflightMatchesRing, OwnPostTime, SlotsDistinct, BurstFitsWindow, CleanExit: no interleaving makes the ring, the counter and the queue pair disagree |
| client_live | 2 flows x 3 segments, 2 slots, window up to 1 segment, 1 work request | WindowRespected, StreamSafety, StreamService, EntryHandled, Terminates: the client implements SegmentStream and exits |
| testbed | 2 pairs, 3 segments, receive queue of 2, pipe of 1 line, up to 2 lines, servers may fail | ServerCounts, ScriptsEnd |
| gbn_wait | 6 packets, chunk 3, L2WaitForAck, 2 data losses | TypeOK, StopsAndWaits, IdleNicWakesUp, AllReceived |
| gbn_stream | 5 packets, chunk 3, with and without L2BackToZero, paced, 2 data losses, 1 lost answer | SenderKeepsNeeded, AnswersServed: no handler meets an empty buffer |
| egress | 3 priorities, or 2 flows and the control queue; sizes 1 and 2, queues for 3 packets, buffers of 2, one go-back | BytesMatch, ServedInTurn, GuaranteeServes, QueueMatchesBuffer |
| mmu | 2 ports, 2 priority groups in 2 pools, sizes 2 and 4 around a cell of 3 | BufferTypes, CountersMatch, HeadroomWithinPG |
| pfc | 1 source, 2 egress devices, 1 class, pause of 4 units, 1 unit on the links, static and dynamic thresholds | PausedWhileOver, OverrunBounded, NoLoss, PauseEnds |
| dcqcn | link rate 24, minimal rate 2, threshold 2, 5 notifications | RateInBounds, StageMatches, OnlyCnpCuts, Recovers |
| ret | 5 segments, windows in thirds up to 2 segments, 1 loss, 1 double, target 2 to 5 | OutstandingFitsWindow, InFlightCounts, PacingGoesOn, RiseBounded, Completes, Decays |
| pfc_resume, ret_pacing | violations, see below | ResumeIsHeard, SendsWhenExpired |

### Bounds

*Client.* Two slots and three segments make the ring wrap; two flows make the
completion thread serve one while the other is half-way; three work requests for
four slots make a post fail. `Unit = 2` gives windows below one segment and
windows that are not whole. The window can be read above its maximum before it
is clamped.

*Test bed.* A receive queue of two with polls of up to two makes the server post
more than fits; three segments do not divide into polls of two; a pipe of one
line and up to two lines give outputs that fit and outputs that do not.

*gbn.* gbn_wait has two whole chunks of three packets, because the receiver
acknowledges whole chunks only and AllReceived is about those; gbn_stream has
five packets, a whole and an incomplete chunk. Two losses give a lost
retransmission. The buffer holds the flow (`BufferCap = 6`), so it never drops;
what happens beyond is outside of the claims. `MaxOnWire` bounds the packets on
the wire.

*egress.* Two flows and the control queue let the round robin grow while it
runs. `MaxBytes` lets at most three packets be queued, so every two queues meet
and packets are refused. A sending buffer of two packets (`MaxKept`, 8000 in the
code) is soon full and drops packets that were sent and packets that were not;
one go-back (`MaxRecovers`) happens with all, some or none of its packets sent,
and answers come before and after it. The proofs have no bound. A unit takes
`MinTx = 2` at its guaranteed bandwidth and 1 on the link, so that the
guarantees of two data priorities just fit; `MaxOwed` stops a priority that is
far ahead.

*mmu, pfc.* Sizes below and above the cell reach both branches and both patches,
and every limit can be hit; `Word = 64` (mmu) and 32 (pfc) is more than the
counters reach, and wraps at the first underflow as 2^32 does. In pfc, the
limits of the class, the port and the pool are all crossed, two egress devices
pause and resume the same class, and a pause of 4 is refreshed after 2 while a
frame takes up to 1. A group holds its limit of 2 and what comes in the 3 units
until the pause is heard; the headroom (5) and the buffer (18) are what
`EnoughRoom`, the assumption of the proof of NoLoss, asks for and no more. With
a refresh at the end of the pause both OverrunBounded and NoLoss fail. That
several ports share the buffer is left to the proof: two sources make a hundred
times as many states. NoLoss is claimed for static thresholds. With the dynamic
ones the limit of a group falls while others fill the buffer, so a group can be
over its limit again and again and keep the headroom of several bursts; with two
ports TLC then finds a loss. `mix/config.txt` chooses the dynamic thresholds, so
for that configuration nothing is claimed of drops; no comment in the code
promises their absence.

*dcqcn.* A threshold of 2 reaches every stage by bytes, by the timer and by
both; `MaxTarget = 60` lets the target run beyond ten times a cut rate, so that
it is brought down to an eighth; five notifications bring the rate to the
minimum. `MaxStage = 18` leaves enough timer events after the last notification
for the rate to come back from there.

*ret.* Windows in thirds of a segment up to two segments move across one segment
in both directions, which makes orphaned pacing events; five segments are more
than two windows; the delays 2 and 4 lie on both sides of most targets. `Run`
is 1 here and 5 in the code, so marks beyond the run occur.

### Fairness and deadlock

The client's liveness run assumes weak fairness of each thread, the start
signal and the NIC's completions: the threads are operating-system threads, and
a reliable connection that does not fail completes. With a failure the
completion thread returns (`rc_client.cpp:163`) and the senders spin for ever,
so Terminates is claimed without failures only. testbed assumes weak fairness of
every process and that somebody presses the key; ScriptsEnd states under which
conditions on the start and the output the scripts then end. gbn assumes weak
fairness of every scheduled event of the simulator and of the delivery of what is
not lost; losses are bounded by `DataLosses` and `BackLosses`. pfc assumes that
due events run, that time passes and that an egress device comes to each of its
queues (strong fairness of `Serve`): `DequeueRR` is a round robin once the
guaranteed bandwidths are satisfied, which the links of the experiments exceed.
PauseEnds is claimed for one data class. With two, the pauses of a whole port
(`broadcom-node.cc:289`) that one class triggers can keep the other paused for
ever. dcqcn assumes that the timer runs, and nothing of packets: a flow that
sends little recovers all the same. ret assumes that pending events run and that
what is not lost is delivered; Completes is claimed without losses and doubles,
because after one of them the in-flight count is wrong and the flow may stop.

`CHECK_DEADLOCK FALSE` is set for gbn, ret and testbed, which end (a finished
transfer or measurement has no event left), and for dcqcn, whose bounds on
stages and notifications end it.

### Disagreements between the code and its own words

| Run | What happens |
|---|---|
| pfc_resume | the frame that resumes a class names class 0 (`qbb-net-device.cc:1123`); the class waits for its timer |
| ret_pacing | an acknowledgement that lifts the window to one segment calls `Send` while the pacing event is running, against the assertion `NS_ASSERT(m_sendEvent.IsExpired())` (`timely-sender.cc:419`); the event later sends a second time |

OutstandingFitsWindow and Completes show that the second one is harmless in an
optimized build: the extra call sends nothing that does not fit the window.

While modelling, these were met too; the properties are stated around them:

* without L2WaitForAck, a NACK refills the queue of an idle NIC and does not
  start it (`qbb-net-device.cc:788-796`). IdleNicWakesUp is claimed for
  L2WaitForAck at line rate;
* the wake-up at 32767 s, scheduled while a flow waits for its ACK, keeps a later
  pacing gap from being scheduled (`:463`), so IdleNicWakesUp is not claimed for
  L2WaitForAck with a paced flow;
* after a lost ACK the timer resends the chunk for ever, because duplicates are
  not acknowledged (`:1643`): AllReceived is about the receiver, and gbn_wait
  loses data only;
* "Disable ack if equals to 0" (`:164`) acknowledges every packet (`:1609`);
* the guaranteed part of an egress queue wraps below zero
  (`broadcom-node.cc:253`). CountersMatch shows that this is harmless for what
  is derived from the shared counters: the sum is still right modulo the word;
* a message handed over while a NACK has refilled the queue starts an idle NIC
  only if the NIC does not wait, so IdleNicWakesUp allows for a packet that the
  rest of its message will start;
* `RecoverQueue` sets the byte counts of the queue and leaves the packet and
  byte counts of the base class `Queue` (`broadcom-egress-queue.cc:461-486`),
  so BytesMatch claims the packet count before the first go-back only;
* the guarantees of a switch are an order, not a share: a turn of the strict part
  moves the position of the round robin too (`broadcom-egress-queue.cc:212`), so
  a priority that is above its guarantee may be passed for long while others
  catch up. GuaranteeServes is about priorities below their guarantee;
* a packet that a full queue refuses stays in the sending buffer and is sent with
  the next go-back only (`qbb-net-device.cc:1037-1041`, where the result of
  `Enqueue` is dropped), so QueueMatchesBuffer claims nothing of its flow until
  then;
* a server that ends at an error says "server complete!!" like any other
  (`rc_server.cpp:271`), and its client never ends; ClientScriptEnds assumes that
  no server fails;
* the server posts the square of what it polled (`rc_server.cpp:32`) and ignores
  that most of these posts fail; ServerCounts shows that the queue ends up full.

## Proofs

The proofs hold for all values of the constants that satisfy the assumption of
the module (`ClientAssumption`, `DcqcnAssumption`, ...). Besides the types of
the constants, these say: `Word` is larger than what is counted (2^32 against
the ring, the flow or the stages); the largest window is at least one segment;
the minimal rate of DCQCN is even (100 Mb/s is) and below that of the link; the
start of the target delay is between its bounds; an unsigned byte counter of the
switch has room for the buffer, a cell and a packet per egress queue
(`MmuAssumption`: 9 MB against 2^32); a class resumes at most one byte above
where it pauses, and class 0 carries no data (`PfcAssumption`:
`broadcom-node.cc:89`, `flow.txt`).

Two theorems about flow control assume more, as named formulas of their module:

* `FramesInTime`: a pause frame reaches the peer before the check is repeated,
  `FrameDelay < PauseTime \div 2`. With a pause of 4 or more units and a frame that
  arrives in one, as in pfc, it holds; the code needs it as well, since a
  refresh that comes later than its pause ends leaves a gap in which the peer
  sends;
* `EnoughRoom`: all data classes are under flow control, the headroom of a group
  is at least `MostHeld`, the limit plus what comes until the pause is heard, and
  the buffer has that and one packet for each group of each port. With the code's
  limit of 40 packets and headroom of 100, a pause may take 60 packets to be
  heard, and 9 MB have room for 160 groups if it takes 12.

| Module | Theorems | Of |
|---|---|---|
| RSwiftClient_proofs | TypeCorrect, CounterCorrect, PostTimeCorrect, SlotsCorrect, WindowCorrect, BurstCorrect, ExitsClean, Implements | TypeOK, InflightMatchesRing, OwnPostTime, SlotsDistinct, WindowRespected, BurstFitsWindow, CleanExit, StreamSafety |
| RSwiftClient_proofs | SpinsBriefly, NothingToWaitFor | SpinEnds, NobodyWaits |
| PriorityFlowControl_proofs | MmuTypes, AccountsAreRight, HeadroomIsPart | BufferTypes, CountersMatch, HeadroomWithinPG |
| PriorityFlowControl_proofs | FlowHasTypes, OverStaysPaused, OverrunIsBounded, NothingLost, SwitchRefines | types of the module, PausedWhileOver, OverrunBounded, NoLoss, BufferSpec |
| PriorityFlowControl_proofs | TimersRun | PausesRunOut |
| L2GoBackN_proofs | HasTypes, KeepsNeeded, ServesAnswers, WaitsForAck, IdleWakes | TypeOK, SenderKeepsNeeded, AnswersServed, StopsAndWaits, IdleNicWakesUp |
| BEgressQueue_proofs | TurnsAreServed, GoBackKeepsOrder, BytesAreCounted, GuaranteesHold | ServedInTurn, QueueMatchesBuffer, BytesMatch, GuaranteeServes |
| RetSender_proofs | FitsWindow, CountsInFlight, KeepsPacing, FlowRises, TargetRises | OutstandingFitsWindow, InFlightCounts, PacingGoesOn, RiseBounded (with and without the sender) |
| RetSender_proofs | FlowGoesOn | NeverIdle |
| Dcqcn_proofs | BoundsHold, StagesMatch, CnpsCut | RateInBounds, StageMatches, OnlyCnpCuts |
| TestBed_proofs | CountsHold, CountsReachZero | ServerCounts, ServersEnd |

`NumberFacts` holds the lemmas they share: on products, quotients and
remainders, and on sums over finite sets and sequences, which the folds of the
community modules define. Few of these properties are inductive as they stand;
what the inductive invariants add is the reason why they hold.

**Client.** `IInv` adds what each thread may assume of the other:

* `SenderInv(f)`: what the sender of `f` knows at each statement: a burst fits
  the snapshot whatever the completion thread does meanwhile, because only it
  increments the counter; the slots of its burst are free, because only it takes
  them; a segment being recorded is the last one of `f` in the queue pair;
* `RequestInv(wr)`: a request whose segment has been recorded has a busy slot
  with its own post time;
* `EntryInv`: what the completion thread holds is the oldest request, and its
  slot is busy from the wait to the release.

CounterCorrect then counts the busy slots: each step changes the cardinality of
the set of busy slots by the same amount as the counter, up to the two flags of
half-done updates. WindowCorrect follows from BurstCorrect's argument and the
bound on the window before the clamp. Implements maps the counting and
uncounting steps to Post and Ack, every other step to a stutter. A further
assumption, `RingAssumption`, says that the ring has a slot for every segment
the largest window lets out, which holds for the code's 20.5 segments and 64
slots.

ExitsClean needs `ExitInv` on top: the number the completion thread counts down
is the cardinality of the set of the segments that are left, plus the entries of
the poll it has handled and not yet subtracted (`Counted`); every segment that is
being recorded and every busy slot has its request in the queue pair (`Queued`).
At the exit the set is empty, so all is acknowledged and every slot is free.

**Go-back-N.** The theorems have the form `Spec /\ []HasRoom => []P`: a packet
that is handed over finds room in the sending buffer, which drops its oldest
packet otherwise (`qbb-net-device.cc:1033`). `FitsHasRoom` proves it of a buffer
that holds the flow; it is the only thing the proofs assume of a run. The
argument is about the order of the answers on their way: `Kept` says that no
answer asks beyond what the receiver expects and that the sender discards
nothing before it; `NacksFind` that a NACK, which may overtake ACKs, is behind no
answer that acknowledges more than it; `AcksFind` that no answer ahead of an ACK
acknowledges everything, and `WithinMessage` that with L2WaitForAck nothing on
its way is beyond the message being sent. HasTypes needs no such premise: a
buffer that drops keeps its indices in order all the same. IdleWakes assumes
L2WaitForAck and the line rate: `IdleInv` says that a flow is then never in a
pacing gap, and that a NIC that is idle while its flow may send has sent what is
handed over, or will get the rest of the message.

**Switch buffers.** The ingress counters are sums over what is stored
(`IngressInv`): each packet that comes or goes changes the sum of its port, its
pool and its group by its size, and no sum exceeds the buffer, so that no
counter wraps. The egress counters are not sums, because the code takes the
guaranteed part from a packet when it comes and the shared part when it goes.
`Split` is what remains true: guaranteed and shared part are the bytes of the
queue modulo the word, and the shared part is less than a cell too small and less
than a packet too large. The counters of ports and pools are the sums of the
shared parts (`EgressInv`), which bounds their errors by a packet per queue; this
is where the assumption on the word comes from.

**Flow control.** SwitchRefines maps each step of the switch and its peers to
one of the buffers alone, so what is proved of the counters holds. For a class
over its limit, `OverIsKept` says that some egress device repeats the check
before the pause at the peer ends, or that a frame that pauses is on its way
(`Kept`). `ResumesNone` says that resume frames name class 0 only, which is why
no resume of another device can end this pause: the proof of OverStaysPaused
rests on the disagreement that pfc_resume shows. `OverIsContained` adds the
bound: the peer cannot send again before a frame of the next check arrives,
because its pause lasts longer or a frame is on its way (`Blocked`); what it has
sent arrives within so many units, at most one packet per unit and in order
(`InOrder`), and a packet of the largest size in each of them fits above what
the group holds (`Room`). A group at or below its limit has room for one packet.
So no group holds more than `MostHeld`, and as the total is the sum over the
groups (`PoolInv`), EnoughRoom lets each packet in.

**Egress queue.** `TurnsComing` gives each queue the number of turns until the
round robin comes to it (`Distance`): what it has let pass and this distance are
together at most a round, also when a new flow makes the round longer. The queue
of a flow and its sending buffer are not one the end of the other: after a
go-back a late ACK leaves the queue longer, and a turn leaves the buffer longer.
QueueMatchesBuffer says that they end alike, element by element from the back,
and that neither is shorter than what was never sent. Both grow at the end by
the same packet and lose packets at the front only, which keeps this, and a
go-back makes them equal; after a refusal nothing is said of the flow until
then. So a go-back may repeat packets that were sent, and skips no other than
those a full buffer has lost. BytesAreCounted carries the sums over the queues
through each turn; a go-back sets the count of a queue to the sum over its
sending buffer. GuaranteesHold rests on `GuaranteeInv`, an account of what the
priorities above `i` have used of their guarantees (`UsedAbove`). For each of
them it lies between nothing, when it has been idle and may send at once, and
twice what the largest packet takes of a guarantee. While `i` waits, only the
strict part serves, and only priorities above it: a packet adds `MinTx` times
its size to the account, and while it is sent time gives back its size for each
of the `Above(i)` priorities. So if the link carries more guarantees than those
above (`Above(i) < MinTx`), each packet that passes `i` leaves the account
larger (`Lags`), and the account is bounded.

**RET.** `Numbers` relates the number in each acknowledgement to its place in the
queue and to what was sent and doubled; so an in-flight count that has not
wrapped covers what is on its way but for the doubled packets (`Covers`), and
one that has wrapped is larger than any window and lets nothing out. `Pacing`
says that a flow that has begun to pace has a window below one segment and a
pacing event to come. The rise of the target is bounded by the marks since the
last unmarked packet (`TargetInv`).

**DCQCN.** RateInBounds and StageMatches together are inductive; the lemmas are
about halves rounded down and a rate cut by a share. The rate is bounded by the
link and by its target; the target has no bound, as in the code
(`qbb-net-device.cc:1525`). **Test bed.** For each
server, receives and completions are the depth of the queue and its count is
what it has not polled, until it fails; a server that is not started has none.

**What liveness rests on.** Liveness under fairness is out of the prover's
reach. What can be proved of it is that the system never enters a state from
which nothing leads on; these invariants have no run of their own, as the
temporal properties they serve have.

* NeverIdle (for Completes): `Accounted` says that what was sent is received, on
  the wire or in an acknowledgement, `Wakes` that with nothing of it under way an
  event sends the rest. It holds although a flow changes between bursts and
  pacing at any acknowledgement, since the in-flight count is exact while
  nothing is lost or doubled (InFlightCounts).
* SpinEnds and NobodyWaits (for EntryHandled and Terminates): the completion
  thread spins for three statements of one sender and nothing else; with the
  queue pair empty, the counters and the ring are empty and the windows are open
  (`WindowsOpen`: a cut by four fifths leaves something), so a sender with
  segments left can post.
* PausesRunOut (for PauseEnds): a paused class has a timer running, through every
  pause, refresh and resume.
* ServersEnd (for ScriptsEnd): the count of a server is compared with 0 only, and
  several completions are taken off at once; it reaches 0 all the same, unless
  an error ends the server, which then has a count left. The theorem assumes
  `Iters >= 1`, the range of the option in `rc_server.cpp`.

Checked by TLC only is liveness itself: StreamService, EntryHandled, Terminates,
AllReceived, PauseEnds, Completes, Decays, Recovers, ScriptsEnd. Every invariant
and every action property of a passing run is also a theorem.

What the theorems on flow control leave out: PausedWhileOver, OverrunBounded and
NoLoss are claimed for static thresholds.

## Plan

1. The window controllers of `rdmacc.cpp` and `timely-sender.cc` on scaled
   integers, refining the sets of windows the models choose from.
2. PFC with two classes and two sources, paused egress devices, a chain of two
   switches; the ECN marks of `broadcom-node.cc` composed with TargetDelay.
3. `CheckandSendQCN`, composed with Dcqcn; several hops.
4. Proofs: what dynamic thresholds promise of the headroom.

## Not modelled

* Stock ns-3 (scheduler, IP, routing, UDP) and its generated Python bindings and
  build scripts, which are most of the repository's lines: third-party code,
  taken as the event queue and the network. RET's own code is a small part of
  the tree.
* Serialisation of headers and tags; experiment programs, topologies and traces;
  the Windows project files: formats and configuration.
* Set-up of the test bed (sockets, verbs objects, command line): it is one step
  of TestBed, before the modelled threads start.
* The floating-point computation that picks a window from the delays, and the
  ECN decisions: the models take any value the code can leave.
* `CheckandSendQCN` of the receiving NIC: notifications come at any time. Rates of
  several hops (`m_rateAll` with more than one) are not modelled.
* Flow control pauses do not occur in L2GoBackN. With QCN disabled, the link
  layer refills queue number *flow* although the data is in queue number
  *priority* (`qbb-net-device.cc:788`, `:1045`); this configuration is not
  modelled.
* The variants of the egress queue and of the window update that nothing calls
  (`DoDequeue`, the DCQCN-like update of `timely-sender.cc`).
* Several switches: deadlocks of pauses around a cycle depend on a topology.
