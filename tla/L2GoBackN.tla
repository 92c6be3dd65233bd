----------------------------- MODULE L2GoBackN -----------------------------
(***************************************************************************)
(* The link-level reliability of the RDMA NIC in the simulator             *)
(* (qbb-net-device.cc, node type 0, QCN enabled so that a flow has its own *)
(* queue): one flow of packets 0, 1, 2, ... from a sending NIC to a        *)
(* receiving NIC.  The sender keeps unacknowledged packets in              *)
(* m_sendingBuffer, the receiver expects them in order, answers a gap with *)
(* a NACK and progress with an ACK, and a NACK or a timer makes the sender *)
(* go back.  In L2WaitForAck mode the sender also stops after each chunk.  *)
(*                                                                         *)
(* The packets of a flow leave the queue in order, so the queue of the     *)
(* flow is the interval nxt .. hi-1 and its sending buffer lo .. hi-1.     *)
(* Simulated time is abstracted to whether the flow may send now, soon     *)
(* (its pacing gap ends) or far (32767 s, beyond any simulation).          *)
(***************************************************************************)
EXTENDS Integers, Sequences

CONSTANTS
  Total,       \* packets the application sends
  Chunk,       \* m_chunk
  AckInterval, \* m_ack_interval
  BackTo0s,    \* values of m_backto0
  TestRead,    \* m_testRead
  WaitAck,     \* m_waitAck
  Paced,       \* the flow's rate may be below the line rate
  BufferCap,   \* packets m_sendingBuffer holds (8000)
  DataLosses,  \* bound: data packets the network may lose
  BackLosses,  \* bound: ACKs and NACKs the network may lose
  MaxOnWire    \* bound: packets between the two NICs

ASSUME GbnAssumption ==
  /\ Total \in Nat /\ Chunk \in Nat \ {0} /\ AckInterval \in Nat
  /\ BufferCap \in Nat \ {0} /\ MaxOnWire \in Nat \ {0}
  /\ DataLosses \in Nat /\ BackLosses \in Nat
  /\ BackTo0s \subseteq BOOLEAN
  /\ {TestRead, WaitAck, Paced} \subseteq BOOLEAN

VARIABLES
  hi,           \* sender: packets the application has handed over
  lo,           \* sender: oldest packet of the sending buffer
  nxt,          \* sender: oldest packet of the flow's queue
  milestone_tx, \* sender: end of the chunk being sent
  waitingAck,   \* sender: m_waitingAck
  timer,        \* sender: m_retransmit is scheduled
  avail,        \* sender: m_nextAvail is "now", "soon" or "far"
  nextSend,     \* sender: m_nextSend is scheduled for "soon", "far" or "none"
  busy,         \* sender: m_txMachineState = BUSY
  expected,     \* receiver: ReceiverNextExpectedSeq
  milestone_rx, \* receiver: m_milestone_rx
  lastNACK,     \* receiver: m_lastNACK
  nackQuiet,    \* receiver: Now() <= m_nackTimer
  data,         \* packets on their way, oldest first
  back,         \* ACKs and NACKs on their way, oldest first
  backto0,      \* m_backto0, a setting of the run
  lostData, lostBack

flowVars  == <<hi, lo, milestone_tx>>
nicVars   == <<nxt, waitingAck, timer, avail, nextSend, busy, data>>
recvVars  == <<expected, milestone_rx, lastNACK, nackQuiet>>
runVars   == <<backto0, lostData, lostBack>>
vars == <<flowVars, nicVars, recvVars, back, runVars>>

ChunkStart(seq) == (seq \div Chunk) * Chunk
Larger(a, b)  == IF a > b THEN a ELSE b
Smaller(a, b) == IF a < b THEN a ELSE b

\* Mutant of GoBackTo: forgets that the receiver went back to the chunk.
GoBackToPacket(seq) == seq

\* Where the sender goes back to when it hears of sequence number seq.
GoBackTo(seq) == IF backto0 THEN ChunkStart(seq) ELSE seq

Init ==
  /\ backto0 \in BackTo0s
  /\ hi = 0 /\ lo = 0 /\ nxt = 0
  /\ milestone_tx = Chunk /\ waitingAck = FALSE /\ timer = FALSE
  /\ avail = "now" /\ nextSend = "none" /\ busy = FALSE
  /\ expected = 0 /\ milestone_rx = AckInterval /\ lastNACK = -1
  /\ nackQuiet = FALSE
  /\ data = <<>> /\ back = <<>> /\ lostData = 0 /\ lostBack = 0

---------------------------------------------------------------------------
(* The sending NIC *)

\* What the handlers that end in DequeueAndTransmit hand to it: s has the
\* fields hi, ms (m_milestone_tx), nxt, waiting, timer, avail, nextSend, busy.
Sendable(s) == ~s.busy /\ s.nxt < s.hi /\ s.avail = "now"

\* Mutant of EndsChunk: off by one.
EndsChunkLate(s) == WaitAck /\ s.nxt > s.ms - 1

\* The last packet of a chunk stops the flow until it is acknowledged.
EndsChunk(s) == WaitAck /\ s.nxt >= s.ms - 1

DequeueAndTransmit(s) ==
  /\ hi' = s.hi /\ milestone_tx' = s.ms
  /\ \/ /\ Sendable(s)
        /\ data' = Append(data, s.nxt)
        /\ nxt' = s.nxt + 1
        /\ busy' = TRUE
        /\ IF EndsChunk(s) THEN avail' = "far"
           ELSE avail' \in {"now"} \cup (IF Paced THEN {"soon"} ELSE {})
        /\ waitingAck' = (s.waiting \/ EndsChunk(s))
        /\ timer' = (s.timer \/ (EndsChunk(s) /\ ~s.waiting))
        /\ nextSend' = s.nextSend
     \/ /\ ~Sendable(s)
        /\ nxt' = s.nxt /\ busy' = s.busy /\ avail' = s.avail
        /\ waitingAck' = s.waiting /\ timer' = s.timer
        /\ nextSend' =
             IF ~s.busy /\ s.nxt < s.hi /\ s.nextSend = "none"
             THEN s.avail ELSE s.nextSend
        /\ UNCHANGED data

Now == [hi |-> hi, ms |-> milestone_tx, nxt |-> nxt, waiting |-> waitingAck,
        timer |-> timer, avail |-> avail, nextSend |-> nextSend, busy |-> busy]

\* Mutant of Unblocked: the flow is still marked as waiting.
UnblockedStillWaiting(s) == [s EXCEPT !.avail = "now", !.timer = FALSE]

\* Acknowledged or retransmitted: the flow may send again at once.
Unblocked(s) == [s EXCEPT !.avail = "now", !.timer = FALSE, !.waiting = FALSE]

\* A full sending buffer drops its oldest packet, acknowledged or not.
Send ==
  /\ hi < Total
  /\ lo' = IF hi - lo = BufferCap THEN lo + 1 ELSE lo
  /\ DequeueAndTransmit([Now EXCEPT !.hi = hi + 1])
  /\ UNCHANGED <<recvVars, back, runVars>>

\* Mutant of TransmitComplete: does not look for the next packet.
TransmitCompleteOnly ==
  /\ busy /\ Len(data) < MaxOnWire
  /\ busy' = FALSE
  /\ UNCHANGED <<flowVars, nxt, waitingAck, timer, avail, nextSend, data,
                 recvVars, back, runVars>>

\* The link holds MaxOnWire packets at most.
TransmitComplete ==
  /\ busy /\ Len(data) < MaxOnWire
  /\ DequeueAndTransmit([Now EXCEPT !.busy = FALSE])
  /\ UNCHANGED <<lo, recvVars, back, runVars>>

\* m_nextSend runs DequeueAndTransmit no later than the flow's next time.
NextSendFires ==
  /\ ~busy /\ nextSend = "soon"
  /\ \E a \in {avail} \cup (IF avail = "soon" THEN {"now"} ELSE {}) :
       DequeueAndTransmit([Now EXCEPT !.nextSend = "none", !.avail = a])
  /\ UNCHANGED <<lo, recvVars, back, runVars>>

\* The pacing gap ends, and no event was waiting for it.
PacingGapEnds ==
  /\ ~busy /\ avail = "soon" /\ nextSend # "soon"
  /\ avail' = "now"
  /\ UNCHANGED <<flowVars, nxt, waitingAck, timer, nextSend, busy, data,
                 recvVars, back, runVars>>

\* Mutant of Retransmit: the queue is not filled again.
RetransmitNothing ==
  /\ timer
  /\ DequeueAndTransmit(Unblocked(Now))
  /\ UNCHANGED <<lo, recvVars, back, runVars>>

\* m_retransmit: the queue is filled from the sending buffer again.
Retransmit ==
  /\ timer
  /\ DequeueAndTransmit([Unblocked(Now) EXCEPT !.nxt = lo])
  /\ UNCHANGED <<lo, recvVars, back, runVars>>

\* ACKs travel in a data queue and NACKs in the highest priority, so a NACK
\* may pass the ACKs ahead of it; messages of one kind stay in order.
Arrives(i) ==
  i \in 1 .. Len(back) /\ \A j \in 1 .. i - 1 :
    back[i].kind = "NACK" /\ back[j].kind = "ACK"
Without(s, i) == SubSeq(s, 1, i - 1) \o SubSeq(s, i + 1, Len(s))

\* The code looks for seq in the buffer without a test for an empty buffer.
NackServable(seq) == GoBackTo(seq) \in lo .. hi - 1

\* Mutant of NackedUpTo: the packet asked for is discarded as well.
NackedBeyond(seq) == Larger(lo, GoBackTo(seq) + 1)

\* Packets before the one asked for are acknowledged.
NackedUpTo(seq) == Larger(lo, GoBackTo(seq))

ReceiveNack ==
  \E i \in DOMAIN back :
    /\ Arrives(i) /\ back[i].kind = "NACK" /\ NackServable(back[i].seq)
    /\ lo' = NackedUpTo(back[i].seq)
    /\ back' = Without(back, i)
    /\ IF WaitAck /\ waitingAck
       THEN DequeueAndTransmit([Unblocked(Now) EXCEPT !.nxt = lo'])
       ELSE /\ nxt' = lo'
            /\ UNCHANGED <<hi, milestone_tx, waitingAck, timer, avail,
                           nextSend, busy, data>>
    /\ UNCHANGED <<recvVars, runVars>>

\* The code reads the oldest packet of the buffer.
AckServable == lo < hi

\* Mutant of AckedUpTo: the packet the receiver expects is discarded as well.
AckedBeyond(seq) ==
  IF AckInterval = 0 THEN lo ELSE Larger(lo, Smaller(GoBackTo(seq) + 1, hi))

\* Mutant of AckedUpTo: the loop does not stop at the end of the buffer.
AckedUncapped(seq) ==
  IF AckInterval = 0 THEN lo ELSE Larger(lo, GoBackTo(seq) + Chunk)

AckedUpTo(seq) ==
  IF AckInterval = 0 THEN lo ELSE Larger(lo, Smaller(GoBackTo(seq), hi))

ReceiveAck ==
  \E i \in DOMAIN back :
    /\ Arrives(i) /\ back[i].kind = "ACK" /\ AckServable
    /\ lo' = AckedUpTo(back[i].seq)
    /\ back' = Without(back, i)
    /\ IF WaitAck /\ back[i].seq >= milestone_tx
       THEN DequeueAndTransmit([Unblocked(Now) EXCEPT !.ms = @ + Chunk])
       ELSE UNCHANGED <<hi, milestone_tx, nicVars>>
    /\ UNCHANGED <<recvVars, runVars>>

---------------------------------------------------------------------------
(* The receiving NIC: ReceiverCheckSeq and the answer it leads to.  Every  *)
(* packet goes up to the application, whatever the check says.             *)

Answer(kind, seq) == back' = Append(back, [kind |-> kind, seq |-> seq])

InOrder(seq) ==
  /\ seq = expected
  /\ expected' = expected + 1
  /\ UNCHANGED <<lastNACK, nackQuiet>>
  /\ \/ /\ expected' > milestone_rx
        /\ milestone_rx' = milestone_rx + AckInterval
        /\ Answer("ACK", expected')
     \/ /\ expected' <= milestone_rx
        /\ UNCHANGED milestone_rx
        /\ IF expected' % Chunk = 0 THEN Answer("ACK", expected')
                                    ELSE UNCHANGED back

\* A gap is reported once per NACK interval, or when it moved.
Gap(seq) ==
  /\ seq > expected
  /\ UNCHANGED milestone_rx
  /\ IF ~nackQuiet \/ lastNACK # expected
     THEN /\ nackQuiet' = TRUE
          /\ lastNACK' = expected
          /\ expected' = IF backto0 /\ ~TestRead THEN ChunkStart(expected)
                         ELSE expected
          /\ Answer("NACK", expected')
     ELSE UNCHANGED <<expected, lastNACK, nackQuiet, back>>

Duplicate(seq) == seq < expected /\ UNCHANGED <<recvVars, back>>

ReceiveData ==
  /\ data # <<>>
  /\ data' = Tail(data)
  /\ InOrder(Head(data)) \/ Gap(Head(data)) \/ Duplicate(Head(data))
  /\ UNCHANGED <<flowVars, nxt, waitingAck, timer, avail, nextSend, busy,
                 runVars>>

NackIntervalEnds ==
  /\ nackQuiet
  /\ nackQuiet' = FALSE
  /\ UNCHANGED <<flowVars, nicVars, expected, milestone_rx, lastNACK, back,
                 runVars>>

---------------------------------------------------------------------------
(* The network: the receive error model and a full switch lose packets.    *)

LoseData ==
  /\ lostData < DataLosses
  /\ \E i \in DOMAIN data : data' = Without(data, i)
  /\ lostData' = lostData + 1
  /\ UNCHANGED <<flowVars, nxt, waitingAck, timer, avail, nextSend, busy,
                 recvVars, back, lostBack, backto0>>

LoseBack ==
  /\ lostBack < BackLosses
  /\ \E i \in DOMAIN back : back' = Without(back, i)
  /\ lostBack' = lostBack + 1
  /\ UNCHANGED <<flowVars, nicVars, recvVars, lostData, backto0>>

---------------------------------------------------------------------------
Next ==
  \/ Send \/ TransmitComplete \/ NextSendFires \/ PacingGapEnds \/ Retransmit
  \/ ReceiveNack \/ ReceiveAck
  \/ ReceiveData \/ NackIntervalEnds
  \/ LoseData \/ LoseBack

Spec == Init /\ [][Next]_vars

\* The simulator runs every scheduled event; the network delivers what it
\* does not lose.
Fairness ==
  /\ WF_vars(Send) /\ WF_vars(TransmitComplete) /\ WF_vars(NextSendFires)
  /\ WF_vars(PacingGapEnds) /\ WF_vars(Retransmit)
  /\ WF_vars(ReceiveNack) /\ WF_vars(ReceiveAck)
  /\ WF_vars(ReceiveData) /\ WF_vars(NackIntervalEnds)

FairSpec == Spec /\ Fairness

---------------------------------------------------------------------------
TypeOK ==
  /\ backto0 \in BackTo0s
  /\ hi \in 0 .. Total /\ lo \in 0 .. hi /\ nxt \in 0 .. hi
  /\ milestone_tx \in Nat /\ milestone_tx % Chunk = 0
  /\ waitingAck \in BOOLEAN /\ timer \in BOOLEAN /\ busy \in BOOLEAN
  /\ avail \in {"now", "soon", "far"} /\ nextSend \in {"none", "soon", "far"}
  /\ expected \in 0 .. hi /\ milestone_rx \in Nat /\ lastNACK \in -1 .. hi
  /\ nackQuiet \in BOOLEAN
  /\ data \in Seq(0 .. hi - 1)
  /\ back \in Seq([kind : {"ACK", "NACK"}, seq : 0 .. hi])

\* The sender still holds every packet the receiver has not had, or will ask
\* for again after going back to the start of a chunk: whatever ACKs and NACKs
\* are delayed, lost or reordered, nothing is discarded too early.
SenderKeepsNeeded ==
  lo <= IF backto0 THEN ChunkStart(expected) ELSE expected

\* A NACK finds its packet in the sending buffer.
NacksServed ==
  \A i \in DOMAIN back : back[i].kind = "NACK" => NackServable(back[i].seq)

\* An ACK finds a packet in the sending buffer.
AcksServed ==
  \A i \in DOMAIN back : Arrives(i) /\ back[i].kind = "ACK" => AckServable

\* Every answer on its way finds its packet in the sending buffer: the message
\* "ERROR: Sendingbuffer miss!" (qbb-net-device.cc:763) is never printed, the
\* loop below it never runs off the end of the buffer, and no ACK meets an
\* empty buffer, whose Peek() is a null pointer (qbb-net-device.cc:821).
AnswersServed == NacksServed /\ AcksServed

\* A flow that is stopped has its timer running, and the timer runs only then.
StoppedHasTimer == (avail = "far" => timer) /\ (timer <=> waitingAck)

\* Nothing of the next message is on the wire before the last one is
\* acknowledged.
OneMessageAtATime ==
  WaitAck => \A i \in DOMAIN data : data[i] < milestone_tx

\* L2WaitForAck: a flow is stopped exactly from the end of a message to its
\* acknowledgement, with its timer running whatever answers race it, and sends
\* nothing of the next message meanwhile (qbb-net-device.cc:169, 381-387).
StopsAndWaits == StoppedHasTimer /\ OneMessageAtATime

\* L2WaitForAck at the line rate: a NIC that is idle while a flow has packets
\* to send has an event that will send them, "nothing to send possible due to
\* qcn flow control, if so reschedule sending" (qbb-net-device.cc:454). Only a
\* NACK in the middle of a message fills the queue of an idle NIC and starts
\* nothing (qbb-net-device.cc:788-796); then the rest of the message is still to be
\* handed over, and handing it over starts the NIC.
IdleNicWakesUp ==
  ~busy /\ nxt < hi /\ avail # "far" =>
    nextSend = "soon" \/ hi < milestone_tx

\* Every packet gets through: the timer of waiting for the ack makes up for
\* whatever the network lost (qbb-net-device.cc:173).
AllReceived == <>(expected = Total)
===========================================================================
