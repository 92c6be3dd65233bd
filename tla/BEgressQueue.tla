---------------------------- MODULE BEgressQueue ----------------------------
(***************************************************************************)
(* The transmit queue of a device of the simulator                         *)
(* (broadcom-egress-queue.cc): one queue per flow on a NIC with QCN, one   *)
(* per priority elsewhere, and three ways to choose the queue to serve.    *)
(*   "QCN"  DequeueQCN: queue 0 (control) first, then a round robin over   *)
(*          the flows that may send;                                       *)
(*   "NIC"  DequeueNIC: a round robin over all priorities;                 *)
(*   "RR"   DequeueRR, of a switch: the highest priority (control) first,  *)
(*          then the highest one below its guaranteed bandwidth, then a    *)
(*          round robin.                                                   *)
(* A packet is its size.  A queue is held while its priority is paused or, *)
(* on a NIC with QCN, the next time of its flow has not come.  A NIC with  *)
(* QCN also keeps each packet in m_sendingBuffer until it is acknowledged, *)
(* and RecoverQueue fills the queue of a flow from there.  The queue and   *)
(* the sending buffer of a flow are not kept in step: one may refuse or    *)
(* lose a packet that the other holds, and an answer may come late.        *)
(***************************************************************************)
EXTENDS Integers, Sequences, FiniteSets, Functions

CONSTANTS
  Modes,       \* the modes of the run
  QCnt,        \* qCnt: priorities
  FCnt,        \* fCnt: queues
  Sizes,       \* packet sizes
  MinTx,       \* time of a unit of size at the guaranteed bandwidth m_minBW;
               \* at line rate it takes 1
  MaxBytes,    \* m_maxBytes
  MaxKept,     \* packets of a flow that its sending buffer holds (8000)
  MaxRecovers, \* bound: calls of RecoverQueue
  MaxOwed      \* bound: how far a guarantee may be satisfied in advance

ASSUME QueueAssumption ==
  /\ Modes \subseteq {"QCN", "NIC", "RR"}
  /\ QCnt \in Nat \ {0, 1} /\ FCnt \in Nat /\ FCnt >= QCnt
  /\ Sizes \subseteq Nat \ {0} /\ \E s \in Sizes : \A t \in Sizes : t <= s
  /\ MinTx \in Nat /\ MaxBytes \in Nat /\ MaxKept \in Nat \ {0}
  /\ MaxRecovers \in Nat /\ MaxOwed \in Nat

VARIABLES
  mode,              \* which Dequeue the device calls
  queues,            \* m_queues
  bytesInQueue,      \* m_bytesInQueue
  bytesInQueueTotal, \* m_bytesInQueueTotal
  nPackets,          \* m_nPackets, of the base class Queue
  fcount,            \* m_fcount: flows known so far, and the control queue
  rrlast,            \* m_rrlast: queue served last
  held,              \* queues that may not be served now
  owed,              \* m_bwsatisfied less the time: guaranteed until then
  wire,              \* time until the packet being sent has left the switch
  sendingBuffer,     \* QbbNetDevice::m_sendingBuffer
  recovers,          \* calls of RecoverQueue so far
  skipped,           \* history: packets of others since a queue waits
  unsent,            \* history: packets at the end of a sending buffer that
                     \* were never sent; until its next go-back, a flow that
                     \* had a packet refused may have more
  refused            \* history: flows whose queue has refused a packet since
                     \* it was last filled from the sending buffer

queueVars == <<queues, bytesInQueue, bytesInQueueTotal, nPackets>>
turnVars  == <<rrlast, owed, wire, skipped>>
keptVars  == <<sendingBuffer, unsent, refused>>
nicVars   == <<keptVars, recovers>>
vars == <<mode, queueVars, fcount, held, turnVars, nicVars>>

Queues == 0 .. FCnt - 1

\* Queues that take part in the round robin.
InTurn == IF mode = "QCN" THEN fcount ELSE QCnt

\* The queue that is served before all others.
Control == CASE mode = "QCN" -> 0
             [] mode = "RR"  -> QCnt - 1
             [] OTHER        -> -1

Init ==
  /\ mode \in Modes
  /\ queues = [i \in Queues |-> <<>>]
  /\ bytesInQueue = [i \in Queues |-> 0] /\ bytesInQueueTotal = 0
  /\ nPackets = 0
  /\ fcount = 1 /\ rrlast = 0 /\ held = {}
  /\ owed = [i \in Queues |-> 0] /\ wire = 0
  /\ sendingBuffer = [i \in Queues |-> <<>>] /\ recovers = 0
  /\ skipped = [i \in Queues |-> 0]
  /\ unsent = [i \in Queues |-> 0] /\ refused = {}

---------------------------------------------------------------------------
FlowsWith(i) == IF mode = "QCN" /\ i = fcount THEN fcount + 1 ELSE fcount

Smaller(a, b) == IF a < b THEN a ELSE b

\* A sequence without its first n elements.
Without(seq, n) == SubSeq(seq, n + 1, Len(seq))

\* A full sending buffer loses its oldest packet, sent or not.
Kept(buffer, size) ==
  Append(IF Len(buffer) = MaxKept THEN Tail(buffer) ELSE buffer, size)

\* Send keeps the packet of a flow before it hands it to the queue.
Keep(i, size, enters) ==
  IF mode = "QCN" /\ i # Control
  THEN /\ sendingBuffer' = [sendingBuffer EXCEPT ![i] = Kept(@, size)]
       /\ unsent' = [unsent EXCEPT ![i] = Smaller(@ + 1, Len(sendingBuffer'[i]))]
       /\ refused' = IF enters THEN refused ELSE refused \cup {i}
  ELSE UNCHANGED keptVars

\* A packet for queue i; on a NIC with QCN the first packet of a flow takes the
\* next free queue.  When the queues are full the packet is refused, which Send
\* does not notice.
Enqueue(i, size) ==
  LET enters == bytesInQueueTotal + size < MaxBytes IN
  /\ IF mode = "QCN" THEN i <= fcount ELSE i < QCnt
  /\ IF enters
     THEN /\ queues' = [queues EXCEPT ![i] = Append(@, size)]
          /\ bytesInQueue' = [bytesInQueue EXCEPT ![i] = @ + size]
          /\ bytesInQueueTotal' = bytesInQueueTotal + size
          /\ nPackets' = nPackets + 1
     ELSE UNCHANGED queueVars
  /\ fcount' = FlowsWith(i)
  /\ Keep(i, size, enters)
  /\ UNCHANGED <<mode, held, turnVars, recovers>>

Servable(i) == queues[i] # <<>> /\ i \notin held

\* The k-th queue after the one served last.
After(k) == (k + rrlast) % InTurn

\* Mutant of RoundRobin: starts at queue 0, whatever was served last.
RoundRobinFromZero(i) ==
  /\ i \in 0 .. InTurn - 1 /\ Servable(i)
  /\ \A j \in 0 .. i - 1 : ~Servable(j)

\* The first queue after the last one served that may be served.
RoundRobin(i) ==
  \E k \in 1 .. InTurn :
    /\ i = After(k) /\ Servable(i)
    /\ \A j \in 1 .. k - 1 : ~Servable(After(j))

\* Priorities below their guaranteed bandwidth.
Unsatisfied == {i \in 0 .. QCnt - 2 : owed[i] < 0 /\ Servable(i)}

\* Mutant of Chosen: the guaranteed bandwidths are not looked at ...
ChosenStrict(i) ==
  \/ i = Control /\ queues[i] # <<>>
  \/ /\ Control >= 0 => queues[Control] = <<>>
     /\ i \in 0 .. InTurn - 1 /\ Servable(i)
     /\ \A j \in i + 1 .. InTurn - 1 : ~Servable(j)

Chosen(i) ==
  \/ i = Control /\ queues[i] # <<>>
  \/ /\ Control >= 0 => queues[Control] = <<>>
     /\ IF mode = "RR" /\ Unsatisfied # {}
        THEN i \in Unsatisfied /\ \A j \in Unsatisfied : j <= i
        ELSE RoundRobin(i)

\* When the guarantee is satisfied until, after a packet is served; the past
\* is forgotten.
Satisfied(debt, size) ==
  IF debt + MinTx * size < 0 THEN 0 ELSE debt + MinTx * size

\* A queue waits for its turn: it may be served and, on a switch, has not got
\* the bandwidth it is guaranteed.
Waits(i) == Servable(i) /\ (mode = "RR" => owed[i] < 0)

\* Packets of others that each queue has let pass since it waits; on a switch,
\* since the last control packet.
SkippedAfter(i) ==
  IF i = Control
  THEN IF mode = "RR" THEN [j \in Queues |-> 0] ELSE skipped
  ELSE [j \in Queues |->
         IF j # i /\ j # Control /\ Waits(j) THEN skipped[j] + 1 ELSE 0]

\* Where the round robin goes on: the control queue does not move it.
LastServed(i) == IF i = Control THEN rrlast ELSE i

\* A switch asks for a packet when its link is free.
Dequeue(i) ==
  /\ wire = 0 /\ Chosen(i) /\ owed[i] <= MaxOwed
  /\ LET size == Head(queues[i]) IN
     /\ queues' = [queues EXCEPT ![i] = Tail(@)]
     /\ bytesInQueue' = [bytesInQueue EXCEPT ![i] = @ - size]
     /\ bytesInQueueTotal' = bytesInQueueTotal - size
     /\ nPackets' = nPackets - 1
     /\ IF mode = "RR"
        THEN /\ owed' = [owed EXCEPT ![i] = Satisfied(@, size)]
             /\ wire' = size
        ELSE UNCHANGED <<owed, wire>>
  /\ rrlast' = LastServed(i)
  /\ skipped' = SkippedAfter(i)
  /\ unsent' = [unsent EXCEPT ![i] = Smaller(@, Len(queues'[i]))]
  /\ UNCHANGED <<mode, fcount, held, sendingBuffer, refused, recovers>>

\* A priority is paused, or the next time of a flow is in the future.  The
\* control queue of DequeueQCN and DequeueRR is not held by a pause.
Hold(i) ==
  /\ i # Control /\ i \notin held /\ i < InTurn
  /\ held' = held \cup {i}
  /\ skipped' = [skipped EXCEPT ![i] = 0]
  /\ UNCHANGED <<mode, queueVars, fcount, rrlast, owed, wire, nicVars>>

Release(i) ==
  /\ i \in held
  /\ held' = held \ {i}
  /\ UNCHANGED <<mode, queueVars, fcount, turnVars, nicVars>>

\* An ACK: the n oldest packets of a flow, which have been sent, leave the
\* sending buffer; the queue keeps those that a go-back has put back into it.
Acknowledge(i, n) ==
  /\ mode = "QCN" /\ n <= Len(sendingBuffer[i]) - unsent[i]
  /\ sendingBuffer' = [sendingBuffer EXCEPT ![i] = Without(@, n)]
  /\ UNCHANGED <<mode, queueVars, fcount, held, turnVars, unsent, refused,
                 recovers>>

SumOf(seq) == SumFunction(seq)

\* A NACK acknowledges the n oldest packets, never all; the retransmission
\* timer none.
GoesBack(i, n) ==
  /\ mode = "QCN" /\ i \in 1 .. fcount - 1 /\ recovers < MaxRecovers
  /\ n > 0 => n < Len(sendingBuffer[i]) /\ n <= Len(sendingBuffer[i]) - unsent[i]
  /\ sendingBuffer' = [sendingBuffer EXCEPT ![i] = Without(@, n)]
  /\ recovers' = recovers + 1
  /\ UNCHANGED <<mode, nPackets, fcount, held, turnVars, unsent>>

\* Mutant of RecoverQueue: the bytes of the packets put back are not counted.
RecoverUncounted(i, n) ==
  /\ GoesBack(i, n)
  /\ queues' = [queues EXCEPT ![i] = sendingBuffer'[i]]
  /\ refused' = refused \ {i}
  /\ UNCHANGED <<bytesInQueue, bytesInQueueTotal>>

\* Mutant of RecoverQueue: the packets are put before those of the queue, as
\* the code that is commented out does (broadcom-egress-queue.cc:489-507).
RecoverPrepended(i, n) ==
  /\ GoesBack(i, n)
  /\ LET bytes == SumOf(sendingBuffer'[i]) IN
     /\ bytesInQueue' = [bytesInQueue EXCEPT ![i] = @ + bytes]
     /\ bytesInQueueTotal' = bytesInQueueTotal + bytes
  /\ queues' = [queues EXCEPT ![i] = sendingBuffer'[i] \o @]
  /\ refused' = refused \ {i}

\* The queue of the flow is emptied and filled from the sending buffer.  The
\* counts of the base class stay.
RecoverQueue(i, n) ==
  /\ GoesBack(i, n)
  /\ LET bytes == SumOf(sendingBuffer'[i]) IN
     /\ bytesInQueue' = [bytesInQueue EXCEPT ![i] = bytes]
     /\ bytesInQueueTotal' = bytesInQueueTotal - bytesInQueue[i] + bytes
  /\ queues' = [queues EXCEPT ![i] = sendingBuffer'[i]]
  /\ refused' = refused \ {i}

\* Time passes at a switch, which leaves its link idle only when no queue can
\* be served.  A debt beyond Floor is forgotten by Satisfied anyway.
MaxSize == CHOOSE s \in Sizes : \A t \in Sizes : t <= s
Floor == -(MinTx * MaxSize)

Tick ==
  /\ mode = "RR"
  /\ wire > 0 \/ \A i \in 0 .. QCnt - 1 : ~Chosen(i)
  /\ wire' = IF wire > 0 THEN wire - 1 ELSE 0
  /\ owed' = [i \in Queues |-> IF owed[i] > Floor THEN owed[i] - 1 ELSE Floor]
  /\ UNCHANGED <<mode, queueVars, fcount, held, rrlast, skipped, nicVars>>

Next ==
  \/ \E i \in Queues, size \in Sizes : Enqueue(i, size)
  \/ \E i \in Queues : Dequeue(i) \/ Hold(i) \/ Release(i)
  \/ \E i \in Queues, n \in 1 .. MaxKept : Acknowledge(i, n)
  \/ \E i \in Queues, n \in 0 .. MaxKept : RecoverQueue(i, n)
  \/ Tick

Spec == Init /\ [][Next]_vars

---------------------------------------------------------------------------
TypeOK ==
  /\ mode \in Modes
  /\ queues \in [Queues -> Seq(Sizes)] /\ sendingBuffer \in [Queues -> Seq(Sizes)]
  /\ bytesInQueue \in [Queues -> Nat] /\ bytesInQueueTotal \in Nat
  /\ nPackets \in Int /\ recovers \in 0 .. MaxRecovers
  /\ fcount \in 1 .. FCnt /\ rrlast \in Queues /\ held \subseteq Queues
  /\ owed \in [Queues -> Int] /\ wire \in Nat /\ skipped \in [Queues -> Nat]
  /\ unsent \in [Queues -> Nat] /\ refused \subseteq Queues

\* Every variable has its type, and the byte counts are those of the packets in
\* the queues, also after a queue was emptied and filled again;
\* DequeueAndTransmit and the admission look at nothing else.  The packet count
\* of the base class, which an assertion looks at (line 355), is right only
\* until then (broadcom-egress-queue.cc:461-486).
BytesMatch ==
  /\ TypeOK
  /\ \A i \in Queues : bytesInQueue[i] = SumOf(queues[i])
  /\ bytesInQueueTotal = SumOf(bytesInQueue)
  /\ recovers = 0 => nPackets = SumOf([i \in Queues |-> Len(queues[i])])

\* On a NIC, a queue that may be served lets each other queue pass at most
\* once, whatever control packets, new flows, pauses and go-backs come in
\* between (broadcom-egress-queue.cc:125-158, 223-269).
ServedInTurn ==
  /\ mode = "QCN" => \A i \in 1 .. fcount - 1 : skipped[i] <= InTurn - 2
  /\ mode = "NIC" => \A i \in Queues : skipped[i] <= InTurn - 1

\* Data priorities that the strict part of DequeueRR looks at before i.
Above(i) == QCnt - 2 - i

\* On a switch, a priority below its guaranteed bandwidth is soon served if the
\* link carries the guarantees of it and of those above, though the strict part
\* of DequeueRR looks at these first and a priority that was idle may send two
\* packets at once: what they take is bounded by what the link leaves them
\* (broadcom-egress-queue.cc:177-199).  The highest one is served at once.
GuaranteeServes ==
  mode = "RR" =>
    \A i \in 0 .. QCnt - 2 :
      Above(i) < MinTx =>
        (MinTx - Above(i)) * skipped[i] <= 2 * Above(i) * MinTx * MaxSize

\* Two sequences end alike: the shorter one is the end of the longer one.
EndAlike(a, b) ==
  \A k \in 0 .. Smaller(Len(a), Len(b)) - 1 : a[Len(a) - k] = b[Len(b) - k]

\* The queue and the sending buffer of a flow end alike and hold what was never
\* sent, but for packets that the queue has refused.
Matches(i) ==
  /\ unsent[i] <= Len(sendingBuffer[i])
  /\ i \notin refused => /\ unsent[i] <= Len(queues[i])
                        /\ EndAlike(queues[i], sendingBuffer[i])

\* Emptying the queue of a flow and filling it from the sending buffer reorders
\* nothing and skips a packet that was never sent only if a full buffer has lost
\* it, though answers come after a go-back has put back what they acknowledge.
\* A packet that was refused is missing from the queue until the next go-back,
\* which makes the two alike again (broadcom-egress-queue.cc:74-83, 461-486,
\* qbb-net-device.cc:760-790, 823-856, 1033-1041).
QueueMatchesBuffer == mode = "QCN" => \A i \in 1 .. FCnt - 1 : Matches(i)
===========================================================================
