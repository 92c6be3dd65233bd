---------------------------- MODULE BroadcomMMU ----------------------------
(***************************************************************************)
(* The shared-buffer accounting of a switch in the simulator               *)
(* (broadcom-node.cc) and the two places of QbbNetDevice that use it: Send *)
(* admits a packet and enqueues it, DequeueAndTransmit takes it out.  Each *)
(* packet is counted in four ingress counters and in the minimum or shared *)
(* counter of its egress queue, all of them unsigned; a queue is first in, *)
(* first out, and which queue is served next (round robin, pauses) is left *)
(* open.  Packets of the control queue (qCnt - 1) bypass the accounting.   *)
(***************************************************************************)
EXTENDS Integers, Sequences, FiniteSets, Functions

CONSTANTS
  Ports,        \* interfaces of the switch
  Queues,       \* data queues, equal to the priority groups
  Sizes,        \* packet sizes
  MaxBuffer,    \* m_maxBufferBytes, the egress limits as well
  SpLimit,      \* m_buffer_cell_limit_sp
  PgMin,        \* m_pg_min_cell
  PortMin,      \* m_port_min_cell
  HeadroomLimit,\* m_pg_hdrm_limit
  Cell,         \* m_q_min_cell, and the literal 1030
  Word          \* number of values of a counter (2^32)

\* The counters are wide enough for the buffer and, in each queue, an error of
\* a packet (4 GB against 9 MB and 2056 queues).
ASSUME MmuAssumption ==
  /\ IsFiniteSet(Ports) /\ IsFiniteSet(Queues) /\ Sizes \subseteq Nat \ {0}
  /\ {MaxBuffer, SpLimit, PgMin, PortMin, HeadroomLimit} \subseteq Nat
  /\ Cell \in Nat \ {0} /\ Word \in Nat
  /\ \E m \in Sizes :
       /\ \A s \in Sizes : s <= m
       /\ MaxBuffer + Cell + (2 + Cardinality(Ports \X Queues)) * m < Word

VARIABLES
  usedTotal,       \* m_usedTotalBytes
  usedIngressSP,   \* m_usedIngressSPBytes
  usedIngressPort, \* m_usedIngressPortBytes
  usedIngressPG,   \* m_usedIngressPGBytes
  headroom,        \* m_usedIngressPGHeadroomBytes
  qMin,            \* m_usedEgressQMinBytes
  qShared,         \* m_usedEgressQSharedBytes
  usedEgressPort,  \* m_usedEgressPortBytes
  usedEgressSP,    \* m_usedEgressSPBytes
  queue            \* per port, its egress queues of packets

ingressVars == <<usedTotal, usedIngressSP, usedIngressPort, usedIngressPG,
                 headroom>>
egressVars  == <<qMin, qShared, usedEgressPort, usedEgressSP>>
mmuVars == <<ingressVars, egressVars, queue>>

Packet == [in : Ports, size : Sizes]
SPs == {0, 1}
GetSP(q) == IF q = 1 THEN 1 ELSE 0

\* Mutant of Add: the counters are signed.
AddSigned(x, y) == x + y

Add(x, y) == (x + y) % Word

BufferInit ==
  /\ usedTotal = 0
  /\ usedIngressSP = [s \in SPs |-> 0]
  /\ usedIngressPort = [i \in Ports |-> 0]
  /\ usedIngressPG = [i \in Ports |-> [q \in Queues |-> 0]]
  /\ headroom = [i \in Ports |-> [q \in Queues |-> 0]]
  /\ qMin = [o \in Ports |-> [q \in Queues |-> 0]]
  /\ qShared = [o \in Ports |-> [q \in Queues |-> 0]]
  /\ usedEgressPort = [o \in Ports |-> 0]
  /\ usedEgressSP = [s \in SPs |-> 0]
  /\ queue = [o \in Ports |-> [q \in Queues |-> <<>>]]

---------------------------------------------------------------------------
(* Admission: the guaranteed buffers, the service pool, the headroom.      *)

CheckIngressAdmission(in, q, size) ==
  /\ Add(usedTotal, size) <= MaxBuffer
  /\ \/ Add(usedIngressPG[in][q], size) <= PgMin
     \/ Add(usedIngressPort[in], size) <= PortMin
     \/ usedIngressSP[GetSP(q)] <= SpLimit
     \/ Add(headroom[in][q], size) <= HeadroomLimit

\* A full egress pool admits the packet before the other limits are tested.
CheckEgressAdmission(out, q, size) ==
  \/ Add(usedEgressSP[GetSP(q)], size) > MaxBuffer
  \/ /\ Add(usedEgressPort[out], size) <= MaxBuffer
     /\ Add(qShared[out][q], size) <= MaxBuffer

UpdateIngressAdmission(in, q, size) ==
  /\ usedTotal' = Add(usedTotal, size)
  /\ usedIngressSP' = [usedIngressSP EXCEPT ![GetSP(q)] = Add(@, size)]
  /\ usedIngressPort' = [usedIngressPort EXCEPT ![in] = Add(@, size)]
  /\ usedIngressPG' = [usedIngressPG EXCEPT ![in][q] = Add(@, size)]
  /\ headroom' = IF usedIngressSP'[GetSP(q)] > SpLimit
                 THEN [headroom EXCEPT ![in][q] = Add(@, size)]
                 ELSE headroom

\* Mutant of RemoveFromIngressAdmission: what the headroom was charged for is
\* not taken off the priority group.
RemoveHeadroomFirst(in, q, size) ==
  /\ usedTotal' = Add(usedTotal, -size)
  /\ usedIngressSP' = [usedIngressSP EXCEPT ![GetSP(q)] = Add(@, -size)]
  /\ usedIngressPort' = [usedIngressPort EXCEPT ![in] = Add(@, -size)]
  /\ usedIngressPG' =
       IF headroom[in][q] >= size THEN usedIngressPG
       ELSE [usedIngressPG EXCEPT ![in][q] = Add(@, -size)]
  /\ headroom' = [headroom EXCEPT ![in][q] = IF @ > size THEN @ - size ELSE 0]

\* Mutant of RemoveFromIngressAdmission: headroom is given back only while the
\* pool is above its limit, the test it is charged by.
RemoveWhileAbove(in, q, size) ==
  /\ usedTotal' = Add(usedTotal, -size)
  /\ usedIngressSP' = [usedIngressSP EXCEPT ![GetSP(q)] = Add(@, -size)]
  /\ usedIngressPort' = [usedIngressPort EXCEPT ![in] = Add(@, -size)]
  /\ usedIngressPG' = [usedIngressPG EXCEPT ![in][q] = Add(@, -size)]
  /\ headroom' = IF usedIngressSP'[GetSP(q)] > SpLimit
                 THEN [headroom EXCEPT ![in][q] = IF @ > size THEN @ - size
                                                  ELSE 0]
                 ELSE headroom

RemoveFromIngressAdmission(in, q, size) ==
  /\ usedTotal' = Add(usedTotal, -size)
  /\ usedIngressSP' = [usedIngressSP EXCEPT ![GetSP(q)] = Add(@, -size)]
  /\ usedIngressPort' = [usedIngressPort EXCEPT ![in] = Add(@, -size)]
  /\ usedIngressPG' = [usedIngressPG EXCEPT ![in][q] = Add(@, -size)]
  /\ headroom' = [headroom EXCEPT ![in][q] = IF @ > size THEN @ - size ELSE 0]

(* The egress counters of one queue: min is the part of the queue charged  *)
(* to its guaranteed cell, shared the rest.                                *)

\* Mutant of Patch: what the cell held is not given to the shared part.
PatchLosesCell(c) ==
  IF c.min < Cell /\ c.shared > Cell
  THEN [min |-> Cell, shared |-> c.shared - Cell] ELSE c

\* "patch for different size of packets": fill the cell from the rest.
Patch(c) ==
  IF c.min < Cell /\ c.shared > Cell
  THEN [min |-> Cell, shared |-> c.shared - Cell + c.min] ELSE c

Charge(c, size) ==
  IF Add(c.min, size) < Cell
  THEN [c EXCEPT !.min = Add(@, size)]
  ELSE Patch([c EXCEPT !.shared = Add(@, size)])

\* Mutant of Discharge: empties the guaranteed cell first.
DischargeMinFirst(c, size) ==
  IF c.min >= size
  THEN [c EXCEPT !.min = @ - size]
  ELSE Patch([c EXCEPT !.shared = Add(@, -size)])

Discharge(c, size) ==
  IF c.shared >= size
  THEN [c EXCEPT !.shared = @ - size]
  ELSE Patch([c EXCEPT !.min = Add(@, -size)])

\* The port and the pool follow the shared part of the queue.
SetEgress(out, q, c) ==
  LET change == c.shared - qShared[out][q]
  IN  /\ qMin' = [qMin EXCEPT ![out][q] = c.min]
      /\ qShared' = [qShared EXCEPT ![out][q] = c.shared]
      /\ usedEgressPort' = [usedEgressPort EXCEPT ![out] = Add(@, change)]
      /\ usedEgressSP' = [usedEgressSP EXCEPT ![GetSP(q)] = Add(@, change)]

Egress(out, q) == [min |-> qMin[out][q], shared |-> qShared[out][q]]

---------------------------------------------------------------------------
(* QbbNetDevice::Send of a switch, for a packet that came in through in.   *)

Admit(in, out, q, size) ==
  /\ CheckIngressAdmission(in, q, size) /\ CheckEgressAdmission(out, q, size)
  /\ UpdateIngressAdmission(in, q, size)
  /\ SetEgress(out, q, Charge(Egress(out, q), size))
  /\ queue' = [queue EXCEPT ![out][q] = Append(@, [in |-> in, size |-> size])]

\* QbbNetDevice::DequeueAndTransmit of a switch, for a packet of queue q.
DequeueAndTransmit(out, q) ==
  /\ queue[out][q] # <<>>
  /\ LET p == Head(queue[out][q])
     IN  /\ RemoveFromIngressAdmission(p.in, q, p.size)
         /\ SetEgress(out, q, Discharge(Egress(out, q), p.size))
  /\ queue' = [queue EXCEPT ![out][q] = Tail(@)]

BufferNext ==
  \E out \in Ports, q \in Queues :
    \/ \E in \in Ports, size \in Sizes : Admit(in, out, q, size)
    \/ DequeueAndTransmit(out, q)

BufferSpec == BufferInit /\ [][BufferNext]_mmuVars

---------------------------------------------------------------------------
Counter == 0 .. Word - 1

BufferTypes ==
  /\ usedTotal \in Counter
  /\ usedIngressSP \in [SPs -> Counter]
  /\ usedIngressPort \in [Ports -> Counter]
  /\ usedIngressPG \in [Ports -> [Queues -> Counter]]
  /\ headroom \in [Ports -> [Queues -> Counter]]
  /\ qMin \in [Ports -> [Queues -> Counter]]
  /\ qShared \in [Ports -> [Queues -> Counter]]
  /\ usedEgressPort \in [Ports -> Counter]
  /\ usedEgressSP \in [SPs -> Counter]
  /\ queue \in [Ports -> [Queues -> Seq(Packet)]]

\* Bytes of those packets that came in through a port of ins.
BytesFrom(packets, ins) ==
  SumFunction([k \in DOMAIN packets |->
                 IF packets[k].in \in ins THEN packets[k].size ELSE 0])

\* Bytes of each queue that came in through a port of ins.
Held(ins) == [o \in Ports |-> [q \in Queues |-> BytesFrom(queue[o][q], ins)]]

\* The sum of amount over the queues qs of the ports outs.
Total(amount, outs, qs) ==
  SumFunction([oq \in outs \X qs |-> amount[oq[1]][oq[2]]])

InPool(s) == {q \in Queues : GetSP(q) = s}

\* The four ingress counters say exactly what is stored in all the egress
\* queues: a packet is taken off the port, priority group and pool it was
\* counted in (broadcom-node.cc:228).
IngressMatchesStored ==
  /\ usedTotal = Total(Held(Ports), Ports, Queues)
  /\ \A s \in SPs : usedIngressSP[s] = Total(Held(Ports), Ports, InPool(s))
  /\ \A i \in Ports : usedIngressPort[i] = Total(Held({i}), Ports, Queues)
  /\ \A i \in Ports, q \in Queues :
       usedIngressPG[i][q] = Total(Held({i}), Ports, {q})

\* Headroom in use is a part of what the priority group holds, although it is
\* charged and released by different tests (broadcom-node.cc:185, :235).
HeadroomWithinPG ==
  \A i \in Ports, q \in Queues : headroom[i][q] <= usedIngressPG[i][q]

\* The egress counters lose nothing: in the counters' arithmetic the two
\* parts of a queue add up to its bytes, and the port and the pool to the
\* shared parts, in spite of the two patches (broadcom-node.cc:212, :254).
EgressMatchesQueues ==
  /\ \A o \in Ports, q \in Queues :
       Add(qMin[o][q], qShared[o][q]) = Held(Ports)[o][q]
  /\ \A o \in Ports : usedEgressPort[o] = Total(qShared, {o}, Queues)
  /\ \A s \in SPs : usedEgressSP[s] = Total(qShared, Ports, InPool(s))

\* What ShouldSendCN and ShouldSendCN_my take for the length of a queue is
\* its length up to the guaranteed cell below and one packet above, so that
\* an error of the accounting never builds up (broadcom-node.cc:360, :400).
SharedTracksQueue ==
  \A o \in Ports, q \in Queues :
    /\ qShared[o][q] >= Held(Ports)[o][q] - Cell
    /\ \E s \in Sizes : qShared[o][q] < Held(Ports)[o][q] + s

\* However admissions and transmissions interleave, and whatever the unsigned
\* counters wrap through on the way, all ten of them keep matching what is
\* stored (broadcom-node.cc:178-263).
CountersMatch ==
  IngressMatchesStored /\ EgressMatchesQueues /\ SharedTracksQueue
===========================================================================
