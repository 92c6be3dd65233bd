------------------------------ MODULE RetSender ------------------------------
(***************************************************************************)
(* A flow of the simulator's RET: the sender (timely-sender.cc), which     *)
(* sends bursts while its window is at least one segment and paces single  *)
(* segments while it is less, and the receiver (timely-receiver.cc), which *)
(* acknowledges every packet it gets.  An acknowledgement carries the      *)
(* number of the acknowledgement, not that of the packet, and the target   *)
(* delay of the receiving node (TargetDelay).                              *)
(*                                                                         *)
(* A window is a multiple of 1/Unit segment, and a delay one of Delays,    *)
(* less the part that is always there.  The network may lose packets and   *)
(* acknowledgements, and the link layer may deliver a packet twice         *)
(* (ReceiverCheckSeq passes duplicates on).  Assertions are those of an    *)
(* optimized build: not checked.                                           *)
(***************************************************************************)
EXTENDS TargetDelay, Sequences

CONSTANTS
  Unit,         \* windows are multiples of 1/Unit segment
  MaxWindow,    \* tj_max_window_forall, in 1/Unit; the smallest window is 1
  Allowed,      \* m_allowed: segments of the flow
  Delays,       \* delays of a segment, less tj_fs_very_base_rtt
  Word,         \* 2^32: sequence numbers are unsigned
  MaxLosses,    \* bound: packets and acknowledgements lost
  MaxDuplicates \* bound: packets delivered twice

ASSUME RetAssumption ==
  /\ Unit \in Nat \ {0} /\ MaxWindow \in Nat /\ MaxWindow >= Unit
  /\ Allowed \in Nat \ {0} /\ MaxLosses \in Nat /\ MaxDuplicates \in Nat
  /\ Delays \subseteq Nat
  /\ Word \in Nat /\ Word > Allowed + MaxWindow + MaxDuplicates + 1

VARIABLES
  window,      \* tj_window_now_forfabric
  sent,        \* m_sent
  inflight,    \* tj_inflight_packet
  received,    \* m_received: acknowledgements received
  firstPacing, \* tj_first_pacing
  sendEvent,   \* is m_sendEvent running?
  orphans,     \* pacing events whose handle m_sendEvent was overwritten
  stopReach,   \* stop_reach
  data,        \* packets on their way to the receiver
  acks,        \* acknowledgements on their way back: number and target
  ackSeq,      \* TimelyReceiver::m_sent
  losses,      \* packets and acknowledgements lost so far
  duplicates   \* packets delivered twice so far

sender  == <<window, sent, inflight, received, firstPacing, sendEvent, orphans,
             stopReach>>
faults  == <<losses, duplicates>>
vars    == <<sender, data, acks, ackSeq, faults, targetVars>>

Init ==
  /\ TargetInit
  /\ window \in 1 .. MaxWindow /\ sent = 0 /\ inflight = 0 /\ received = 0
  /\ firstPacing = TRUE /\ sendEvent = TRUE /\ orphans = 0
  /\ stopReach = FALSE
  /\ data = 0 /\ acks = <<>> /\ ackSeq = 0
  /\ losses = 0 /\ duplicates = 0

---------------------------------------------------------------------------
Smaller(a, b) == IF a < b THEN a ELSE b

\* Mutant of Burst: a window below one segment sends nothing.
BurstWhole(w, out) == IF w > out * Unit THEN (w - out * Unit) \div Unit ELSE 0

\* should_send of SendBurst: what the window w leaves, with out in flight.
Burst(w, out) ==
  IF w <= out * Unit THEN 0
  ELSE IF w < Unit THEN 1 ELSE (w - out * Unit) \div Unit

\* Mutant of SendBurst: the burst is counted by the next acknowledgement only.
SendBurstUncounted(w, out) ==
  LET n == Smaller(Burst(w, out), Allowed - sent) IN
    /\ sent' = sent + n
    /\ data' = data + n
    /\ inflight' = out

\* The burst ends with the flow, but the whole of it is counted.
SendBurst(w, out) ==
  LET n == Smaller(Burst(w, out), Allowed - sent) IN
    /\ sent' = sent + n
    /\ data' = data + n
    /\ inflight' = out + Burst(w, out)

SendNothing(out) == inflight' = out /\ UNCHANGED <<sent, data>>

\* Mutant of SendPaced: the next event is scheduled only by the first call.
SendPacedOnce(w, out, running, others) ==
  /\ IF firstPacing THEN SendNothing(out) ELSE SendBurst(w, out)
  /\ firstPacing' = FALSE
  /\ sendEvent' = (running \/ firstPacing)
  /\ orphans' = IF running THEN others + 1 ELSE others

\* A window below one segment: the first call only schedules the next one.  A
\* running event whose handle is overwritten runs all the same.
SendPaced(w, out, running, others) ==
  /\ IF firstPacing THEN SendNothing(out) ELSE SendBurst(w, out)
  /\ firstPacing' = FALSE
  /\ sendEvent' = TRUE
  /\ orphans' = IF running THEN others + 1 ELSE others

SendWindow(w, out, running, others) ==
  /\ SendBurst(w, out)
  /\ firstPacing' = TRUE
  /\ sendEvent' = running /\ orphans' = others

\* Send with window w and out packets in flight, while m_sendEvent is running
\* or not and others is the number of orphans.
Send(w, out, running, others) ==
  \/ /\ sent >= Allowed
     /\ SendNothing(out) /\ UNCHANGED firstPacing
     /\ sendEvent' = running /\ orphans' = others
  \/ sent < Allowed /\ w >= Unit /\ SendWindow(w, out, running, others)
  \/ sent < Allowed /\ w < Unit /\ SendPaced(w, out, running, others)

\* The event m_sendEvent: the start, or the end of a pacing interval.
SendEventFires ==
  /\ sendEvent
  /\ Send(window, inflight, FALSE, orphans)
  /\ UNCHANGED <<window, received, stopReach, acks, ackSeq, faults,
                 targetVars>>

OrphanFires ==
  /\ orphans > 0
  /\ Send(window, inflight, sendEvent, orphans - 1)
  /\ UNCHANGED <<window, received, stopReach, acks, ackSeq, faults,
                 targetVars>>

StopApplication ==
  /\ ~stopReach
  /\ stopReach' = TRUE /\ sendEvent' = FALSE
  /\ UNCHANGED <<window, sent, inflight, received, firstPacing, orphans, data,
                 acks, ackSeq, faults, targetVars>>

---------------------------------------------------------------------------
\* What UpdateWindow_forfabric makes of window w when a segment took delay and
\* the target is goal: an increase by a segment, of the whole window above one;
\* a decrease by at most two fifths, or none within a round trip of the last.
Updated(w, delay, goal) ==
  IF delay <= goal
  THEN {v \in w + 1 .. w + Unit : w < Unit \/ (v - w - 1) * w < Unit * Unit}
  ELSE {v \in 1 .. w : 5 * v >= 3 * w}

\* Mutant of Bounded: no upper bound.
BoundedBelow(w) == w

\* The bounds of result_handle.
Bounded(w) == Smaller(w, MaxWindow)

\* Mutant of InFlight: the acknowledged packet is counted.
InFlightInclusive(seq) == (sent - seq) % Word

InFlight(seq) == (sent - seq - 1) % Word

\* An acknowledgement.  A flow that is pacing waits for its event.
Receive ==
  /\ acks # <<>>
  /\ acks' = Tail(acks)
  /\ IF stopReach
     THEN /\ sendEvent' = FALSE
          /\ UNCHANGED <<window, sent, inflight, received, firstPacing, orphans,
                         data>>
     ELSE \E delay \in Delays : \E v \in Updated(window, delay, Head(acks).target) :
          LET w == Bounded(v)
              out == InFlight(Head(acks).seq) IN
          /\ window' = w
          /\ received' = received + 1
          /\ IF w < Unit /\ ~firstPacing
             THEN SendNothing(out) /\ UNCHANGED <<firstPacing, sendEvent, orphans>>
             ELSE Send(w, out, sendEvent, orphans)
  /\ UNCHANGED <<stopReach, ackSeq, faults, targetVars>>

\* HandleRead of the receiver: a packet that is marked or not.
HandleRead(marked) ==
  /\ data > 0
  /\ data' = data - 1
  /\ PacketRead(marked)
  /\ acks' = Append(acks, [seq |-> ackSeq, target |-> target'])
  /\ ackSeq' = ackSeq + 1
  /\ UNCHANGED <<sender, faults>>

\* Events of the receiving node that are not packets of this flow; TenSeconds is
\* the clock.
NodeEvent ==
  /\ DecreaseEvent \/ TenSeconds
  /\ UNCHANGED <<sender, data, acks, ackSeq, faults>>

LoseData ==
  /\ data > 0 /\ losses < MaxLosses
  /\ data' = data - 1 /\ losses' = losses + 1
  /\ UNCHANGED <<sender, acks, ackSeq, duplicates, targetVars>>

LoseAck ==
  /\ acks # <<>> /\ losses < MaxLosses
  /\ acks' = Tail(acks) /\ losses' = losses + 1
  /\ UNCHANGED <<sender, data, ackSeq, duplicates, targetVars>>

\* The link layer goes back and sends a packet again that had arrived.
Duplicate ==
  /\ data > 0 /\ duplicates < MaxDuplicates
  /\ data' = data + 1 /\ duplicates' = duplicates + 1
  /\ UNCHANGED <<sender, acks, ackSeq, losses, targetVars>>

Next ==
  \/ SendEventFires \/ OrphanFires \/ StopApplication \/ Receive
  \/ \E marked \in BOOLEAN : HandleRead(marked)
  \/ NodeEvent \/ LoseData \/ LoseAck \/ Duplicate

Fairness ==
  /\ WF_vars(SendEventFires) /\ WF_vars(OrphanFires)
  /\ WF_vars(Receive) /\ WF_vars(\E marked \in BOOLEAN : HandleRead(marked))
  /\ WF_vars(DecreaseEvent /\ NodeEvent)

Spec == Init /\ [][Next]_vars /\ Fairness

---------------------------------------------------------------------------
TypeOK ==
  /\ TargetTypeOK
  /\ window \in 1 .. MaxWindow /\ sent \in 0 .. Allowed
  /\ inflight \in 0 .. Word - 1 /\ received \in Nat
  /\ firstPacing \in BOOLEAN /\ sendEvent \in BOOLEAN /\ orphans \in Nat
  /\ stopReach \in BOOLEAN /\ data \in Nat /\ ackSeq \in Nat
  /\ acks \in Seq([seq : Nat, target : Floor .. Ceiling])
  /\ losses \in 0 .. MaxLosses /\ duplicates \in 0 .. MaxDuplicates

\* Every variable has its type, and never more is on its way than the largest
\* window and the packets the network itself has doubled, though the in-flight
\* count is derived from numbers of the receiver and may have wrapped
\* (timely-sender.cc:472, 606).
OutstandingFitsWindow ==
  TypeOK /\ data + Len(acks) <= MaxWindow \div Unit + duplicates

\* While nothing is lost or doubled, the in-flight count is what is on its way;
\* only the last burst is counted in full (timely-sender.cc:472-477, 606).
InFlightCounts ==
  losses = 0 /\ duplicates = 0 /\ ~stopReach =>
    /\ inflight >= data + Len(acks)
    /\ sent < Allowed => inflight = data + Len(acks)

\* An unfinished flow that waits for its pacing event has one: acknowledgements
\* leave it alone, so nothing else would send (timely-sender.cc:423-443, 614).
PacingGoesOn ==
  window < Unit /\ ~firstPacing /\ sent < Allowed /\ ~stopReach =>
    sendEvent \/ orphans > 0

\* A flow that is not stopped, and none of whose packets is lost or doubled, is
\* sent and acknowledged, however its window moves across one segment
\* (timely-sender.cc:415-447, 515-617).
Completes ==
  [](losses = 0 /\ duplicates = 0 /\ ~stopReach) => <>(received = Allowed)

\* "NS_ASSERT(m_sendEvent.IsExpired())" (timely-sender.cc:419): an
\* acknowledgement never calls Send while the pacing event is running.
SendsWhenExpired ==
  [][received' > received /\ ~(window' < Unit /\ ~firstPacing) => ~sendEvent]_vars
=============================================================================
