--------------------------- MODULE RSwiftClient ---------------------------
(***************************************************************************)
(* The RSwift client of the test bed (rc_client.cpp, rc_pingpong.hpp): one *)
(* sender thread per flow posts segments on one shared RC queue pair as    *)
(* long as the flow's congestion window allows, one completion thread      *)
(* polls the completion queue, measures the RTT of each segment and feeds  *)
(* it to the flow's window, and the main thread joins them all.            *)
(*                                                                         *)
(* The threads share, without a lock, an atomic counter of segments in     *)
(* flight, a ring of (available, post time) slots per flow, and the        *)
(* window.  One action is one access to shared memory, in program order:   *)
(* the Makefile builds without optimisation for x86, where stores become   *)
(* visible in program order and aligned words are read whole.              *)
(***************************************************************************)
EXTENDS Integers, Sequences, FiniteSets

CONSTANTS
  Flows,        \* flow_id of cc_context
  Iters,        \* segments every flow sends (iters)
  Slots,        \* round_bitmap_len
  Unit,         \* windows are whole numbers of 1/Unit segment
  MinWindow,    \* cc_min_window_forall
  MaxWindow,    \* cc_max_window_forall
  InitWindow,   \* init_window
  Increase,     \* cc_increat_ai_forfabric, the largest additive step
  PollMax,      \* max_cqe_num_one_poll
  MaxSendWr,    \* max_send_wr of the queue pair
  Word,         \* number of values of the in-flight counter (2^32)
  NicMayFail    \* whether the queue pair may go into the error state

ASSUME ClientAssumption ==
  /\ IsFiniteSet(Flows)
  /\ Iters \in Nat \ {0} /\ Slots \in Nat \ {0} /\ Unit \in Nat \ {0}
  /\ PollMax \in Nat \ {0} /\ MaxSendWr \in Nat \ {0}
  /\ MinWindow \in Nat \ {0} /\ MaxWindow \in Nat /\ Increase \in Nat
  /\ InitWindow \in MinWindow .. MaxWindow
  /\ MaxWindow >= Unit
  /\ Word \in Nat /\ Word > Slots + 1
  /\ NicMayFail \in BOOLEAN

\* The ring holds every segment the largest window lets out: 20.5 < 64.
ASSUME RingAssumption == MaxWindow + Increase < (Slots + 1) * Unit

VARIABLES
  begin_to_send, \* set by the SIGRTMAX handler
  mpc,           \* main thread: "join" or "exit"
  pc,            \* per flow, the next statement of cc_send_segments
  seg_wr_seq,    \* per flow, the sequence number of the next segment
  snapshot,      \* per flow, the sender's local updated_window
  burst,         \* per flow, segments left in this pp_post_send
  slotFree,      \* cc_cache_[slot]<0>: the slot is available
  slotTime,      \* cc_cache_[slot]<1>: the segment whose post time it holds
  inflight,      \* infight_segment_num_
  window,        \* cc_window_now_forfabric
  wq,            \* work requests posted and not yet handled, oldest first
  completed,     \* how many of them have completed with success
  broken,        \* the rest complete with an error status
  cpc,           \* completion thread, the next statement of cc_send_cqe
  polled,        \* entries of wc[] not yet handled
  ne,            \* entries the last poll returned
  limit          \* segments_send_num_limit

senderVars == <<pc, seg_wr_seq, snapshot, burst>>
slotVars   == <<slotFree, slotTime>>
nicVars    == <<wq, completed, broken>>
cqeVars    == <<cpc, polled, ne, limit>>
mainVars   == <<begin_to_send, mpc>>
vars == <<senderVars, slotVars, nicVars, cqeVars, mainVars, inflight, window>>

Slot(seq) == seq % Slots
RawMax    == MaxWindow + Increase
WorkRequest == [flow : Flows, seq : 0 .. Iters - 1]

Init ==
  /\ begin_to_send = FALSE
  /\ mpc = "join"
  /\ pc = [f \in Flows |-> "window"]
  /\ seg_wr_seq = [f \in Flows |-> 0]
  /\ snapshot = [f \in Flows |-> InitWindow]
  /\ burst = [f \in Flows |-> 0]
  /\ slotFree = [f \in Flows |-> [s \in 0 .. Slots - 1 |-> TRUE]]
  /\ slotTime = [f \in Flows |-> [s \in 0 .. Slots - 1 |-> 0]]
  /\ inflight = [f \in Flows |-> 0]
  /\ window = [f \in Flows |-> InitWindow]
  /\ wq = <<>> /\ completed = 0 /\ broken = FALSE
  /\ cpc = "poll" /\ polled = 0 /\ ne = 0
  /\ limit = Iters * Cardinality(Flows)

---------------------------------------------------------------------------
(* The main thread.  The controllers are deleted once every thread ended.  *)

SigHandler ==
  /\ ~begin_to_send /\ mpc = "join"
  /\ begin_to_send' = TRUE
  /\ UNCHANGED <<mpc, senderVars, slotVars, nicVars, cqeVars, inflight,
                 window>>

JoinAll ==
  /\ mpc = "join" /\ begin_to_send
  /\ \A f \in Flows : pc[f] = "done"
  /\ cpc \in {"done", "error"}
  /\ mpc' = "exit"
  /\ begin_to_send' = FALSE
  /\ UNCHANGED <<senderVars, slotVars, nicVars, cqeVars, inflight, window>>

---------------------------------------------------------------------------
(* cc_send_segments *)

Goto(f, label) == pc' = [pc EXCEPT ![f] = label]

\* get_window(): an aligned double, possibly between update and clamp.
ReadWindow(f) ==
  /\ begin_to_send /\ pc[f] = "window" /\ seg_wr_seq[f] < Iters
  /\ snapshot' = [snapshot EXCEPT ![f] = window[f]]
  /\ Goto(f, "compare")
  /\ UNCHANGED <<seg_wr_seq, burst, slotVars, nicVars, cqeVars, mainVars,
                 inflight, window>>

SenderReturns(f) ==
  /\ begin_to_send /\ pc[f] = "window" /\ seg_wr_seq[f] = Iters
  /\ Goto(f, "done")
  /\ UNCHANGED <<seg_wr_seq, snapshot, burst, slotVars, nicVars, cqeVars,
                 mainVars, inflight, window>>

CompareWindow(f) ==
  /\ pc[f] = "compare"
  /\ Goto(f, IF snapshot[f] <= inflight[f] * Unit THEN "window"
             ELSE IF snapshot[f] < Unit THEN "pace" ELSE "allow")
  /\ UNCHANGED <<seg_wr_seq, snapshot, burst, slotVars, nicVars, cqeVars,
                 mainVars, inflight, window>>

\* Starts a pp_post_send of n segments, or goes round the loop again.
StartBurst(f, n) ==
  /\ Goto(f, IF n = 0 THEN "window" ELSE "post")
  /\ burst' = [burst EXCEPT ![f] = n]
  /\ UNCHANGED <<seg_wr_seq, snapshot, slotVars, nicVars, cqeVars, mainVars,
                 inflight, window>>

\* A window below one segment: one segment, after a sleep of rtt/window.
Pace(f) ==
  /\ pc[f] = "pace"
  /\ StartBurst(f, IF slotFree[f][Slot(seg_wr_seq[f])] THEN 1 ELSE 0)

Smaller(a, b) == IF a < b THEN a ELSE b

\* Mutant of Allowed: the segments already in flight are not subtracted.
AllowedWholeWindow(f) == Smaller(snapshot[f] \div Unit, Iters - seg_wr_seq[f])

\* allow_to_send, from a second read of the counter.
Allowed(f) ==
  Smaller((snapshot[f] - inflight[f] * Unit) \div Unit, Iters - seg_wr_seq[f])

\* Mutant of IsAvailableRun: the slots are not looked at.
IsWholeRun(f, n, allow) == n = allow

\* n is the run of consecutive available slots, up to allow_to_send.  Only
\* this thread takes slots, so those it has passed stay available, and reading
\* them one by one counts what is there when the last one is read.
IsAvailableRun(f, n, allow) ==
  /\ \A i \in 0 .. n - 1 : slotFree[f][Slot(seg_wr_seq[f] + i)]
  /\ n < allow => ~slotFree[f][Slot(seg_wr_seq[f] + n)]

ReadInflight(f) ==
  /\ pc[f] = "allow"
  /\ Goto(f, "scan")
  /\ burst' = [burst EXCEPT ![f] = Allowed(f)]
  /\ UNCHANGED <<seg_wr_seq, snapshot, slotVars, nicVars, cqeVars, mainVars,
                 inflight, window>>

ScanSlots(f) ==
  /\ pc[f] = "scan"
  /\ \E n \in 0 .. burst[f] :
       IsAvailableRun(f, n, burst[f]) /\ StartBurst(f, n)

(* pp_post_send, per segment: post, then record time, count and slot.  The *)
(* completion may be polled before the last three are done.                *)

\* The queue pair holds a request until its completion is polled.
SendQueueFull == Len(wq) - polled >= MaxSendWr

PostSend(f) ==
  /\ pc[f] = "post"
  /\ ~SendQueueFull
  /\ wq' = Append(wq, [flow |-> f, seq |-> seg_wr_seq[f]])
  /\ Goto(f, "stamp")
  /\ UNCHANGED <<seg_wr_seq, snapshot, burst, slotVars, completed, broken,
                 cqeVars, mainVars, inflight, window>>

\* Mutant of PostSendFails: the segment is counted before the post is known to
\* have succeeded.
PostSendFailsCounted(f) ==
  /\ pc[f] = "post"
  /\ SendQueueFull
  /\ Goto(f, "window")
  /\ burst' = [burst EXCEPT ![f] = 0]
  /\ inflight' = [inflight EXCEPT ![f] = (@ + 1) % Word]
  /\ UNCHANGED <<seg_wr_seq, snapshot, slotVars, nicVars, cqeVars, mainVars,
                 window>>

PostSendFails(f) ==
  /\ pc[f] = "post"
  /\ SendQueueFull
  /\ Goto(f, "window")
  /\ burst' = [burst EXCEPT ![f] = 0]
  /\ UNCHANGED <<seg_wr_seq, snapshot, slotVars, nicVars, cqeVars, mainVars,
                 inflight, window>>

StampSlot(f) ==
  /\ pc[f] = "stamp"
  /\ slotTime' = [slotTime EXCEPT ![f][Slot(seg_wr_seq[f])] = seg_wr_seq[f]]
  /\ Goto(f, "count")
  /\ UNCHANGED <<seg_wr_seq, snapshot, burst, slotFree, nicVars, cqeVars,
                 mainVars, inflight, window>>

CountSegment(f) ==
  /\ pc[f] = "count"
  /\ inflight' = [inflight EXCEPT ![f] = (@ + 1) % Word]
  /\ Goto(f, "mark")
  /\ UNCHANGED <<seg_wr_seq, snapshot, burst, slotVars, nicVars, cqeVars,
                 mainVars, window>>

\* Mutant of MarkSlotBusy: the slot stays available.
AdvanceOnly(f) ==
  /\ pc[f] = "mark"
  /\ seg_wr_seq' = [seg_wr_seq EXCEPT ![f] = @ + 1]
  /\ burst' = [burst EXCEPT ![f] = @ - 1]
  /\ Goto(f, IF burst[f] = 1 THEN "window" ELSE "post")
  /\ UNCHANGED <<snapshot, slotVars, nicVars, cqeVars, mainVars, inflight,
                 window>>

MarkSlotBusy(f) ==
  /\ pc[f] = "mark"
  /\ slotFree' = [slotFree EXCEPT ![f][Slot(seg_wr_seq[f])] = FALSE]
  /\ seg_wr_seq' = [seg_wr_seq EXCEPT ![f] = @ + 1]
  /\ burst' = [burst EXCEPT ![f] = @ - 1]
  /\ Goto(f, IF burst[f] = 1 THEN "window" ELSE "post")
  /\ UNCHANGED <<snapshot, slotTime, nicVars, cqeVars, mainVars, inflight,
                 window>>

---------------------------------------------------------------------------
(* The NIC: a reliable connection completes its requests in order; when it *)
(* gives up, every request left is flushed with an error status.           *)

Complete ==
  /\ ~broken /\ completed < Len(wq)
  /\ completed' = completed + 1
  /\ UNCHANGED <<wq, broken, senderVars, slotVars, cqeVars, mainVars,
                 inflight, window>>

ConnectionFails ==
  /\ NicMayFail /\ ~broken /\ completed < Len(wq)
  /\ broken' = TRUE
  /\ UNCHANGED <<wq, completed, senderVars, slotVars, cqeVars, mainVars,
                 inflight, window>>

---------------------------------------------------------------------------
(* cc_send_cqe *)

Entry  == wq[1]                \* the wc[i] being handled, while polled > 0
EntrySlot == Slot(Entry.seq)

PollCq ==
  /\ cpc = "poll" /\ limit > 0
  /\ LET available == IF broken THEN Len(wq) ELSE completed
     IN  /\ available > 0
         /\ ne' = Smaller(available, PollMax)
  /\ polled' = ne'
  /\ cpc' = "entry"
  /\ UNCHANGED <<limit, senderVars, slotVars, nicVars, mainVars, inflight,
                 window>>

CqeReturns ==
  /\ cpc = "poll" /\ limit = 0
  /\ cpc' = "done"
  /\ UNCHANGED <<polled, ne, limit, senderVars, slotVars, nicVars, mainVars,
                 inflight, window>>

\* An error status ends the thread.
EntryFailed ==
  /\ cpc = "entry" /\ completed = 0
  /\ cpc' = "error"
  /\ UNCHANGED <<polled, ne, limit, senderVars, slotVars, nicVars, mainVars,
                 inflight, window>>

\* Mutant of AwaitSlotBusy: does not wait for the sender.
AwaitNothing ==
  /\ cpc = "entry" /\ completed > 0
  /\ cpc' = "uncount"
  /\ UNCHANGED <<polled, ne, limit, senderVars, slotVars, nicVars, mainVars,
                 inflight, window>>

\* Spins until the sender has marked the slot busy.
AwaitSlotBusy ==
  /\ cpc = "entry" /\ completed > 0
  /\ ~slotFree[Entry.flow][EntrySlot]
  /\ cpc' = "uncount"
  /\ UNCHANGED <<polled, ne, limit, senderVars, slotVars, nicVars, mainVars,
                 inflight, window>>

\* Mutant of UncountSegment: the counter is left alone.
UncountNothing ==
  /\ cpc = "uncount"
  /\ cpc' = "ack"
  /\ UNCHANGED <<polled, ne, limit, senderVars, slotVars, nicVars, mainVars,
                 inflight, window>>

UncountSegment ==
  /\ cpc = "uncount"
  /\ inflight' = [inflight EXCEPT ![Entry.flow] = (@ - 1) % Word]
  /\ cpc' = "ack"
  /\ UNCHANGED <<polled, ne, limit, senderVars, slotVars, nicVars, mainVars,
                 window>>

\* What update_window_forfabric may leave: down to a fifth, up by Increase.
UpdatedWindow(w) == (w + 4) \div 5 .. w + Increase

\* The RTT is the completion time less the slot's; receive_ack's update.
ReceiveAck ==
  /\ cpc = "ack"
  /\ \E w \in UpdatedWindow(window[Entry.flow]) :
       window' = [window EXCEPT ![Entry.flow] = w]
  /\ cpc' = "clamp"
  /\ UNCHANGED <<polled, ne, limit, senderVars, slotVars, nicVars, mainVars,
                 inflight>>

\* Mutant of Clamp: no upper bound.
ClampBelow(w) == IF w < MinWindow THEN MinWindow ELSE w

Clamp(w) ==
  IF w < MinWindow THEN MinWindow ELSE IF w > MaxWindow THEN MaxWindow ELSE w

ClampWindow ==
  /\ cpc = "clamp"
  /\ window' = [window EXCEPT ![Entry.flow] = Clamp(@)]
  /\ cpc' = "release"
  /\ UNCHANGED <<polled, ne, limit, senderVars, slotVars, nicVars, mainVars,
                 inflight>>

\* Mutant of ReleaseSlot: subtracts the size of wc[] instead of ne.
ReleaseSlotPollMax ==
  /\ cpc = "release"
  /\ slotFree' = [slotFree EXCEPT ![Entry.flow][EntrySlot] = TRUE]
  /\ wq' = Tail(wq) /\ completed' = completed - 1
  /\ polled' = polled - 1
  /\ IF polled = 1
     THEN cpc' = "poll" /\ limit' = limit - Smaller(limit, PollMax)
     ELSE cpc' = "entry" /\ UNCHANGED limit
  /\ UNCHANGED <<ne, broken, slotTime, senderVars, mainVars, inflight, window>>

\* Mutant of ReleaseSlot: the slot is never available again.
KeepSlot ==
  /\ cpc = "release"
  /\ wq' = Tail(wq) /\ completed' = completed - 1
  /\ polled' = polled - 1
  /\ IF polled = 1
     THEN cpc' = "poll" /\ limit' = limit - ne
     ELSE cpc' = "entry" /\ UNCHANGED limit
  /\ UNCHANGED <<ne, broken, slotVars, senderVars, mainVars, inflight, window>>

ReleaseSlot ==
  /\ cpc = "release"
  /\ slotFree' = [slotFree EXCEPT ![Entry.flow][EntrySlot] = TRUE]
  /\ wq' = Tail(wq) /\ completed' = completed - 1
  /\ polled' = polled - 1
  /\ IF polled = 1
     THEN cpc' = "poll" /\ limit' = limit - ne
     ELSE cpc' = "entry" /\ UNCHANGED limit
  /\ UNCHANGED <<ne, broken, slotTime, senderVars, mainVars, inflight, window>>

---------------------------------------------------------------------------
Sender(f) ==
  \/ ReadWindow(f) \/ SenderReturns(f) \/ CompareWindow(f) \/ Pace(f)
  \/ ReadInflight(f) \/ ScanSlots(f)
  \/ PostSend(f) \/ PostSendFails(f)
  \/ StampSlot(f) \/ CountSegment(f) \/ MarkSlotBusy(f)

CqeThread ==
  \/ PollCq \/ CqeReturns \/ EntryFailed \/ AwaitSlotBusy \/ UncountSegment
  \/ ReceiveAck \/ ClampWindow \/ ReleaseSlot

Next ==
  \/ SigHandler \/ JoinAll
  \/ \E f \in Flows : Sender(f)
  \/ Complete \/ ConnectionFails
  \/ CqeThread
  \/ mpc = "exit" /\ UNCHANGED vars

Spec == Init /\ [][Next]_vars

\* The start signal is sent, the scheduler runs every thread, and the NIC
\* completes what is posted.
Fairness ==
  /\ WF_vars(SigHandler) /\ WF_vars(JoinAll)
  /\ \A f \in Flows : WF_vars(Sender(f))
  /\ WF_vars(Complete)
  /\ WF_vars(CqeThread)

FairSpec == Spec /\ Fairness

---------------------------------------------------------------------------
TypeOK ==
  /\ begin_to_send \in BOOLEAN
  /\ mpc \in {"join", "exit"}
  /\ pc \in [Flows -> {"window", "compare", "pace", "allow", "scan", "post",
                       "stamp", "count", "mark", "done"}]
  /\ seg_wr_seq \in [Flows -> 0 .. Iters]
  /\ snapshot \in [Flows -> 0 .. RawMax]
  /\ burst \in [Flows -> Nat]
  /\ slotFree \in [Flows -> [0 .. Slots - 1 -> BOOLEAN]]
  /\ slotTime \in [Flows -> [0 .. Slots - 1 -> 0 .. Iters]]
  /\ inflight \in [Flows -> 0 .. Word - 1]
  /\ window \in [Flows -> 0 .. RawMax]
  /\ wq \in Seq(WorkRequest)
  /\ completed \in 0 .. Len(wq)
  /\ broken \in BOOLEAN
  /\ cpc \in {"poll", "entry", "uncount", "ack", "clamp", "release", "done",
              "error"}
  /\ polled \in 0 .. Len(wq) /\ ne \in Nat /\ limit \in Int

\* The slots of f that hold a segment in flight.
BusySlots(f) == {s \in 0 .. Slots - 1 : ~slotFree[f][s]}

One(condition) == IF condition THEN 1 ELSE 0

\* The completion thread has uncounted a segment and not released its slot.
Releasing(f) == cpc \in {"ack", "clamp", "release"} /\ Entry.flow = f

\* The atomic counter and the ring, updated at different times by two
\* threads, tell the same story at every moment: the counter differs from the
\* busy slots by exactly the updates that are half done.  Hence infight_-
\* segment_num_ -- never takes it below zero (rc_client.cpp:175).
InflightMatchesRing ==
  \A f \in Flows :
    inflight[f] = Cardinality(BusySlots(f)) + One(pc[f] = "mark")
                  - One(Releasing(f))

\* The RTT of a segment is computed from its own post time, whatever the ring
\* was used for before and although the time is written after the segment is
\* posted (rc_pingpong.hpp:776).
OwnPostTime ==
  cpc \in {"uncount", "ack"} => slotTime[Entry.flow][EntrySlot] = Entry.seq

\* Two segments in flight never share a slot of the ring.
SlotsDistinct ==
  \A i, j \in 1 .. Len(wq) :
    i # j /\ wq[i].flow = wq[j].flow => Slot(wq[i].seq) # Slot(wq[j].seq)

\* Although the window and the counter are read at different times and the
\* window may be read before it is clamped, a flow never has more segments
\* out than the largest window.
WindowRespected ==
  \A f \in Flows : inflight[f] * Unit <= MaxWindow + Increase

\* A pp_post_send never takes the flow above the window its sender read, and
\* below one segment (rc_client.cpp:49) nothing else is in the network.
BurstFitsWindow ==
  \A f \in Flows :
    pc[f] \in {"post", "stamp", "count"} =>
      \/ (inflight[f] + burst[f]) * Unit <= snapshot[f]
      \/ snapshot[f] < Unit /\ inflight[f] = 0 /\ burst[f] = 1

\* When the program exits, every segment of every flow has been acknowledged
\* exactly once and nothing is left in the queue pair.
CleanExit ==
  mpc = "exit" /\ ~broken =>
    /\ wq = <<>> /\ limit = 0
    /\ \A f \in Flows : inflight[f] = 0 /\ BusySlots(f) = {}

\* Seen from outside, the client is the abstract stream of segments: counting
\* a segment posts it, uncounting acknowledges it, the rest is a stutter.
Stream == INSTANCE SegmentStream WITH
  posted <- [f \in Flows |-> seg_wr_seq[f] + One(pc[f] = "mark")],
  acked  <- [f \in Flows |->
               seg_wr_seq[f] + One(pc[f] = "mark") - inflight[f]],
  Limit  <- RawMax \div Unit

\* The safety half, and the whole promise under the fairness above.
StreamSafety == Stream!Spec
StreamService == Stream!FairSpec

\* The completion thread never spins forever on a slot (rc_client.cpp:172).
EntryHandled == cpc = "entry" /\ completed > 0 ~> cpc = "ack"

\* Every flow completes and the program exits.
Terminates == <>(mpc = "exit")
===========================================================================
