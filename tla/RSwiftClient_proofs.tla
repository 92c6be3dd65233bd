------------------------ MODULE RSwiftClient_proofs ------------------------
(***************************************************************************)
(* Proofs about the RSwift client, for any number of flows, segments,      *)
(* slots and windows: the types, the agreement of the in-flight counter    *)
(* with the ring, post times, slots and windows, that the client           *)
(* implements SegmentStream, what is left when it exits, and that none of  *)
(* its threads waits for something that cannot come.                       *)
(***************************************************************************)
EXTENDS RSwiftClient, NumberFacts

---------------------------------------------------------------------------
(* The inductive invariant: TypeOK, the properties to be proved, and what  *)
(* each thread knows at each of its statements.                            *)

Posting == {"post", "stamp", "count", "mark"}

\* The burst of f fits in the window its sender read.
FitsWindow(f) ==
  \/ (inflight[f] + burst[f]) * Unit <= snapshot[f]
  \/ snapshot[f] < Unit /\ inflight[f] = 0 /\ burst[f] = 1

\* In flow f's loop, the segments it is about to post exist, and their slots
\* are available until it marks them.
SenderInv(f) ==
  /\ inflight[f] * Unit <= RawMax
  /\ pc[f] \notin {"window", "done"} => seg_wr_seq[f] < Iters
  /\ pc[f] = "pace" => snapshot[f] < Unit /\ inflight[f] = 0
  /\ pc[f] = "allow" => inflight[f] * Unit <= snapshot[f]
  /\ pc[f] = "scan" => (inflight[f] + burst[f]) * Unit <= snapshot[f]
  /\ pc[f] \in {"post", "stamp", "count"} => FitsWindow(f)
  /\ pc[f] = "mark" =>
       burst[f] = 1 \/ (inflight[f] + burst[f] - 1) * Unit <= snapshot[f]
  /\ pc[f] \in Posting \cup {"scan"} =>
       burst[f] <= Slots /\ seg_wr_seq[f] + burst[f] <= Iters
  /\ pc[f] \in Posting =>
       /\ burst[f] >= 1
       /\ \A i \in 0 .. burst[f] - 1 : slotFree[f][Slot(seg_wr_seq[f] + i)]

\* The work request r is the one its sender is still recording.
BeingRecorded(r) ==
  pc[r.flow] \in {"stamp", "count", "mark"} /\ r.seq = seg_wr_seq[r.flow]

\* Every other request in the queue pair has its slot and its post time.
RequestInv(r) ==
  /\ r.seq < seg_wr_seq[r.flow] \/ BeingRecorded(r)
  /\ ~BeingRecorded(r) => ~slotFree[r.flow][Slot(r.seq)]
  /\ \/ slotTime[r.flow][Slot(r.seq)] = r.seq
     \/ BeingRecorded(r) /\ pc[r.flow] = "stamp"

Handling == {"uncount", "ack", "clamp", "release"}

\* What the completion thread knows of the entry at hand.
EntryInv ==
  /\ cpc \in Handling \cup {"entry"} => polled >= 1
  /\ cpc \in Handling => completed >= 1 /\ ~slotFree[Entry.flow][EntrySlot]
  /\ \A f \in Flows :
       window[f] > MaxWindow => cpc = "clamp" /\ Entry.flow = f

IInv ==
  /\ TypeOK
  /\ \A f \in Flows : SenderInv(f)
  /\ \A k \in 1 .. Len(wq) : RequestInv(wq[k])
  /\ EntryInv
  /\ InflightMatchesRing
  /\ SlotsDistinct

---------------------------------------------------------------------------
(* Arithmetic.                                                             *)

LEMMA MulLess ==
  ASSUME NEW n \in Nat, NEW u \in Nat \ {0}, n * u < u
  PROVE  n = 0
<1>1. n * u < 1 * u OBVIOUS
<1>2. n < 1 BY <1>1, MulMono
<1> QED BY <1>2

LEMMA ModSmall ==
  ASSUME NEW x \in Nat, NEW w \in Nat, x < w
  PROVE  x % w = x
<1> DEFINE q == x \div w
           r == x % w
<1>1. w \in Nat \ {0} OBVIOUS
<1>2. r \in 0 .. w - 1 /\ x = q * w + r BY <1>1
<1>3. q \in Nat BY <1>1, DivBounds
<1> HIDE DEF q, r
<1>4. q >= 1 => 1 * w <= q * w BY <1>1, <1>3, MulMono
<1>5. q = 0 BY <1>1, <1>2, <1>3, <1>4
<1>6. x = r BY <1>1, <1>2, <1>5
<1> QED BY <1>6 DEF r

LEMMA SlotType ==
  ASSUME NEW s \in Nat
  PROVE  Slot(s) \in 0 .. Slots - 1
BY ClientAssumption DEF Slot

\* Segments less than a ring apart have different slots.
LEMMA SlotShift ==
  ASSUME NEW s \in Nat, NEW i \in 1 .. Slots - 1
  PROVE  Slot(s + i) # Slot(s)
<1>1. Slots \in Nat \ {0} BY ClientAssumption
<1>2. s = Slots * (s \div Slots) + Slot(s) BY <1>1 DEF Slot
<1>3. s + i = Slots * ((s + i) \div Slots) + Slot(s + i) BY <1>1 DEF Slot
<1>4. SUFFICES ASSUME Slot(s + i) = Slot(s) PROVE FALSE
  OBVIOUS
<1> DEFINE d == (s + i) \div Slots - s \div Slots
<1>5. d \in Int /\ i = Slots * d BY <1>1, <1>2, <1>3, <1>4, SlotType
<1> HIDE DEF d
<1>6. d >= 1 => Slots * d >= Slots BY <1>1, <1>5
<1>7. d <= 0 => Slots * d <= 0 BY <1>1, <1>5
<1> QED BY <1>1, <1>5, <1>6, <1>7

\* Only one of Smaller's arguments counts.
LEMMA SmallerNat ==
  ASSUME NEW a \in Nat, NEW b \in Nat
  PROVE  Smaller(a, b) \in Nat /\ Smaller(a, b) <= a /\ Smaller(a, b) <= b
BY DEF Smaller

\* What a sender may send is within its window, and it is a segment at most
\* for each slot.
LEMMA AllowedBounds ==
  ASSUME TypeOK, NEW f \in Flows, SenderInv(f), pc[f] = "allow"
  PROVE  /\ Allowed(f) \in Nat
         /\ seg_wr_seq[f] + Allowed(f) <= Iters
         /\ (inflight[f] + Allowed(f)) * Unit <= snapshot[f]
         /\ Allowed(f) <= Slots
<1> DEFINE room == snapshot[f] - inflight[f] * Unit
           n == room \div Unit
           rest == Iters - seg_wr_seq[f]
<1>1. Unit \in Nat \ {0} /\ Slots \in Nat /\ Iters \in Nat /\ RawMax \in Nat
  BY ClientAssumption DEF RawMax
<1>2. snapshot[f] \in 0 .. RawMax /\ inflight[f] \in Nat
  BY DEF TypeOK
<1>3. room \in Nat BY <1>1, <1>2 DEF SenderInv
<1>4. rest \in Nat /\ seg_wr_seq[f] \in Nat BY <1>1 DEF TypeOK
<1>5. n \in Nat /\ n * Unit <= room
  <2> HIDE DEF room
  <2> QED BY <1>1, <1>3, DivBounds
<1>6. Allowed(f) = Smaller(n, rest) BY DEF Allowed
<1> HIDE DEF n, rest
<1>7. Allowed(f) \in Nat /\ Allowed(f) <= n /\ Allowed(f) <= rest
  BY <1>4, <1>5, <1>6, SmallerNat
<1>8. Allowed(f) * Unit <= n * Unit BY <1>1, <1>5, <1>7, MulMono
<1>9. (inflight[f] + Allowed(f)) * Unit =
        inflight[f] * Unit + Allowed(f) * Unit
  BY <1>1, <1>2, <1>7
<1>10. Allowed(f) * Unit <= room BY <1>1, <1>3, <1>5, <1>7, <1>8
<1>11. (inflight[f] + Allowed(f)) * Unit <= snapshot[f]
  BY <1>1, <1>2, <1>7, <1>9, <1>10
<1>12. Allowed(f) * Unit < (Slots + 1) * Unit
  BY <1>1, <1>2, <1>7, <1>10, RingAssumption DEF RawMax
<1>13. Allowed(f) < Slots + 1 BY <1>1, <1>7, <1>12, MulMono
<1> QED BY <1>1, <1>4, <1>7, <1>11, <1>13 DEF rest

---------------------------------------------------------------------------
(* The invariant holds initially.                                          *)

LEMMA InitInv == Init => IInv
<1> SUFFICES ASSUME Init PROVE IInv
  OBVIOUS
<1> USE ClientAssumption
<1>1. Cardinality(Flows) \in Nat BY FS_CardinalityType
<1>2. TypeOK
  <2>1. InitWindow \in 0 .. RawMax BY DEF RawMax
  <2>2. 0 \in 0 .. Iters /\ 0 \in 0 .. Word - 1 OBVIOUS
  <2>3. wq \in Seq(WorkRequest) /\ Len(wq) = 0 BY DEF Init
  <2>4. limit \in Int BY <1>1 DEF Init
  <2>5. pc \in [Flows -> {"window", "compare", "pace", "allow", "scan", "post",
                       "stamp", "count", "mark", "done"}] BY DEF Init
  <2>6. slotFree \in [Flows -> [0 .. Slots - 1 -> BOOLEAN]] BY DEF Init
  <2>7. slotTime \in [Flows -> [0 .. Slots - 1 -> 0 .. Iters]] BY <2>2 DEF Init
  <2>8. /\ snapshot \in [Flows -> 0 .. RawMax]
        /\ window \in [Flows -> 0 .. RawMax]
    BY <2>1 DEF Init
  <2>9. seg_wr_seq \in [Flows -> 0 .. Iters] /\ burst \in [Flows -> Nat]
        /\ inflight \in [Flows -> 0 .. Word - 1] BY <2>2 DEF Init
  <2>10. completed \in 0 .. Len(wq) /\ polled \in 0 .. Len(wq)
    BY <2>3 DEF Init
  <2> QED BY <2>3, <2>4, <2>5, <2>6, <2>7, <2>8, <2>9, <2>10 DEF Init, TypeOK
<1>3. \A f \in Flows : SenderInv(f)
  <2>1. 0 * Unit <= RawMax BY DEF RawMax
  <2> QED BY <2>1 DEF Init, SenderInv, Posting
<1>4. \A k \in 1 .. Len(wq) : RequestInv(wq[k]) BY DEF Init
<1>5. EntryInv BY DEF Init, EntryInv, Handling
<1>6. InflightMatchesRing
  <2> SUFFICES ASSUME NEW f \in Flows
               PROVE  inflight[f] = Cardinality(BusySlots(f))
                        + One(pc[f] = "mark") - One(Releasing(f))
    BY DEF InflightMatchesRing
  <2>1. BusySlots(f) = {} BY DEF Init, BusySlots
  <2>2. ~Releasing(f) /\ pc[f] # "mark" BY DEF Init, Releasing
  <2> QED BY <2>1, <2>2, FS_EmptySet DEF Init, One
<1>7. SlotsDistinct BY DEF Init, SlotsDistinct
<1> QED BY <1>2, <1>3, <1>4, <1>5, <1>6, <1>7 DEF IInv

---------------------------------------------------------------------------
(* Facts about a state that satisfies the invariant.                       *)

LEMMA EntryType ==
  ASSUME TypeOK, completed > 0
  PROVE  /\ Len(wq) \in Nat /\ Len(wq) >= 1 /\ 1 \in 1 .. Len(wq)
         /\ Entry \in WorkRequest
         /\ Entry.flow \in Flows /\ Entry.seq \in Nat
         /\ EntrySlot \in 0 .. Slots - 1
<1>1. Len(wq) \in Nat /\ Len(wq) >= 1 BY DEF TypeOK
<1>2. Entry \in WorkRequest BY <1>1 DEF TypeOK, Entry
<1>3. Entry.flow \in Flows /\ Entry.seq \in 0 .. Iters - 1
  BY <1>2 DEF WorkRequest
<1>4. EntrySlot \in 0 .. Slots - 1
  BY <1>3, SlotType DEF EntrySlot
<1> QED BY <1>1, <1>2, <1>3, <1>4

\* The busy slots of a flow can be counted, and there are at most Slots.
LEMMA BusyFinite ==
  ASSUME NEW f \in Flows
  PROVE  /\ IsFiniteSet(BusySlots(f))
         /\ Cardinality(BusySlots(f)) \in 0 .. Slots
<1>1. Slots \in Nat \ {0} BY ClientAssumption
<1>2. IsFiniteSet(0 .. Slots - 1) /\ Cardinality(0 .. Slots - 1) = Slots
  BY <1>1, FS_Interval
<1>3. BusySlots(f) \subseteq 0 .. Slots - 1 BY DEF BusySlots
<1> QED BY <1>1, <1>2, <1>3, FS_Subset, FS_CardinalityType

\* A segment that has not been uncounted yet is still counted.
LEMMA EntryCounted ==
  ASSUME IInv, cpc = "uncount"
  PROVE  inflight[Entry.flow] \in 1 .. Word - 1
<1> DEFINE f == Entry.flow
<1>1. f \in Flows /\ EntrySlot \in 0 .. Slots - 1 /\ ~slotFree[f][EntrySlot]
  BY EntryType DEF IInv, TypeOK, EntryInv, Handling
<1>2. EntrySlot \in BusySlots(f) BY <1>1 DEF BusySlots
<1>3. Cardinality(BusySlots(f)) >= 1
  BY <1>1, <1>2, BusyFinite, FS_EmptySet
<1>4. ~Releasing(f) BY DEF Releasing
<1>5. inflight[f] >= 1
  BY <1>1, <1>3, <1>4, BusyFinite DEF IInv, InflightMatchesRing, One
<1> QED BY <1>1, <1>5 DEF IInv, TypeOK

\* Counting a segment does not wrap the counter around.
LEMMA CountFits ==
  ASSUME IInv, NEW f \in Flows, pc[f] = "count"
  PROVE  (inflight[f] + 1) % Word = inflight[f] + 1
<1>0. Cardinality(BusySlots(f)) \in 0 .. Slots BY BusyFinite
<1>a. One(Releasing(f)) \in {0, 1} /\ One(pc[f] = "mark") = 0 BY DEF One
<1>b. inflight[f] = Cardinality(BusySlots(f)) + 0 - One(Releasing(f))
  BY <1>a DEF IInv, InflightMatchesRing
<1>1. inflight[f] <= Slots /\ inflight[f] \in Nat
  BY <1>0, <1>a, <1>b, ClientAssumption DEF IInv, TypeOK
<1>2. inflight[f] + 1 \in Nat /\ inflight[f] + 1 < Word /\ Word \in Nat
  BY <1>1, ClientAssumption
<1> QED BY <1>2, ModSmall

---------------------------------------------------------------------------
(* Type correctness is preserved, given the invariant.                     *)

LEMMA SenderType ==
  ASSUME IInv, NEW f \in Flows, Sender(f)
  PROVE  TypeOK'
<1> USE ClientAssumption
<1>1. TypeOK /\ SenderInv(f) BY DEF IInv
<1>2. CASE ReadWindow(f)
  BY <1>1, <1>2
  DEF ReadWindow, Goto, TypeOK, slotVars, nicVars, cqeVars, mainVars
<1>3. CASE SenderReturns(f)
  BY <1>1, <1>3
  DEF SenderReturns, Goto, TypeOK, slotVars, nicVars, cqeVars, mainVars
<1>4. CASE CompareWindow(f)
  BY <1>1, <1>4
  DEF CompareWindow, Goto, TypeOK, slotVars, nicVars, cqeVars, mainVars
<1>5. CASE Pace(f)
  BY <1>1, <1>5
  DEF Pace, StartBurst, Goto, TypeOK, slotVars, nicVars, cqeVars, mainVars
<1>6. CASE ReadInflight(f)
  BY <1>1, <1>6, AllowedBounds
  DEF ReadInflight, Goto, TypeOK, slotVars, nicVars, cqeVars, mainVars
<1>7. CASE ScanSlots(f)
  <2>1. PICK n \in 0 .. burst[f] : StartBurst(f, n)
    BY <1>7 DEF ScanSlots
  <2>2. burst \in [Flows -> Nat] /\ n \in Nat BY <1>1, <2>1 DEF TypeOK
  <2>3. burst' \in [Flows -> Nat] BY <2>1, <2>2 DEF StartBurst
  <2> QED BY <1>1, <2>1, <2>3
        DEF StartBurst, Goto, TypeOK, slotVars, nicVars, cqeVars, mainVars
<1>8. CASE PostSend(f)
  <2>1. seg_wr_seq[f] \in 0 .. Iters - 1
    BY <1>1, <1>8
    DEF PostSend, TypeOK, SenderInv
  <2>2. /\ wq \in Seq(WorkRequest)
        /\ [flow |-> f, seq |-> seg_wr_seq[f]] \in WorkRequest
    BY <1>1, <2>1 DEF TypeOK, WorkRequest
  <2>3. wq' \in Seq(WorkRequest) /\ Len(wq') = Len(wq) + 1
    BY <1>8, <2>2
    DEF PostSend
  <2>4. completed' \in 0 .. Len(wq') /\ polled' \in 0 .. Len(wq')
    BY <1>1, <1>8, <2>2, <2>3 DEF PostSend, TypeOK, cqeVars
  <2> QED BY <1>1, <1>8, <2>3, <2>4
        DEF PostSend, Goto, TypeOK, slotVars, cqeVars, mainVars
<1>9. CASE PostSendFails(f)
  BY <1>1, <1>9
  DEF PostSendFails, Goto, TypeOK, slotVars, nicVars, cqeVars, mainVars
<1>10. CASE StampSlot(f)
  BY <1>1, <1>10, SlotType
  DEF StampSlot, Goto, TypeOK, nicVars, cqeVars, mainVars
<1>11. CASE CountSegment(f) 
  <2>a. inflight[f] \in Nat /\ inflight[f] + 1 \in Int BY <1>1 DEF TypeOK
  <2>b. Word \in Nat \ {0} BY ClientAssumption
  <2>c. (inflight[f] + 1) % Word \in Nat /\ (inflight[f] + 1) % Word < Word
    BY <2>a, <2>b, ModNat
  <2>1. inflight[f] \in Nat /\ (inflight[f] + 1) % Word \in 0 .. Word - 1
    BY <2>a, <2>b, <2>c
  <2> QED BY <1>1, <1>11, <2>1
    DEF CountSegment, Goto, TypeOK, slotVars, nicVars, cqeVars, mainVars
<1>12. CASE MarkSlotBusy(f)
  <2>1. pc[f] = "mark" BY <1>12 DEF MarkSlotBusy
  <2>a. seg_wr_seq[f] \in 0 .. Iters /\ burst[f] \in Nat BY <1>1 DEF TypeOK
  <2>b. seg_wr_seq[f] < Iters /\ burst[f] >= 1
    BY <1>1, <2>1, <2>a DEF SenderInv, Posting
  <2>2. seg_wr_seq[f] + 1 \in 0 .. Iters /\ burst[f] - 1 \in Nat
    BY <2>a, <2>b
  <2>3. slotFree' \in [Flows -> [0 .. Slots - 1 -> BOOLEAN]]
    BY <1>1, <1>12 DEF MarkSlotBusy, TypeOK
  <2>4. seg_wr_seq' \in [Flows -> 0 .. Iters] /\ burst' \in [Flows -> Nat]
    BY <1>1, <1>12, <2>2 DEF MarkSlotBusy, TypeOK
  <2>5. pc' \in [Flows -> {"window", "compare", "pace", "allow", "scan", "post",
                       "stamp", "count", "mark", "done"}]
    BY <1>1, <1>12 DEF MarkSlotBusy, Goto, TypeOK
  <2> QED BY <1>1, <1>12, <2>3, <2>4, <2>5
        DEF MarkSlotBusy, Goto, TypeOK, nicVars, cqeVars, mainVars
<1> QED BY <1>2, <1>3, <1>4, <1>5, <1>6, <1>7, <1>8, <1>9, <1>10, <1>11, <1>12
  DEF Sender

\* What the clamp leaves is within the configured bounds.
LEMMA ClampBounds ==
  ASSUME NEW w \in Nat
  PROVE  Clamp(w) \in 0 .. MaxWindow
BY ClientAssumption DEF Clamp

LEMMA RequestType ==
  ASSUME TypeOK, NEW k \in 1 .. Len(wq)
  PROVE  /\ wq[k] \in WorkRequest
         /\ wq[k].flow \in Flows /\ wq[k].seq \in Nat
         /\ Slot(wq[k].seq) \in 0 .. Slots - 1
<1>1. wq \in Seq(WorkRequest) BY DEF TypeOK
<1>2. wq[k] \in WorkRequest BY <1>1
<1>3. wq[k].flow \in Flows /\ wq[k].seq \in 0 .. Iters - 1
  BY <1>2 DEF WorkRequest
<1>4. wq[k].seq \in Nat BY <1>3
<1>5. Slot(wq[k].seq) \in 0 .. Slots - 1 BY <1>4, SlotType
<1> QED BY <1>2, <1>3, <1>4, <1>5

\* Handling an entry leaves the others.
LEMMA TailFacts ==
  ASSUME TypeOK, completed > 0
  PROVE  /\ Tail(wq) \in Seq(WorkRequest)
         /\ Len(Tail(wq)) = Len(wq) - 1
         /\ \A k \in 1 .. Len(Tail(wq)) : Tail(wq)[k] = wq[k + 1]
<1>1. wq \in Seq(WorkRequest) /\ wq # <<>> BY EntryType DEF TypeOK
<1> QED BY <1>1

LEMMA CqeType ==
  ASSUME IInv, CqeThread
  PROVE  TypeOK'
<1> USE ClientAssumption
<1>1. TypeOK /\ EntryInv BY DEF IInv
<1>2. CASE PollCq
  <2>1. Len(wq) \in Nat /\ completed \in 0 .. Len(wq) BY <1>1 DEF TypeOK
  <2> DEFINE available == IF broken THEN Len(wq) ELSE completed
  <2>a. available \in 0 .. Len(wq) /\ PollMax \in Nat BY <2>1
  <2>b. ne' = Smaller(available, PollMax) BY <1>2 DEF PollCq
  <2> HIDE DEF available
  <2>2. ne' \in 0 .. Len(wq) BY <2>1, <2>a, <2>b DEF Smaller
  <2>3. /\ UNCHANGED <<pc, seg_wr_seq, snapshot, burst, slotFree, slotTime>>
        /\ UNCHANGED <<inflight, window, wq, completed, broken>>
        /\ UNCHANGED <<begin_to_send, mpc, limit>>
    BY <1>2 DEF PollCq, senderVars, slotVars, nicVars, mainVars
  <2>4. polled' = ne' /\ cpc' = "entry" BY <1>2 DEF PollCq
  <2>5. polled' \in 0 .. Len(wq') /\ ne' \in Nat BY <2>1, <2>2, <2>3, <2>4
  <2> QED BY <1>1, <2>3, <2>4, <2>5 DEF TypeOK
<1>3. CASE CqeReturns
  BY <1>1, <1>3
  DEF CqeReturns, TypeOK, senderVars, slotVars, nicVars, mainVars
<1>4. CASE EntryFailed
  BY <1>1, <1>4
  DEF EntryFailed, TypeOK, senderVars, slotVars, nicVars, mainVars
<1>5. CASE AwaitSlotBusy
  BY <1>1, <1>5
  DEF AwaitSlotBusy, TypeOK, senderVars, slotVars, nicVars, mainVars
<1>6. CASE UncountSegment
  <2>a. inflight[Entry.flow] \in 1 .. Word - 1
    BY <1>6, EntryCounted DEF UncountSegment
  <2>b. (inflight[Entry.flow] - 1) % Word = inflight[Entry.flow] - 1
    BY <2>a, ModSmall
  <2>c. inflight' = [inflight EXCEPT ![Entry.flow] =
                       (inflight[Entry.flow] - 1) % Word]
    BY <1>6 DEF UncountSegment
  <2>d. inflight' = [inflight EXCEPT ![Entry.flow] = inflight[Entry.flow] - 1]
    BY <2>b, <2>c
  <2>1. inflight' \in [Flows -> 0 .. Word - 1]
    <3>1. inflight[Entry.flow] - 1 \in 0 .. Word - 1 BY <2>a
    <3>2. inflight \in [Flows -> 0 .. Word - 1] BY <1>1 DEF TypeOK
    <3> QED BY <2>d, <3>1, <3>2
  <2> QED BY <1>1, <1>6, <2>1
        DEF UncountSegment, TypeOK, senderVars, slotVars, nicVars, mainVars
<1>7. CASE ReceiveAck
  <2>1. completed > 0 BY <1>1, <1>7 DEF ReceiveAck, EntryInv, Handling, TypeOK
  <2>2. PICK w \in UpdatedWindow(window[Entry.flow]) :
          window' = [window EXCEPT ![Entry.flow] = w]
    BY <1>7 DEF ReceiveAck
  <2>a. Entry.flow \in Flows BY <1>1, <2>1, EntryType
  <2>b. window[Entry.flow] \in 0 .. RawMax BY <1>1, <2>a DEF TypeOK
  <2>c. cpc = "ack" BY <1>7 DEF ReceiveAck
  <2>d. ~(window[Entry.flow] > MaxWindow)
    BY <1>1, <2>a, <2>c DEF EntryInv
  <2>3. window[Entry.flow] \in 0 .. MaxWindow BY <2>b, <2>d DEF RawMax
  <2>4. w \in 0 .. RawMax BY <2>3 DEF UpdatedWindow, RawMax
  <2>5. window' \in [Flows -> 0 .. RawMax] BY <1>1, <2>2, <2>4 DEF TypeOK
  <2> QED BY <1>1, <1>7, <2>5
        DEF ReceiveAck, TypeOK, senderVars, slotVars, nicVars, mainVars
<1>8. CASE ClampWindow
  <2>1. completed > 0 BY <1>1, <1>8 DEF ClampWindow, EntryInv, Handling, TypeOK
  <2>2. window[Entry.flow] \in Nat BY <1>1, <2>1, EntryType DEF TypeOK, RawMax
  <2>3. Clamp(window[Entry.flow]) \in 0 .. RawMax
    BY <2>2, ClampBounds DEF RawMax
  <2>4. window' \in [Flows -> 0 .. RawMax]
    BY <1>1, <1>8, <2>3 DEF ClampWindow, TypeOK
  <2> QED BY <1>1, <1>8, <2>4
        DEF ClampWindow, TypeOK, senderVars, slotVars, nicVars, mainVars
<1>9. CASE ReleaseSlot
  <2>1. completed > 0 /\ polled >= 1
    BY <1>1, <1>9 DEF ReleaseSlot, EntryInv, Handling, TypeOK
  <2>2. wq' \in Seq(WorkRequest) /\ Len(wq') = Len(wq) - 1 /\ Len(wq) \in Nat
    BY <1>1, <1>9, <2>1, TailFacts, EntryType DEF ReleaseSlot
  <2>3. completed' \in 0 .. Len(wq') /\ polled' \in 0 .. Len(wq')
    BY <1>1, <1>9, <2>1, <2>2 DEF ReleaseSlot, TypeOK
  <2>4. slotFree' \in [Flows -> [0 .. Slots - 1 -> BOOLEAN]]
    BY <1>1, <1>9 DEF ReleaseSlot, TypeOK
  <2>5. cpc' \in {"poll", "entry"} /\ limit' \in Int
    BY <1>1, <1>9 DEF ReleaseSlot, TypeOK
  <2> QED BY <1>1, <1>9, <2>2, <2>3, <2>4, <2>5
        DEF ReleaseSlot, TypeOK, senderVars, mainVars
<1> QED BY <1>2, <1>3, <1>4, <1>5, <1>6, <1>7, <1>8, <1>9 DEF CqeThread

LEMMA OtherType ==
  ASSUME IInv,
         \/ SigHandler \/ JoinAll \/ Complete \/ ConnectionFails
         \/ UNCHANGED vars
  PROVE  TypeOK'
<1>1. TypeOK BY DEF IInv
<1>2. CASE SigHandler
  BY <1>1, <1>2
  DEF SigHandler, TypeOK, senderVars, slotVars, nicVars, cqeVars
<1>3. CASE JoinAll
  BY <1>1, <1>3
  DEF JoinAll, TypeOK, senderVars, slotVars, nicVars, cqeVars
<1>4. CASE Complete
  BY <1>1, <1>4
  DEF Complete, TypeOK, senderVars, slotVars, cqeVars, mainVars
<1>5. CASE ConnectionFails
  BY <1>1, <1>5
  DEF ConnectionFails, TypeOK, senderVars, slotVars, cqeVars, mainVars
<1>6. CASE UNCHANGED vars
  BY <1>1, <1>6
  DEF vars, TypeOK, senderVars, slotVars, nicVars, cqeVars, mainVars
<1> QED BY <1>2, <1>3, <1>4, <1>5, <1>6

---------------------------------------------------------------------------
(* What a sender relies on survives the steps of the others: they never    *)
(* raise its counter nor take its slots.                                   *)

LEMMA SenderMono ==
  ASSUME TypeOK, TypeOK', NEW g \in Flows, SenderInv(g),
         pc'[g] = pc[g], seg_wr_seq'[g] = seg_wr_seq[g],
         snapshot'[g] = snapshot[g], burst'[g] = burst[g],
         inflight'[g] <= inflight[g],
         \A s \in 0 .. Slots - 1 : slotFree[g][s] => slotFree'[g][s]
  PROVE  SenderInv(g)'
<1> DEFINE n == inflight[g]
           m == inflight'[g]
           b == burst[g]
<1>1. n \in Nat /\ m \in Nat /\ b \in Nat /\ m <= n /\ seg_wr_seq[g] \in Nat
  BY DEF TypeOK
<1>2. Unit \in Nat \ {0} /\ RawMax \in Nat BY ClientAssumption DEF RawMax
<1>3. m * Unit <= n * Unit BY <1>1, <1>2, MulMono
<1>4. (m + b) * Unit <= (n + b) * Unit BY <1>1, <1>2, MulMono
<1>5. (m + b - 1) * Unit <= (n + b - 1) * Unit BY <1>1, <1>2, MulMono
<1>6. /\ m * Unit \in Int /\ n * Unit \in Int
      /\ (m + b) * Unit \in Int /\ (n + b) * Unit \in Int
      /\ (m + b - 1) * Unit \in Int /\ (n + b - 1) * Unit \in Int
  BY <1>1, <1>2
<1>7. snapshot[g] \in Int BY DEF TypeOK
<1>8. (inflight[g] * Unit <= RawMax)' 
  BY <1>2, <1>3, <1>6 DEF SenderInv, RawMax
<1>9. (pc[g] = "allow" => inflight[g] * Unit <= snapshot[g])'
  BY <1>3, <1>6, <1>7 DEF SenderInv
<1>10. (pc[g] = "scan" => (inflight[g] + burst[g]) * Unit <= snapshot[g])'
  BY <1>4, <1>6, <1>7 DEF SenderInv
<1>11. (pc[g] \in {"post", "stamp", "count"} => FitsWindow(g))'
  BY <1>1, <1>4, <1>6, <1>7 DEF SenderInv, FitsWindow
<1>12. (pc[g] = "mark" =>
         burst[g] = 1 \/ (inflight[g] + burst[g] - 1) * Unit <= snapshot[g])'
  BY <1>5, <1>6, <1>7 DEF SenderInv
<1>13. (pc[g] = "pace" => snapshot[g] < Unit /\ inflight[g] = 0)'
  BY <1>1 DEF SenderInv
<1>14. (pc[g] \in Posting =>
          /\ burst[g] >= 1
          /\ \A i \in 0 .. burst[g] - 1 : slotFree[g][Slot(seg_wr_seq[g] + i)])'
  <2> SUFFICES ASSUME pc[g] \in Posting
               PROVE  /\ b >= 1
                      /\ \A i \in 0 .. b - 1 :
                           slotFree'[g][Slot(seg_wr_seq[g] + i)]
    BY DEF Posting, Slot
  <2>1. b >= 1 /\ \A i \in 0 .. b - 1 : slotFree[g][Slot(seg_wr_seq[g] + i)]
    BY DEF SenderInv
  <2>2. \A i \in 0 .. b - 1 : Slot(seg_wr_seq[g] + i) \in 0 .. Slots - 1
    BY <1>1, SlotType
  <2> QED BY <2>1, <2>2
<1>15. (/\ pc[g] \notin {"window", "done"} => seg_wr_seq[g] < Iters
        /\ pc[g] \in Posting \cup {"scan"} =>
             burst[g] <= Slots /\ seg_wr_seq[g] + burst[g] <= Iters)'
  BY DEF SenderInv, Posting
<1> QED BY <1>8, <1>9, <1>10, <1>11, <1>12, <1>13, <1>14, <1>15
      DEF SenderInv

\* A step that leaves the queue pair, the ring and the counter alone, and
\* moves a sender between statements outside pp_post_send.
Quiet(f) ==
  /\ UNCHANGED <<seg_wr_seq, slotVars, nicVars, cqeVars, inflight, window>>
  /\ \A g \in Flows \ {f} : /\ pc'[g] = pc[g] /\ snapshot'[g] = snapshot[g]
                            /\ burst'[g] = burst[g]
  /\ pc[f] \notin {"stamp", "count", "mark"}
  /\ pc'[f] \notin {"stamp", "count", "mark"}

LEMMA QuietStep ==
  ASSUME IInv, TypeOK', NEW f \in Flows, Quiet(f), SenderInv(f)'
  PROVE  IInv'
<1>1. TypeOK BY DEF IInv
<1>2. \A g \in Flows : SenderInv(g)'
  <2> TAKE g \in Flows
  <2>1. CASE g = f BY <2>1
  <2>2. CASE g # f
    <3>1. SenderInv(g) BY DEF IInv
    <3>2. inflight'[g] <= inflight[g] BY <1>1 DEF Quiet, TypeOK
    <3> QED BY <1>1, <2>2, <3>1, <3>2, SenderMono DEF Quiet, slotVars
  <2> QED BY <2>1, <2>2
<1>3. \A g \in Flows : pc'[g] \in {"stamp", "count", "mark"} <=>
                         pc[g] \in {"stamp", "count", "mark"}
  BY DEF Quiet
<1>4. \A g \in Flows : (pc'[g] = "mark" <=> pc[g] = "mark")
                       /\ (pc'[g] = "stamp" <=> pc[g] = "stamp")
  BY DEF Quiet
<1>5. (\A k \in 1 .. Len(wq) : RequestInv(wq[k]))'
  <2> SUFFICES ASSUME NEW k \in 1 .. Len(wq) PROVE RequestInv(wq[k])'
    BY DEF Quiet, nicVars
  <2>1. wq[k].flow \in Flows BY <1>1, RequestType
  <2>2. RequestInv(wq[k]) /\ wq' = wq BY DEF IInv, Quiet, nicVars
  <2> QED BY <1>3, <1>4, <2>1, <2>2
        DEF RequestInv, BeingRecorded, Quiet, slotVars, Slot
<1>6. EntryInv'
  BY DEF IInv, EntryInv, Quiet, slotVars, nicVars, cqeVars, Entry, EntrySlot,
         Slot
<1>7. InflightMatchesRing'
  BY <1>4 DEF IInv, InflightMatchesRing, Quiet, slotVars, nicVars, cqeVars,
              BusySlots, One, Releasing, Entry
<1>8. SlotsDistinct'
  BY DEF IInv, SlotsDistinct, Quiet, nicVars, Slot
<1> QED BY <1>2, <1>5, <1>6, <1>7, <1>8 DEF IInv

\* The statements of a sender outside pp_post_send.
LEMMA LocalStep ==
  ASSUME IInv, NEW f \in Flows,
         \/ ReadWindow(f) \/ SenderReturns(f) \/ CompareWindow(f) \/ Pace(f)
         \/ ReadInflight(f) \/ ScanSlots(f) \/ PostSendFails(f)
  PROVE  IInv'
<1>1. TypeOK' BY SenderType DEF Sender
<1>2. TypeOK /\ SenderInv(f) BY DEF IInv
<1> DEFINE n == inflight[f]
<1>3. /\ n \in Nat /\ inflight'[f] = n /\ seg_wr_seq'[f] = seg_wr_seq[f]
      /\ slotFree' = slotFree
  BY <1>2 DEF TypeOK, ReadWindow, SenderReturns, CompareWindow, Pace,
       ReadInflight, ScanSlots, PostSendFails, StartBurst, slotVars
<1>4. Unit \in Nat \ {0} /\ Iters \in Nat \ {0} /\ Slots \in Nat \ {0}
  BY ClientAssumption
<1>5. /\ n * Unit \in Int /\ n * Unit <= RawMax
      /\ snapshot[f] \in Nat /\ seg_wr_seq[f] \in 0 .. Iters
  BY <1>2, <1>3, <1>4 DEF SenderInv, TypeOK
<1>6. CASE ReadWindow(f) \/ SenderReturns(f) \/ PostSendFails(f)
  <2>1. Quiet(f)
    BY <1>2, <1>6 DEF ReadWindow, SenderReturns, PostSendFails, Quiet, Goto,
         TypeOK
  <2>2. \/ pc'[f] \in {"window", "done"}
        \/ pc'[f] = "compare" /\ seg_wr_seq[f] < Iters
    <3>1. CASE ReadWindow(f) BY <1>2, <3>1 DEF ReadWindow, Goto, TypeOK
    <3>2. CASE SenderReturns(f) BY <1>2, <3>2 DEF SenderReturns, Goto, TypeOK
    <3>3. CASE PostSendFails(f) BY <1>2, <3>3 DEF PostSendFails, Goto, TypeOK
    <3> QED BY <1>6, <3>1, <3>2, <3>3
  <2>3. SenderInv(f)' BY <1>3, <1>5, <2>2 DEF SenderInv, Posting, RawMax
  <2> QED BY <1>1, <2>1, <2>3, QuietStep
<1>7. CASE CompareWindow(f)
  <2>1. Quiet(f) BY <1>2, <1>7 DEF CompareWindow, Quiet, Goto, TypeOK
  <2>a. pc[f] = "compare" BY <1>7 DEF CompareWindow
  <2>b. seg_wr_seq[f] < Iters BY <1>2, <2>a DEF SenderInv
  <2>c. pc'[f] = IF snapshot[f] <= n * Unit THEN "window"
                 ELSE IF snapshot[f] < Unit THEN "pace" ELSE "allow"
    BY <1>2, <1>7 DEF CompareWindow, Goto, TypeOK
  <2>2. /\ pc'[f] \in {"window", "pace", "allow"} /\ seg_wr_seq[f] < Iters
        /\ snapshot'[f] = snapshot[f]
        /\ pc'[f] = "pace" => n * Unit < Unit /\ snapshot[f] < Unit
        /\ pc'[f] = "allow" => snapshot[f] > n * Unit
    BY <1>4, <1>5, <1>7, <2>b, <2>c DEF CompareWindow
  <2>3. pc'[f] = "pace" => n = 0 BY <1>3, <1>4, <2>2, MulLess
  <2>4. SenderInv(f)' BY <1>3, <1>5, <2>2, <2>3 DEF SenderInv, Posting, RawMax
  <2> QED BY <1>1, <2>1, <2>4, QuietStep
<1>8. CASE ReadInflight(f)
  <2>1. Quiet(f) BY <1>2, <1>8 DEF ReadInflight, Quiet, Goto, TypeOK
  <2>2. /\ pc[f] = "allow" /\ pc'[f] = "scan" /\ burst'[f] = Allowed(f)
        /\ snapshot'[f] = snapshot[f]
    BY <1>2, <1>8 DEF ReadInflight, Goto, TypeOK
  <2>3. /\ Allowed(f) \in Nat /\ Allowed(f) <= Slots
        /\ seg_wr_seq[f] + Allowed(f) <= Iters
        /\ (n + Allowed(f)) * Unit <= snapshot[f]
    BY <1>2, <2>2, AllowedBounds
  <2>4. seg_wr_seq[f] < Iters BY <1>2, <2>2 DEF SenderInv
  <2>5. SenderInv(f)'
    BY <1>3, <1>5, <2>2, <2>3, <2>4 DEF SenderInv, Posting, RawMax
  <2> QED BY <1>1, <2>1, <2>5, QuietStep
<1>9. CASE Pace(f)
  <2>1. Quiet(f) BY <1>2, <1>9 DEF Pace, StartBurst, Quiet, Goto, TypeOK
  <2>2. /\ seg_wr_seq[f] < Iters /\ n = 0 /\ snapshot'[f] = snapshot[f]
        /\ snapshot[f] < Unit
        /\ \/ pc'[f] = "window"
           \/ /\ pc'[f] = "post" /\ burst'[f] = 1
              /\ slotFree[f][Slot(seg_wr_seq[f])]
    BY <1>2, <1>9 DEF Pace, StartBurst, Goto, TypeOK, SenderInv
  <2>3. seg_wr_seq[f] + 0 = seg_wr_seq[f] BY <1>5
  <2>4. SenderInv(f)'
    BY <1>3, <1>4, <1>5, <2>2, <2>3
    DEF SenderInv, FitsWindow, Posting, RawMax, Slot
  <2> QED BY <1>1, <2>1, <2>4, QuietStep
<1>10. CASE ScanSlots(f)
  <2>1. Quiet(f) BY <1>2, <1>10 DEF ScanSlots, StartBurst, Quiet, Goto, TypeOK
  <2>2. PICK k \in 0 .. burst[f] : /\ IsAvailableRun(f, k, burst[f])
                                  /\ StartBurst(f, k)
    BY <1>10 DEF ScanSlots
  <2>3. /\ burst[f] \in Nat /\ burst[f] <= Slots
        /\ seg_wr_seq[f] + burst[f] <= Iters /\ seg_wr_seq[f] < Iters
        /\ (n + burst[f]) * Unit <= snapshot[f]
    BY <1>2, <1>10 DEF ScanSlots, SenderInv, TypeOK
  <2>4. (n + k) * Unit <= (n + burst[f]) * Unit
    BY <1>3, <1>4, <2>3, MulMono
  <2>5. (n + k) * Unit <= snapshot[f]
    BY <1>3, <1>4, <1>5, <2>3, <2>4
  <2>6. /\ snapshot'[f] = snapshot[f] /\ burst'[f] = k
        /\ pc'[f] = "window" \/ (pc'[f] = "post" /\ k >= 1)
    BY <1>2, <2>2 DEF StartBurst, Goto, TypeOK
  <2>7. \A i \in 0 .. k - 1 : slotFree[f][Slot(seg_wr_seq[f] + i)]
    BY <2>2 DEF IsAvailableRun
  <2>8. \A i \in 0 .. burst'[f] - 1 : slotFree'[f][Slot(seg_wr_seq'[f] + i)]
    BY <1>3, <2>6, <2>7
  <2>9. (inflight'[f] + burst'[f]) * Unit <= snapshot'[f]
    BY <1>3, <2>5, <2>6
  <2>10. burst'[f] <= Slots /\ seg_wr_seq'[f] + burst'[f] <= Iters
    BY <1>3, <1>4, <1>5, <2>2, <2>3, <2>6
  <2>11. SenderInv(f)'
    BY <1>3, <1>5, <2>3, <2>6, <2>8, <2>9, <2>10
    DEF SenderInv, FitsWindow, Posting, RawMax, Slot
  <2> QED BY <1>1, <2>1, <2>11, QuietStep
<1> QED BY <1>6, <1>7, <1>8, <1>9, <1>10

---------------------------------------------------------------------------
(* pp_post_send.                                                           *)

\* The slot of the segment being posted is available.
LEMMA PostingSlot ==
  ASSUME IInv, NEW f \in Flows, pc[f] \in Posting
  PROVE  /\ TypeOK /\ SenderInv(f)
         /\ seg_wr_seq[f] \in 0 .. Iters - 1 /\ burst[f] \in 1 .. Slots
         /\ Slot(seg_wr_seq[f]) \in 0 .. Slots - 1
         /\ slotFree[f][Slot(seg_wr_seq[f])]
<1>1. TypeOK /\ SenderInv(f) BY DEF IInv
<1>2. seg_wr_seq[f] \in 0 .. Iters - 1 /\ burst[f] \in 1 .. Slots
  <2>1. seg_wr_seq[f] \in Nat /\ burst[f] \in Nat BY <1>1 DEF TypeOK
  <2>2. seg_wr_seq[f] < Iters /\ burst[f] >= 1 /\ burst[f] <= Slots
    BY <1>1 DEF SenderInv, Posting
  <2> QED BY <2>1, <2>2, ClientAssumption
<1>3. slotFree[f][Slot(seg_wr_seq[f] + 0)] BY <1>1, <1>2 DEF SenderInv
<1>4. seg_wr_seq[f] + 0 = seg_wr_seq[f] BY <1>2
<1> QED BY <1>1, <1>2, <1>3, <1>4, SlotType

\* A request whose sender is past it has a busy slot, so not the slot of the
\* segment being posted.
LEMMA RecordedElsewhere ==
  ASSUME IInv, NEW f \in Flows, pc[f] \in Posting,
         NEW k \in 1 .. Len(wq), wq[k].flow = f, ~BeingRecorded(wq[k])
  PROVE  /\ wq[k].seq < seg_wr_seq[f]
         /\ Slot(wq[k].seq) # Slot(seg_wr_seq[f])
BY PostingSlot DEF IInv, RequestInv

\* The senders of the other flows do not notice.
LEMMA OtherSenders ==
  ASSUME IInv, TypeOK', NEW f \in Flows, SenderInv(f)',
         \A g \in Flows \ {f} :
           /\ pc'[g] = pc[g] /\ seg_wr_seq'[g] = seg_wr_seq[g]
           /\ snapshot'[g] = snapshot[g] /\ burst'[g] = burst[g]
           /\ inflight'[g] = inflight[g] /\ slotFree'[g] = slotFree[g]
  PROVE  \A g \in Flows : SenderInv(g)'
<1> TAKE g \in Flows
<1>1. CASE g = f BY <1>1
<1>2. CASE g # f
  <2>1. TypeOK /\ SenderInv(g) BY DEF IInv
  <2>2. inflight'[g] <= inflight[g] BY <1>2, <2>1 DEF TypeOK
  <2> QED BY <1>2, <2>1, <2>2, SenderMono
<1> QED BY <1>1, <1>2

LEMMA PostSendStep ==
  ASSUME IInv, NEW f \in Flows, PostSend(f)
  PROVE  IInv'
<1> DEFINE new == [flow |-> f, seq |-> seg_wr_seq[f]]
<1>1. pc[f] = "post" /\ pc[f] \in Posting BY DEF PostSend, Posting
<1>2. TypeOK' BY SenderType DEF Sender
<1>3. /\ TypeOK /\ SenderInv(f) /\ seg_wr_seq[f] \in 0 .. Iters - 1
      /\ slotFree[f][Slot(seg_wr_seq[f])]
  BY <1>1, PostingSlot
<1>4. /\ UNCHANGED <<seg_wr_seq, snapshot, burst, slotFree, slotTime, completed,
                    cpc, polled, inflight, window>>
      /\ pc' = [pc EXCEPT ![f] = "stamp"]
  BY DEF PostSend, Goto, slotVars, cqeVars
<1>5. wq \in Seq(WorkRequest) /\ new \in WorkRequest
  BY <1>3 DEF TypeOK, WorkRequest
<1>6. /\ Len(wq) \in Nat /\ Len(wq') = Len(wq) + 1
      /\ \A k \in 1 .. Len(wq) : wq'[k] = wq[k]
      /\ wq'[Len(wq')] = new
  BY <1>5 DEF PostSend
<1>7. pc'[f] = "stamp" /\ \A g \in Flows \ {f} : pc'[g] = pc[g]
  BY <1>3, <1>4 DEF TypeOK
<1>8. SenderInv(f)'
  BY <1>1, <1>3, <1>4, <1>7 DEF SenderInv, FitsWindow, Posting, RawMax, Slot
<1>9. \A g \in Flows : SenderInv(g)'
  BY <1>2, <1>4, <1>7, <1>8, OtherSenders
<1>10. (\A k \in 1 .. Len(wq) : RequestInv(wq[k]))'
  <2> SUFFICES ASSUME NEW k \in 1 .. Len(wq') PROVE RequestInv(wq[k])'
    OBVIOUS
  <2>1. CASE k = Len(wq')
    BY <1>4, <1>6, <1>7, <2>1 DEF RequestInv, BeingRecorded
  <2>2. CASE k # Len(wq')
    <3>1. k \in 1 .. Len(wq) /\ wq'[k] = wq[k] BY <1>6, <2>2
    <3>2. RequestInv(wq[k]) /\ wq[k].flow \in Flows
      BY <1>3, <3>1, RequestType DEF IInv
    <3>3. CASE wq[k].flow # f
      BY <1>4, <1>7, <3>1, <3>2, <3>3 DEF RequestInv, BeingRecorded, Slot
    <3>4. CASE wq[k].flow = f
      <4>1. ~BeingRecorded(wq[k]) BY <1>1, <3>4 DEF BeingRecorded
      <4>2. wq[k].seq < seg_wr_seq[f]
        BY <1>1, <3>1, <3>4, <4>1, RecordedElsewhere
      <4>3. wq[k].seq # seg_wr_seq[f] BY <1>3, <3>1, <4>2, RequestType
      <4> QED BY <1>4, <3>1, <3>2, <3>4, <4>1, <4>2, <4>3
            DEF RequestInv, BeingRecorded, Slot
    <3> QED BY <3>3, <3>4
  <2> QED BY <2>1, <2>2
<1>11. cpc \in Handling => Entry' = Entry
  <2>1. cpc \in Handling => completed >= 1 BY DEF IInv, EntryInv
  <2> QED BY <1>3, <1>6, <2>1, EntryType DEF TypeOK, Entry
<1>12. EntryInv'
  BY <1>4, <1>11 DEF IInv, EntryInv, Handling, EntrySlot, Slot
<1>13. InflightMatchesRing'
  <2>1. \A g \in Flows : Releasing(g)' <=> Releasing(g)
    BY <1>4, <1>11 DEF Releasing, Handling
  <2>2. \A g \in Flows : BusySlots(g)' = BusySlots(g)
    BY <1>4 DEF BusySlots
  <2>3. \A g \in Flows : pc'[g] = "mark" <=> pc[g] = "mark"
    BY <1>1, <1>7
  <2> QED BY <1>4, <2>1, <2>2, <2>3 DEF IInv, InflightMatchesRing, One
<1>14. SlotsDistinct'
  <2>1. \A k \in 1 .. Len(wq) :
          wq[k].flow = f => Slot(wq[k].seq) # Slot(seg_wr_seq[f])
    <3> SUFFICES ASSUME NEW k \in 1 .. Len(wq), wq[k].flow = f
                 PROVE  Slot(wq[k].seq) # Slot(seg_wr_seq[f])
      OBVIOUS
    <3>1. ~BeingRecorded(wq[k]) BY <1>1 DEF BeingRecorded
    <3> QED BY <1>1, <3>1, RecordedElsewhere
  <2> SUFFICES ASSUME NEW i \in 1 .. Len(wq'), NEW j \in 1 .. Len(wq'),
                      i # j, wq'[i].flow = wq'[j].flow
               PROVE  Slot(wq'[i].seq) # Slot(wq'[j].seq)
    BY DEF SlotsDistinct, Slot
  <2>2. CASE i # Len(wq') /\ j # Len(wq')
    BY <1>6, <2>2 DEF IInv, SlotsDistinct
  <2>3. CASE i = Len(wq') BY <1>6, <2>1, <2>3
  <2>4. CASE j = Len(wq') BY <1>6, <2>1, <2>4
  <2> QED BY <2>2, <2>3, <2>4
<1> QED BY <1>2, <1>9, <1>10, <1>12, <1>13, <1>14 DEF IInv

LEMMA StampSlotStep ==
  ASSUME IInv, NEW f \in Flows, StampSlot(f)
  PROVE  IInv'
<1>1. pc[f] = "stamp" /\ pc[f] \in Posting BY DEF StampSlot, Posting
<1>2. TypeOK' BY SenderType DEF Sender
<1>3. /\ TypeOK /\ SenderInv(f) /\ seg_wr_seq[f] \in 0 .. Iters - 1
      /\ Slot(seg_wr_seq[f]) \in 0 .. Slots - 1
  BY <1>1, PostingSlot
<1>4. /\ UNCHANGED <<seg_wr_seq, snapshot, burst, slotFree, wq, completed,
                    cpc, polled, inflight, window>>
      /\ pc' = [pc EXCEPT ![f] = "count"]
      /\ slotTime' =
           [slotTime EXCEPT ![f][Slot(seg_wr_seq[f])] = seg_wr_seq[f]]
  BY DEF StampSlot, Goto, nicVars, cqeVars
<1>5. pc'[f] = "count" /\ \A g \in Flows \ {f} : pc'[g] = pc[g]
  BY <1>3, <1>4 DEF TypeOK
<1>6. SenderInv(f)'
  BY <1>1, <1>3, <1>4, <1>5 DEF SenderInv, FitsWindow, Posting, RawMax, Slot
<1>7. \A g \in Flows : SenderInv(g)'
  BY <1>2, <1>4, <1>5, <1>6, OtherSenders
<1>8. (\A k \in 1 .. Len(wq) : RequestInv(wq[k]))'
  <2> SUFFICES ASSUME NEW k \in 1 .. Len(wq) PROVE RequestInv(wq[k])'
    BY <1>4
  <2>1. /\ RequestInv(wq[k]) /\ wq[k].flow \in Flows
        /\ Slot(wq[k].seq) \in 0 .. Slots - 1
    BY <1>3, RequestType DEF IInv
  <2>2. CASE wq[k].flow # f
    BY <1>3, <1>4, <1>5, <2>1, <2>2
    DEF RequestInv, BeingRecorded, TypeOK, Slot
  <2>3. CASE wq[k].flow = f /\ BeingRecorded(wq[k])
    <3>1. wq[k].seq = seg_wr_seq[f] BY <2>3 DEF BeingRecorded
    <3>2. slotTime'[f][Slot(wq[k].seq)] = wq[k].seq
      BY <1>3, <1>4, <3>1 DEF TypeOK
    <3> QED BY <1>4, <1>5, <2>3, <3>1, <3>2 DEF RequestInv, BeingRecorded, Slot
  <2>4. CASE wq[k].flow = f /\ ~BeingRecorded(wq[k])
    <3>1. /\ wq[k].seq < seg_wr_seq[f]
          /\ Slot(wq[k].seq) # Slot(seg_wr_seq[f])
      BY <1>1, <2>4, RecordedElsewhere
    <3>2. slotTime'[f][Slot(wq[k].seq)] = slotTime[f][Slot(wq[k].seq)]
      BY <1>3, <1>4, <2>1, <3>1 DEF TypeOK
    <3>3. wq[k].seq # seg_wr_seq[f] BY <1>1, <2>4 DEF BeingRecorded
    <3> QED BY <1>4, <1>5, <2>1, <2>4, <3>1, <3>2, <3>3
          DEF RequestInv, BeingRecorded, Slot
  <2> QED BY <2>2, <2>3, <2>4
<1>9. EntryInv' BY <1>4 DEF IInv, EntryInv, Entry, EntrySlot, Slot
<1>10. InflightMatchesRing'
  <2>1. \A g \in Flows : pc'[g] = "mark" <=> pc[g] = "mark" BY <1>1, <1>5
  <2> QED BY <1>4, <2>1
        DEF IInv, InflightMatchesRing, One, BusySlots, Releasing, Entry
<1>11. SlotsDistinct' BY <1>4 DEF IInv, SlotsDistinct, Slot
<1> QED BY <1>2, <1>7, <1>8, <1>9, <1>10, <1>11 DEF IInv

LEMMA CountSegmentStep ==
  ASSUME IInv, NEW f \in Flows, CountSegment(f)
  PROVE  IInv'
<1> DEFINE n == inflight[f]
           b == burst[f]
<1>1. pc[f] = "count" /\ pc[f] \in Posting BY DEF CountSegment, Posting
<1>2. TypeOK' BY SenderType DEF Sender
<1>3. TypeOK /\ SenderInv(f) /\ b \in 1 .. Slots BY <1>1, PostingSlot
<1>4. /\ UNCHANGED <<seg_wr_seq, snapshot, burst, slotFree, slotTime, wq,
                    completed, cpc, polled, window>>
      /\ pc' = [pc EXCEPT ![f] = "mark"]
      /\ inflight' = [inflight EXCEPT ![f] = (n + 1) % Word]
  BY DEF CountSegment, Goto, slotVars, nicVars, cqeVars
<1>5. pc'[f] = "mark" /\ \A g \in Flows \ {f} : pc'[g] = pc[g]
  BY <1>3, <1>4 DEF TypeOK
<1>6. /\ n \in Nat /\ inflight'[f] = n + 1
      /\ \A g \in Flows \ {f} : inflight'[g] = inflight[g]
  <2>1. (n + 1) % Word = n + 1 BY <1>1, CountFits
  <2> QED BY <1>3, <1>4, <2>1 DEF TypeOK
<1>7. SenderInv(f)'
  <2>1. Unit \in Nat \ {0} /\ RawMax \in Nat /\ Unit <= RawMax
    BY ClientAssumption DEF RawMax
  <2>2. snapshot[f] \in 0 .. RawMax BY <1>3 DEF TypeOK
  <2>3. FitsWindow(f) BY <1>1, <1>3 DEF SenderInv
  <2>4. (n + 1) * Unit <= (n + b) * Unit BY <1>3, <1>6, <2>1, MulMono
  <2>5. (n + 1) * Unit \in Int /\ (n + b) * Unit \in Int
    BY <1>3, <1>6, <2>1
  <2>6. (n + 1) * Unit <= RawMax
    <3>1. CASE (n + b) * Unit <= snapshot[f] BY <2>1, <2>2, <2>4, <2>5, <3>1
    <3>2. CASE n = 0 BY <2>1, <3>2
    <3> QED BY <2>3, <3>1, <3>2 DEF FitsWindow
  <2>7. b = 1 \/ (n + 1 + b - 1) * Unit <= snapshot[f]
    <3>1. n + 1 + b - 1 = n + b BY <1>3, <1>6
    <3> QED BY <2>3, <3>1 DEF FitsWindow
  <2> QED BY <1>1, <1>3, <1>4, <1>5, <1>6, <2>6, <2>7
        DEF SenderInv, Posting, RawMax, Slot
<1>8. \A g \in Flows : SenderInv(g)'
  BY <1>2, <1>4, <1>5, <1>6, <1>7, OtherSenders
<1>9. (\A k \in 1 .. Len(wq) : RequestInv(wq[k]))'
  <2> SUFFICES ASSUME NEW k \in 1 .. Len(wq) PROVE RequestInv(wq[k])'
    BY <1>4
  <2>1. RequestInv(wq[k]) /\ wq[k].flow \in Flows
    BY <1>3, RequestType DEF IInv
  <2> QED BY <1>1, <1>4, <1>5, <2>1 DEF RequestInv, BeingRecorded, Slot
<1>10. EntryInv' BY <1>4 DEF IInv, EntryInv, Entry, EntrySlot, Slot
<1>11. InflightMatchesRing'
  <2> SUFFICES ASSUME NEW g \in Flows
               PROVE  inflight'[g] = Cardinality(BusySlots(g))
                        + One(pc'[g] = "mark") - One(Releasing(g))
    BY <1>4 DEF InflightMatchesRing, BusySlots, One, Releasing, Entry
  <2>1. inflight[g] = Cardinality(BusySlots(g))
                        + One(pc[g] = "mark") - One(Releasing(g))
    BY DEF IInv, InflightMatchesRing
  <2>2. CASE g # f BY <1>5, <1>6, <2>1, <2>2
  <2>3. CASE g = f
    <3>1. One(pc[f] = "mark") = 0 /\ One(pc'[f] = "mark") = 1
      BY <1>1, <1>5 DEF One
    <3>2. Cardinality(BusySlots(f)) \in Nat /\ One(Releasing(f)) \in {0, 1}
      BY BusyFinite, ClientAssumption DEF One
    <3> QED BY <1>6, <2>1, <2>3, <3>1, <3>2
  <2> QED BY <2>2, <2>3
<1>12. SlotsDistinct' BY <1>4 DEF IInv, SlotsDistinct, Slot
<1> QED BY <1>2, <1>8, <1>9, <1>10, <1>11, <1>12 DEF IInv

LEMMA MarkSlotBusyStep ==
  ASSUME IInv, NEW f \in Flows, MarkSlotBusy(f)
  PROVE  IInv'
<1> DEFINE q == seg_wr_seq[f]
           b == burst[f]
<1>1. pc[f] = "mark" /\ pc[f] \in Posting BY DEF MarkSlotBusy, Posting
<1>2. TypeOK' BY SenderType DEF Sender
<1>3. /\ TypeOK /\ SenderInv(f) /\ q \in 0 .. Iters - 1 /\ b \in 1 .. Slots
      /\ Slot(q) \in 0 .. Slots - 1 /\ slotFree[f][Slot(q)]
  BY <1>1, PostingSlot
<1>4. /\ UNCHANGED <<snapshot, slotTime, wq, completed, cpc, polled, inflight,
                    window>>
      /\ pc' = [pc EXCEPT ![f] = IF b = 1 THEN "window" ELSE "post"]
      /\ seg_wr_seq' = [seg_wr_seq EXCEPT ![f] = q + 1]
      /\ burst' = [burst EXCEPT ![f] = b - 1]
      /\ slotFree' = [slotFree EXCEPT ![f][Slot(q)] = FALSE]
  BY DEF MarkSlotBusy, Goto, nicVars, cqeVars
<1>5. /\ pc'[f] = (IF b = 1 THEN "window" ELSE "post")
      /\ seg_wr_seq'[f] = q + 1 /\ burst'[f] = b - 1
      /\ \A g \in Flows \ {f} :
           /\ pc'[g] = pc[g] /\ seg_wr_seq'[g] = seg_wr_seq[g]
           /\ burst'[g] = burst[g] /\ slotFree'[g] = slotFree[g]
  BY <1>3, <1>4 DEF TypeOK
<1>6. \A s \in 0 .. Slots - 1 :
        slotFree'[f][s] = IF s = Slot(q) THEN FALSE ELSE slotFree[f][s]
  BY <1>3, <1>4 DEF TypeOK
<1>7. SenderInv(f)'
  <2>1. CASE b = 1
    BY <1>3, <1>4, <1>5, <2>1 DEF SenderInv, Posting, RawMax
  <2>2. CASE b # 1
    <3>1. q + b <= Iters /\ b <= Slots /\ Iters \in Nat /\ Slots \in Nat
      BY <1>1, <1>3, ClientAssumption DEF SenderInv
    <3>2. (inflight[f] + b - 1) * Unit <= snapshot[f]
      BY <1>1, <1>3, <2>2 DEF SenderInv
    <3>3. inflight[f] + (b - 1) = inflight[f] + b - 1
      BY <1>3 DEF TypeOK
    <3>4. (inflight[f] + (b - 1)) * Unit <= snapshot[f] BY <3>2, <3>3
    <3>5. \A i \in 0 .. (b - 1) - 1 : slotFree'[f][Slot((q + 1) + i)]
      <4> TAKE i \in 0 .. (b - 1) - 1
      <4>1. i + 1 \in 1 .. Slots - 1 /\ i + 1 \in 0 .. b - 1 /\ q \in Nat
            /\ (q + 1) + i = q + (i + 1)
        BY <1>3, <3>1
      <4>2. Slot(q + (i + 1)) # Slot(q) BY <4>1, SlotShift
      <4>3. slotFree[f][Slot(q + (i + 1))] BY <1>1, <1>3, <4>1 DEF SenderInv
      <4>4. Slot(q + (i + 1)) \in 0 .. Slots - 1 BY <4>1, SlotType
      <4> QED BY <1>6, <4>1, <4>2, <4>3, <4>4
    <3>6. q + 1 < Iters /\ (q + 1) + (b - 1) <= Iters /\ b - 1 <= Slots
          /\ b - 1 >= 1
      BY <1>3, <2>2, <3>1
    <3>7. inflight[f] * Unit <= RawMax BY <1>3 DEF SenderInv
    <3> QED BY <1>4, <1>5, <2>2, <3>4, <3>5, <3>6, <3>7
          DEF SenderInv, FitsWindow, Posting, RawMax, Slot
  <2> QED BY <2>1, <2>2
<1>8. \A g \in Flows : SenderInv(g)'
  BY <1>2, <1>4, <1>5, <1>7, OtherSenders
<1>9. (\A k \in 1 .. Len(wq) : RequestInv(wq[k]))'
  <2> SUFFICES ASSUME NEW k \in 1 .. Len(wq) PROVE RequestInv(wq[k])'
    BY <1>4
  <2>1. /\ RequestInv(wq[k]) /\ wq[k].flow \in Flows /\ wq[k].seq \in Nat
        /\ Slot(wq[k].seq) \in 0 .. Slots - 1
    BY <1>3, RequestType DEF IInv
  <2>2. CASE wq[k].flow # f
    BY <1>4, <1>5, <2>1, <2>2 DEF RequestInv, BeingRecorded, Slot
  <2>3. CASE wq[k].flow = f
    <3>1. ~slotFree'[f][Slot(wq[k].seq)]
      BY <1>6, <2>1, <2>3 DEF RequestInv, BeingRecorded
    <3>2. wq[k].seq < q + 1
      BY <1>3, <2>1, <2>3 DEF RequestInv, BeingRecorded
    <3>3. slotTime[f][Slot(wq[k].seq)] = wq[k].seq
      BY <1>1, <2>1, <2>3 DEF RequestInv, BeingRecorded
    <3> QED BY <1>4, <1>5, <2>3, <3>1, <3>2, <3>3
          DEF RequestInv, BeingRecorded, Slot
  <2> QED BY <2>2, <2>3
<1>10. EntryInv'
  <2>1. cpc \in Handling => ~slotFree'[Entry.flow][EntrySlot]
    <3> SUFFICES ASSUME cpc \in Handling
                 PROVE  ~slotFree'[Entry.flow][EntrySlot]
      OBVIOUS
    <3>1. /\ ~slotFree[Entry.flow][EntrySlot] /\ Entry.flow \in Flows
          /\ EntrySlot \in 0 .. Slots - 1
      BY <1>3, EntryType DEF IInv, EntryInv, TypeOK
    <3> QED BY <1>5, <1>6, <3>1
  <2> QED BY <1>4, <2>1 DEF IInv, EntryInv, Entry, EntrySlot, Slot
<1>11. InflightMatchesRing'
  <2> SUFFICES ASSUME NEW g \in Flows
               PROVE  inflight'[g] = Cardinality(BusySlots(g)')
                        + One(pc'[g] = "mark") - One(Releasing(g))
    BY <1>4 DEF InflightMatchesRing, BusySlots, One, Releasing, Entry
  <2>1. inflight[g] = Cardinality(BusySlots(g))
                        + One(pc[g] = "mark") - One(Releasing(g))
    BY DEF IInv, InflightMatchesRing
  <2>2. CASE g # f
    <3>1. BusySlots(g)' = BusySlots(g) BY <1>5, <2>2 DEF BusySlots
    <3> QED BY <1>4, <1>5, <2>1, <2>2, <3>1
  <2>3. CASE g = f
    <3>1. BusySlots(f)' = BusySlots(f) \cup {Slot(q)}
      BY <1>3, <1>6 DEF BusySlots
    <3>2. Slot(q) \notin BusySlots(f) BY <1>3 DEF BusySlots
    <3>3. Cardinality(BusySlots(f)') = Cardinality(BusySlots(f)) + 1
      BY <3>1, <3>2, BusyFinite, FS_AddElement
    <3>4. One(pc[f] = "mark") = 1 /\ One(pc'[f] = "mark") = 0
      BY <1>1, <1>5 DEF One
    <3>5. Cardinality(BusySlots(f)) \in Nat /\ One(Releasing(f)) \in {0, 1}
      BY BusyFinite, ClientAssumption DEF One
    <3> QED BY <1>4, <2>1, <2>3, <3>3, <3>4, <3>5
  <2> QED BY <2>2, <2>3
<1>12. SlotsDistinct' BY <1>4 DEF IInv, SlotsDistinct, Slot
<1> QED BY <1>2, <1>8, <1>9, <1>10, <1>11, <1>12 DEF IInv

---------------------------------------------------------------------------
(* The completion thread, the NIC and the main thread.                     *)

\* Steps that leave the senders, the ring and the counters alone.
LEMMA FrameStep ==
  ASSUME IInv, TypeOK', EntryInv',
         UNCHANGED <<senderVars, slotVars, wq, inflight>>,
         \A f \in Flows : Releasing(f)' <=> Releasing(f)
  PROVE  IInv'
<1>1. TypeOK BY DEF IInv
<1>2. \A g \in Flows : SenderInv(g)'
  <2> TAKE g \in Flows
  <2>1. inflight'[g] <= inflight[g] BY <1>1 DEF TypeOK
  <2> QED BY <1>1, <2>1, SenderMono DEF IInv, senderVars, slotVars
<1>3. (\A k \in 1 .. Len(wq) : RequestInv(wq[k]))'
  BY DEF IInv, RequestInv, BeingRecorded, senderVars, slotVars, Slot
<1>4. InflightMatchesRing'
  BY DEF IInv, InflightMatchesRing, senderVars, slotVars, BusySlots, One
<1>5. SlotsDistinct' BY DEF IInv, SlotsDistinct, Slot
<1> QED BY <1>2, <1>3, <1>4, <1>5 DEF IInv

LEMMA IdleSteps ==
  ASSUME IInv,
         \/ SigHandler \/ JoinAll \/ Complete \/ ConnectionFails
         \/ PollCq \/ CqeReturns \/ EntryFailed \/ AwaitSlotBusy
         \/ UNCHANGED vars
  PROVE  IInv'
<1>1. TypeOK' BY OtherType, CqeType DEF CqeThread
<1>2. TypeOK /\ EntryInv BY DEF IInv
<1>3. UNCHANGED <<senderVars, slotVars, wq, inflight, window>>
  BY DEF SigHandler, JoinAll, Complete, ConnectionFails, PollCq, CqeReturns,
     EntryFailed, AwaitSlotBusy, vars, nicVars
<1>4. CASE SigHandler \/ JoinAll \/ ConnectionFails \/ UNCHANGED vars
  <2>1. UNCHANGED <<cpc, polled, completed>>
    BY <1>4 DEF SigHandler, JoinAll, ConnectionFails, vars, cqeVars, nicVars
  <2>2. EntryInv'
    BY <1>2, <1>3, <2>1 DEF EntryInv, Entry, EntrySlot, Slot, slotVars
  <2>3. \A f \in Flows : Releasing(f)' <=> Releasing(f)
    BY <1>3, <2>1 DEF Releasing, Entry
  <2> QED BY <1>1, <1>3, <2>2, <2>3, FrameStep
<1>5. CASE Complete
  <2>1. UNCHANGED <<cpc, polled>> /\ completed' = completed + 1
    BY <1>5 DEF Complete, cqeVars
  <2>2. completed >= 1 => completed' >= 1 BY <1>2, <2>1 DEF TypeOK
  <2>3. EntryInv'
    BY <1>2, <1>3, <2>1, <2>2 DEF EntryInv, Entry, EntrySlot, Slot, slotVars
  <2>4. \A f \in Flows : Releasing(f)' <=> Releasing(f)
    BY <1>3, <2>1 DEF Releasing, Entry
  <2> QED BY <1>1, <1>3, <2>3, <2>4, FrameStep
<1>6. CASE PollCq
  <2>1. cpc = "poll" /\ cpc' = "entry" BY <1>6 DEF PollCq
  <2>2. polled' >= 1
    <3>1. Len(wq) \in Nat /\ completed \in Nat /\ PollMax \in Nat \ {0}
      BY <1>2, ClientAssumption DEF TypeOK
    <3> QED BY <1>6, <3>1 DEF PollCq, Smaller
  <2>3. EntryInv' BY <1>2, <1>3, <2>1, <2>2 DEF EntryInv, Handling
  <2>4. \A f \in Flows : Releasing(f)' <=> Releasing(f)
    BY <2>1 DEF Releasing
  <2> QED BY <1>1, <1>3, <2>3, <2>4, FrameStep
<1>7. CASE CqeReturns \/ EntryFailed
  <2>1. cpc \in {"poll", "entry"} /\ cpc' \in {"done", "error"}
    BY <1>7 DEF CqeReturns, EntryFailed
  <2>2. EntryInv' BY <1>2, <1>3, <2>1 DEF EntryInv, Handling
  <2>3. \A f \in Flows : Releasing(f)' <=> Releasing(f)
    BY <2>1 DEF Releasing
  <2> QED BY <1>1, <1>3, <2>2, <2>3, FrameStep
<1>8. CASE AwaitSlotBusy
  <2>1. /\ cpc = "entry" /\ cpc' = "uncount"
        /\ UNCHANGED <<polled, completed>> /\ completed > 0
        /\ ~slotFree[Entry.flow][EntrySlot]
    BY <1>8 DEF AwaitSlotBusy, nicVars
  <2>2. completed >= 1 BY <1>2, <2>1 DEF TypeOK
  <2>3. EntryInv'
    BY <1>2, <1>3, <2>1, <2>2
    DEF EntryInv, Handling, Entry, EntrySlot, Slot, slotVars
  <2>4. \A f \in Flows : Releasing(f)' <=> Releasing(f)
    BY <2>1 DEF Releasing
  <2> QED BY <1>1, <1>3, <2>3, <2>4, FrameStep
<1> QED BY <1>4, <1>5, <1>6, <1>7, <1>8

LEMMA WindowSteps ==
  ASSUME IInv, ReceiveAck \/ ClampWindow
  PROVE  IInv'
<1>1. TypeOK' BY CqeType DEF CqeThread
<1>2. TypeOK /\ EntryInv BY DEF IInv
<1>3. /\ UNCHANGED <<senderVars, slotVars, wq, completed, polled, inflight>>
      /\ \/ cpc = "ack" /\ cpc' = "clamp"
         \/ cpc = "clamp" /\ cpc' = "release"
  BY DEF ReceiveAck, ClampWindow, nicVars
<1>4. /\ completed >= 1 /\ ~slotFree[Entry.flow][EntrySlot] /\ polled >= 1
      /\ Entry.flow \in Flows
  BY <1>2, <1>3, EntryType DEF EntryInv, Handling, TypeOK
<1>5. \A g \in Flows \ {Entry.flow} :
        window'[g] = window[g] /\ ~(window[g] > MaxWindow)
  BY <1>2, <1>3 DEF ReceiveAck, ClampWindow, EntryInv, TypeOK
<1>6. cpc' = "release" => ~(window'[Entry.flow] > MaxWindow)
  <2>1. window[Entry.flow] \in Nat BY <1>2, <1>4 DEF TypeOK, RawMax
  <2>2. Clamp(window[Entry.flow]) \in 0 .. MaxWindow BY <2>1, ClampBounds
  <2>3. CASE ClampWindow
    <3>1. window'[Entry.flow] = Clamp(window[Entry.flow])
      BY <1>2, <1>4, <2>3 DEF ClampWindow, TypeOK
    <3> QED BY <2>2, <3>1, ClientAssumption
  <2>4. CASE ReceiveAck BY <2>4 DEF ReceiveAck
  <2> QED BY <2>3, <2>4
<1>7. EntryInv'
  BY <1>3, <1>4, <1>5, <1>6
  DEF EntryInv, Handling, Entry, EntrySlot, Slot, slotVars
<1>8. \A f \in Flows : Releasing(f)' <=> Releasing(f)
  BY <1>3 DEF Releasing, Entry
<1> QED BY <1>1, <1>3, <1>7, <1>8, FrameStep

LEMMA UncountSegmentStep ==
  ASSUME IInv, UncountSegment
  PROVE  IInv'
<1> DEFINE e == Entry.flow
<1>1. TypeOK' BY CqeType DEF CqeThread
<1>2. TypeOK /\ EntryInv BY DEF IInv
<1>3. /\ UNCHANGED <<senderVars, slotVars, wq, completed, polled, window>>
      /\ cpc = "uncount" /\ cpc' = "ack"
      /\ inflight' = [inflight EXCEPT ![e] = (inflight[e] - 1) % Word]
  BY DEF UncountSegment, nicVars
<1>4. e \in Flows BY <1>2, <1>3, EntryType DEF EntryInv, Handling, TypeOK
<1>5. inflight'[e] = inflight[e] - 1 /\ inflight[e] \in Nat
      /\ \A g \in Flows \ {e} : inflight'[g] = inflight[g]
  <2>1. inflight[e] \in 1 .. Word - 1 BY <1>3, EntryCounted
  <2>2. (inflight[e] - 1) % Word = inflight[e] - 1
    <3>1. Word \in Nat /\ inflight[e] - 1 \in Nat /\ inflight[e] - 1 < Word
      BY <2>1, ClientAssumption
    <3> HIDE DEF e
    <3> QED BY <3>1, ModSmall
  <2>3. inflight' = [inflight EXCEPT ![e] = inflight[e] - 1]
    BY <1>3, <2>2
  <2> QED BY <1>2, <1>4, <2>1, <2>3 DEF TypeOK
<1>6. \A g \in Flows : SenderInv(g)'
  <2> TAKE g \in Flows
  <2>a. inflight[g] \in Nat BY <1>2 DEF TypeOK
  <2>1. inflight'[g] <= inflight[g]
    <3> HIDE DEF e
    <3>1. CASE g = e BY <1>5, <2>a, <3>1
    <3>2. CASE g # e BY <1>5, <2>a, <3>2
    <3> QED BY <3>1, <3>2
  <2> QED BY <1>1, <1>2, <1>3, <2>1, SenderMono
        DEF IInv, senderVars, slotVars
<1>7. (\A k \in 1 .. Len(wq) : RequestInv(wq[k]))'
  BY <1>3 DEF IInv, RequestInv, BeingRecorded, senderVars, slotVars, Slot
<1>8. EntryInv'
  BY <1>2, <1>3 DEF EntryInv, Handling, Entry, EntrySlot, Slot, slotVars
<1>9. InflightMatchesRing'
  <2> SUFFICES ASSUME NEW g \in Flows
               PROVE  inflight'[g] = Cardinality(BusySlots(g))
                        + One(pc[g] = "mark") - One(Releasing(g)')
    BY <1>3 DEF InflightMatchesRing, BusySlots, One, senderVars, slotVars
  <2>1. inflight[g] = Cardinality(BusySlots(g))
                        + One(pc[g] = "mark") - One(Releasing(g))
    BY DEF IInv, InflightMatchesRing
  <2>2. One(Releasing(g)) = 0 BY <1>3 DEF Releasing, One
  <2>3. Cardinality(BusySlots(g)) \in Nat /\ One(pc[g] = "mark") \in {0, 1}
    BY BusyFinite, ClientAssumption DEF One
  <2>4. Releasing(g)' <=> g = e BY <1>3 DEF Releasing, Entry
  <2>5. One(Releasing(g)') = IF g = e THEN 1 ELSE 0 BY <2>4 DEF One
  <2> QED BY <1>5, <2>1, <2>2, <2>3, <2>5
<1>10. SlotsDistinct' BY <1>3 DEF IInv, SlotsDistinct, Slot
<1> QED BY <1>1, <1>6, <1>7, <1>8, <1>9, <1>10 DEF IInv

LEMMA ReleaseSlotStep ==
  ASSUME IInv, ReleaseSlot
  PROVE  IInv'
<1> DEFINE e == Entry.flow
           t == EntrySlot
<1>1. TypeOK' BY CqeType DEF CqeThread
<1>2. TypeOK /\ EntryInv BY DEF IInv
<1>3. /\ UNCHANGED <<senderVars, slotTime, inflight, window>>
      /\ cpc = "release" /\ wq' = Tail(wq) /\ polled' = polled - 1
      /\ slotFree' = [slotFree EXCEPT ![e][t] = TRUE]
      /\ \/ polled = 1 /\ cpc' = "poll"
         \/ polled # 1 /\ cpc' = "entry"
  BY DEF ReleaseSlot
<1>4. /\ completed > 0 /\ polled >= 1 /\ polled \in Nat
      /\ ~slotFree[e][t] /\ e \in Flows /\ t \in 0 .. Slots - 1
      /\ 1 \in 1 .. Len(wq)
  BY <1>2, <1>3, EntryType DEF EntryInv, Handling, TypeOK
<1>5. /\ Len(wq') = Len(wq) - 1 /\ Len(wq) \in Nat
      /\ \A k \in 1 .. Len(wq') : wq'[k] = wq[k + 1] /\ k + 1 \in 1 .. Len(wq)
  BY <1>2, <1>3, <1>4, TailFacts, EntryType
<1>6. /\ \A g \in Flows \ {e} : slotFree'[g] = slotFree[g]
      /\ \A s \in 0 .. Slots - 1 :
           slotFree'[e][s] = IF s = t THEN TRUE ELSE slotFree[e][s]
  BY <1>2, <1>3, <1>4 DEF TypeOK
<1>7. \A g \in Flows : SenderInv(g)'
  <2> TAKE g \in Flows
  <2>1. inflight'[g] <= inflight[g] BY <1>2, <1>3 DEF TypeOK
  <2>2. \A s \in 0 .. Slots - 1 : slotFree[g][s] => slotFree'[g][s]
    BY <1>6
  <2> QED BY <1>1, <1>2, <1>3, <2>1, <2>2, SenderMono DEF IInv, senderVars
<1>8. (\A k \in 1 .. Len(wq) : RequestInv(wq[k]))'
  <2> SUFFICES ASSUME NEW k \in 1 .. Len(wq') PROVE RequestInv(wq[k])'
    OBVIOUS
  <2> DEFINE r == wq[k + 1]
  <2>1. k + 1 \in 1 .. Len(wq) /\ wq'[k] = r /\ k + 1 # 1 BY <1>5
  <2>2. /\ RequestInv(r) /\ r.flow \in Flows
        /\ Slot(r.seq) \in 0 .. Slots - 1
    BY <1>2, <2>1, RequestType DEF IInv
  <2>3. r.flow = e => Slot(r.seq) # t
    BY <1>4, <2>1 DEF IInv, SlotsDistinct, Entry, EntrySlot
  <2>4. slotFree'[r.flow][Slot(r.seq)] = slotFree[r.flow][Slot(r.seq)]
    BY <1>6, <2>2, <2>3
  <2> QED BY <1>3, <2>1, <2>2, <2>4
        DEF RequestInv, BeingRecorded, senderVars, Slot
<1>9. EntryInv'
  <2>1. polled # 1 => polled - 1 >= 1 BY <1>4
  <2>2. \A f \in Flows : ~(window[f] > MaxWindow)
    BY <1>2, <1>3 DEF EntryInv
  <2> QED BY <1>3, <2>1, <2>2 DEF EntryInv, Handling
<1>10. InflightMatchesRing'
  <2> SUFFICES ASSUME NEW g \in Flows
               PROVE  inflight[g] = Cardinality(BusySlots(g)')
                        + One(pc[g] = "mark") - One(Releasing(g)')
    BY <1>3 DEF InflightMatchesRing, One, senderVars
  <2>1. inflight[g] = Cardinality(BusySlots(g))
                        + One(pc[g] = "mark") - One(Releasing(g))
    BY DEF IInv, InflightMatchesRing
  <2>2. One(Releasing(g)') = 0 BY <1>3 DEF Releasing, One
  <2>3. Cardinality(BusySlots(g)) \in Nat /\ One(pc[g] = "mark") \in {0, 1}
    BY BusyFinite, ClientAssumption DEF One
  <2>4. CASE g # e
    <3>1. One(Releasing(g)) = 0 BY <2>4 DEF Releasing, One
    <3>2. BusySlots(g)' = BusySlots(g) BY <1>6, <2>4 DEF BusySlots
    <3> QED BY <2>1, <2>2, <2>3, <3>1, <3>2
  <2>5. CASE g = e
    <3>1. One(Releasing(g)) = 1 BY <1>3, <2>5 DEF Releasing, One
    <3>2. BusySlots(g)' = BusySlots(g) \ {t} /\ t \in BusySlots(g)
      BY <1>4, <1>6, <2>5 DEF BusySlots
    <3>3. Cardinality(BusySlots(g)') = Cardinality(BusySlots(g)) - 1
      BY <3>2, BusyFinite, FS_RemoveElement
    <3> QED BY <2>1, <2>2, <2>3, <3>1, <3>3
  <2> QED BY <2>4, <2>5
<1>11. SlotsDistinct'
  <2> SUFFICES ASSUME NEW i \in 1 .. Len(wq'), NEW j \in 1 .. Len(wq'),
                      i # j, wq'[i].flow = wq'[j].flow
               PROVE  Slot(wq'[i].seq) # Slot(wq'[j].seq)
    BY DEF SlotsDistinct, Slot
  <2>1. i + 1 # j + 1 OBVIOUS
  <2> QED BY <1>5, <2>1 DEF IInv, SlotsDistinct
<1> QED BY <1>1, <1>7, <1>8, <1>9, <1>10, <1>11 DEF IInv

---------------------------------------------------------------------------
(* The theorems.                                                           *)

LEMMA StepInv == IInv /\ [Next]_vars => IInv'
<1> SUFFICES ASSUME IInv, [Next]_vars PROVE IInv'
  OBVIOUS
<1>1. ASSUME NEW f \in Flows, Sender(f) PROVE IInv'
  BY <1>1, LocalStep, PostSendStep, StampSlotStep, CountSegmentStep,
     MarkSlotBusyStep DEF Sender
<1>2. CASE CqeThread
  BY <1>2, IdleSteps, WindowSteps, UncountSegmentStep, ReleaseSlotStep
  DEF CqeThread
<1>3. CASE \/ SigHandler \/ JoinAll \/ Complete \/ ConnectionFails
           \/ UNCHANGED vars
  BY <1>3, IdleSteps
<1> QED BY <1>1, <1>2, <1>3 DEF Next

\* The inductive invariant IInv holds in every reachable state.
THEOREM Invariance == Spec => []IInv
BY InitInv, StepInv, PTL DEF Spec

\* Every variable keeps its type; in particular, no counter wraps around.
THEOREM TypeCorrect == Spec => []TypeOK
<1>1. IInv => TypeOK BY DEF IInv
<1> QED BY <1>1, Invariance, PTL

\* The atomic in-flight counter and the ring of slots agree, up to the updates
\* that the sender or the completion thread has half done.
THEOREM CounterCorrect == Spec => []InflightMatchesRing
<1>1. IInv => InflightMatchesRing BY DEF IInv
<1> QED BY <1>1, Invariance, PTL

\* The completion thread computes an RTT from the post time of the very
\* segment that completed.
THEOREM PostTimeCorrect == Spec => []OwnPostTime
<1>1. IInv => OwnPostTime
  <2> SUFFICES ASSUME IInv, cpc \in {"uncount", "ack"}
               PROVE  slotTime[Entry.flow][EntrySlot] = Entry.seq
    BY DEF OwnPostTime
  <2>1. TypeOK /\ completed > 0 /\ ~slotFree[Entry.flow][EntrySlot]
    BY DEF IInv, EntryInv, Handling, TypeOK
  <2>2. 1 \in 1 .. Len(wq) /\ Entry.flow \in Flows BY <2>1, EntryType
  <2>3. RequestInv(Entry) BY <2>2 DEF IInv, Entry
  <2>4. ~BeingRecorded(Entry)
    <3> SUFFICES ASSUME BeingRecorded(Entry) PROVE FALSE
      OBVIOUS
    <3>1. pc[Entry.flow] \in Posting /\ Entry.seq = seg_wr_seq[Entry.flow]
      BY DEF BeingRecorded, Posting
    <3> QED BY <2>1, <2>2, <3>1, PostingSlot DEF EntrySlot
  <2> QED BY <2>3, <2>4 DEF RequestInv, EntrySlot
<1> QED BY <1>1, Invariance, PTL

\* No two segments of a flow that are in the queue pair share a slot.
THEOREM SlotsCorrect == Spec => []SlotsDistinct
<1>1. IInv => SlotsDistinct BY DEF IInv
<1> QED BY <1>1, Invariance, PTL

\* A flow never has more segments out than its largest window holds.
THEOREM WindowCorrect == Spec => []WindowRespected
<1>1. IInv => WindowRespected
  BY DEF IInv, SenderInv, WindowRespected, RawMax
<1> QED BY <1>1, Invariance, PTL

\* A burst never takes the flow above the window its sender has read.
THEOREM BurstCorrect == Spec => []BurstFitsWindow
<1>1. IInv => BurstFitsWindow
  BY DEF IInv, SenderInv, FitsWindow, BurstFitsWindow
<1> QED BY <1>1, Invariance, PTL

---------------------------------------------------------------------------
(* The client implements the stream of segments: CountSegment posts one,   *)
(* UncountSegment acknowledges one, every other step is a stutter.         *)

Posted == [f \in Flows |-> seg_wr_seq[f] + One(pc[f] = "mark")]
Acked  == [f \in Flows |-> seg_wr_seq[f] + One(pc[f] = "mark") - inflight[f]]

LEMMA StreamInit == Init => Stream!Init
<1> SUFFICES ASSUME Init PROVE Stream!Init
  OBVIOUS
<1>1. \A f \in Flows : /\ seg_wr_seq[f] + One(pc[f] = "mark") = 0
                       /\ seg_wr_seq[f] + One(pc[f] = "mark") - inflight[f] = 0
  BY DEF Init, One
<1> QED BY <1>1 DEF Stream!Init

\* A step after which each sender is as far as before, and as many segments
\* are in flight, is a stutter.
LEMMA StreamStutter ==
  ASSUME TypeOK, TypeOK', UNCHANGED inflight,
         \A f \in Flows : seg_wr_seq'[f] + One(pc'[f] = "mark")
                            = seg_wr_seq[f] + One(pc[f] = "mark")
  PROVE  UNCHANGED Stream!vars
<1>1. Posted' = Posted BY DEF Posted
<1>2. Acked' = Acked
  <2>1. \A f \in Flows : seg_wr_seq'[f] + One(pc'[f] = "mark") - inflight'[f]
                         = seg_wr_seq[f] + One(pc[f] = "mark") - inflight[f]
    <3> TAKE f \in Flows
    <3>1. /\ seg_wr_seq[f] \in Int /\ seg_wr_seq'[f] \in Int
          /\ inflight[f] \in Int /\ inflight'[f] = inflight[f]
      BY DEF TypeOK
    <3>2. One(pc[f] = "mark") \in Int /\ One(pc'[f] = "mark") \in Int
      BY DEF One
    <3>3. seg_wr_seq'[f] + One(pc'[f] = "mark")
            = seg_wr_seq[f] + One(pc[f] = "mark")
      OBVIOUS
    <3> QED BY <3>1, <3>2, <3>3
  <2> QED BY <2>1 DEF Acked
<1> QED BY <1>1, <1>2 DEF Stream!vars, Posted, Acked

LEMMA StreamPost ==
  ASSUME IInv, IInv', NEW f \in Flows, CountSegment(f)
  PROVE  Stream!Post(f)
<1> DEFINE n == inflight[f]
<1>1. /\ pc[f] = "count" /\ pc' = [pc EXCEPT ![f] = "mark"]
      /\ UNCHANGED seg_wr_seq
      /\ inflight' = [inflight EXCEPT ![f] = (n + 1) % Word]
  BY DEF CountSegment, Goto
<1>2. TypeOK /\ seg_wr_seq[f] \in 0 .. Iters - 1
  BY <1>1, PostingSlot DEF Posting
<1>3. n \in Nat /\ inflight'[f] = n + 1
      /\ \A g \in Flows \ {f} : inflight'[g] = inflight[g]
  BY <1>1, <1>2, CountFits DEF TypeOK
<1>4. /\ pc'[f] = "mark" /\ One(pc[f] = "mark") = 0 /\ One(pc'[f] = "mark") = 1
      /\ \A g \in Flows \ {f} : pc'[g] = pc[g]
  BY <1>1, <1>2 DEF TypeOK, One
<1>5. n + 1 <= RawMax \div Unit
  <2>1. (n + 1) * Unit <= RawMax BY <1>3 DEF IInv, SenderInv, RawMax
  <2>2. RawMax \in Nat /\ Unit \in Nat \ {0} BY ClientAssumption DEF RawMax
  <2>3. n + 1 \in Nat BY <1>3
  <2> QED BY <2>1, <2>2, <2>3, DivLargest
<1>6. Posted[f] = seg_wr_seq[f] /\ Acked[f] = seg_wr_seq[f] - n
  BY <1>2, <1>3, <1>4 DEF Posted, Acked
<1>7. Posted[f] < Iters /\ Posted[f] - Acked[f] < RawMax \div Unit
  <2>1. RawMax \div Unit \in Nat
    BY ClientAssumption, DivBounds DEF RawMax
  <2> QED BY <1>2, <1>3, <1>5, <1>6, <2>1, ClientAssumption
<1>8. \A g \in Flows : Posted'[g] = IF g = f THEN Posted[g] + 1 ELSE Posted[g]
  BY <1>1, <1>2, <1>4 DEF Posted, TypeOK
<1>9. \A g \in Flows : Acked'[g] = Acked[g]
  <2> TAKE g \in Flows
  <2>1. CASE g = f BY <1>1, <1>2, <1>3, <1>4, <2>1 DEF Acked
  <2>2. CASE g # f BY <1>1, <1>3, <1>4, <2>2 DEF Acked
  <2> QED BY <2>1, <2>2
<1>10. Posted' = [Posted EXCEPT ![f] = Posted[f] + 1] /\ Acked' = Acked
  BY <1>8, <1>9 DEF Posted, Acked
<1> QED BY <1>7, <1>10 DEF Stream!Post, Posted, Acked

LEMMA StreamAck ==
  ASSUME IInv, UncountSegment, NEW e \in Flows, e = Entry.flow
  PROVE  Stream!Ack(e)
<1>1. /\ cpc = "uncount" /\ UNCHANGED <<pc, seg_wr_seq>>
      /\ inflight' = [inflight EXCEPT ![e] = (inflight[e] - 1) % Word]
  BY DEF UncountSegment, senderVars
<1>2. TypeOK BY DEF IInv
<1>3. inflight[e] \in 1 .. Word - 1 BY <1>1, EntryCounted
<1>4. (inflight[e] - 1) % Word = inflight[e] - 1
  <2>1. Word \in Nat /\ inflight[e] - 1 \in Nat /\ inflight[e] - 1 < Word
    BY <1>3, ClientAssumption
  <2> QED BY <2>1, ModSmall
<1>5. inflight' = [inflight EXCEPT ![e] = inflight[e] - 1]
  BY <1>1, <1>4
<1>6. inflight'[e] = inflight[e] - 1
      /\ \A g \in Flows \ {e} : inflight'[g] = inflight[g]
  BY <1>2, <1>5 DEF TypeOK
<1>7. \A g \in Flows : Posted[g] \in Nat /\ inflight[g] \in Nat
                       /\ Acked[g] = Posted[g] - inflight[g]
  <2> TAKE g \in Flows
  <2>1. seg_wr_seq[g] \in Nat /\ inflight[g] \in Nat BY <1>2 DEF TypeOK
  <2>2. One(pc[g] = "mark") \in Nat BY DEF One
  <2>3. Posted[g] \in Nat BY <2>1, <2>2 DEF Posted
  <2>4. Posted[g] = seg_wr_seq[g] + One(pc[g] = "mark") BY DEF Posted
  <2>5. Acked[g] = seg_wr_seq[g] + One(pc[g] = "mark") - inflight[g]
    BY DEF Acked
  <2> QED BY <2>1, <2>2, <2>3, <2>4, <2>5
<1>8. Posted' = Posted BY <1>1 DEF Posted
<1>9. Acked[e] < Posted[e] BY <1>2, <1>3, <1>7
<1>10. \A g \in Flows : Acked'[g] = Posted[g] - inflight'[g]
  <2> TAKE g \in Flows
  <2>1. Acked'[g] = seg_wr_seq'[g] + One(pc'[g] = "mark") - inflight'[g]
    BY DEF Acked
  <2>2. Posted[g] = seg_wr_seq[g] + One(pc[g] = "mark") BY DEF Posted
  <2>3. seg_wr_seq' = seg_wr_seq /\ pc' = pc BY <1>1
  <2>4. seg_wr_seq'[g] + One(pc'[g] = "mark") = Posted[g]
    BY <2>2, <2>3
  <2>5. seg_wr_seq'[g] + One(pc'[g] = "mark") - inflight'[g]
          = Posted[g] - inflight'[g]
    <3>1. /\ seg_wr_seq'[g] \in Int /\ inflight[g] \in Int
          /\ inflight[e] - 1 \in Int
      BY <1>2, <1>3, <2>3 DEF TypeOK
    <3>2. inflight'[g] \in Int BY <1>6, <3>1
    <3>3. One(pc'[g] = "mark") \in Int BY DEF One
    <3> QED BY <2>4, <3>1, <3>2, <3>3
  <2> QED BY <2>1, <2>5
<1>11. \A g \in Flows : Acked'[g] = IF g = e THEN Acked[g] + 1 ELSE Acked[g]
  <2> TAKE g \in Flows
  <2>1. CASE g = e BY <1>3, <1>6, <1>7, <1>10, <2>1
  <2>2. CASE g # e BY <1>6, <1>7, <1>10, <2>2
  <2> QED BY <2>1, <2>2
<1>12. Acked' = [Acked EXCEPT ![e] = Acked[e] + 1]
  BY <1>11 DEF Acked
<1> QED BY <1>2, <1>8, <1>9, <1>12 DEF Stream!Ack, Posted, Acked

\* Every other step of a sender leaves its position unchanged.
LEMMA SenderStutter ==
  ASSUME IInv, IInv', NEW f \in Flows, Sender(f), ~CountSegment(f)
  PROVE  UNCHANGED Stream!vars
<1>1. TypeOK /\ TypeOK' BY DEF IInv
<1>2. CASE MarkSlotBusy(f)
  <2>1. /\ pc[f] = "mark" /\ UNCHANGED inflight
        /\ pc' = [pc EXCEPT ![f] = IF burst[f] = 1 THEN "window" ELSE "post"]
        /\ seg_wr_seq' = [seg_wr_seq EXCEPT ![f] = seg_wr_seq[f] + 1]
    BY <1>2 DEF MarkSlotBusy, Goto
  <2>2. \A g \in Flows : seg_wr_seq'[g] + One(pc'[g] = "mark")
                           = seg_wr_seq[g] + One(pc[g] = "mark")
    <3> TAKE g \in Flows
    <3>1. CASE g = f
      <4>1. One(pc[f] = "mark") = 1 /\ One(pc'[f] = "mark") = 0
        BY <1>1, <2>1 DEF TypeOK, One
      <4>2. seg_wr_seq'[f] = seg_wr_seq[f] + 1 /\ seg_wr_seq[f] \in Nat
        BY <1>1, <2>1 DEF TypeOK
      <4> QED BY <3>1, <4>1, <4>2
    <3>2. CASE g # f BY <1>1, <2>1, <3>2 DEF TypeOK
    <3> QED BY <3>1, <3>2
  <2> QED BY <1>1, <2>1, <2>2, StreamStutter
<1>3. CASE ~MarkSlotBusy(f)
  <2>1. /\ UNCHANGED <<seg_wr_seq, inflight>>
        /\ pc[f] # "mark" /\ \E l \in {"window", "compare", "pace", "allow",
             "scan", "post", "stamp", "count", "done"} :
               pc' = [pc EXCEPT ![f] = l]
    BY <1>3 DEF Sender, ReadWindow, SenderReturns, CompareWindow, Pace,
         StartBurst, ReadInflight, ScanSlots, PostSend, PostSendFails,
         StampSlot, Goto
  <2>2. \A g \in Flows : pc'[g] = "mark" <=> pc[g] = "mark"
    BY <1>1, <2>1 DEF TypeOK
  <2>3. \A g \in Flows : One(pc'[g] = "mark") = One(pc[g] = "mark")
    BY <2>2 DEF One
  <2> QED BY <1>1, <2>1, <2>3, StreamStutter
<1> QED BY <1>2, <1>3

LEMMA StreamStep ==
  ASSUME IInv, IInv', [Next]_vars
  PROVE  [Stream!Next]_(Stream!vars)
<1>1. ASSUME NEW f \in Flows, Sender(f) PROVE [Stream!Next]_(Stream!vars)
  BY <1>1, StreamPost, SenderStutter DEF Stream!Next
<1>2. CASE UncountSegment
  <2>1. PICK e \in Flows : e = Entry.flow
    BY <1>2, EntryType
    DEF IInv, EntryInv, Handling, TypeOK, UncountSegment
  <2>2. Stream!Ack(e) BY <1>2, <2>1, StreamAck
  <2> QED BY <2>2 DEF Stream!Next
<1>3. CASE \/ SigHandler \/ JoinAll \/ Complete \/ ConnectionFails
           \/ (CqeThread /\ ~UncountSegment) \/ UNCHANGED vars
  <2>1. UNCHANGED <<pc, seg_wr_seq, inflight>>
    BY <1>3 DEF SigHandler, JoinAll, Complete, ConnectionFails, CqeThread,
         PollCq, CqeReturns, EntryFailed, AwaitSlotBusy, ReceiveAck,
         ClampWindow, ReleaseSlot, vars, senderVars
  <2> QED BY <2>1, StreamStutter DEF IInv
<1> QED BY <1>1, <1>2, <1>3 DEF Next

\* The client posts and acknowledges the segments of each flow one at a time
\* and in order, with no more in between than the largest window lets out.
THEOREM Implements == Spec => StreamSafety
<1>1. Spec => []IInv BY Invariance
<1>2. IInv /\ IInv' /\ [Next]_vars => [Stream!Next]_(Stream!vars)
  BY StreamStep
<1> QED BY <1>1, <1>2, StreamInit, PTL DEF Spec, StreamSafety, Stream!Spec

---------------------------------------------------------------------------
(* The end of the program.  When it exits, every segment of every flow has *)
(* been acknowledged exactly once, for any number of flows, segments,      *)
(* slots and completions at a time.  The completion thread only counts     *)
(* what it polled; the proof relates this count to the set of the segments *)
(* that are left, and the busy slots of the ring to the requests in the    *)
(* queue pair.                                                             *)

\* The sender has posted the segment and not yet recorded it.
Recorded == {"stamp", "count", "mark"}

Issued(f) == seg_wr_seq[f] + One(pc[f] \in Recorded)

InQueue(f, seq) ==
  \E k \in 1 .. Len(wq) : wq[k].flow = f /\ wq[k].seq = seq

\* The segments that are still to be acknowledged.
Left ==
  {p \in Flows \X (0 .. Iters - 1) : p[2] >= Issued(p[1]) \/ InQueue(p[1], p[2])}

\* Entries of this poll that are handled and not yet subtracted.
Handled == IF cpc \in {"poll", "done"} THEN 0 ELSE ne - polled

\* What the completion thread counts is what is left.
Counted == limit = Cardinality(Left) + Handled

\* A segment that is being recorded, and every busy slot, has its request in
\* the queue pair.
Queued ==
  /\ \A f \in Flows : pc[f] \in Recorded => InQueue(f, seg_wr_seq[f])
  /\ \A f \in Flows, s \in 0 .. Slots - 1 : ~slotFree[f][s] =>
       \E k \in 1 .. Len(wq) : wq[k].flow = f /\ Slot(wq[k].seq) = s

\* How the threads end.
Ended ==
  /\ ~broken => polled <= completed
  /\ cpc = "error" => broken
  /\ cpc = "done" => limit = 0
  /\ mpc = "exit" =>
       cpc \in {"done", "error"} /\ \A f \in Flows : pc[f] = "done"

ExitInv == Counted /\ Queued /\ Ended

---------------------------------------------------------------------------
(* Counting.                                                               *)

\* There are finitely many segments, so finitely many are left.
LEMMA Finite ==
  LET all == Flows \X (0 .. Iters - 1)
  IN  /\ IsFiniteSet(all) /\ Cardinality(all) = Iters * Cardinality(Flows)
      /\ IsFiniteSet(Left) /\ Cardinality(Left) \in Nat
<1> DEFINE all == Flows \X (0 .. Iters - 1)
<1>1. IsFiniteSet(Flows) /\ Iters \in Nat \ {0} BY ClientAssumption
<1>2. Cardinality(Flows) \in Nat BY <1>1, FS_CardinalityType
<1>3. IsFiniteSet(0 .. Iters - 1) /\ Cardinality(0 .. Iters - 1) = Iters
  <2>1. 0 \in Int /\ Iters - 1 \in Int BY <1>1
  <2>2. /\ IsFiniteSet(0 .. Iters - 1)
        /\ Cardinality(0 .. Iters - 1) =
             IF 0 > Iters - 1 THEN 0 ELSE (Iters - 1) - 0 + 1
    BY <2>1, FS_Interval
  <2> QED BY <1>1, <2>2
<1>4. /\ IsFiniteSet(all)
      /\ Cardinality(all) = Cardinality(Flows) * Cardinality(0 .. Iters - 1)
  BY <1>1, <1>3, FS_Product
<1>5. Cardinality(all) = Iters * Cardinality(Flows) BY <1>1, <1>2, <1>3, <1>4
<1>6. Left \in SUBSET all BY DEF Left
<1> HIDE DEF all
<1>7. IsFiniteSet(Left) BY <1>4, <1>6, FS_Subset
<1>8. Cardinality(Left) \in Nat BY <1>7, FS_CardinalityType
<1> QED BY <1>4, <1>5, <1>7, <1>8 DEF all

\* Nothing is left or taken off while no segment is posted or released.
LEMMA LeftSame ==
  ASSUME UNCHANGED wq,
         \A f \in Flows : seg_wr_seq'[f] + One(pc'[f] \in Recorded)
                            = seg_wr_seq[f] + One(pc[f] \in Recorded)
  PROVE  Left' = Left
BY DEF Left, InQueue, Issued

---------------------------------------------------------------------------
(* Every step keeps the invariant.                                         *)

\* At first everything is left.
LEMMA ExitInit == Init => ExitInv
<1> SUFFICES ASSUME Init PROVE ExitInv OBVIOUS
<1> DEFINE all == Flows \X (0 .. Iters - 1)
<1>1. /\ Len(wq) = 0 /\ wq = <<>> /\ limit = Iters * Cardinality(Flows)
      /\ cpc = "poll" /\ mpc = "join" /\ polled = 0 /\ completed = 0
      /\ \A f \in Flows : pc[f] = "window" /\ seg_wr_seq[f] = 0
      /\ \A f \in Flows, s \in 0 .. Slots - 1 : slotFree[f][s]
  BY DEF Init
<1>2. Left = all
  <2>1. \A f \in Flows : Issued(f) = 0 BY <1>1 DEF Issued, One, Recorded
  <2>2. \A p \in all : p[1] \in Flows /\ p[2] >= 0 BY ClientAssumption
  <2>3. \A p \in all : p[2] >= Issued(p[1]) BY <2>1, <2>2
  <2> QED BY <2>3 DEF Left
<1>3. Cardinality(all) \in Nat /\ limit = Cardinality(all)
  BY <1>1, <1>2, Finite
<1> HIDE DEF all
<1>4. Counted BY <1>1, <1>2, <1>3 DEF Counted, Handled
<1>5. Queued BY <1>1 DEF Queued, Recorded
<1>6. Ended BY <1>1 DEF Ended
<1> QED BY <1>4, <1>5, <1>6 DEF ExitInv

\* The steps of a sender that posts and records nothing, or is still recording.
LEMMA QuietSender ==
  ASSUME TypeOK, ExitInv, NEW f \in Flows, pc[f] # "done",
         UNCHANGED <<wq, seg_wr_seq, slotFree, completed, broken, cqeVars, mpc>>,
         NEW x, pc' = [pc EXCEPT ![f] = x],
         x \in Recorded <=> pc[f] \in Recorded
  PROVE  ExitInv'
<1>1. \A g \in Flows : pc'[g] \in Recorded <=> pc[g] \in Recorded BY DEF TypeOK
<1>2. \A g \in Flows : seg_wr_seq'[g] + One(pc'[g] \in Recorded)
                            = seg_wr_seq[g] + One(pc[g] \in Recorded)
  BY <1>1 DEF One
<1>3. Left' = Left BY <1>2, LeftSame
<1>4. Counted' BY <1>3 DEF ExitInv, Counted, Handled, cqeVars
<1>5. Queued' BY <1>1 DEF ExitInv, Queued, InQueue, Slot
<1>6. mpc # "exit" BY DEF ExitInv, Ended
<1>7. Ended' BY <1>6 DEF ExitInv, Ended, cqeVars
<1> QED BY <1>4, <1>5, <1>7 DEF ExitInv

\* The steps of a sender but posting and marking.
LEMMA LocalExit ==
  ASSUME IInv, ExitInv, NEW f \in Flows,
         \/ ReadWindow(f) \/ SenderReturns(f) \/ CompareWindow(f) \/ Pace(f)
         \/ ReadInflight(f) \/ ScanSlots(f) \/ PostSendFails(f)
         \/ StampSlot(f) \/ CountSegment(f)
  PROVE  ExitInv'
<1>1. TypeOK BY DEF IInv
<1>2. /\ pc[f] # "done"
      /\ UNCHANGED <<wq, seg_wr_seq, slotFree, completed, broken, cqeVars, mpc>>
  BY DEF ReadWindow, SenderReturns, CompareWindow, Pace, ReadInflight, ScanSlots,
         PostSendFails, StampSlot, CountSegment, StartBurst, Goto,
         slotVars, nicVars, mainVars
<1>3. PICK x : /\ pc' = [pc EXCEPT ![f] = x]
               /\ x \in Recorded <=> pc[f] \in Recorded
  <2>1. CASE StampSlot(f) \/ CountSegment(f)
    BY <2>1 DEF StampSlot, CountSegment, Goto, Recorded
  <2>2. CASE ~(StampSlot(f) \/ CountSegment(f))
    <3>a. CASE ReadWindow(f) \/ SenderReturns(f) \/ PostSendFails(f)
      BY <3>a DEF ReadWindow, SenderReturns, PostSendFails, Goto, Recorded
    <3>b. CASE CompareWindow(f) \/ ReadInflight(f)
      BY <3>b DEF CompareWindow, ReadInflight, Goto, Recorded
    <3>c. CASE Pace(f) \/ ScanSlots(f)
      BY <3>c DEF Pace, ScanSlots, StartBurst, Goto, Recorded
    <3> QED BY <2>2, <3>a, <3>b, <3>c
  <2> QED BY <2>1, <2>2
<1> QED BY <1>1, <1>2, <1>3, QuietSender

\* A segment that is posted is left, as before, and in the queue pair.
LEMMA PostSendExit ==
  ASSUME IInv, ExitInv, NEW f \in Flows, PostSend(f)
  PROVE  ExitInv'
<1> DEFINE new == [flow |-> f, seq |-> seg_wr_seq[f]]
           n == Len(wq)
<1>1. /\ pc[f] = "post" /\ pc' = [pc EXCEPT ![f] = "stamp"]
      /\ wq' = Append(wq, new)
      /\ UNCHANGED <<seg_wr_seq, slotFree, completed, broken, cqeVars, mpc>>
  BY DEF PostSend, Goto, slotVars, mainVars
<1>2. /\ TypeOK /\ wq \in Seq(WorkRequest) /\ n \in Nat
      /\ \A g \in Flows : seg_wr_seq[g] \in Nat
      /\ new.flow = f /\ new.seq = seg_wr_seq[f]
  BY DEF IInv, TypeOK
<1>3. /\ Len(wq') = n + 1 /\ wq'[n + 1] = new
      /\ \A k \in 1 .. n : wq'[k] = wq[k] /\ k \in 1 .. n + 1
      /\ \A k \in 1 .. n + 1 : k \in 1 .. n \/ k = n + 1
  <2> HIDE DEF new
  <2> QED BY <1>1, <1>2
<1> HIDE DEF new, n
<1>4. \A g \in Flows, s \in Nat :
        InQueue(g, s)' <=> InQueue(g, s) \/ (g = f /\ s = seg_wr_seq[f])
  <2> TAKE g \in Flows, s \in Nat
  <2>1. InQueue(g, s)' <=> \E k \in 1 .. n + 1 : wq'[k].flow = g /\ wq'[k].seq = s
    BY <1>3 DEF InQueue
  <2>2. InQueue(g, s) <=> \E k \in 1 .. n : wq[k].flow = g /\ wq[k].seq = s
    BY DEF InQueue, n
  <2>3. InQueue(g, s) => InQueue(g, s)' BY <1>3, <2>1, <2>2
  <2>4. g = f /\ s = seg_wr_seq[f] => InQueue(g, s)'
    <3>1. n + 1 \in 1 .. n + 1 BY <1>2
    <3> QED BY <1>2, <1>3, <2>1, <3>1
  <2>5. InQueue(g, s)' => InQueue(g, s) \/ (g = f /\ s = seg_wr_seq[f])
    BY <1>2, <1>3, <2>1, <2>2
  <2> QED BY <2>3, <2>4, <2>5
<1>5. \A g \in Flows : Issued(g)' = Issued(g) + One(g = f)
  BY <1>1, <1>2 DEF Issued, One, Recorded, TypeOK
<1>6. Issued(f) = seg_wr_seq[f] BY <1>1, <1>2 DEF Issued, One, Recorded
<1>7. Left' = Left
  <2> SUFFICES ASSUME NEW g \in Flows, NEW s \in 0 .. Iters - 1
               PROVE  s >= Issued(g)' \/ InQueue(g, s)'
                        <=> s >= Issued(g) \/ InQueue(g, s)
    BY DEF Left
  <2>1. s \in Nat /\ Issued(g) \in Nat BY <1>2, ClientAssumption DEF Issued, One
  <2>2. CASE g # f
    <3>1. Issued(g)' = Issued(g) BY <1>5, <2>1, <2>2 DEF One
    <3> QED BY <1>4, <2>1, <2>2, <3>1
  <2>3. CASE g = f
    <3>1. Issued(g)' = Issued(g) + 1 /\ Issued(g) = seg_wr_seq[f]
      BY <1>5, <1>6, <2>3 DEF One
    <3>2. InQueue(g, s)' <=> InQueue(g, s) \/ s = seg_wr_seq[f]
      BY <1>4, <2>1, <2>3
    <3> QED BY <2>1, <3>1, <3>2
  <2> QED BY <2>2, <2>3
<1>8. Counted' BY <1>1, <1>7 DEF ExitInv, Counted, Handled, cqeVars
<1>9. Queued'
  <2>1. ASSUME NEW g \in Flows, pc'[g] \in Recorded
        PROVE  InQueue(g, seg_wr_seq[g])'
    <3>1. seg_wr_seq'[g] = seg_wr_seq[g] /\ seg_wr_seq[g] \in Nat BY <1>1, <1>2
    <3>2. g # f => pc[g] \in Recorded BY <1>1, <1>2, <2>1 DEF TypeOK
    <3>3. g # f => InQueue(g, seg_wr_seq[g]) BY <3>2 DEF ExitInv, Queued
    <3>4. \E k \in 1 .. n + 1 : wq'[k].flow = g /\ wq'[k].seq = seg_wr_seq[g]
      <4>1. CASE g = f
        <5>1. n + 1 \in 1 .. n + 1 BY <1>2
        <5> QED BY <1>2, <1>3, <4>1, <5>1
      <4>2. CASE g # f BY <1>3, <3>3, <4>2 DEF InQueue, n
      <4> QED BY <4>1, <4>2
    <3> QED BY <1>3, <3>1, <3>4 DEF InQueue
  <2>2. ASSUME NEW g \in Flows, NEW s \in 0 .. Slots - 1, ~slotFree[g][s]
        PROVE  \E k \in 1 .. Len(wq') : wq'[k].flow = g /\ Slot(wq'[k].seq) = s
    <3>1. PICK k \in 1 .. n : wq[k].flow = g /\ Slot(wq[k].seq) = s
      BY <2>2 DEF ExitInv, Queued, n
    <3> QED BY <1>3, <3>1
  <2> QED BY <1>1, <2>1, <2>2 DEF Queued, Slot
<1>10. mpc # "exit" BY <1>1 DEF ExitInv, Ended
<1>11. Ended' BY <1>1, <1>10 DEF ExitInv, Ended, cqeVars
<1> QED BY <1>8, <1>9, <1>11 DEF ExitInv

\* The slot that is marked is that of the request that was recorded.
LEMMA MarkExit ==
  ASSUME IInv, ExitInv, NEW f \in Flows, MarkSlotBusy(f)
  PROVE  ExitInv'
<1> DEFINE q == seg_wr_seq[f]
           x == IF burst[f] = 1 THEN "window" ELSE "post"
<1>1. /\ pc[f] = "mark" /\ TypeOK
      /\ slotFree' = [slotFree EXCEPT ![f][Slot(q)] = FALSE]
      /\ seg_wr_seq' = [seg_wr_seq EXCEPT ![f] = @ + 1]
      /\ UNCHANGED <<wq, completed, broken, cqeVars, mpc>>
  BY DEF MarkSlotBusy, IInv, nicVars, mainVars
<1>2. x \notin Recorded /\ pc' = [pc EXCEPT ![f] = x]
  BY DEF MarkSlotBusy, Goto, Recorded
<1> HIDE DEF x
<1>3. /\ \A g \in Flows : seg_wr_seq[g] \in Nat
      /\ \A g \in Flows : seg_wr_seq'[g] = IF g = f THEN q + 1 ELSE seg_wr_seq[g]
      /\ \A g \in Flows : pc'[g] = IF g = f THEN x ELSE pc[g]
  BY <1>1, <1>2 DEF TypeOK
<1>4. \A g \in Flows : seg_wr_seq'[g] + One(pc'[g] \in Recorded)
                            = seg_wr_seq[g] + One(pc[g] \in Recorded)
  BY <1>1, <1>2, <1>3 DEF One, Recorded
<1>5. Left' = Left BY <1>1, <1>4, LeftSame
<1>6. Counted' BY <1>1, <1>5 DEF ExitInv, Counted, Handled, cqeVars
<1>7. InQueue(f, q) BY <1>1 DEF ExitInv, Queued, Recorded
<1>8. Queued'
  <2>1. ASSUME NEW g \in Flows, pc'[g] \in Recorded
        PROVE  InQueue(g, seg_wr_seq[g])'
    <3>1. g # f /\ pc[g] \in Recorded BY <1>2, <1>3, <2>1
    <3>2. InQueue(g, seg_wr_seq[g]) BY <3>1 DEF ExitInv, Queued
    <3> QED BY <1>1, <1>3, <3>1, <3>2 DEF InQueue
  <2>2. ASSUME NEW g \in Flows, NEW s \in 0 .. Slots - 1, ~slotFree'[g][s]
        PROVE  \E k \in 1 .. Len(wq) : wq[k].flow = g /\ Slot(wq[k].seq) = s
    <3>1. CASE g = f /\ s = Slot(q) BY <1>7, <3>1 DEF InQueue
    <3>2. CASE ~(g = f /\ s = Slot(q))
      <4>1. ~slotFree[g][s] BY <1>1, <2>2, <3>2 DEF TypeOK
      <4> QED BY <4>1 DEF ExitInv, Queued
    <3> QED BY <3>1, <3>2
  <2> QED BY <1>1, <2>1, <2>2 DEF Queued, Slot
<1>9. mpc # "exit" BY <1>1 DEF ExitInv, Ended
<1>10. Ended' BY <1>1, <1>9 DEF ExitInv, Ended, cqeVars
<1> QED BY <1>6, <1>8, <1>10 DEF ExitInv

\* The steps that release nothing: those of the main thread and the NIC, and
\* of the completion thread up to the release.
LEMMA OtherExit ==
  ASSUME IInv, ExitInv,
         \/ SigHandler \/ JoinAll \/ Complete \/ ConnectionFails
         \/ PollCq \/ CqeReturns \/ EntryFailed \/ AwaitSlotBusy
         \/ UncountSegment \/ ReceiveAck \/ ClampWindow \/ UNCHANGED vars
  PROVE  ExitInv'
<1> USE DEF ExitInv, slotVars, nicVars, cqeVars, mainVars, senderVars
<1>1. UNCHANGED <<wq, seg_wr_seq, pc, slotFree>>
  BY DEF SigHandler, JoinAll, Complete, ConnectionFails, PollCq, CqeReturns,
         EntryFailed, AwaitSlotBusy, UncountSegment, ReceiveAck, ClampWindow, vars
<1>2. Left' = Left BY <1>1, LeftSame
<1>3. Queued' BY <1>1 DEF Queued, InQueue, Slot
<1>4. TypeOK /\ EntryInv BY DEF IInv
<1>5. /\ Cardinality(Left) \in Nat /\ limit \in Int /\ ne \in Nat /\ polled \in Nat
      /\ completed \in Nat /\ Len(wq) \in Nat
  BY <1>4, Finite DEF TypeOK
<1>6. Counted'
  <2>1. CASE PollCq
    <3>1. cpc = "poll" /\ cpc' = "entry" /\ polled' = ne' /\ limit' = limit
          /\ ne' \in Nat
      BY <1>4, <1>5, <2>1, CqeType DEF PollCq, CqeThread, TypeOK
    <3> QED BY <1>2, <1>5, <3>1 DEF Counted, Handled
  <2>2. CASE CqeReturns BY <1>2, <2>2 DEF CqeReturns, Counted, Handled
  <2>3. ASSUME \/ SigHandler \/ JoinAll \/ Complete \/ ConnectionFails
               \/ EntryFailed \/ AwaitSlotBusy
               \/ UncountSegment \/ ReceiveAck \/ ClampWindow \/ UNCHANGED vars
        PROVE  Counted'
    <3>1. UNCHANGED <<limit, ne, polled>>
          /\ (cpc' \in {"poll", "done"} <=> cpc \in {"poll", "done"})
      BY <2>3 DEF SigHandler, JoinAll, Complete, ConnectionFails, EntryFailed,
                  AwaitSlotBusy, UncountSegment, ReceiveAck, ClampWindow, vars
    <3> QED BY <1>2, <3>1 DEF Counted, Handled
  <2> QED BY <2>1, <2>2, <2>3
<1>7. Ended'
  <2>1. CASE PollCq
    <3>1. /\ cpc = "poll" /\ cpc' = "entry" /\ polled' = ne'
          /\ UNCHANGED <<completed, broken, mpc, pc, limit>>
          /\ ~broken => ne' = Smaller(completed, PollMax)
      BY <2>1 DEF PollCq
    <3>2. ~broken => ne' <= completed BY <1>5, <3>1, SmallerNat, ClientAssumption
    <3> QED BY <3>1, <3>2 DEF Ended
  <2>2. CASE EntryFailed
    <3>1. broken BY <1>4, <1>5, <2>2 DEF EntryFailed, EntryInv, Ended, Handling
    <3> QED BY <2>2, <3>1 DEF EntryFailed, Ended
  <2>3. CASE CqeReturns BY <2>3 DEF CqeReturns, Ended
  <2>4. CASE JoinAll BY <2>4 DEF JoinAll, Ended
  <2>5. CASE Complete BY <1>5, <2>5 DEF Complete, Ended
  <2>6. CASE ConnectionFails BY <2>6 DEF ConnectionFails, Ended
  <2>7. CASE SigHandler \/ UNCHANGED vars BY <2>7 DEF SigHandler, vars, Ended
  <2>8. CASE AwaitSlotBusy \/ UncountSegment \/ ReceiveAck \/ ClampWindow
    BY <2>8 DEF AwaitSlotBusy, UncountSegment, ReceiveAck, ClampWindow, Ended
  <2> QED BY <2>1, <2>2, <2>3, <2>4, <2>5, <2>6, <2>7, <2>8
<1> QED BY <1>3, <1>6, <1>7

\* The segment of the entry is no longer left, and its slot not busy.
LEMMA ReleaseExit ==
  ASSUME IInv, ExitInv, ReleaseSlot
  PROVE  ExitInv'
<1> DEFINE e == Entry.flow
           t == EntrySlot
           r == Entry.seq
<1>1. /\ UNCHANGED <<pc, seg_wr_seq, mpc, ne, broken>>
      /\ cpc = "release" /\ wq' = Tail(wq) /\ polled' = polled - 1
      /\ completed' = completed - 1
      /\ slotFree' = [slotFree EXCEPT ![e][t] = TRUE]
      /\ \/ polled = 1 /\ cpc' = "poll" /\ limit' = limit - ne
         \/ polled # 1 /\ cpc' = "entry" /\ limit' = limit
  BY DEF ReleaseSlot, senderVars, mainVars
<1>2. TypeOK /\ EntryInv /\ SlotsDistinct BY DEF IInv
<1>3. /\ completed > 0 /\ completed \in Nat /\ polled >= 1 /\ polled \in Nat
      /\ ne \in Nat /\ limit \in Int
      /\ ~slotFree[e][t] /\ e \in Flows /\ t \in 0 .. Slots - 1
      /\ 1 \in 1 .. Len(wq) /\ wq[1] = Entry /\ t = Slot(r)
      /\ r \in 0 .. Iters - 1
  <2>1. /\ completed > 0 /\ completed \in Nat /\ polled >= 1 /\ polled \in Nat
        /\ ne \in Nat /\ limit \in Int /\ ~slotFree[e][t]
    BY <1>1, <1>2 DEF EntryInv, Handling, TypeOK
  <2>2. 1 \in 1 .. Len(wq) /\ Entry \in WorkRequest BY <1>2, <2>1, EntryType
  <2>3. e \in Flows /\ r \in 0 .. Iters - 1 BY <2>2 DEF WorkRequest
  <2>4. t = Slot(r) /\ wq[1] = Entry BY DEF EntrySlot, Entry
  <2>5. r \in Nat BY <2>3, ClientAssumption
  <2>6. t \in 0 .. Slots - 1 BY <2>4, <2>5, SlotType
  <2> QED BY <2>1, <2>2, <2>3, <2>4, <2>6
<1>4. /\ Len(wq') = Len(wq) - 1 /\ Len(wq) \in Nat
      /\ \A k \in 1 .. Len(wq') : wq'[k] = wq[k + 1] /\ k + 1 \in 1 .. Len(wq)
      /\ \A k \in 1 .. Len(wq) : k # 1 => k - 1 \in 1 .. Len(wq')
                                           /\ wq'[k - 1] = wq[k]
  <2>1. /\ Len(wq') = Len(wq) - 1 /\ Len(wq) \in Nat
        /\ \A k \in 1 .. Len(wq') : wq'[k] = wq[k + 1]
    BY <1>1, <1>2, <1>3, TailFacts, EntryType
  <2>2. \A k \in 1 .. Len(wq) : k # 1 => k - 1 \in 1 .. Len(wq') /\ k = (k - 1) + 1
    BY <2>1
  <2>3. \A k \in 1 .. Len(wq') : k + 1 \in 1 .. Len(wq) BY <2>1
  <2> QED BY <2>1, <2>2, <2>3
<1> HIDE DEF e, t, r
<1>5. \A k \in 1 .. Len(wq) : k # 1 /\ wq[k].flow = e => Slot(wq[k].seq) # t
  BY <1>2, <1>3 DEF SlotsDistinct, Entry, e, r
<1>6. \A g \in Flows, s \in Nat :
        InQueue(g, s)' <=> InQueue(g, s) /\ ~(g = e /\ s = r)
  <2> TAKE g \in Flows, s \in Nat
  <2>1. InQueue(g, s)' => InQueue(g, s) /\ ~(g = e /\ s = r)
    <3> SUFFICES ASSUME NEW k \in 1 .. Len(wq'),
                        wq'[k].flow = g, wq'[k].seq = s
                 PROVE  InQueue(g, s) /\ ~(g = e /\ s = r)
      BY DEF InQueue
    <3>1. k + 1 \in 1 .. Len(wq) /\ k + 1 # 1 /\ wq[k + 1].flow = g
          /\ wq[k + 1].seq = s
      BY <1>4
    <3>2. InQueue(g, s) BY <3>1 DEF InQueue
    <3>3. g = e => Slot(s) # t BY <1>5, <3>1
    <3> QED BY <1>3, <3>2, <3>3
  <2>2. InQueue(g, s) /\ ~(g = e /\ s = r) => InQueue(g, s)'
    <3> SUFFICES ASSUME NEW k \in 1 .. Len(wq), wq[k].flow = g, wq[k].seq = s,
                        ~(g = e /\ s = r)
                 PROVE  \E j \in 1 .. Len(wq') : wq'[j].flow = g /\ wq'[j].seq = s
      BY DEF InQueue
    <3>1. k # 1 BY <1>3 DEF e, r
    <3> QED BY <1>4, <3>1
  <2> QED BY <2>1, <2>2
<1>7. r < Issued(e) /\ InQueue(e, r)
      /\ \A g \in Flows : Issued(g)' = Issued(g) /\ Issued(g) \in Nat
  <2>1. RequestInv(wq[1]) BY <1>3 DEF IInv
  <2>2. \/ r < seg_wr_seq[e]
        \/ pc[e] \in Recorded /\ r = seg_wr_seq[e]
    BY <1>3, <2>1 DEF RequestInv, BeingRecorded, Recorded, e, r
  <2>3. InQueue(e, r) BY <1>3 DEF InQueue, e, r
  <2>4. \A g \in Flows : seg_wr_seq[g] \in Nat BY <1>2 DEF TypeOK
  <2>5. \A g \in Flows : Issued(g)' = Issued(g) /\ Issued(g) \in Nat
    BY <1>1, <2>4 DEF Issued, One
  <2>6. r < Issued(e) BY <1>3, <2>2, <2>4 DEF Issued, One
  <2> QED BY <2>3, <2>5, <2>6
<1>8. Left' = Left \ {<<e, r>>} /\ <<e, r>> \in Left
  <2>1. ASSUME NEW g \in Flows, NEW s \in 0 .. Iters - 1
        PROVE  s >= Issued(g)' \/ InQueue(g, s)'
                 <=> (s >= Issued(g) \/ InQueue(g, s)) /\ ~(g = e /\ s = r)
    <3>1. s \in Nat BY ClientAssumption
    <3>2. InQueue(g, s)' <=> InQueue(g, s) /\ ~(g = e /\ s = r) BY <1>6, <3>1
    <3>3. g = e /\ s = r => ~(s >= Issued(g)) BY <1>3, <1>7, <3>1
    <3> QED BY <1>7, <3>2, <3>3
  <2>2. <<e, r>> \in Left BY <1>3, <1>7 DEF Left
  <2> QED BY <2>1, <2>2 DEF Left
<1>9. /\ Cardinality(Left') = Cardinality(Left) - 1 /\ Cardinality(Left) \in Nat
  BY <1>8, Finite, FS_RemoveElement
<1>10. Counted'
  <2>1. limit = Cardinality(Left) + (ne - polled)
    BY <1>1 DEF ExitInv, Counted, Handled
  <2> DEFINE n == Cardinality(Left)
  <2>2. Counted' <=> limit' = (n - 1) + Handled' BY <1>9 DEF Counted
  <2>3. n \in Nat /\ limit = n + (ne - polled) BY <1>9, <2>1
  <2> HIDE DEF n
  <2>4. CASE polled = 1
    <3>1. Handled' = 0 /\ limit' = limit - ne BY <1>1, <2>4 DEF Handled
    <3> QED BY <1>3, <2>2, <2>3, <2>4, <3>1
  <2>5. CASE polled # 1
    <3>1. Handled' = ne - (polled - 1) /\ limit' = limit BY <1>1, <2>5 DEF Handled
    <3> QED BY <1>3, <2>2, <2>3, <3>1
  <2> QED BY <2>4, <2>5
<1>11. Queued'
  <2>1. ASSUME NEW g \in Flows, pc'[g] \in Recorded
        PROVE  InQueue(g, seg_wr_seq[g])'
    <3>0. PICK s \in Nat : s = seg_wr_seq[g] BY <1>2 DEF TypeOK
    <3>1. InQueue(g, s) BY <1>1, <2>1, <3>0 DEF ExitInv, Queued
    <3>2. g = e => slotFree[g][Slot(s)]
      BY <1>1, <2>1, <3>0, PostingSlot DEF Recorded, Posting
    <3>3. ~(g = e /\ s = r) BY <1>3, <3>2
    <3>4. InQueue(g, s)' BY <1>6, <3>1, <3>3
    <3> QED BY <1>1, <3>0, <3>4 DEF InQueue
  <2>2. ASSUME NEW g \in Flows, NEW s \in 0 .. Slots - 1, ~slotFree'[g][s]
        PROVE  \E k \in 1 .. Len(wq') : wq'[k].flow = g /\ Slot(wq'[k].seq) = s
    <3>1. ~slotFree[g][s] /\ ~(g = e /\ s = t)
      BY <1>1, <1>2, <1>3, <2>2 DEF TypeOK
    <3>2. PICK k \in 1 .. Len(wq) : wq[k].flow = g /\ Slot(wq[k].seq) = s
      BY <3>1 DEF ExitInv, Queued
    <3>3. k # 1 BY <1>3, <3>1, <3>2 DEF e, r
    <3> QED BY <1>4, <3>2, <3>3
  <2> QED BY <2>1, <2>2 DEF Queued, Slot
<1>12. Ended' BY <1>1, <1>3 DEF ExitInv, Ended
<1> QED BY <1>10, <1>11, <1>12 DEF ExitInv

\* Every step of the program.
LEMMA ExitStep == IInv /\ ExitInv /\ [Next]_vars => ExitInv'
<1> SUFFICES ASSUME IInv, ExitInv, [Next]_vars PROVE ExitInv' OBVIOUS
<1>1. ASSUME NEW f \in Flows, Sender(f) PROVE ExitInv'
  BY <1>1, LocalExit, PostSendExit, MarkExit DEF Sender
<1>2. CASE CqeThread BY <1>2, OtherExit, ReleaseExit DEF CqeThread
<1>3. CASE SigHandler \/ JoinAll \/ Complete \/ ConnectionFails \/ UNCHANGED vars
  BY <1>3, OtherExit
<1> QED BY <1>1, <1>2, <1>3 DEF Next

---------------------------------------------------------------------------
\* However the threads interleave and whatever the completion thread polls at
\* a time, the program exits without an error only when every segment of every
\* flow is acknowledged and the queue pair and the rings are empty
\* (rc_client.cpp:160-209, 459-490).
THEOREM ExitsClean == Spec => []CleanExit
<1>1. IInv /\ ExitInv => CleanExit
  <2> SUFFICES ASSUME IInv, ExitInv, mpc = "exit", ~broken
               PROVE  /\ wq = <<>> /\ limit = 0
                      /\ \A f \in Flows : inflight[f] = 0 /\ BusySlots(f) = {}
    BY DEF CleanExit
  <2>1. /\ TypeOK /\ cpc = "done" /\ limit = 0 /\ \A f \in Flows : pc[f] = "done"
    BY DEF IInv, ExitInv, Ended
  <2>2. Left = {}
    <3>1. Cardinality(Left) = 0
      BY <2>1, Finite DEF ExitInv, Counted, Handled
    <3> QED BY <3>1, Finite, FS_EmptySet
  <2>3. Len(wq) = 0
    <3> SUFFICES ASSUME Len(wq) # 0 PROVE FALSE OBVIOUS
    <3>1. 1 \in 1 .. Len(wq) BY <2>1 DEF TypeOK
    <3>2. wq[1].flow \in Flows /\ wq[1].seq \in 0 .. Iters - 1
      BY <2>1, <3>1, RequestType DEF WorkRequest
    <3>3. InQueue(wq[1].flow, wq[1].seq) BY <3>1 DEF InQueue
    <3>4. <<wq[1].flow, wq[1].seq>> \in Left BY <3>2, <3>3 DEF Left
    <3> QED BY <2>2, <3>4
  <2>4. wq = <<>> BY <2>1, <2>3 DEF TypeOK
  <2>5. \A f \in Flows : BusySlots(f) = {}
    BY <2>3 DEF ExitInv, Queued, BusySlots
  <2>6. \A f \in Flows : inflight[f] = 0
    <3> TAKE f \in Flows
    <3>1. inflight[f] = Cardinality(BusySlots(f)) + One(pc[f] = "mark")
                          - One(Releasing(f))
      BY DEF IInv, InflightMatchesRing
    <3>2. One(pc[f] = "mark") = 0 /\ One(Releasing(f)) = 0
      BY <2>1 DEF One, Releasing
    <3> QED BY <2>5, <3>1, <3>2, FS_EmptySet
  <2> QED BY <2>1, <2>4, <2>5, <2>6
<1> QED BY <1>1, Invariance, ExitInit, ExitStep, PTL DEF Spec

---------------------------------------------------------------------------
(* Nobody waits in vain: the safety part of the liveness that TLC checks.  *)

\* The completion thread spins on a slot only while its sender is recording the
\* very segment that has completed.
SpinEnds ==
  cpc = "entry" /\ completed > 0 =>
    \/ ~slotFree[Entry.flow][EntrySlot]
    \/ pc[Entry.flow] \in Recorded /\ seg_wr_seq[Entry.flow] = Entry.seq

\* However soon after its post a segment completes, the spin waits for the three
\* statements of its sender and for nothing else (rc_client.cpp:172,
\* rc_pingpong.hpp:780-790).
THEOREM SpinsBriefly == Spec => []SpinEnds
<1>1. IInv => SpinEnds
  <2> SUFFICES ASSUME IInv, cpc = "entry", completed > 0,
                      slotFree[Entry.flow][EntrySlot]
               PROVE  pc[Entry.flow] \in Recorded
                      /\ seg_wr_seq[Entry.flow] = Entry.seq
    BY DEF SpinEnds
  <2>1. 1 \in 1 .. Len(wq) /\ Entry.flow \in Flows BY EntryType DEF IInv
  <2>2. RequestInv(Entry) BY <2>1 DEF IInv, Entry
  <2>3. BeingRecorded(Entry) BY <2>2 DEF RequestInv, EntrySlot
  <2> QED BY <2>3 DEF BeingRecorded, Recorded
<1> QED BY <1>1, Invariance, PTL

\* A window never closes, and no sender reads one that is closed.
WindowsOpen == \A f \in Flows : window[f] >= 1 /\ snapshot[f] >= 1

\* A decrease by four fifths leaves something.
LEMMA StaysOpen ==
  ASSUME NEW w \in Nat, w >= 1, NEW v \in UpdatedWindow(w)
  PROVE  v >= 1
<1>1. Increase \in Nat BY ClientAssumption
<1>2. 1 <= (w + 4) \div 5
  <2>1. 1 * 5 <= w + 4 /\ w + 4 \in Nat /\ 5 \in Nat \ {0} OBVIOUS
  <2> QED BY <2>1, DivLargest
<1>3. (w + 4) \div 5 \in Nat
  <2>1. w + 4 \in Nat /\ 5 \in Nat \ {0} OBVIOUS
  <2> QED BY <2>1, DivBounds
<1> DEFINE low == (w + 4) \div 5
<1>4. v \in low .. w + Increase BY DEF UpdatedWindow
<1> HIDE DEF low
<1>5. low \in Nat /\ 1 <= low BY <1>2, <1>3 DEF low
<1> QED BY <1>1, <1>4, <1>5

\* Every step leaves the windows open.
LEMMA OpenStep == IInv /\ WindowsOpen /\ [Next]_vars => WindowsOpen'
<1> SUFFICES ASSUME IInv, WindowsOpen, [Next]_vars PROVE WindowsOpen' OBVIOUS
<1>0. /\ window \in [Flows -> 0 .. RawMax] /\ snapshot \in [Flows -> 0 .. RawMax]
      /\ RawMax \in Nat /\ MinWindow \in Nat \ {0} /\ MaxWindow \in Nat
      /\ MaxWindow >= 1
  BY ClientAssumption DEF IInv, TypeOK, RawMax
<1>1. ASSUME NEW f \in Flows, ReadWindow(f) PROVE WindowsOpen'
  <2>1. snapshot' = [snapshot EXCEPT ![f] = window[f]] /\ UNCHANGED window
    BY <1>1 DEF ReadWindow
  <2> QED BY <1>0, <2>1 DEF WindowsOpen
<1>2. CASE ReceiveAck
  <2>1. PICK v \in UpdatedWindow(window[Entry.flow]) :
          window' = [window EXCEPT ![Entry.flow] = v]
    BY <1>2 DEF ReceiveAck
  <2>2. UNCHANGED snapshot BY <1>2 DEF ReceiveAck, senderVars
  <2>3. Entry.flow \in Flows => v >= 1
    <3> SUFFICES ASSUME Entry.flow \in Flows PROVE v >= 1 OBVIOUS
    <3>1. window[Entry.flow] \in Nat /\ window[Entry.flow] >= 1
      BY <1>0 DEF WindowsOpen
    <3> QED BY <3>1, StaysOpen
  <2> QED BY <1>0, <2>1, <2>2, <2>3 DEF WindowsOpen
<1>3. CASE ClampWindow
  <2>1. /\ window' = [window EXCEPT ![Entry.flow] = Clamp(@)]
        /\ UNCHANGED snapshot
    BY <1>3 DEF ClampWindow, senderVars
  <2>2. \A w \in Nat : w >= 1 => Clamp(w) >= 1 BY <1>0 DEF Clamp
  <2> QED BY <1>0, <2>1, <2>2 DEF WindowsOpen
<1>4. ASSUME UNCHANGED <<window, snapshot>> PROVE WindowsOpen'
  BY <1>4 DEF WindowsOpen
<1>5. ASSUME NEW f \in Flows, Sender(f) PROVE WindowsOpen'
  <2>1. CASE ReadWindow(f) BY <1>1, <2>1
  <2>2. CASE ~ReadWindow(f)
    <3>1. UNCHANGED <<window, snapshot>>
      BY <1>5, <2>2
      DEF Sender, SenderReturns, CompareWindow, Pace, ReadInflight, ScanSlots,
          StartBurst, PostSend, PostSendFails, StampSlot, CountSegment,
          MarkSlotBusy
    <3> QED BY <1>4, <3>1
  <2> QED BY <2>1, <2>2
<1>6. CASE CqeThread
  <2>1. CASE ReceiveAck \/ ClampWindow BY <1>2, <1>3, <2>1
  <2>2. CASE ~(ReceiveAck \/ ClampWindow)
    <3>1. UNCHANGED <<window, snapshot>>
      BY <1>6, <2>2
      DEF CqeThread, PollCq, CqeReturns, EntryFailed, AwaitSlotBusy,
          UncountSegment, ReleaseSlot, senderVars
    <3> QED BY <1>4, <3>1
  <2> QED BY <2>1, <2>2
<1>7. CASE SigHandler \/ JoinAll \/ Complete \/ ConnectionFails \/ UNCHANGED vars
  <2>1. UNCHANGED <<window, snapshot>>
    BY <1>7 DEF SigHandler, JoinAll, Complete, ConnectionFails, vars, senderVars
  <2> QED BY <1>4, <2>1
<1> QED BY <1>5, <1>6, <1>7 DEF Next

\* With the queue pair empty no sender is held back, by the counter, by its window
\* or by the ring, and the completion thread waits for segments only while some
\* are still to be posted.
NobodyWaits ==
  wq = <<>> =>
    /\ \A f \in Flows : inflight[f] = 0 /\ BusySlots(f) = {} /\ snapshot[f] > 0
    /\ cpc \in {"poll", "done", "error"}
    /\ cpc # "error" => (limit = 0 <=> \A f \in Flows : seg_wr_seq[f] = Iters)

\* The threads cannot wait for each other: what a sender waits for is in the
\* queue pair, and what the completion thread waits for is there or still to be
\* posted (rc_client.cpp:37-66, 160-209).
THEOREM NothingToWaitFor == Spec => []NobodyWaits
<1>1. IInv /\ ExitInv /\ WindowsOpen => NobodyWaits
  <2> SUFFICES ASSUME IInv, ExitInv, WindowsOpen, wq = <<>>
               PROVE  /\ \A f \in Flows : /\ inflight[f] = 0 /\ BusySlots(f) = {}
                                          /\ snapshot[f] > 0
                      /\ cpc \in {"poll", "done", "error"}
                      /\ cpc # "error" =>
                           (limit = 0 <=> \A f \in Flows : seg_wr_seq[f] = Iters)
    BY DEF NobodyWaits
  <2>1. TypeOK /\ Len(wq) = 0 BY DEF IInv
  <2>2. cpc \notin Handling \cup {"entry"}
    <3>1. polled \in 0 .. 0 BY <2>1 DEF TypeOK
    <3> QED BY <3>1 DEF IInv, EntryInv
  <2>3. cpc \in {"poll", "done", "error"} BY <2>1, <2>2 DEF TypeOK, Handling
  <2>4. \A f \in Flows : pc[f] \notin Recorded
    BY <2>1 DEF ExitInv, Queued, InQueue
  <2>5. \A f \in Flows : BusySlots(f) = {}
    BY <2>1 DEF ExitInv, Queued, BusySlots
  <2>6. \A f \in Flows : inflight[f] = 0
    <3> SUFFICES ASSUME NEW f \in Flows PROVE inflight[f] = 0 OBVIOUS
    <3>1. pc[f] # "mark" /\ ~Releasing(f)
      BY <2>2, <2>4 DEF Recorded, Releasing, Handling
    <3>2. inflight[f] = Cardinality(BusySlots(f)) + One(pc[f] = "mark")
                        - One(Releasing(f))
      BY DEF IInv, InflightMatchesRing
    <3>3. Cardinality(BusySlots(f)) = 0 BY <2>5, FS_EmptySet
    <3>4. One(pc[f] = "mark") = 0 /\ One(Releasing(f)) = 0 BY <3>1 DEF One
    <3> QED BY <3>2, <3>3, <3>4
  <2>7. \A f \in Flows : snapshot[f] > 0
    BY <2>1, ClientAssumption DEF WindowsOpen, TypeOK, RawMax
  <2>8. ASSUME cpc # "error"
        PROVE  limit = 0 <=> \A f \in Flows : seg_wr_seq[f] = Iters
    <3>1. limit = Cardinality(Left) /\ IsFiniteSet(Left)
          /\ Cardinality(Left) \in Nat
      BY <2>3, <2>8, Finite DEF ExitInv, Counted, Handled
    <3>2. limit = 0 <=> Left = {} BY <3>1, FS_EmptySet
    <3>3. \A f \in Flows : /\ Issued(f) = seg_wr_seq[f]
                           /\ seg_wr_seq[f] \in 0 .. Iters
      BY <2>1, <2>4 DEF Issued, One, TypeOK
    <3>4. ASSUME NEW f \in Flows, seg_wr_seq[f] # Iters PROVE Left # {}
      <4>1. seg_wr_seq[f] \in 0 .. Iters - 1 BY <3>3, <3>4, ClientAssumption
      <4>2. <<f, seg_wr_seq[f]>> \in Left BY <3>3, <4>1 DEF Left
      <4> QED BY <4>2
    <3>5. ASSUME \A f \in Flows : seg_wr_seq[f] = Iters, NEW p \in Left PROVE FALSE
      <4>1. /\ p[1] \in Flows /\ p[2] \in 0 .. Iters - 1
            /\ p[2] >= Issued(p[1]) \/ InQueue(p[1], p[2])
        BY <3>5 DEF Left
      <4>2. ~InQueue(p[1], p[2]) BY <2>1 DEF InQueue
      <4> QED BY <3>3, <3>5, <4>1, <4>2, ClientAssumption
    <3> QED BY <3>2, <3>4, <3>5
  <2> QED BY <2>3, <2>5, <2>6, <2>7, <2>8
<1>2. Init => WindowsOpen BY ClientAssumption DEF Init, WindowsOpen
<1>3. IInv /\ ExitInv /\ WindowsOpen /\ [Next]_vars
        => IInv' /\ ExitInv' /\ WindowsOpen'
  BY StepInv, ExitStep, OpenStep
<1> QED BY <1>1, <1>2, <1>3, InitInv, ExitInit, PTL DEF Spec
=============================================================================
