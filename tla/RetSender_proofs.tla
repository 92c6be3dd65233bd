--------------------------- MODULE RetSender_proofs ---------------------------
(***************************************************************************)
(* Proofs about a flow of RET, for any window, flow size, delays, losses   *)
(* and duplicates: types, what is on its way, the in-flight count, the     *)
(* pacing event, the rise of the target delay, and that a flow always has  *)
(* a next step.                                                            *)
(***************************************************************************)
EXTENDS RetSender, NumberFacts, TLAPS

---------------------------------------------------------------------------
\* An element of a sequence is in the set of its elements.
LEMMA ElementInSet ==
  ASSUME NEW S, NEW s \in Seq(S), NEW i \in 1 .. Len(s)
  PROVE  s[i] \in S
OBVIOUS

---------------------------------------------------------------------------
(* The target delay.                                                       *)

\* Raises since con_mark was 0.
Rises == Smaller(conMark, Run)

TargetInv ==
  /\ TargetTypeOK
  /\ target <= base + Rises * Increase

\* The node begins in the invariant.
LEMMA TargetInitInv == TargetInit => TargetInv
<1> SUFFICES ASSUME TargetInit PROVE TargetInv OBVIOUS
<1>1. TargetTypeOK
  <2>1. /\ target = Start /\ conMark = 0 /\ base = Start
        /\ decreaseEvent \in BOOLEAN /\ late \in BOOLEAN
    BY DEF TargetInit
  <2> QED BY TargetAssumption, <2>1 DEF TargetTypeOK
<1>2. Rises = 0 BY TargetAssumption DEF TargetInit, Rises, Smaller
<1>3. Rises * Increase = 0 BY TargetAssumption, <1>2
<1> QED BY TargetAssumption, <1>1, <1>3 DEF TargetInit, TargetInv

\* One more raise allows one step more.
LEMMA RiseStep ==
  ASSUME NEW k \in Nat
  PROVE  /\ (k + 1) * Increase = k * Increase + Increase
         /\ k * Increase \in Nat
BY TargetAssumption

\* Each event of the node keeps the invariant.
LEMMA TargetStepInv == TargetInv /\ [TargetNext]_targetVars => TargetInv'
<1> SUFFICES ASSUME TargetInv, [TargetNext]_targetVars PROVE TargetInv'
  OBVIOUS
<1> USE TargetAssumption DEF TargetInv, TargetTypeOK
<1>1. CASE UNCHANGED targetVars
  BY <1>1 DEF targetVars, Rises, Smaller
<1>2. CASE DecreaseEvent
  <2>1. target' \in Floor .. Ceiling /\ target' <= target
    BY <1>2 DEF DecreaseEvent, Lowered
  <2>2. decreaseEvent' \in BOOLEAN /\ UNCHANGED <<conMark, late, base>>
    BY <1>2 DEF DecreaseEvent, ResetEvent
  <2>3. Rises' = Rises /\ Rises * Increase \in Nat
    BY <2>2, RiseStep DEF Rises, Smaller
  <2> QED BY <2>1, <2>2, <2>3
<1>3. CASE TenSeconds
  BY <1>3 DEF TenSeconds, Rises, Smaller
<1>4. CASE PacketRead(FALSE)
  <2>1. conMark' = 0 /\ base' = target /\ UNCHANGED <<target, decreaseEvent, late>>
    BY <1>4 DEF PacketRead
  <2>2. Rises' = 0 BY <2>1 DEF Rises, Smaller
  <2>3. base' + Rises' * Increase = target BY <2>1, <2>2
  <2> QED BY <2>1, <2>2, <2>3
<1>5. CASE PacketRead(TRUE)
  <2>1. UNCHANGED <<late, base>> /\ conMark' \in 0 .. Run + 1
    BY <1>5 DEF PacketRead, Marks
  <2>2. CASE conMark + 1 <= Run
    <3>1. /\ target' \in Floor .. Ceiling /\ target' <= target + Increase
          /\ decreaseEvent' \in BOOLEAN
      BY <1>5, <2>2 DEF PacketRead, IncreaseEvent, Raised, ResetEvent
    <3>2. Rises = conMark /\ Rises' = conMark + 1
      BY <1>5, <2>2 DEF PacketRead, Marks, Rises, Smaller
    <3>3. Rises' * Increase = Rises * Increase + Increase
      BY <3>2, RiseStep
    <3>4. Rises * Increase \in Nat BY <3>2, RiseStep
    <3>5. target' <= base' + Rises' * Increase
      BY <2>1, <3>1, <3>3, <3>4
    <3> QED BY <2>1, <3>1, <3>5
  <2>3. CASE ~(conMark + 1 <= Run)
    <3>1. UNCHANGED <<target, decreaseEvent>> /\ conMark' = Run + 1
      BY <1>5, <2>3 DEF PacketRead, Marks
    <3>2. Rises = Run /\ Rises' = Run
      BY <2>3, <3>1 DEF Rises, Smaller
    <3> QED BY <2>1, <3>1, <3>2
  <2> QED BY <2>2, <2>3
<1> QED BY <1>1, <1>2, <1>3, <1>4, <1>5 DEF TargetNext

\* For the properties, the bound at the largest number of raises.
LEMMA TargetInvRise == TargetInv => RiseBounded
<1> SUFFICES ASSUME TargetInv PROVE RiseBounded OBVIOUS
<1>1. /\ conMark \in Nat /\ Run \in Nat /\ Increase \in Nat
      /\ target \in Int /\ base \in Int
  BY TargetAssumption DEF TargetInv, TargetTypeOK
<1>2. Rises \in Nat /\ Rises <= Run BY <1>1 DEF Rises, Smaller
<1>3. CASE Increase = 0
  <2>1. Rises * Increase = 0 /\ Run * Increase = 0 BY <1>1, <1>2, <1>3
  <2> QED BY <1>1, <2>1 DEF TargetInv, RiseBounded
<1>4. CASE Increase # 0
  <2>1. Rises * Increase <= Run * Increase BY <1>1, <1>2, <1>4, MulMono
  <2>2. Rises * Increase \in Int /\ Run * Increase \in Int BY <1>1, <1>2
  <2> QED BY <1>1, <2>1, <2>2 DEF TargetInv, RiseBounded
<1> QED BY <1>3, <1>4

\* A run of marks, of any number of flows and with any number of timer events in
\* between, raises the target by at most Run steps above what it was when the
\* run began; run after run may take it to its ceiling, not beyond
\* (timely-receiver.cc:237-255, node.cc:491-496).
THEOREM TargetRises == TargetSpec => [](TargetTypeOK /\ RiseBounded)
<1>1. TargetInv => TargetTypeOK /\ RiseBounded
  BY TargetInvRise DEF TargetInv
<1> QED BY <1>1, TargetInitInv, TargetStepInv, PTL DEF TargetSpec
---------------------------------------------------------------------------
(* A flow.                                                                 *)

\* In-flight counts that have not wrapped.
Limit == Allowed + MaxWindow

\* What the numbers of the acknowledgements say of what is on its way.
Numbers ==
  /\ ackSeq + data <= sent + duplicates
  /\ losses = 0 /\ duplicates = 0 => ackSeq + data = sent
  /\ \A i \in 1 .. Len(acks) :
       /\ acks[i].seq + Len(acks) < ackSeq + i
       /\ losses = 0 => acks[i].seq + Len(acks) + 1 = ackSeq + i

\* The in-flight count covers what is on its way, unless it has wrapped.
Covers == inflight <= Limit => data + Len(acks) <= inflight + duplicates

Outstanding == data + Len(acks) <= MaxWindow \div Unit + duplicates

\* A flow that waits for its pacing event is pacing, and has one.
Pacing ==
  ~firstPacing /\ sent < Allowed /\ ~stopReach =>
    window < Unit /\ (sendEvent \/ orphans > 0)

FlowInv == TypeOK /\ Numbers /\ Covers /\ Outstanding /\ InFlightCounts /\ Pacing

\* A burst fits the window, and the count of a burst that sends anything has
\* not wrapped.
LEMMA BurstFits ==
  ASSUME NEW w \in 1 .. MaxWindow, NEW out \in Nat
  PROVE  /\ Burst(w, out) \in Nat
         /\ Burst(w, out) > 0 =>
              /\ out + Burst(w, out) <= MaxWindow \div Unit
              /\ out + Burst(w, out) <= MaxWindow
<1> USE RetAssumption
<1>0. Unit \in Nat \ {0} /\ MaxWindow \in Nat /\ out * Unit \in Nat
  OBVIOUS
<1>1. CASE w <= out * Unit BY <1>1 DEF Burst
<1>2. CASE w > out * Unit
  <2> DEFINE n == Burst(w, out)
  <2>1. n \in Nat /\ (out + n) * Unit <= MaxWindow
    <3>1. CASE w < Unit
      <4>1. n = 1 BY <1>2, <3>1 DEF Burst
      <4>2. out = 0
        <5>1. out * Unit < 1 * Unit BY <1>0, <1>2, <3>1
        <5> QED BY <1>0, <5>1, MulMono
      <4>3. (out + n) * Unit = Unit BY <1>0, <4>1, <4>2
      <4> QED BY <4>1, <4>3
    <3>2. CASE w >= Unit
      <4> DEFINE m == w - out * Unit
      <4>1. m \in Nat BY <1>0, <1>2
      <4>2. n = m \div Unit BY <1>2, <3>2 DEF Burst
      <4> HIDE DEF m
      <4>3. n \in Nat /\ n * Unit <= m BY <1>0, <4>1, <4>2, DivBounds
      <4> HIDE DEF n
      <4>4. (out + n) * Unit = out * Unit + n * Unit BY <1>0, <4>3
      <4>5. n * Unit \in Nat BY <1>0, <4>3
      <4>6. (out + n) * Unit <= w BY <1>0, <4>1, <4>3, <4>4, <4>5 DEF m
      <4> QED BY <4>3, <4>6
    <3> QED BY <3>1, <3>2
  <2> HIDE DEF n
  <2>2. out + n <= MaxWindow \div Unit BY <1>0, <2>1, DivLargest
  <2>3. out + n <= (out + n) * Unit
    <3>1. 1 * (out + n) <= Unit * (out + n)
      <4>1. CASE out + n = 0 BY <1>0, <2>1, <4>1
      <4>2. CASE out + n # 0 BY <1>0, <2>1, <4>2, MulMono
      <4> QED BY <4>1, <4>2
    <3> QED BY <1>0, <2>1, <3>1
  <2>4. out + n <= MaxWindow
    <3>1. (out + n) * Unit \in Nat BY <1>0, <2>1
    <3> QED BY <1>0, <2>1, <2>3, <3>1
  <2> QED BY <2>1, <2>2, <2>4 DEF n
<1> QED BY <1>0, <1>1, <1>2

\* What a call of Send does, whatever it decides: n packets enter the network.
Sends(w, out, n) ==
  /\ n \in Nat /\ sent' = sent + n /\ sent' <= Allowed /\ data' = data + n
  /\ inflight' \in 0 .. Word - 1 /\ inflight' >= out + n
  /\ sent < Allowed /\ sent' < Allowed => inflight' = out + n
  /\ sent >= Allowed => inflight' = out
  /\ n > 0 => inflight' <= MaxWindow /\ out + n <= MaxWindow \div Unit
  /\ firstPacing' \in BOOLEAN /\ sendEvent' \in BOOLEAN /\ orphans' \in Nat
  /\ ~firstPacing' /\ sent' < Allowed => w < Unit /\ (sendEvent' \/ orphans' > 0)

\* Whatever Send decides, it is one of Sends.
LEMMA SendFacts ==
  ASSUME TypeOK, NEW w \in 1 .. MaxWindow, NEW out \in 0 .. Word - 1,
         NEW running \in BOOLEAN, NEW others \in Nat,
         Send(w, out, running, others)
  PROVE  \E n \in Nat : Sends(w, out, n)
<1> USE RetAssumption
<1> DEFINE b == Burst(w, out)
           n == Smaller(b, Allowed - sent)
<1>1. /\ b \in Nat
      /\ b > 0 => out + b <= MaxWindow \div Unit /\ out + b <= MaxWindow
  BY BurstFits
<1>2. /\ sent \in 0 .. Allowed /\ data \in Nat /\ firstPacing \in BOOLEAN
      /\ MaxWindow \div Unit \in Nat
  BY DivBounds DEF TypeOK
<1>3. ASSUME SendBurst(w, out), sent < Allowed
      PROVE  /\ n \in Nat /\ sent' = sent + n /\ sent' <= Allowed
             /\ data' = data + n
             /\ inflight' \in 0 .. Word - 1 /\ inflight' >= out + n
             /\ sent' < Allowed => inflight' = out + n
             /\ n > 0 => inflight' <= MaxWindow /\ out + n <= MaxWindow \div Unit
  <2>1. sent' = sent + n /\ data' = data + n /\ inflight' = out + b
    BY <1>3 DEF SendBurst
  <2> HIDE DEF b
  <2>2. n \in Nat /\ n <= b /\ n <= Allowed - sent
        /\ (n < Allowed - sent => n = b)
    BY <1>1, <1>2 DEF Smaller
  <2> HIDE DEF n
  <2> QED BY <1>1, <1>2, <2>1, <2>2
<1>4. ASSUME SendNothing(out)
      PROVE  sent' = sent /\ data' = data /\ inflight' = out
  BY <1>4 DEF SendNothing
<1>5. CASE sent >= Allowed
  <2>1. /\ SendNothing(out) /\ firstPacing' = firstPacing
        /\ sendEvent' = running /\ orphans' = others
    BY <1>2, <1>5 DEF Send
  <2>2. sent' = sent /\ data' = data /\ inflight' = out BY <1>4, <2>1
  <2>3. Sends(w, out, 0) BY <1>2, <1>5, <2>1, <2>2 DEF Sends
  <2> QED BY <2>3
<1>6. CASE sent < Allowed /\ w >= Unit
  <2>1. SendWindow(w, out, running, others) BY <1>2, <1>6 DEF Send
  <2>2. SendBurst(w, out) /\ firstPacing' = TRUE
        /\ sendEvent' = running /\ orphans' = others
    BY <2>1 DEF SendWindow
  <2>3. /\ n \in Nat /\ sent' = sent + n /\ sent' <= Allowed
        /\ data' = data + n
        /\ inflight' \in 0 .. Word - 1 /\ inflight' >= out + n
        /\ sent' < Allowed => inflight' = out + n
        /\ n > 0 => inflight' <= MaxWindow /\ out + n <= MaxWindow \div Unit
    BY <1>3, <1>6, <2>2
  <2> HIDE DEF n
  <2>4. Sends(w, out, n) BY <1>2, <1>6, <2>2, <2>3 DEF Sends
  <2> QED BY <2>3, <2>4
<1>7. CASE sent < Allowed /\ w < Unit
  <2>1. SendPaced(w, out, running, others) BY <1>2, <1>7 DEF Send
  <2>2. /\ firstPacing' \in BOOLEAN /\ sendEvent' \in BOOLEAN /\ sendEvent'
        /\ orphans' \in Nat
    <3>1. firstPacing' = FALSE /\ sendEvent' = TRUE BY <2>1 DEF SendPaced
    <3>2. orphans' = IF running THEN others + 1 ELSE others
      BY <2>1 DEF SendPaced
    <3>3. orphans' \in Nat BY <3>2
    <3> QED BY <3>1, <3>3
  <2>3. CASE firstPacing
    <3>1. SendNothing(out) BY <2>1, <2>3 DEF SendPaced
    <3>2. sent' = sent /\ data' = data /\ inflight' = out BY <1>4, <3>1
    <3>3. Sends(w, out, 0) BY <1>2, <1>7, <2>2, <3>2 DEF Sends
    <3> QED BY <3>3
  <2>4. CASE ~firstPacing
    <3>1. SendBurst(w, out) BY <2>1, <2>4 DEF SendPaced
    <3>2. /\ n \in Nat /\ sent' = sent + n /\ sent' <= Allowed
          /\ data' = data + n
          /\ inflight' \in 0 .. Word - 1 /\ inflight' >= out + n
          /\ sent' < Allowed => inflight' = out + n
          /\ n > 0 => inflight' <= MaxWindow /\ out + n <= MaxWindow \div Unit
      BY <1>3, <1>7, <3>1
    <3> HIDE DEF n
    <3>3. Sends(w, out, n) BY <1>2, <1>7, <2>2, <3>2 DEF Sends
    <3> QED BY <3>2, <3>3
  <2> QED BY <2>3, <2>4
<1> QED BY <1>2, <1>5, <1>6, <1>7

\* The counts after a call of Send, from those that it was called with.
LEMMA SendKeeps ==
  ASSUME TypeOK, NEW w \in 1 .. MaxWindow, NEW out \in 0 .. Word - 1,
         NEW n \in Nat, Sends(w, out, n), window' = w,
         UNCHANGED <<stopReach, losses, duplicates>>, Len(acks') \in Nat,
         data + Len(acks') <= MaxWindow \div Unit + duplicates,
         out <= Limit => data + Len(acks') <= out + duplicates,
         losses = 0 /\ duplicates = 0 /\ ~stopReach =>
           /\ out >= data + Len(acks')
           /\ sent < Allowed => out = data + Len(acks')
  PROVE  Outstanding' /\ Covers' /\ InFlightCounts' /\ Pacing'
<1> DEFINE l == Len(acks')
           q == MaxWindow \div Unit
<1>1. /\ sent \in 0 .. Allowed /\ data \in Nat /\ duplicates \in Nat
      /\ MaxWindow \in Nat /\ Allowed \in Nat /\ q \in Nat /\ l \in Nat
  BY RetAssumption, DivBounds DEF TypeOK
<1>2. Outstanding'
  <2>1. data' + l <= q + duplicates
    <3>1. CASE n = 0 BY <1>1, <3>1 DEF Sends
    <3>2. CASE n > 0
      <4>1. /\ data' = data + n /\ out + n <= q /\ out + n <= inflight'
            /\ inflight' <= MaxWindow /\ out <= Limit
        BY <1>1, <3>2 DEF Sends, Limit
      <4> HIDE DEF q, l
      <4> QED BY <1>1, <4>1 DEF l
    <3> QED BY <1>1, <3>1, <3>2
  <2> QED BY <2>1 DEF Outstanding
<1>3. inflight' <= Limit => data' + l <= inflight' + duplicates
  BY <1>1 DEF Sends, Limit
<1>4. Covers' BY <1>1, <1>3 DEF Covers, Limit
<1>5. InFlightCounts' BY <1>1 DEF Sends, InFlightCounts
<1>6. Pacing' BY DEF Sends, Pacing
<1> QED BY <1>2, <1>4, <1>5, <1>6

\* What an acknowledgement says of the packets behind it.
LEMMA InFlightFacts ==
  ASSUME TypeOK, Numbers, acks # <<>>
  PROVE  LET out == InFlight(Head(acks).seq) IN
         /\ out \in 0 .. Word - 1
         /\ out <= Limit => data + Len(acks) <= out + duplicates + 1
         /\ losses = 0 /\ duplicates = 0 => out + 1 = data + Len(acks)
<1> DEFINE number == Head(acks).seq
           l == Len(acks)
           x == sent - number - 1
           out == InFlight(number)
<1>1. /\ sent \in Nat /\ sent <= Allowed /\ data \in Nat /\ ackSeq \in Nat
      /\ duplicates \in Nat /\ duplicates <= MaxDuplicates /\ losses \in Nat
      /\ Allowed \in Nat /\ MaxWindow \in Nat /\ MaxDuplicates \in Nat
      /\ Word \in Nat /\ Word > Allowed + MaxWindow + MaxDuplicates + 1
  BY RetAssumption DEF TypeOK
<1>2. acks \in Seq([seq : Nat, target : Floor .. Ceiling]) BY DEF TypeOK
<1>3. l \in Nat /\ l >= 1 BY <1>2
<1>4. 1 \in 1 .. Len(acks) /\ number = acks[1].seq BY <1>2, <1>3
<1>5. number \in Nat
  <2>1. acks[1] \in [seq : Nat, target : Floor .. Ceiling]
    BY <1>2, <1>4, ElementInSet
  <2> QED BY <1>4, <2>1
<1>6. /\ number + l < ackSeq + 1
      /\ losses = 0 => number + l + 1 = ackSeq + 1
      /\ ackSeq + data <= sent + duplicates
      /\ losses = 0 /\ duplicates = 0 => ackSeq + data = sent
  BY <1>4 DEF Numbers
<1>7. out = x % Word BY DEF InFlight
<1> HIDE DEF number, l, out
<1>8. x \in Int /\ x < Word /\ -Word < x /\ -MaxDuplicates <= x
      /\ x + duplicates + 1 >= data + l
  <2>1. number + l < ackSeq + 1 /\ ackSeq + data <= sent + duplicates
    BY <1>6
  <2>2. sent \in Nat /\ data \in Nat /\ ackSeq \in Nat /\ duplicates \in Nat
    BY <1>1
  <2>3. number + l + data <= sent + duplicates BY <1>3, <1>5, <2>1, <2>2
  <2>4. x \in Int /\ x + duplicates + 1 >= data + l BY <1>3, <1>5, <2>2, <2>3
  <2>5. -MaxDuplicates <= x BY <1>1, <1>3, <2>2, <2>4
  <2>6. x < Word BY <1>1, <1>5
  <2> HIDE DEF x
  <2>7. -Word < x BY <1>1, <2>4, <2>5
  <2> QED BY <2>4, <2>5, <2>6, <2>7
<1>9. x + duplicates + 1 >= data + l BY <1>8
<1>10. losses = 0 /\ duplicates = 0 => x + 1 = data + l
  <2> SUFFICES ASSUME losses = 0, duplicates = 0 PROVE x + 1 = data + l
    OBVIOUS
  <2>1. number + l = ackSeq /\ ackSeq + data = sent BY <1>1, <1>3, <1>5, <1>6
  <2> QED BY <1>1, <1>3, <1>5, <2>1
<1> HIDE DEF x
<1>11. out = IF x < 0 THEN x + Word ELSE x BY <1>1, <1>7, <1>8, ModNear
<1>12. out \in 0 .. Word - 1 BY <1>1, <1>8, <1>11
<1>13. out <= Limit => data + l <= out + duplicates + 1
  BY <1>1, <1>3, <1>8, <1>9, <1>11 DEF Limit
<1>14. losses = 0 /\ duplicates = 0 => out + 1 = data + l
  BY <1>1, <1>3, <1>8, <1>10, <1>11
<1> QED BY <1>12, <1>13, <1>14 DEF l, out, number

\* The oldest acknowledgement leaves the network.
LEMMA TailNumbers ==
  ASSUME TypeOK, Numbers, acks # <<>>, acks' = Tail(acks), ackSeq' = ackSeq,
         losses' \in Nat, losses' = 0 => losses = 0
  PROVE  /\ acks' \in Seq([seq : Nat, target : Floor .. Ceiling])
         /\ Len(acks') \in Nat /\ Len(acks') + 1 = Len(acks)
         /\ \A i \in 1 .. Len(acks') :
              /\ acks'[i].seq + Len(acks') < ackSeq' + i
              /\ losses' = 0 => acks'[i].seq + Len(acks') + 1 = ackSeq' + i
<1>1. /\ acks \in Seq([seq : Nat, target : Floor .. Ceiling])
      /\ ackSeq \in Nat /\ losses \in Nat
  BY RetAssumption DEF TypeOK
<1>2. /\ acks' \in Seq([seq : Nat, target : Floor .. Ceiling])
      /\ Len(acks') \in Nat /\ Len(acks') + 1 = Len(acks)
      /\ \A i \in 1 .. Len(acks') : acks'[i] = acks[i + 1]
  BY <1>1
<1>3. ASSUME NEW i \in 1 .. Len(acks')
      PROVE  /\ acks'[i].seq + Len(acks') < ackSeq' + i
             /\ losses' = 0 => acks'[i].seq + Len(acks') + 1 = ackSeq' + i
  <2>1. i + 1 \in 1 .. Len(acks) /\ acks'[i] = acks[i + 1] BY <1>2
  <2>2. acks[i + 1] \in [seq : Nat, target : Floor .. Ceiling]
    BY <1>1, <2>1, ElementInSet
  <2>3. /\ acks[i + 1].seq + Len(acks) < ackSeq + (i + 1)
        /\ losses = 0 => acks[i + 1].seq + Len(acks) + 1 = ackSeq + (i + 1)
    BY <2>1 DEF Numbers
  <2>4. acks[i + 1].seq \in Nat BY <2>2
  <2>5. i \in Nat /\ Len(acks) \in Nat BY <1>1
  <2> DEFINE number == acks[i + 1].seq
             l == Len(acks)
             m == Len(acks')
  <2>6. /\ acks'[i].seq = number /\ m \in Nat /\ m + 1 = l /\ l \in Nat
        /\ number \in Nat /\ number + l < ackSeq + (i + 1)
        /\ losses = 0 => number + l + 1 = ackSeq + (i + 1)
    BY <1>1, <1>2, <2>1, <2>3, <2>4, <2>5
  <2>7. ackSeq \in Nat /\ losses \in Nat BY <1>1
  <2> HIDE DEF number, l, m
  <2>8. number + m < ackSeq' + i BY <2>5, <2>6, <2>7
  <2>9. losses' = 0 => number + m + 1 = ackSeq' + i BY <2>5, <2>6, <2>7
  <2> QED BY <2>6, <2>8, <2>9 DEF m
<1> QED BY <1>2, <1>3

IndInv == FlowInv /\ TargetInv

\* A flow begins in the invariant.
LEMMA InitInv == Init => IndInv
<1> SUFFICES ASSUME Init PROVE IndInv OBVIOUS
<1> USE RetAssumption
<1>1. TargetInv BY TargetInitInv DEF Init
<1>2. /\ window \in 1 .. MaxWindow /\ sent = 0 /\ inflight = 0 /\ received = 0
      /\ firstPacing \in BOOLEAN /\ sendEvent \in BOOLEAN /\ orphans = 0
      /\ firstPacing /\ sendEvent
      /\ stopReach \in BOOLEAN /\ data = 0 /\ acks = <<>> /\ ackSeq = 0
      /\ losses = 0 /\ duplicates = 0
  BY DEF Init
<1>3. acks \in Seq([seq : Nat, target : Floor .. Ceiling]) /\ Len(acks) = 0
  BY <1>2
<1>4. TypeOK
  <2>1. TargetTypeOK BY <1>1 DEF TargetInv
  <2> QED BY <1>2, <1>3, <2>1 DEF TypeOK
<1>5. MaxWindow \div Unit \in Nat BY DivBounds
<1>6. Numbers BY <1>2, <1>3 DEF Numbers
<1>7. Covers /\ Outstanding /\ InFlightCounts
  BY <1>2, <1>3, <1>5 DEF Covers, Outstanding, InFlightCounts
<1>8. Pacing BY <1>2 DEF Pacing
<1> QED BY <1>1, <1>4, <1>6, <1>7, <1>8 DEF IndInv, FlowInv

\* The types after a call of Send.
LEMMA SendTypes ==
  ASSUME TypeOK, NEW w \in 1 .. MaxWindow, NEW out \in 0 .. Word - 1,
         NEW n \in Nat, Sends(w, out, n), window' = w, received' \in Nat,
         acks' \in Seq([seq : Nat, target : Floor .. Ceiling]),
         UNCHANGED <<stopReach, ackSeq, faults, targetVars>>
  PROVE  TypeOK'
<1>1. TargetTypeOK' BY DEF TypeOK, TargetTypeOK, targetVars
<1>2. /\ sent' \in 0 .. Allowed /\ data' \in Nat
      /\ inflight' \in 0 .. Word - 1 /\ orphans' \in Nat
      /\ firstPacing' \in BOOLEAN /\ sendEvent' \in BOOLEAN
  BY RetAssumption DEF TypeOK, Sends
<1>3. /\ stopReach' \in BOOLEAN /\ ackSeq' \in Nat
      /\ losses' \in 0 .. MaxLosses /\ duplicates' \in 0 .. MaxDuplicates
  BY DEF TypeOK, faults
<1> QED BY <1>1, <1>2, <1>3 DEF TypeOK

\* A pacing event, whether m_sendEvent still knows it or not.
LEMMA EventInv ==
  ASSUME FlowInv, NEW running \in BOOLEAN, NEW others \in Nat,
         Send(window, inflight, running, others),
         UNCHANGED <<window, received, stopReach, acks, ackSeq, faults,
                     targetVars>>
  PROVE  FlowInv'
<1> USE DEF FlowInv
<1>1. /\ window \in 1 .. MaxWindow /\ inflight \in 0 .. Word - 1
      /\ sent \in Nat /\ data \in Nat /\ duplicates \in Nat /\ ackSeq \in Nat
      /\ received' \in Nat
      /\ acks' \in Seq([seq : Nat, target : Floor .. Ceiling])
  BY RetAssumption DEF TypeOK
<1>2. PICK n \in Nat : Sends(window, inflight, n) BY <1>1, SendFacts
<1>3. UNCHANGED <<window, received, stopReach, acks, ackSeq, losses, duplicates>>
  BY DEF faults
<1>4. TypeOK' BY <1>1, <1>2, <1>3, SendTypes
<1>5. Numbers'
  <2>1. sent' = sent + n /\ data' = data + n BY <1>2 DEF Sends
  <2>2. /\ ackSeq' + data' <= sent' + duplicates'
        /\ losses' = 0 /\ duplicates' = 0 => ackSeq' + data' = sent'
    BY <1>1, <1>3, <2>1 DEF Numbers
  <2> QED BY <1>3, <2>2 DEF Numbers
<1>6. Outstanding' /\ Covers' /\ InFlightCounts' /\ Pacing'
  <2>1. Len(acks') = Len(acks) /\ Len(acks) \in Nat BY <1>1, <1>3
  <2>2. data + Len(acks') <= MaxWindow \div Unit + duplicates
    BY <2>1 DEF Outstanding
  <2>3. inflight <= Limit => data + Len(acks') <= inflight + duplicates
    BY <2>1 DEF Covers
  <2>4. losses = 0 /\ duplicates = 0 /\ ~stopReach =>
          /\ inflight >= data + Len(acks')
          /\ sent < Allowed => inflight = data + Len(acks')
    BY <2>1 DEF InFlightCounts
  <2> QED BY <1>1, <1>2, <1>3, <2>1, <2>2, <2>3, <2>4, SendKeeps
<1> QED BY <1>4, <1>5, <1>6

\* A window stays within its bounds.
LEMMA NewWindow ==
  ASSUME NEW w \in 1 .. MaxWindow, NEW delay \in Nat, NEW goal \in Nat,
         NEW v \in Updated(w, delay, goal)
  PROVE  Bounded(v) \in 1 .. MaxWindow
<1>1. v \in Nat /\ v >= 1
  <2>1. CASE delay <= goal
    BY RetAssumption, <2>1 DEF Updated
  <2>2. CASE ~(delay <= goal)
    BY RetAssumption, <2>2 DEF Updated
  <2> QED BY <2>1, <2>2
<1> QED BY RetAssumption, <1>1 DEF Bounded, Smaller

\* An acknowledgement, before and after the application stops.
LEMMA ReceiveInv == FlowInv /\ Receive => FlowInv'
<1> SUFFICES ASSUME FlowInv, Receive PROVE FlowInv' OBVIOUS
<1> USE DEF FlowInv
<1> DEFINE out == InFlight(Head(acks).seq)
<1>1. /\ acks # <<>> /\ acks' = Tail(acks)
      /\ stopReach' = stopReach /\ ackSeq' = ackSeq
      /\ losses' = losses /\ duplicates' = duplicates
      /\ UNCHANGED <<stopReach, ackSeq, faults, targetVars>>
  BY DEF Receive, faults
<1>2. /\ sent \in 0 .. Allowed /\ data \in Nat /\ duplicates \in Nat
      /\ ackSeq \in Nat /\ losses \in Nat /\ received \in Nat
      /\ window \in 1 .. MaxWindow /\ inflight \in 0 .. Word - 1
      /\ acks \in Seq([seq : Nat, target : Floor .. Ceiling])
      /\ firstPacing \in BOOLEAN /\ sendEvent \in BOOLEAN
      /\ stopReach \in BOOLEAN /\ orphans \in Nat
      /\ MaxWindow \div Unit \in Nat
  BY RetAssumption, DivBounds DEF TypeOK
<1>3. /\ acks' \in Seq([seq : Nat, target : Floor .. Ceiling])
      /\ Len(acks') \in Nat /\ Len(acks') + 1 = Len(acks)
      /\ \A i \in 1 .. Len(acks') :
           /\ acks'[i].seq + Len(acks') < ackSeq' + i
           /\ losses' = 0 => acks'[i].seq + Len(acks') + 1 = ackSeq' + i
  BY <1>1, <1>2, TailNumbers
<1>4. /\ out \in 0 .. Word - 1
      /\ out <= Limit => data + Len(acks) <= out + duplicates + 1
      /\ losses = 0 /\ duplicates = 0 => out + 1 = data + Len(acks)
  BY <1>1, InFlightFacts
<1>5. data + Len(acks') <= MaxWindow \div Unit + duplicates
  BY <1>2, <1>3 DEF Outstanding
<1>6. CASE stopReach
  <2>1. /\ sendEvent' = FALSE
        /\ UNCHANGED <<window, sent, inflight, received, firstPacing, orphans,
                       data>>
    BY <1>6 DEF Receive
  <2>2. TypeOK'
    <3>1. TargetTypeOK' BY <1>1 DEF TypeOK, TargetTypeOK, targetVars
    <3>2. sendEvent' \in BOOLEAN BY <2>1
    <3> QED BY <1>1, <1>3, <2>1, <3>1, <3>2 DEF TypeOK
  <2>3. Numbers' BY <1>1, <1>3, <2>1 DEF Numbers
  <2>4. Covers'
    <3>1. inflight <= Limit => data + Len(acks') <= inflight + duplicates
      BY <1>2, <1>3 DEF Covers
    <3> QED BY <1>1, <2>1, <3>1 DEF Covers, Limit
  <2>5. Outstanding' BY <1>1, <1>5, <2>1 DEF Outstanding
  <2>6. InFlightCounts' /\ Pacing' BY <1>1, <1>6 DEF InFlightCounts, Pacing
  <2> QED BY <2>2, <2>3, <2>4, <2>5, <2>6
<1>7. CASE ~stopReach
  <2>0. PICK delay \in Delays : \E v \in Updated(window, delay, Head(acks).target) :
          /\ window' = Bounded(v) /\ received' = received + 1
          /\ IF Bounded(v) < Unit /\ ~firstPacing
             THEN SendNothing(out)
                  /\ UNCHANGED <<firstPacing, sendEvent, orphans>>
             ELSE Send(Bounded(v), out, sendEvent, orphans)
    BY <1>7 DEF Receive
  <2>1. PICK v \in Updated(window, delay, Head(acks).target) :
          /\ window' = Bounded(v) /\ received' = received + 1
          /\ IF Bounded(v) < Unit /\ ~firstPacing
             THEN SendNothing(out)
                  /\ UNCHANGED <<firstPacing, sendEvent, orphans>>
             ELSE Send(Bounded(v), out, sendEvent, orphans)
    BY <2>0
  <2> DEFINE w == Bounded(v)
  <2>2. w \in 1 .. MaxWindow
    <3>1. 1 \in 1 .. Len(acks) /\ Head(acks) = acks[1] BY <1>1, <1>2
    <3>2. Head(acks) \in [seq : Nat, target : Floor .. Ceiling]
      <4>1. acks[1] \in [seq : Nat, target : Floor .. Ceiling]
        BY <1>2, <3>1, ElementInSet
      <4> QED BY <3>1, <4>1
    <3>3. Head(acks).target \in Nat /\ delay \in Nat
      BY <3>2, RetAssumption, TargetAssumption
    <3> QED BY <1>2, <3>3, NewWindow
  <2>3. \E n \in Nat : Sends(w, out, n)
    <3>1. CASE w < Unit /\ ~firstPacing
      <4>1. /\ SendNothing(out)
            /\ UNCHANGED <<firstPacing, sendEvent, orphans>>
        BY <2>1, <3>1
      <4>2. /\ sent' = sent /\ data' = data /\ inflight' = out
            /\ sent < Allowed => sendEvent' \/ orphans' > 0
        BY <1>7, <3>1, <4>1 DEF SendNothing, Pacing
      <4> HIDE DEF w, out
      <4>3. Sends(w, out, 0) BY <1>2, <1>4, <3>1, <4>1, <4>2 DEF Sends
      <4> QED BY <4>3
    <3>2. CASE ~(w < Unit /\ ~firstPacing)
      <4>1. Send(w, out, sendEvent, orphans) BY <2>1, <3>2
      <4> HIDE DEF w, out
      <4> QED BY <1>2, <1>4, <2>2, <4>1, SendFacts
    <3> QED BY <3>1, <3>2
  <2>4. window' = w /\ received' \in Nat BY <1>2, <2>1
  <2> HIDE DEF w, out
  <2>5. PICK n \in Nat : Sends(w, out, n) BY <2>3
  <2>6. TypeOK' BY <1>1, <1>3, <1>4, <2>2, <2>4, <2>5, SendTypes
  <2>7. Numbers'
    <3>1. sent' = sent + n /\ data' = data + n BY <2>5 DEF Sends
    <3>2. /\ ackSeq' + data' <= sent' + duplicates'
          /\ losses' = 0 /\ duplicates' = 0 => ackSeq' + data' = sent'
      BY <1>1, <1>2, <3>1 DEF Numbers
    <3> QED BY <1>3, <3>2 DEF Numbers
  <2>8. out <= Limit => data + Len(acks') <= out + duplicates
    BY <1>2, <1>3, <1>4
  <2>9. losses = 0 /\ duplicates = 0 => out = data + Len(acks')
    BY <1>2, <1>3, <1>4
  <2>10. UNCHANGED <<stopReach, losses, duplicates>> BY <1>1
  <2>11. losses = 0 /\ duplicates = 0 /\ ~stopReach =>
           /\ out >= data + Len(acks')
           /\ sent < Allowed => out = data + Len(acks')
    BY <1>2, <1>3, <1>4, <2>9
  <2>12. Outstanding' /\ Covers' /\ InFlightCounts' /\ Pacing'
    BY <1>3, <1>4, <1>5, <2>2, <2>4, <2>5, <2>8, <2>10, <2>11, SendKeeps
  <2> QED BY <2>6, <2>7, <2>12
<1> QED BY <1>6, <1>7

\* The application stops.
LEMMA StopInv == FlowInv /\ StopApplication => FlowInv'
<1> SUFFICES ASSUME FlowInv, StopApplication PROVE FlowInv' OBVIOUS
<1> USE DEF FlowInv
<1>1. /\ stopReach' = TRUE /\ sendEvent' = FALSE
      /\ UNCHANGED <<window, sent, inflight, received, firstPacing, orphans, data,
                     acks, ackSeq, losses, duplicates>>
      /\ UNCHANGED targetVars
  BY DEF StopApplication, faults
<1>2. TypeOK'
  <2>1. TargetTypeOK' BY <1>1 DEF TypeOK, TargetTypeOK, targetVars
  <2>2. sendEvent' \in BOOLEAN /\ stopReach' \in BOOLEAN BY <1>1
  <2> QED BY <1>1, <2>1, <2>2 DEF TypeOK
<1>3. Numbers' /\ Covers' /\ Outstanding'
  BY <1>1 DEF Numbers, Covers, Outstanding, Limit
<1>4. InFlightCounts' /\ Pacing' BY <1>1 DEF InFlightCounts, Pacing
<1> QED BY <1>2, <1>3, <1>4

\* A packet becomes an acknowledgement.
LEMMA HandleReadInv ==
  ASSUME FlowInv, TargetTypeOK', NEW marked \in BOOLEAN, HandleRead(marked)
  PROVE  FlowInv'
<1> USE DEF FlowInv
<1> DEFINE a == [seq |-> ackSeq, target |-> target']
           l == Len(acks)
<1>1. /\ data > 0 /\ data' = data - 1 /\ ackSeq' = ackSeq + 1
      /\ acks' = Append(acks, a)
      /\ UNCHANGED <<window, sent, inflight, received, firstPacing, sendEvent,
                     orphans, stopReach, losses, duplicates>>
  BY DEF HandleRead, sender, faults
<1>2. /\ data \in Nat /\ ackSeq \in Nat /\ l \in Nat /\ sent \in Nat
      /\ inflight \in Nat /\ duplicates \in Nat
      /\ acks \in Seq([seq : Nat, target : Floor .. Ceiling])
  BY RetAssumption DEF TypeOK
<1>3. a \in [seq : Nat, target : Floor .. Ceiling] /\ a.seq = ackSeq
  BY <1>2 DEF TargetTypeOK
<1> HIDE DEF a
<1>4. /\ acks' \in Seq([seq : Nat, target : Floor .. Ceiling])
      /\ Len(acks') = l + 1 /\ acks'[l + 1] = a
      /\ \A i \in 1 .. l : acks'[i] = acks[i]
  BY <1>1, <1>2, <1>3
<1>5. TypeOK'
  <2>1. data' \in Nat /\ ackSeq' \in Nat BY <1>1, <1>2
  <2> QED BY <1>1, <1>4, <2>1 DEF TypeOK
<1>6. Numbers'
  <2>1. ASSUME NEW i \in 1 .. Len(acks')
        PROVE  /\ acks'[i].seq + Len(acks') < ackSeq' + i
               /\ losses' = 0 => acks'[i].seq + Len(acks') + 1 = ackSeq' + i
    <3>1. CASE i = l + 1
      <4>1. acks'[i].seq = ackSeq BY <1>3, <1>4, <3>1
      <4>2. /\ ackSeq + (l + 1) < (ackSeq + 1) + (l + 1)
            /\ ackSeq + (l + 1) + 1 = (ackSeq + 1) + (l + 1)
        <5> HIDE DEF l
        <5> QED BY <1>2
      <4> QED BY <1>1, <1>4, <3>1, <4>1, <4>2
    <3>2. CASE i # l + 1
      <4>1. i \in 1 .. l BY <1>2, <1>4, <3>2
      <4>2. acks'[i] = acks[i] BY <1>4, <4>1
      <4>3. acks[i] \in [seq : Nat, target : Floor .. Ceiling]
        BY <1>2, <4>1, ElementInSet
      <4> DEFINE number == acks[i].seq
      <4>4. number \in Nat BY <4>3
      <4>5. /\ number + l < ackSeq + i
            /\ losses = 0 => number + l + 1 = ackSeq + i
        BY <4>1 DEF Numbers
      <4>6. acks'[i].seq = number BY <4>2
      <4> HIDE DEF number, l
      <4> QED BY <1>1, <1>2, <1>4, <4>1, <4>4, <4>5, <4>6
    <3> QED BY <3>1, <3>2
  <2>2. /\ ackSeq' + data' <= sent' + duplicates'
        /\ losses' = 0 /\ duplicates' = 0 => ackSeq' + data' = sent'
    BY <1>1, <1>2 DEF Numbers
  <2> QED BY <2>1, <2>2 DEF Numbers
<1>7. data' + Len(acks') = data + Len(acks) BY <1>1, <1>2, <1>4
<1>8. Covers' /\ Outstanding'
  BY <1>1, <1>7 DEF Covers, Outstanding, Limit
<1>9. InFlightCounts' /\ Pacing' BY <1>1, <1>7 DEF InFlightCounts, Pacing
<1> QED BY <1>5, <1>6, <1>8, <1>9

\* An event of the node that is not a packet of this flow.
LEMMA NodeEventInv == FlowInv /\ TargetTypeOK' /\ NodeEvent => FlowInv'
<1> SUFFICES ASSUME FlowInv, TargetTypeOK', NodeEvent PROVE FlowInv' OBVIOUS
<1>1. UNCHANGED <<window, sent, inflight, received, firstPacing, sendEvent, orphans,
                  stopReach, data, acks, ackSeq, losses, duplicates>>
  BY DEF NodeEvent, sender, faults
<1>2. TypeOK' BY <1>1 DEF FlowInv, TypeOK
<1>3. Numbers' /\ Covers' /\ Outstanding'
  BY <1>1 DEF FlowInv, Numbers, Covers, Outstanding, Limit
<1>4. InFlightCounts' /\ Pacing'
  BY <1>1 DEF FlowInv, InFlightCounts, Pacing
<1> QED BY <1>2, <1>3, <1>4 DEF FlowInv

\* A packet is lost.
LEMMA LoseDataInv == FlowInv /\ LoseData => FlowInv'
<1> SUFFICES ASSUME FlowInv, LoseData PROVE FlowInv' OBVIOUS
<1> USE DEF FlowInv
<1>1. /\ data > 0 /\ data' = data - 1 /\ losses < MaxLosses
      /\ losses' = losses + 1
      /\ UNCHANGED <<window, sent, inflight, received, firstPacing, sendEvent,
                     orphans, stopReach, acks, ackSeq, duplicates>>
      /\ UNCHANGED targetVars
  BY DEF LoseData, sender
<1>2. /\ data \in Nat /\ ackSeq \in Nat /\ Len(acks) \in Nat /\ sent \in Nat
      /\ inflight \in Nat /\ duplicates \in Nat /\ losses \in 0 .. MaxLosses
      /\ MaxLosses \in Nat /\ MaxWindow \div Unit \in Nat
  BY RetAssumption, DivBounds DEF TypeOK
<1>3. TypeOK'
  <2>1. TargetTypeOK' BY <1>1 DEF TypeOK, TargetTypeOK, targetVars
  <2>2. data' \in Nat /\ losses' \in 0 .. MaxLosses BY <1>1, <1>2
  <2> QED BY <1>1, <2>1, <2>2 DEF TypeOK
<1>4. losses' # 0 BY <1>1, <1>2
<1>5. Numbers'
  <2>1. ackSeq' + data' <= sent' + duplicates' BY <1>1, <1>2 DEF Numbers
  <2>2. \A i \in 1 .. Len(acks') : acks'[i].seq + Len(acks') < ackSeq' + i
    BY <1>1 DEF Numbers
  <2> QED BY <1>4, <2>1, <2>2 DEF Numbers
<1>6. Covers' /\ Outstanding'
  BY RetAssumption, <1>1, <1>2 DEF Covers, Outstanding, Limit
<1>7. InFlightCounts' BY <1>4 DEF InFlightCounts
<1>8. Pacing' BY <1>1 DEF Pacing
<1> QED BY <1>3, <1>5, <1>6, <1>7, <1>8

\* An acknowledgement is lost: the sender learns less.
LEMMA LoseAckInv == FlowInv /\ LoseAck => FlowInv'
<1> SUFFICES ASSUME FlowInv, LoseAck PROVE FlowInv' OBVIOUS
<1> USE DEF FlowInv
<1>1. /\ acks # <<>> /\ acks' = Tail(acks) /\ losses < MaxLosses
      /\ losses' = losses + 1
      /\ UNCHANGED <<window, sent, inflight, received, firstPacing, sendEvent,
                     orphans, stopReach, data, ackSeq, duplicates>>
      /\ UNCHANGED targetVars
  BY DEF LoseAck, sender
<1>2. /\ data \in Nat /\ ackSeq \in Nat /\ sent \in Nat
      /\ inflight \in Nat /\ duplicates \in Nat /\ losses \in 0 .. MaxLosses
      /\ MaxLosses \in Nat /\ MaxWindow \div Unit \in Nat
  BY RetAssumption, DivBounds DEF TypeOK
<1>3. losses' \in 0 .. MaxLosses /\ losses' # 0 /\ losses' \in Nat
  BY <1>1, <1>2
<1>4. /\ acks' \in Seq([seq : Nat, target : Floor .. Ceiling])
      /\ Len(acks') \in Nat /\ Len(acks') + 1 = Len(acks)
      /\ \A i \in 1 .. Len(acks') : acks'[i].seq + Len(acks') < ackSeq' + i
  BY <1>1, <1>3, TailNumbers
<1>5. TypeOK'
  <2>1. TargetTypeOK' BY <1>1 DEF TypeOK, TargetTypeOK, targetVars
  <2> QED BY <1>1, <1>3, <1>4, <2>1 DEF TypeOK
<1>6. Numbers'
  <2>1. ackSeq' + data' <= sent' + duplicates' BY <1>1, <1>2 DEF Numbers
  <2> QED BY <1>3, <1>4, <2>1 DEF Numbers
<1>7. Covers' /\ Outstanding'
  BY RetAssumption, <1>1, <1>2, <1>4 DEF Covers, Outstanding, Limit
<1>8. InFlightCounts' BY <1>3 DEF InFlightCounts
<1>9. Pacing' BY <1>1 DEF Pacing
<1> QED BY <1>5, <1>6, <1>7, <1>8, <1>9

\* A packet is doubled.
LEMMA DuplicateInv == FlowInv /\ Duplicate => FlowInv'
<1> SUFFICES ASSUME FlowInv, Duplicate PROVE FlowInv' OBVIOUS
<1> USE DEF FlowInv
<1>1. /\ data' = data + 1 /\ duplicates < MaxDuplicates
      /\ duplicates' = duplicates + 1
      /\ UNCHANGED <<window, sent, inflight, received, firstPacing, sendEvent,
                     orphans, stopReach, acks, ackSeq, losses>>
      /\ UNCHANGED targetVars
  BY DEF Duplicate, sender
<1>2. /\ data \in Nat /\ ackSeq \in Nat /\ Len(acks) \in Nat /\ sent \in Nat
      /\ inflight \in Nat /\ duplicates \in 0 .. MaxDuplicates
      /\ MaxDuplicates \in Nat /\ MaxWindow \div Unit \in Nat
  BY RetAssumption, DivBounds DEF TypeOK
<1>3. TypeOK'
  <2>1. TargetTypeOK' BY <1>1 DEF TypeOK, TargetTypeOK, targetVars
  <2>2. data' \in Nat /\ duplicates' \in 0 .. MaxDuplicates BY <1>1, <1>2
  <2> QED BY <1>1, <2>1, <2>2 DEF TypeOK
<1>4. duplicates' # 0 BY <1>1, <1>2
<1>5. Numbers'
  <2>1. ackSeq' + data' <= sent' + duplicates' BY <1>1, <1>2 DEF Numbers
  <2>2. \A i \in 1 .. Len(acks') :
          /\ acks'[i].seq + Len(acks') < ackSeq' + i
          /\ losses' = 0 => acks'[i].seq + Len(acks') + 1 = ackSeq' + i
    BY <1>1 DEF Numbers
  <2> QED BY <1>4, <2>1, <2>2 DEF Numbers
<1>6. Covers' /\ Outstanding'
  BY RetAssumption, <1>1, <1>2 DEF Covers, Outstanding, Limit
<1>7. InFlightCounts' BY <1>4 DEF InFlightCounts
<1>8. Pacing' BY <1>1 DEF Pacing
<1> QED BY <1>3, <1>5, <1>6, <1>7, <1>8

\* A step of the flow is an event of the node or leaves its target alone.
LEMMA StepsOfTarget == [Next]_vars => [TargetNext]_targetVars
<1> SUFFICES ASSUME [Next]_vars PROVE [TargetNext]_targetVars OBVIOUS
<1>1. CASE \E marked \in BOOLEAN : HandleRead(marked)
  BY <1>1 DEF HandleRead, TargetNext
<1>2. CASE NodeEvent BY <1>2 DEF NodeEvent, TargetNext
<1>3. CASE \/ SendEventFires \/ OrphanFires \/ StopApplication \/ Receive
           \/ LoseData \/ LoseAck \/ Duplicate \/ UNCHANGED vars
  <2>1. UNCHANGED targetVars
    BY <1>3 DEF SendEventFires, OrphanFires, StopApplication, Receive, LoseData,
                LoseAck, Duplicate, vars
  <2> QED BY <2>1
<1> QED BY <1>1, <1>2, <1>3 DEF Next

\* Every step keeps the invariant.
LEMMA StepInv == IndInv /\ [Next]_vars => IndInv'
<1> SUFFICES ASSUME IndInv, [Next]_vars PROVE IndInv' OBVIOUS
<1>1. TargetInv' BY StepsOfTarget, TargetStepInv DEF IndInv
<1>2. TargetTypeOK' BY <1>1 DEF TargetInv
<1>3. FlowInv BY DEF IndInv
<1>4. FlowInv'
  <2>1. CASE SendEventFires
    <3>1. orphans \in Nat /\ FALSE \in BOOLEAN BY <1>3 DEF FlowInv, TypeOK
    <3> QED BY <1>3, <2>1, <3>1, EventInv DEF SendEventFires
  <2>2. CASE OrphanFires
    <3>1. orphans - 1 \in Nat /\ sendEvent \in BOOLEAN
      BY <1>3, <2>2 DEF FlowInv, TypeOK, OrphanFires
    <3> QED BY <1>3, <2>2, <3>1, EventInv DEF OrphanFires
  <2>3. CASE StopApplication BY <1>3, <2>3, StopInv
  <2>4. CASE Receive BY <1>3, <2>4, ReceiveInv
  <2>5. CASE \E marked \in BOOLEAN : HandleRead(marked)
    BY <1>2, <1>3, <2>5, HandleReadInv
  <2>6. CASE NodeEvent BY <1>2, <1>3, <2>6, NodeEventInv
  <2>7. CASE LoseData BY <1>3, <2>7, LoseDataInv
  <2>8. CASE LoseAck BY <1>3, <2>8, LoseAckInv
  <2>9. CASE Duplicate BY <1>3, <2>9, DuplicateInv
  <2>10. CASE UNCHANGED vars
    <3>1. UNCHANGED <<window, sent, inflight, received, firstPacing, sendEvent,
                      orphans, stopReach, data, acks, ackSeq, losses, duplicates>>
      BY <2>10 DEF vars, sender, faults
    <3> QED BY <1>2, <1>3, <3>1 DEF FlowInv, TypeOK, Numbers, Covers, Outstanding,
               InFlightCounts, Pacing, Limit
  <2> QED BY <2>1, <2>2, <2>3, <2>4, <2>5, <2>6, <2>7, <2>8, <2>9, <2>10 DEF Next
<1> QED BY <1>1, <1>4 DEF IndInv

\* The invariant holds of every behaviour.
LEMMA Invariance == Spec => []IndInv
BY InitInv, StepInv, PTL DEF Spec

---------------------------------------------------------------------------
\* Whatever is lost or doubled, at most the largest window and the doubled
\* packets are on their way; the types of the variables are part of it
\* (timely-sender.cc:472, 606).
THEOREM FitsWindow == Spec => []OutstandingFitsWindow
<1>1. IndInv => OutstandingFitsWindow
  BY DEF IndInv, FlowInv, Outstanding, OutstandingFitsWindow
<1> QED BY <1>1, Invariance, PTL

\* On a network that neither loses nor doubles, the in-flight count is what is
\* on its way (timely-sender.cc:472-477, 606).
THEOREM CountsInFlight == Spec => []InFlightCounts
<1>1. IndInv => InFlightCounts BY DEF IndInv, FlowInv
<1> QED BY <1>1, Invariance, PTL

\* A flow that waits for a pacing event has one (timely-sender.cc:423-443, 614).
THEOREM KeepsPacing == Spec => []PacingGoesOn
<1>1. IndInv => PacingGoesOn BY DEF IndInv, FlowInv, Pacing, PacingGoesOn
<1> QED BY <1>1, Invariance, PTL

\* In a flow, too, marked packets in a row raise the target by Run steps at most
\* (timely-receiver.cc:237-255).
THEOREM FlowRises == Spec => []RiseBounded
<1>1. IndInv => RiseBounded BY TargetInvRise DEF IndInv
<1> QED BY <1>1, Invariance, PTL

---------------------------------------------------------------------------
(* A flow never comes to a stand.                                          *)

Undisturbed == losses = 0 /\ duplicates = 0 /\ ~stopReach

\* Every packet that was sent is under way or acknowledged.
Accounted == received + data + Len(acks) = sent

\* With nothing under way, an event sends what is left.
Wakes == sent < Allowed /\ data = 0 /\ acks = <<>> => sendEvent \/ orphans > 0

GoesOn == Undisturbed => Accounted /\ Wakes

\* An unfinished flow has a packet, an acknowledgement or an event under way.
NeverIdle ==
  Undisturbed /\ received < Allowed =>
    data > 0 \/ acks # <<>> \/ sendEvent \/ orphans > 0

\* With nothing in flight, Send sends a packet or schedules an event.
LEMMA SendMoves ==
  ASSUME TypeOK, NEW w \in 1 .. MaxWindow, NEW out \in Nat,
         NEW running \in BOOLEAN, NEW others \in Nat,
         Send(w, out, running, others)
  PROVE  \E n \in Nat : /\ sent' = sent + n /\ data' = data + n
                        /\ sent' < Allowed /\ out = 0 => n > 0 \/ sendEvent'
<1> USE RetAssumption
<1> DEFINE b == Burst(w, out)
           n == Smaller(b, Allowed - sent)
<1>1. /\ b \in Nat /\ sent \in Nat /\ data \in Nat /\ Allowed \in Nat
  BY BurstFits DEF TypeOK
<1>2. CASE sent >= Allowed
  <2>1. SendNothing(out) BY <1>1, <1>2 DEF Send
  <2>2. sent' = sent + 0 /\ data' = data + 0 BY <1>1, <2>1 DEF SendNothing
  <2> QED BY <1>1, <1>2, <2>2
<1>3. CASE sent < Allowed /\ w >= Unit
  <2>1. SendBurst(w, out) BY <1>1, <1>3 DEF Send, SendWindow
  <2>2. out = 0 => b >= 1
    <3> SUFFICES ASSUME out = 0 PROVE b >= 1 OBVIOUS
    <3>1. out * Unit = 0 BY RetAssumption
    <3>2. b = w \div Unit BY <1>3, <3>1 DEF Burst
    <3>3. 1 * Unit <= w /\ w \in Nat BY <1>3
    <3>4. 1 <= w \div Unit BY <3>3, DivLargest
    <3> QED BY <3>2, <3>4
  <2>3. sent' = sent + n /\ data' = data + n BY <2>1 DEF SendBurst
  <2> HIDE DEF b
  <2>4. n \in Nat /\ (out = 0 => n > 0) BY <1>1, <1>3, <2>2 DEF Smaller
  <2> QED BY <2>3, <2>4
<1>4. CASE sent < Allowed /\ w < Unit
  <2>1. SendPaced(w, out, running, others) BY <1>1, <1>4 DEF Send
  <2>2. sendEvent' BY <2>1 DEF SendPaced
  <2>3. CASE firstPacing
    <3>1. sent' = sent + 0 /\ data' = data + 0
      BY <1>1, <2>1, <2>3 DEF SendPaced, SendNothing
    <3> QED BY <2>2, <3>1
  <2>4. CASE ~firstPacing
    <3>1. sent' = sent + n /\ data' = data + n
      BY <2>1, <2>4 DEF SendPaced, SendBurst
    <3> HIDE DEF b
    <3>2. n \in Nat BY <1>1, <1>4 DEF Smaller
    <3> QED BY <2>2, <3>1, <3>2
  <2> QED BY <2>3, <2>4
<1> QED BY <1>1, <1>2, <1>3, <1>4

\* A call of Send keeps a flow going, if the count it is called with is what is
\* on its way.
LEMMA SendGoesOn ==
  ASSUME TypeOK, NEW w \in 1 .. MaxWindow, NEW out \in Nat,
         NEW running \in BOOLEAN, NEW others \in Nat,
         Send(w, out, running, others), received' \in Nat,
         NEW l \in Nat, Len(acks') = l, received' + data + l = sent,
         sent < Allowed => out = data + l
  PROVE  Accounted' /\ Wakes'
<1>1. sent \in Nat /\ data \in Nat /\ Allowed \in Nat
  BY RetAssumption DEF TypeOK
<1>2. PICK n \in Nat : /\ sent' = sent + n /\ data' = data + n
                       /\ sent' < Allowed /\ out = 0 => n > 0 \/ sendEvent'
  BY SendMoves
<1>3. sent' = sent + n /\ data' = data + n BY <1>2
<1>4. received' + data' + l = sent'
  <2>1. sent' = received' + data + l + n BY <1>1, <1>3
  <2>2. data' \in Nat /\ received' + data' + l = received' + data + l + n
    BY <1>1, <1>3
  <2> QED BY <2>1, <2>2
<1>5. Accounted' BY <1>4 DEF Accounted
<1>6. Wakes'
  <2> SUFFICES ASSUME sent' < Allowed, data' = 0, acks' = <<>> PROVE sendEvent'
    BY DEF Wakes
  <2>1. l = 0 OBVIOUS
  <2>2. n = 0 /\ data = 0 /\ sent < Allowed BY <1>1, <1>3
  <2>3. out = 0 /\ ~(n > 0) BY <2>1, <2>2
  <2> QED BY <1>2, <2>3
<1> QED BY <1>5, <1>6

\* Every step keeps a flow going.
LEMMA StepGoesOn == IndInv /\ GoesOn /\ [Next]_vars => GoesOn'
<1> SUFFICES ASSUME IndInv, GoesOn, [Next]_vars, Undisturbed'
             PROVE  Accounted' /\ Wakes'
  BY DEF GoesOn
<1>1. /\ TypeOK /\ Numbers /\ InFlightCounts /\ Pacing BY DEF IndInv, FlowInv
<1>2. /\ sent \in Nat /\ data \in Nat /\ received \in Nat /\ Allowed \in Nat
      /\ acks \in Seq([seq : Nat, target : Floor .. Ceiling])
      /\ Len(acks) \in Nat /\ window \in 1 .. MaxWindow
      /\ inflight \in 0 .. Word - 1 /\ sendEvent \in BOOLEAN /\ orphans \in Nat
      /\ losses \in Nat /\ duplicates \in Nat /\ stopReach \in BOOLEAN
  BY <1>1, RetAssumption DEF TypeOK
<1>3. CASE SendEventFires \/ OrphanFires
  <2>1. /\ UNCHANGED <<received, acks, stopReach, losses, duplicates>>
        /\ \E running \in BOOLEAN, others \in Nat :
             Send(window, inflight, running, others)
    <3>1. CASE SendEventFires BY <1>2, <3>1 DEF SendEventFires, faults
    <3>2. CASE OrphanFires
      <4>1. orphans - 1 \in Nat BY <1>2, <3>2 DEF OrphanFires
      <4> QED BY <1>2, <3>2, <4>1 DEF OrphanFires, faults
    <3> QED BY <1>3, <3>1, <3>2
  <2>2. Undisturbed BY <2>1 DEF Undisturbed
  <2>3. received + data + Len(acks) = sent BY <2>2 DEF GoesOn, Accounted
  <2>4. sent < Allowed => inflight = data + Len(acks)
    BY <1>1, <2>2 DEF InFlightCounts, Undisturbed
  <2> QED BY <1>1, <1>2, <2>1, <2>3, <2>4, SendGoesOn
<1>4. CASE StopApplication BY <1>4 DEF StopApplication, Undisturbed
<1>5. CASE Receive
  <2>1. /\ acks # <<>> /\ acks' = Tail(acks)
        /\ UNCHANGED <<stopReach, losses, duplicates>>
    BY <1>5 DEF Receive, faults
  <2>2. Undisturbed BY <2>1 DEF Undisturbed
  <2>3. /\ acks' \in Seq([seq : Nat, target : Floor .. Ceiling])
        /\ Len(acks') \in Nat /\ Len(acks') + 1 = Len(acks)
    BY <1>2, <2>1
  <2>4. received + data + Len(acks) = sent BY <2>2 DEF GoesOn, Accounted
  <2> DEFINE out == InFlight(Head(acks).seq)
  <2>5. out \in 0 .. Word - 1 /\ out + 1 = data + Len(acks)
    BY <1>1, <2>1, <2>2, InFlightFacts DEF Undisturbed
  <2> HIDE DEF out
  <2>6. /\ out = data + Len(acks')
        /\ received + 1 + data + Len(acks') = sent
    <3> DEFINE l == Len(acks)
               m == Len(acks')
    <3>1. /\ l \in Nat /\ m \in Nat /\ m + 1 = l /\ out \in Int
          /\ out + 1 = data + l /\ received + data + l = sent
          /\ data \in Nat /\ received \in Nat
      BY <1>2, <2>3, <2>4, <2>5, RetAssumption
    <3> HIDE DEF l, m
    <3>2. out = data + m /\ received + 1 + data + m = sent BY <3>1
    <3> QED BY <3>2 DEF m
  <2>7. PICK delay \in Delays :
          \E v \in Updated(window, delay, Head(acks).target) :
            LET w == Bounded(v) IN
            /\ window' = w /\ received' = received + 1
            /\ IF w < Unit /\ ~firstPacing
               THEN SendNothing(out) /\ UNCHANGED <<firstPacing, sendEvent, orphans>>
               ELSE Send(w, out, sendEvent, orphans)
    BY <1>5, <2>2 DEF Receive, Undisturbed, out
  <2>8. PICK v \in Updated(window, delay, Head(acks).target) :
          LET w == Bounded(v) IN
          /\ window' = w /\ received' = received + 1
          /\ IF w < Unit /\ ~firstPacing
             THEN SendNothing(out) /\ UNCHANGED <<firstPacing, sendEvent, orphans>>
             ELSE Send(w, out, sendEvent, orphans)
    BY <2>7
  <2>9. /\ received' \in Nat /\ received' + data + Len(acks') = sent
    BY <1>2, <2>6, <2>8
  <2>10. CASE Bounded(v) < Unit /\ ~firstPacing
    <3>1. /\ UNCHANGED <<sent, data, sendEvent, orphans>>
      BY <2>8, <2>10 DEF SendNothing
    <3>2. sent < Allowed => sendEvent \/ orphans > 0
      BY <1>1, <2>2, <2>10 DEF Pacing, Undisturbed
    <3> QED BY <2>9, <3>1, <3>2 DEF Accounted, Wakes
  <2>11. CASE ~(Bounded(v) < Unit /\ ~firstPacing)
    <3>1. Send(Bounded(v), out, sendEvent, orphans) BY <2>8, <2>11
    <3>2. Bounded(v) \in 1 .. MaxWindow
      <4>1. IndInv' BY StepInv
      <4> QED BY <2>8, <4>1 DEF IndInv, FlowInv, TypeOK
    <3>3. /\ out \in Nat /\ Len(acks') \in Nat /\ received' \in Nat
          /\ sent < Allowed => out = data + Len(acks')
      BY <2>3, <2>5, <2>6, <2>9, RetAssumption
    <3> QED BY <1>1, <1>2, <2>9, <3>1, <3>2, <3>3, SendGoesOn
  <2> QED BY <2>10, <2>11
<1>6. CASE \E marked \in BOOLEAN : HandleRead(marked)
  <2>1. /\ data > 0 /\ data' = data - 1
        /\ UNCHANGED <<sent, received, stopReach, losses, duplicates>>
        /\ \E ack : acks' = Append(acks, ack)
    BY <1>6 DEF HandleRead, sender, faults
  <2>2. Undisturbed BY <2>1 DEF Undisturbed
  <2>3. Len(acks') = Len(acks) + 1 /\ acks' # <<>> BY <1>2, <2>1
  <2>4. received + data + Len(acks) = sent BY <2>2 DEF GoesOn, Accounted
  <2>5. received' + data' + Len(acks') = sent'
    <3> DEFINE l == Len(acks)
               m == Len(acks')
    <3>1. l \in Nat /\ m = l + 1 /\ received + data + l = sent BY <1>2, <2>3, <2>4
    <3> HIDE DEF l, m
    <3> QED BY <1>2, <2>1, <3>1 DEF m
  <2> QED BY <2>3, <2>5 DEF Accounted, Wakes
<1>7. CASE NodeEvent \/ UNCHANGED vars
  <2>1. UNCHANGED <<sender, data, acks, faults>> BY <1>7 DEF NodeEvent, vars
  <2> QED BY <2>1 DEF GoesOn, Undisturbed, Accounted, Wakes, sender, faults
<1>8. CASE LoseData \/ LoseAck
  <2>1. losses' = losses + 1 BY <1>8 DEF LoseData, LoseAck
  <2> QED BY <1>2, <2>1 DEF Undisturbed
<1>9. CASE Duplicate
  <2>1. duplicates' = duplicates + 1 BY <1>9 DEF Duplicate
  <2> QED BY <1>2, <2>1 DEF Undisturbed
<1> QED BY <1>3, <1>4, <1>5, <1>6, <1>7, <1>8, <1>9 DEF Next

\* While nothing is lost or doubled, a flow that is not finished always has
\* something under way that calls Send again, however its window moves across
\* one segment: the safety part of Completes (timely-sender.cc:415-447, 598-617).
THEOREM FlowGoesOn == Spec => []NeverIdle
<1>1. Init => GoesOn
  <2> SUFFICES ASSUME Init PROVE Accounted /\ Wakes BY DEF GoesOn
  <2>1. received = 0 /\ data = 0 /\ acks = <<>> /\ sent = 0 /\ sendEvent
    BY DEF Init
  <2> QED BY <2>1 DEF Accounted, Wakes
<1>2. IndInv /\ GoesOn => NeverIdle
  <2> SUFFICES ASSUME IndInv, GoesOn, Undisturbed, received < Allowed,
                      ~(data > 0), acks = <<>>
               PROVE  sendEvent \/ orphans > 0
    BY DEF NeverIdle
  <2>1. /\ data \in Nat /\ received \in Nat /\ sent \in Nat
    BY DEF IndInv, FlowInv, TypeOK
  <2>2. received + data + Len(acks) = sent BY DEF GoesOn, Accounted
  <2>3. data = 0 /\ sent < Allowed BY <2>1, <2>2
  <2> QED BY <2>3 DEF GoesOn, Wakes
<1>3. IndInv /\ GoesOn /\ [Next]_vars => GoesOn' BY StepGoesOn
<1> QED BY <1>1, <1>2, <1>3, InitInv, StepInv, PTL DEF Spec
===============================================================================
