-------------------------- MODULE BEgressQueue_proofs --------------------------
(***************************************************************************)
(* Proofs about the transmit queue, for any number of queues and           *)
(* priorities: the round robin of a NIC, the sending buffer, the bytes and *)
(* packets that are counted, and the guaranteed bandwidths of a switch.    *)
(***************************************************************************)
EXTENDS BEgressQueue, NumberFacts, TLAPS

---------------------------------------------------------------------------
(* The invariant.                                                          *)

Typed ==
  /\ mode \in Modes
  /\ queues \in [Queues -> Seq(Sizes)] /\ sendingBuffer \in [Queues -> Seq(Sizes)]
  /\ unsent \in [Queues -> Nat] /\ refused \subseteq Queues
  /\ fcount \in 1 .. FCnt /\ skipped \in [Queues -> Nat]
  /\ mode # "RR" => rrlast \in 0 .. InTurn - 1

\* Queues that do not take part hold nothing.
OthersEmpty ==
  mode # "RR" => \A j \in Queues : j >= InTurn => queues[j] = <<>> /\ skipped[j] = 0

\* Queues that take turns: all that take part but the control queue of QCN.
Round == IF mode = "QCN" THEN fcount - 1 ELSE QCnt

\* Turns until queue j is served, when every queue has something to send.
Distance(j) == IF j > rrlast THEN j - rrlast ELSE j - rrlast + Round

InRound(j) == j < InTurn /\ j # Control

\* A queue that has been passed often will soon have its turn.
TurnsComing ==
  mode # "RR" =>
    \A j \in Queues : InRound(j) => skipped[j] + Distance(j) <= Round

IndInv == Typed /\ OthersEmpty /\ TurnsComing /\ QueueMatchesBuffer

---------------------------------------------------------------------------
(* Sequences.                                                              *)

\* The sequence t is what remains of s when some of its first elements are gone.
EndOf(t, s) ==
  /\ Len(t) <= Len(s)
  /\ \A k \in 0 .. Len(t) - 1 : t[Len(t) - k] = s[Len(s) - k]

\* The end of a sequence.
LEMMA WithoutIsEnd ==
  ASSUME NEW s \in Seq(Sizes), NEW n \in 0 .. Len(s)
  PROVE  /\ Without(s, n) \in Seq(Sizes) /\ Len(Without(s, n)) = Len(s) - n
         /\ EndOf(Without(s, n), s)
<1> DEFINE t == SubSeq(s, n + 1, Len(s))
<1>1. Len(s) \in Nat /\ n \in Nat /\ n <= Len(s) OBVIOUS
<1>2. t = [k \in 1 .. Len(s) - n |-> s[n + k]] BY <1>1
<1>3. \A k \in n + 1 .. Len(s) : s[k] \in Sizes BY <1>1
<1>4. t \in Seq(Sizes) /\ Len(t) = Len(s) - n BY <1>1, <1>2, <1>3
<1>5. ASSUME NEW k \in 0 .. Len(t) - 1 PROVE t[Len(t) - k] = s[Len(s) - k]
  <2>1. Len(t) - k \in 1 .. Len(s) - n /\ n + (Len(t) - k) = Len(s) - k
    BY <1>1, <1>4
  <2> HIDE DEF t
  <2> QED BY <1>2, <2>1
<1>6. Len(t) <= Len(s) BY <1>1, <1>4
<1> HIDE DEF t
<1>7. EndOf(t, s) BY <1>5, <1>6 DEF EndOf
<1> QED BY <1>4, <1>7 DEF t, Without

\* All but the first element.
LEMMA TailIsEnd ==
  ASSUME NEW s \in Seq(Sizes), s # <<>>
  PROVE  /\ Tail(s) \in Seq(Sizes) /\ Len(Tail(s)) = Len(s) - 1
         /\ EndOf(Tail(s), s)
<1> DEFINE t == Tail(s)
<1>1. Len(s) \in Nat /\ t \in Seq(Sizes) /\ Len(t) = Len(s) - 1 /\ Len(t) \in Nat
  OBVIOUS
<1>2. ASSUME NEW k \in 0 .. Len(t) - 1 PROVE t[Len(t) - k] = s[Len(s) - k]
  <2>1. Len(t) - k \in 1 .. Len(t) /\ Len(t) - k + 1 = Len(s) - k BY <1>1
  <2>2. t[Len(t) - k] = s[Len(t) - k + 1] BY <1>1, <2>1
  <2> QED BY <2>1, <2>2
<1>3. Len(t) <= Len(s) BY <1>1
<1> QED BY <1>1, <1>2, <1>3 DEF EndOf

\* It does not matter which one is shorter.
LEMMA EndAlikeTurned ==
  ASSUME NEW a \in Seq(Sizes), NEW b \in Seq(Sizes), EndAlike(a, b)
  PROVE  EndAlike(b, a)
<1>1. Len(a) \in Nat /\ Len(b) \in Nat OBVIOUS
<1>2. Smaller(Len(a), Len(b)) = Smaller(Len(b), Len(a)) BY <1>1 DEF Smaller
<1> QED BY <1>2 DEF EndAlike

\* One of them loses its first elements.
LEMMA EndAlikeEnd ==
  ASSUME NEW a \in Seq(Sizes), NEW b \in Seq(Sizes), NEW t \in Seq(Sizes),
         EndAlike(a, b), EndOf(t, a)
  PROVE  EndAlike(t, b)
<1>1. Len(a) \in Nat /\ Len(b) \in Nat /\ Len(t) \in Nat /\ Len(t) <= Len(a)
  BY DEF EndOf
<1>2. ASSUME NEW k \in 0 .. Smaller(Len(t), Len(b)) - 1
      PROVE  t[Len(t) - k] = b[Len(b) - k]
  <2>1. k \in 0 .. Len(t) - 1 /\ k \in 0 .. Smaller(Len(a), Len(b)) - 1
    BY <1>1 DEF Smaller
  <2> QED BY <2>1 DEF EndOf, EndAlike
<1> QED BY <1>2 DEF EndAlike

\* A packet enters both.
LEMMA EndAlikeAppend ==
  ASSUME NEW a \in Seq(Sizes), NEW b \in Seq(Sizes), NEW size \in Sizes,
         EndAlike(a, b)
  PROVE  EndAlike(Append(a, size), Append(b, size))
<1> DEFINE c == Append(a, size)
           d == Append(b, size)
<1>1. /\ Len(a) \in Nat /\ Len(b) \in Nat
      /\ Len(c) = Len(a) + 1 /\ Len(d) = Len(b) + 1
  OBVIOUS
<1>2. ASSUME NEW k \in 0 .. Smaller(Len(c), Len(d)) - 1
      PROVE  c[Len(c) - k] = d[Len(d) - k]
  <2>1. k \in Nat /\ k <= Len(a) /\ k <= Len(b) BY <1>1 DEF Smaller
  <2>2. CASE k = 0
    <3>1. c[Len(a) + 1] = size /\ d[Len(b) + 1] = size OBVIOUS
    <3> QED BY <1>1, <2>2, <3>1
  <2>3. CASE k # 0
    <3>1. /\ Len(c) - k = Len(a) - (k - 1) /\ Len(c) - k \in 1 .. Len(a)
          /\ Len(d) - k = Len(b) - (k - 1) /\ Len(d) - k \in 1 .. Len(b)
          /\ k - 1 \in 0 .. Smaller(Len(a), Len(b)) - 1
      BY <1>1, <2>1, <2>3 DEF Smaller
    <3>2. c[Len(c) - k] = a[Len(c) - k] /\ d[Len(d) - k] = b[Len(d) - k]
      BY <3>1
    <3>3. a[Len(a) - (k - 1)] = b[Len(b) - (k - 1)] BY <3>1 DEF EndAlike
    <3> QED BY <3>1, <3>2, <3>3
  <2> QED BY <2>2, <2>3
<1> QED BY <1>2 DEF EndAlike

\* A sequence and itself.
LEMMA EndAlikeSame == \A a : EndAlike(a, a)
BY DEF EndAlike

\* A packet enters the queue and the sending buffer, which may lose its oldest.
LEMMA KeptAlike ==
  ASSUME NEW b \in Seq(Sizes), NEW size \in Sizes
  PROVE  /\ Kept(b, size) \in Seq(Sizes)
         /\ \A a \in Seq(Sizes) :
              EndAlike(a, b) => EndAlike(Append(a, size), Kept(b, size))
<1> DEFINE room == IF Len(b) = MaxKept THEN Tail(b) ELSE b
<1>1. room \in Seq(Sizes) /\ EndOf(room, b)
  <2>1. CASE Len(b) = MaxKept
    <3>1. b # <<>> BY <2>1, QueueAssumption
    <3> QED BY <2>1, <3>1, TailIsEnd
  <2>2. CASE Len(b) # MaxKept BY <2>2 DEF EndOf
  <2> QED BY <2>1, <2>2
<1>2. Kept(b, size) = Append(room, size) BY DEF Kept
<1> HIDE DEF room
<1>3. Kept(b, size) \in Seq(Sizes) BY <1>1, <1>2
<1>4. ASSUME NEW a \in Seq(Sizes), EndAlike(a, b)
      PROVE  EndAlike(Append(a, size), Kept(b, size))
  <2>1. EndAlike(room, a) BY <1>1, <1>4, EndAlikeTurned, EndAlikeEnd
  <2>2. EndAlike(a, room) BY <1>1, <2>1, EndAlikeTurned
  <2> QED BY <1>1, <1>2, <2>2, EndAlikeAppend
<1> QED BY <1>3, <1>4

---------------------------------------------------------------------------
(* The round.                                                              *)

\* The numbers of the queues, in each mode.
LEMMA Places ==
  ASSUME Typed
  PROVE  /\ Queues \subseteq Nat /\ fcount \in Nat /\ fcount >= 1 /\ fcount <= FCnt
         /\ QCnt \in Nat /\ QCnt >= 2 /\ QCnt <= FCnt /\ FCnt \in Nat
         /\ mode \in {"QCN", "NIC", "RR"}
         /\ mode = "QCN" => InTurn = fcount /\ Control = 0 /\ Round = fcount - 1
         /\ mode = "NIC" => InTurn = QCnt /\ Control = -1 /\ Round = QCnt
         /\ mode = "RR" => InTurn = QCnt /\ Control = QCnt - 1
<1>1. /\ QCnt \in Nat /\ QCnt >= 2 /\ QCnt <= FCnt /\ FCnt \in Nat
      /\ mode \in {"QCN", "NIC", "RR"}
  BY QueueAssumption DEF Typed
<1>2. /\ Queues \subseteq Nat /\ fcount \in Nat /\ fcount >= 1 /\ fcount <= FCnt
  BY <1>1 DEF Typed, Queues
<1>3. CASE mode = "QCN" BY <1>1, <1>2, <1>3 DEF InTurn, Control, Round
<1>4. CASE mode = "NIC" BY <1>1, <1>2, <1>4 DEF InTurn, Control, Round
<1>5. CASE mode = "RR" BY <1>1, <1>2, <1>5 DEF InTurn, Control
<1> QED BY <1>1, <1>2, <1>3, <1>4, <1>5

\* A queue is at least one turn away, and at most a round.
LEMMA DistanceBounds ==
  ASSUME Typed, mode # "RR", NEW j \in Queues, InRound(j)
  PROVE  Distance(j) \in 1 .. Round
<1>1. rrlast \in 0 .. InTurn - 1 /\ j \in Nat /\ j < InTurn /\ j # Control
  BY Places DEF Typed, InRound
<1>2. CASE mode = "QCN" BY <1>1, <1>2, Places DEF Distance
<1>3. CASE mode = "NIC" BY <1>1, <1>3, Places DEF Distance
<1> QED BY <1>2, <1>3, Places

\* A queue that is not chosen, though it may be served, comes closer.
LEMMA TurnShortens ==
  ASSUME NEW n \in Nat \ {0}, NEW r \in 0 .. n - 1, NEW c \in {0, 1},
         NEW i \in c .. n - 1, NEW j \in c .. n - 1,
         (IF i > r THEN i - r ELSE i - r + n) < (IF j > r THEN j - r ELSE j - r + n)
  PROVE  (IF j > i THEN j - i ELSE j - i + (n - c)) + 1 <=
         (IF j > r THEN j - r ELSE j - r + (n - c))
OBVIOUS

\* What the round robin says of the queue it takes: every other queue that may
\* be served is further away.
LEMMA FirstInTurn ==
  ASSUME Typed, mode # "RR", NEW i \in Queues, RoundRobin(i)
  PROVE  /\ i < InTurn /\ Servable(i)
         /\ \A j \in Queues : j < InTurn /\ j # i /\ Servable(j) =>
              (IF i > rrlast THEN i - rrlast ELSE i - rrlast + InTurn) <
              (IF j > rrlast THEN j - rrlast ELSE j - rrlast + InTurn)
<1> DEFINE n == InTurn
           Turn(x) == IF x > rrlast THEN x - rrlast ELSE x - rrlast + n
<1>1. /\ n \in Nat \ {0} /\ rrlast \in 0 .. n - 1 /\ Queues \subseteq Nat
      /\ i \in Nat
  BY Places DEF Typed
<1>2. PICK k \in 1 .. n : /\ i = After(k) /\ Servable(i)
                          /\ \A j \in 1 .. k - 1 : ~Servable(After(j))
  BY DEF RoundRobin
<1> HIDE DEF n
<1>3. ASSUME NEW t \in 1 .. n
      PROVE  After(t) = IF t + rrlast < n THEN t + rrlast ELSE t + rrlast - n
  <2>1. t + rrlast \in Nat /\ t + rrlast < n + n BY <1>1
  <2>2. After(t) = (t + rrlast) % n
    <3>1. n = InTurn BY DEF n
    <3> QED BY <3>1 DEF After
  <2> DEFINE p == t + rrlast
  <2> HIDE DEF p
  <2>3. p \in Nat /\ p < n + n /\ After(t) = p % n BY <2>1, <2>2 DEF p
  <2>4. After(t) = IF p < n THEN p ELSE p - n BY <1>1, <2>3, ModRound
  <2> QED BY <1>1, <2>4 DEF p
<1>4. i < n /\ Turn(i) = k BY <1>1, <1>2, <1>3
<1>5. ASSUME NEW j \in Queues, j < n, j # i, Servable(j)
      PROVE  k < Turn(j)
  <2>1. j \in Nat /\ Turn(j) \in 1 .. n BY <1>1, <1>5
  <2>2. After(Turn(j)) = j BY <1>1, <1>3, <1>5, <2>1
  <2>3. ~(Turn(j) \in 1 .. k - 1) BY <1>2, <1>5, <2>2
  <2>4. Turn(j) # k BY <1>2, <1>5, <2>2
  <2> HIDE DEF Turn
  <2> QED BY <1>1, <2>1, <2>3, <2>4
<1> QED BY <1>2, <1>4, <1>5 DEF n

---------------------------------------------------------------------------
(* The actions.                                                            *)

\* The queues begin empty.
LEMMA InitInv == Init => IndInv
<1> SUFFICES ASSUME Init PROVE IndInv OBVIOUS
<1>1. /\ mode \in Modes /\ queues = [i \in Queues |-> <<>>]
      /\ fcount = 1 /\ rrlast = 0 /\ skipped = [i \in Queues |-> 0]
      /\ sendingBuffer = [i \in Queues |-> <<>>]
      /\ unsent = [i \in Queues |-> 0] /\ refused = {}
  BY DEF Init
<1>2. fcount \in 1 .. FCnt BY <1>1, QueueAssumption
<1>3. rrlast \in 0 .. InTurn - 1 BY <1>1, QueueAssumption DEF InTurn
<1>4. queues \in [Queues -> Seq(Sizes)] /\ sendingBuffer \in [Queues -> Seq(Sizes)]
      /\ skipped \in [Queues -> Nat] /\ unsent \in [Queues -> Nat]
      /\ refused \subseteq Queues
  BY <1>1
<1>5. Typed BY <1>1, <1>2, <1>3, <1>4 DEF Typed
<1>6. OthersEmpty BY <1>1 DEF OthersEmpty
<1>7. TurnsComing
  <2> SUFFICES ASSUME mode # "RR", NEW j \in Queues, InRound(j)
               PROVE  skipped[j] + Distance(j) <= Round
    BY DEF TurnsComing
  <2>1. Distance(j) \in 1 .. Round /\ Round \in Int
    BY <1>5, DistanceBounds, Places
  <2>2. skipped[j] = 0 BY <1>1
  <2> QED BY <2>1, <2>2
<1>8. QueueMatchesBuffer
  <2> SUFFICES ASSUME NEW i \in 1 .. FCnt - 1 PROVE Matches(i)
    BY DEF QueueMatchesBuffer
  <2>1. i \in Queues BY QueueAssumption DEF Queues
  <2>2. queues[i] = <<>> /\ sendingBuffer[i] = <<>> /\ unsent[i] = 0
    BY <1>1, <2>1
  <2>3. EndAlike(queues[i], sendingBuffer[i]) BY <2>2, EndAlikeSame
  <2> QED BY <2>2, <2>3 DEF Matches
<1> QED BY <1>5, <1>6, <1>7, <1>8 DEF IndInv

\* Where a queue has let no more pass, it does not matter what it holds.
LEMMA SameTurns ==
  ASSUME IndInv, UNCHANGED <<mode, rrlast, fcount>>, skipped' \in [Queues -> Nat],
         \A j \in Queues : skipped'[j] = skipped[j] \/ skipped'[j] = 0
  PROVE  TurnsComing'
<1> SUFFICES ASSUME mode # "RR", NEW j \in Queues, InRound(j)
             PROVE  skipped'[j] + Distance(j) <= Round
  BY DEF TurnsComing, InRound, InTurn, Control, Distance, Round
<1>1. skipped[j] + Distance(j) <= Round BY DEF IndInv, TurnsComing
<1>2. Distance(j) \in 1 .. Round /\ Round \in Int
  BY DistanceBounds, Places DEF IndInv
<1>3. skipped[j] \in Nat BY DEF IndInv, Typed
<1> QED BY <1>1, <1>2, <1>3

\* Only the queue of one flow changes, or its sending buffer.
LEMMA MatchesOne ==
  ASSUME QueueMatchesBuffer, UNCHANGED mode, NEW i \in Queues,
         mode = "QCN" /\ i # 0 => Matches(i)',
         \A j \in Queues \ {i} :
           /\ UNCHANGED <<queues[j], sendingBuffer[j], unsent[j]>>
           /\ j \in refused' <=> j \in refused
  PROVE  QueueMatchesBuffer'
<1> SUFFICES ASSUME mode = "QCN", NEW j \in 1 .. FCnt - 1 PROVE Matches(j)'
  BY DEF QueueMatchesBuffer
<1>1. j \in Queues /\ j # 0 BY QueueAssumption DEF Queues
<1>2. CASE j = i BY <1>1, <1>2
<1>3. CASE j # i
  <2>1. Matches(j) BY DEF QueueMatchesBuffer
  <2>2. /\ UNCHANGED <<queues[j], sendingBuffer[j], unsent[j]>>
        /\ j \in refused' <=> j \in refused
    BY <1>1, <1>3
  <2> QED BY <2>1, <2>2 DEF Matches
<1> QED BY <1>2, <1>3

\* What a packet does to the sending buffer of its flow.
LEMMA KeepMatches ==
  ASSUME Typed, NEW i \in Queues, NEW size \in Sizes, NEW enters \in BOOLEAN,
         UNCHANGED mode, Keep(i, size, enters),
         queues' = IF enters THEN [queues EXCEPT ![i] = Append(@, size)] ELSE queues,
         QueueMatchesBuffer
  PROVE  /\ sendingBuffer' \in [Queues -> Seq(Sizes)]
         /\ unsent' \in [Queues -> Nat] /\ refused' \subseteq Queues
         /\ QueueMatchesBuffer'
<1>1. /\ queues \in [Queues -> Seq(Sizes)] /\ sendingBuffer \in [Queues -> Seq(Sizes)]
      /\ unsent \in [Queues -> Nat] /\ refused \subseteq Queues
      /\ mode = "QCN" => Control = 0
  BY Places DEF Typed
<1>2. \A j \in Queues \ {i} : queues'[j] = queues[j] BY <1>1
<1>3. CASE mode = "QCN" /\ i # Control
  <2> DEFINE b == Kept(sendingBuffer[i], size)
  <2>1. /\ sendingBuffer' = [sendingBuffer EXCEPT ![i] = b]
        /\ unsent' = [unsent EXCEPT ![i] = Smaller(@ + 1, Len(sendingBuffer'[i]))]
        /\ refused' = IF enters THEN refused ELSE refused \cup {i}
    BY <1>3 DEF Keep
  <2>2. queues[i] \in Seq(Sizes) /\ sendingBuffer[i] \in Seq(Sizes)
        /\ b \in Seq(Sizes)
    BY <1>1, KeptAlike
  <2>3. EndAlike(queues[i], sendingBuffer[i]) => EndAlike(Append(queues[i], size), b)
    BY <2>2, KeptAlike
  <2> HIDE DEF b
  <2>4. sendingBuffer'[i] = b /\ Len(b) \in Nat /\ unsent[i] \in Nat
        /\ Len(queues[i]) \in Nat
    BY <1>1, <2>1, <2>2
  <2>5. /\ unsent'[i] = Smaller(unsent[i] + 1, Len(b)) /\ unsent'[i] \in Nat
        /\ unsent'[i] <= Len(b) /\ unsent'[i] <= unsent[i] + 1
    BY <1>1, <2>1, <2>4 DEF Smaller
  <2>6. sendingBuffer' \in [Queues -> Seq(Sizes)] /\ refused' \subseteq Queues
    BY <1>1, <2>1, <2>2
  <2>7. unsent' \in [Queues -> Nat]
    <3>1. unsent' = [unsent EXCEPT ![i] = unsent'[i]] BY <1>1, <2>1
    <3> QED BY <1>1, <2>5, <3>1
  <2>8. i \in 1 .. FCnt - 1 BY <1>1, <1>3, QueueAssumption DEF Queues
  <2>9. Matches(i) BY <1>3, <2>8 DEF QueueMatchesBuffer
  <2>10. ASSUME i \notin refused'
         PROVE  unsent'[i] <= Len(queues'[i]) /\ EndAlike(queues'[i], b)
    <3>1. enters /\ i \notin refused BY <2>1, <2>10
    <3>2. queues'[i] = Append(queues[i], size) BY <1>1, <3>1
    <3>3. Len(queues'[i]) = Len(queues[i]) + 1 BY <2>2, <3>2
    <3>4. unsent[i] <= Len(queues[i]) /\ EndAlike(queues[i], sendingBuffer[i])
      BY <2>9, <3>1 DEF Matches
    <3>5. unsent'[i] <= Len(queues'[i]) BY <2>4, <2>5, <3>3, <3>4
    <3> QED BY <2>3, <3>2, <3>4, <3>5
  <2>11. Matches(i)' BY <2>4, <2>5, <2>10 DEF Matches
  <2>12. \A j \in Queues \ {i} :
           /\ UNCHANGED <<queues[j], sendingBuffer[j], unsent[j]>>
           /\ j \in refused' <=> j \in refused
    BY <1>1, <1>2, <2>1
  <2> QED BY <2>6, <2>7, <2>11, <2>12, MatchesOne
<1>4. CASE ~(mode = "QCN" /\ i # Control)
  <2>1. UNCHANGED <<sendingBuffer, unsent, refused>> BY <1>4 DEF Keep, keptVars
  <2>2. ~(mode = "QCN" /\ i # 0) BY <1>1, <1>4
  <2>3. \A j \in Queues \ {i} :
          /\ UNCHANGED <<queues[j], sendingBuffer[j], unsent[j]>>
          /\ j \in refused' <=> j \in refused
    BY <1>2, <2>1
  <2>4. QueueMatchesBuffer' BY <2>2, <2>3, MatchesOne
  <2> QED BY <1>1, <2>1, <2>4
<1> QED BY <1>3, <1>4

\* A packet enters, or is refused; the first of a flow widens the round.
LEMMA EnqueueInv ==
  ASSUME IndInv, NEW i \in Queues, NEW size \in Sizes, Enqueue(i, size)
  PROVE  IndInv'
<1> DEFINE enters == bytesInQueueTotal + size < MaxBytes
<1>1. /\ IF mode = "QCN" THEN i <= fcount ELSE i < QCnt
      /\ queues' = IF enters THEN [queues EXCEPT ![i] = Append(@, size)] ELSE queues
      /\ fcount' = FlowsWith(i) /\ Keep(i, size, enters)
      /\ UNCHANGED <<mode, rrlast, skipped>>
  BY DEF Enqueue, turnVars, queueVars
<1> HIDE DEF enters
<1>2. Typed /\ i \in Nat /\ i < FCnt /\ Queues \subseteq Nat
  BY Places DEF IndInv, Queues
<1>3. /\ queues \in [Queues -> Seq(Sizes)] /\ sendingBuffer \in [Queues -> Seq(Sizes)]
      /\ skipped \in [Queues -> Nat]
  BY <1>2 DEF Typed
<1>4. /\ fcount' \in 1 .. FCnt /\ fcount' >= fcount
      /\ mode # "QCN" => fcount' = fcount
      /\ mode = "QCN" => i < fcount'
      /\ fcount' # fcount => i = fcount /\ fcount' = fcount + 1
    BY <1>1, <1>2, Places DEF FlowsWith
<1>5. queues' \in [Queues -> Seq(Sizes)]
  <2>1. Append(queues[i], size) \in Seq(Sizes) BY <1>3
  <2> QED BY <1>1, <1>3, <2>1
<1>6. /\ sendingBuffer' \in [Queues -> Seq(Sizes)]
       /\ unsent' \in [Queues -> Nat] /\ refused' \subseteq Queues
       /\ QueueMatchesBuffer'
  <2>1. QueueMatchesBuffer /\ enters \in BOOLEAN BY DEF IndInv, enters
  <2> QED BY <1>1, <1>2, <2>1, KeepMatches
<1>7. /\ mode' = "QCN" => InTurn' = fcount' /\ Control' = 0 /\ Round' = fcount' - 1
      /\ mode' # "QCN" => InTurn' = InTurn /\ Control' = Control /\ Round' = Round
      /\ InTurn' >= InTurn
  BY <1>1, <1>2, <1>4, Places DEF InTurn, Control, Round
<1>8. Typed'
  <2>1. mode # "RR" => rrlast' \in 0 .. InTurn' - 1
    <3>1. UNCHANGED <<mode, rrlast>> BY <1>1
    <3>2. mode # "RR" => rrlast \in 0 .. InTurn - 1 BY <1>2 DEF Typed
    <3>3. InTurn \in Nat BY <1>2, Places
    <3>4. InTurn' \in Nat /\ InTurn' >= InTurn
      <4>1. InTurn' \in {fcount', InTurn} BY <1>7
      <4>2. fcount' \in Nat BY <1>4
      <4> QED BY <1>7, <3>3, <4>1, <4>2
    <3> QED BY <3>1, <3>2, <3>3, <3>4
  <2> QED BY <1>1, <1>2, <1>3, <1>4, <1>5, <1>6, <2>1 DEF Typed
<1>9. OthersEmpty'
  <2> SUFFICES ASSUME mode # "RR", NEW j \in Queues, j >= InTurn'
               PROVE  queues'[j] = <<>> /\ skipped'[j] = 0
    BY <1>1 DEF OthersEmpty
  <2>1. j >= InTurn /\ j # i
    <3>1. UNCHANGED mode /\ (mode = "NIC" => i < QCnt) BY <1>1
    <3>2. CASE mode = "QCN" BY <1>2, <1>4, <1>7, <3>1, <3>2, Places
    <3>3. CASE mode = "NIC" BY <1>2, <1>7, <3>1, <3>3, Places
    <3> QED BY <1>2, <3>2, <3>3, Places
  <2> QED BY <1>1, <1>3, <2>1 DEF IndInv, OthersEmpty
<1>10. TurnsComing'
  <2>1. CASE fcount' = fcount BY <1>1, <1>3, <2>1, SameTurns
  <2>2. CASE fcount' # fcount
    <3>1. mode = "QCN" /\ i = fcount /\ fcount' = fcount + 1 BY <1>4, <2>2
    <3> SUFFICES ASSUME NEW j \in Queues, InRound(j)'
                 PROVE  skipped'[j] + Distance(j)' <= Round'
      BY DEF TurnsComing
    <3>2. j < fcount + 1 /\ j # 0 /\ j \in Nat
      BY <1>1, <1>2, <1>7, <3>1 DEF InRound
    <3>3. CASE j = fcount
      <4>1. skipped'[j] = 0
        BY <1>1, <1>2, <3>1, <3>3, Places DEF IndInv, OthersEmpty
      <4>2. InRound(j)' /\ Typed' /\ mode' # "RR" BY <1>1, <1>8, <3>1
      <4>3. Distance(j)' \in 1 .. Round'
        <5>1. rrlast \in 0 .. fcount - 1 BY <1>2, <3>1, Places DEF Typed
        <5> QED BY <1>1, <1>2, <1>7, <3>1, <3>3, <5>1, Places DEF Distance
      <4>4. Round' \in Int BY <1>1, <1>2, <1>7, <3>1, Places
      <4> QED BY <4>1, <4>3, <4>4
    <3>4. CASE j # fcount
      <4>1. InRound(j) BY <1>2, <3>1, <3>2, <3>4, Places DEF InRound
      <4>2. skipped[j] + Distance(j) <= Round
        BY <3>1, <4>1 DEF IndInv, TurnsComing
      <4>3. Round = fcount - 1 /\ fcount \in Nat BY <1>2, <3>1, Places
      <4>4. Round' = fcount BY <1>1, <1>7, <3>1, <4>3
      <4>5. rrlast \in Nat /\ skipped[j] \in Nat
        BY <1>2, <1>3, <3>1, Places DEF Typed
      <4>6. skipped'[j] = skipped[j] /\ rrlast' = rrlast BY <1>1
      <4> QED BY <3>2, <4>2, <4>3, <4>4, <4>5, <4>6 DEF Distance
    <3> QED BY <3>3, <3>4
  <2> QED BY <2>1, <2>2
<1> QED BY <1>6, <1>8, <1>9, <1>10 DEF IndInv

\* A packet that is not a control packet: the turn goes on to its queue.
LEMMA ServeTurns ==
  ASSUME IndInv, mode # "RR", NEW i \in Queues, Dequeue(i), i # Control
  PROVE  /\ InRound(i) /\ queues[i] # <<>>
         /\ rrlast' = i /\ skipped' \in [Queues -> Nat]
         /\ TurnsComing'
<1>1. /\ Chosen(i) /\ rrlast' = i /\ skipped' = SkippedAfter(i)
      /\ UNCHANGED <<mode, fcount>>
  BY DEF Dequeue, LastServed
<1>2. Typed /\ skipped \in [Queues -> Nat] BY DEF IndInv, Typed
<1>3. RoundRobin(i) /\ (Control >= 0 => queues[Control] = <<>>)
  BY <1>1 DEF Chosen
<1>4. /\ i < InTurn /\ Servable(i)
      /\ \A j \in Queues : j < InTurn /\ j # i /\ Servable(j) =>
           (IF i > rrlast THEN i - rrlast ELSE i - rrlast + InTurn) <
           (IF j > rrlast THEN j - rrlast ELSE j - rrlast + InTurn)
  BY <1>2, <1>3, FirstInTurn
<1>5. InRound(i) /\ queues[i] # <<>> BY <1>4 DEF InRound, Servable
<1>6. skipped' = [j \in Queues |->
                   IF j # i /\ j # Control /\ Servable(j) THEN skipped[j] + 1 ELSE 0]
  BY <1>1 DEF SkippedAfter, Waits
<1>7. skipped' \in [Queues -> Nat] BY <1>2, <1>6
<1>8. TurnsComing'
  <2>1. InTurn' = InTurn /\ Control' = Control /\ Round' = Round
    BY <1>1 DEF InTurn, Control, Round
  <2> SUFFICES ASSUME NEW j \in Queues, InRound(j)
               PROVE  skipped'[j] + Distance(j)' <= Round
    BY <2>1 DEF TurnsComing, InRound
  <2> DEFINE n == InTurn
             c == IF mode = "QCN" THEN 1 ELSE 0
  <2>2. /\ n \in Nat \ {0} /\ rrlast \in 0 .. n - 1 /\ c \in {0, 1}
        /\ i \in c .. n - 1 /\ j \in c .. n - 1 /\ Round = n - c
    <3>1. rrlast \in 0 .. InTurn - 1 /\ i \in Nat /\ j \in Nat /\ i < InTurn
          /\ j < InTurn /\ j # Control
      BY <1>2, <1>4, Places DEF Typed, InRound
    <3>2. CASE mode = "QCN" BY <1>2, <3>1, <3>2, Places
    <3>3. CASE mode = "NIC" BY <1>2, <3>1, <3>3, Places
    <3> QED BY <1>2, <3>2, <3>3, Places
  <2>3. /\ Distance(j) = IF j > rrlast THEN j - rrlast ELSE j - rrlast + (n - c)
        /\ Distance(j)' = IF j > i THEN j - i ELSE j - i + (n - c)
    <3> HIDE DEF n, c
    <3> QED BY <1>1, <2>1, <2>2 DEF Distance
  <2>4. CASE j # i /\ Servable(j)
    <3>1. skipped'[j] = skipped[j] + 1 BY <1>6, <2>4 DEF InRound
    <3>2. skipped[j] + Distance(j) <= Round /\ skipped[j] \in Nat
      BY <1>2 DEF IndInv, TurnsComing
    <3>3. (IF i > rrlast THEN i - rrlast ELSE i - rrlast + n) <
          (IF j > rrlast THEN j - rrlast ELSE j - rrlast + n)
      BY <1>4, <2>4 DEF InRound
    <3> HIDE DEF n, c
    <3>4. Distance(j)' + 1 <= Distance(j)
      BY <2>2, <2>3, <3>3, TurnShortens
    <3>5. Distance(j) \in Int /\ Distance(j)' \in Int /\ Round \in Int
      BY <2>2, <2>3
    <3> QED BY <3>1, <3>2, <3>4, <3>5
  <2>5. CASE ~(j # i /\ Servable(j))
    <3>1. skipped'[j] = 0 BY <1>6, <2>5
    <3> HIDE DEF n, c
    <3>2. Distance(j)' <= n - c /\ Distance(j)' \in Int BY <2>2, <2>3
    <3> QED BY <2>2, <3>1, <3>2
  <2> QED BY <2>4, <2>5
<1> QED BY <1>1, <1>5, <1>7, <1>8

\* The packet that leaves is the first of its queue, whatever mode chose it.
LEMMA DequeueInv ==
  ASSUME IndInv, NEW i \in Queues, Dequeue(i)
  PROVE  IndInv'
<1>1. /\ Chosen(i) /\ rrlast' = LastServed(i) /\ skipped' = SkippedAfter(i)
      /\ queues' = [queues EXCEPT ![i] = Tail(@)]
      /\ unsent' = [unsent EXCEPT ![i] = Smaller(@, Len(queues'[i]))]
      /\ UNCHANGED <<mode, fcount, sendingBuffer, refused>>
  BY DEF Dequeue
<1>2. /\ Typed /\ queues \in [Queues -> Seq(Sizes)] /\ skipped \in [Queues -> Nat]
      /\ sendingBuffer \in [Queues -> Seq(Sizes)] /\ unsent \in [Queues -> Nat]
      /\ refused \subseteq Queues
  BY DEF IndInv, Typed
<1>3. queues[i] # <<>>
  <2>1. CASE i = Control /\ queues[i] # <<>> BY <2>1
  <2>2. CASE i \in Unsatisfied BY <2>2 DEF Unsatisfied, Servable
  <2>3. CASE RoundRobin(i) BY <2>3 DEF RoundRobin, Servable
  <2> QED BY <1>1, <2>1, <2>2, <2>3 DEF Chosen
<1>4. queues' \in [Queues -> Seq(Sizes)] /\ unsent' \in [Queues -> Nat]
  <2>1. Tail(queues[i]) \in Seq(Sizes) BY <1>2, <1>3
  <2>2. queues' \in [Queues -> Seq(Sizes)] BY <1>1, <1>2, <2>1
  <2>3. Len(queues'[i]) \in Nat BY <2>2
  <2>4. Smaller(unsent[i], Len(queues'[i])) \in Nat BY <1>2, <2>3 DEF Smaller
  <2> QED BY <1>1, <1>2, <2>2, <2>4
<1>5. skipped' \in [Queues -> Nat]
  BY <1>1, <1>2 DEF SkippedAfter
<1>6. Typed' /\ OthersEmpty' /\ TurnsComing'
  <2>1. InTurn' = InTurn BY <1>1 DEF InTurn
  <2>2. CASE mode = "RR"
    BY <1>1, <1>2, <1>4, <1>5, <2>2 DEF Typed, OthersEmpty, TurnsComing
  <2>3. CASE mode # "RR" /\ i = Control
    <3>1. skipped' = skipped /\ rrlast' = rrlast
      BY <1>1, <2>3 DEF SkippedAfter, LastServed
    <3>2. i < InTurn BY <1>2, <2>3, Places
    <3>3. Typed' BY <1>1, <1>2, <1>4, <2>1, <3>1 DEF Typed
    <3>4. OthersEmpty'
      <4> SUFFICES ASSUME NEW j \in Queues, j >= InTurn
                   PROVE  queues'[j] = <<>> /\ skipped'[j] = 0
        BY <2>1 DEF OthersEmpty
      <4>1. j # i BY <1>2, <2>3, <3>2, Places
      <4> QED BY <1>1, <1>2, <2>3, <3>1, <4>1 DEF IndInv, OthersEmpty
    <3>5. TurnsComing' BY <1>1, <1>2, <3>1, SameTurns
    <3> QED BY <3>3, <3>4, <3>5
  <2>4. CASE mode # "RR" /\ i # Control
    <3>1. InRound(i) /\ rrlast' = i /\ TurnsComing' BY <2>4, ServeTurns
    <3>2. i < InTurn /\ i \in Nat /\ InTurn \in Nat
      BY <1>2, <3>1, Places DEF InRound
    <3>3. rrlast' \in 0 .. InTurn' - 1 BY <2>1, <3>1, <3>2
    <3>4. Typed' BY <1>1, <1>2, <1>4, <1>5, <3>3 DEF Typed
    <3>5. OthersEmpty'
      <4> SUFFICES ASSUME NEW j \in Queues, j >= InTurn
                   PROVE  queues'[j] = <<>> /\ skipped'[j] = 0
        BY <2>1 DEF OthersEmpty
      <4>1. j # i /\ j \in Nat BY <1>2, <3>2, Places
      <4>2. queues[j] = <<>> BY <2>4 DEF IndInv, OthersEmpty
      <4>3. ~Servable(j) BY <4>2 DEF Servable
      <4>4. skipped'[j] = 0 BY <1>1, <2>4, <4>3 DEF SkippedAfter, Waits
      <4> QED BY <1>1, <1>2, <4>1, <4>2, <4>4
    <3> QED BY <3>1, <3>4, <3>5
  <2> QED BY <2>2, <2>3, <2>4
<1>7. QueueMatchesBuffer'
  <2>1. ASSUME mode = "QCN", i # 0 PROVE Matches(i)'
    <3>1. i \in 1 .. FCnt - 1 BY <2>1, QueueAssumption DEF Queues
    <3>2. Matches(i) BY <2>1, <3>1 DEF IndInv, QueueMatchesBuffer
    <3>3. /\ queues[i] \in Seq(Sizes) /\ sendingBuffer[i] \in Seq(Sizes)
          /\ queues'[i] = Tail(queues[i]) /\ queues'[i] \in Seq(Sizes)
          /\ EndOf(queues'[i], queues[i])
      BY <1>1, <1>2, <1>3, TailIsEnd
    <3>4. /\ unsent[i] \in Nat /\ Len(queues'[i]) \in Nat
          /\ Len(sendingBuffer[i]) \in Nat
      BY <1>2, <3>3
    <3>5. /\ unsent'[i] = Smaller(unsent[i], Len(queues'[i]))
          /\ sendingBuffer'[i] = sendingBuffer[i]
      BY <1>1, <1>2
    <3>6. unsent'[i] <= unsent[i] /\ unsent'[i] <= Len(queues'[i])
      BY <3>4, <3>5 DEF Smaller
    <3>7. unsent'[i] \in Nat BY <3>4, <3>5 DEF Smaller
    <3>8. unsent'[i] <= Len(sendingBuffer'[i])
      <4>1. unsent[i] <= Len(sendingBuffer[i]) BY <3>2 DEF Matches
      <4> QED BY <3>4, <3>5, <3>6, <3>7, <4>1
    <3>9. ASSUME i \notin refused PROVE EndAlike(queues'[i], sendingBuffer'[i])
      <4>1. EndAlike(queues[i], sendingBuffer[i]) BY <3>2, <3>9 DEF Matches
      <4> QED BY <3>3, <3>5, <4>1, EndAlikeEnd
    <3> QED BY <1>1, <3>6, <3>8, <3>9 DEF Matches
  <2>2. \A j \in Queues \ {i} :
          /\ UNCHANGED <<queues[j], sendingBuffer[j], unsent[j]>>
          /\ j \in refused' <=> j \in refused
    BY <1>1, <1>2
  <2> QED BY <1>1, <2>1, <2>2, MatchesOne DEF IndInv
<1> QED BY <1>6, <1>7 DEF IndInv

\* Steps that neither move the turn nor change a queue.
LEMMA StillInv ==
  ASSUME IndInv, UNCHANGED <<mode, queues, keptVars, fcount, rrlast>>,
         skipped' \in [Queues -> Nat],
         \A j \in Queues : skipped'[j] = skipped[j] \/ skipped'[j] = 0
  PROVE  IndInv'
<1>1. Typed' BY DEF IndInv, Typed, InTurn, keptVars
<1>2. OthersEmpty' BY DEF IndInv, OthersEmpty, InTurn
<1>3. TurnsComing' BY SameTurns
<1>4. QueueMatchesBuffer'
  BY DEF IndInv, QueueMatchesBuffer, Matches, keptVars
<1> QED BY <1>1, <1>2, <1>3, <1>4 DEF IndInv

\* A queue that is held starts to count anew.
LEMMA HoldInv ==
  ASSUME IndInv, NEW i \in Queues, Hold(i)
  PROVE  IndInv'
<1>1. /\ skipped' = [skipped EXCEPT ![i] = 0]
      /\ UNCHANGED <<mode, queues, keptVars, fcount, rrlast>>
  BY DEF Hold, queueVars, nicVars
<1>2. skipped \in [Queues -> Nat] BY DEF IndInv, Typed
<1>3. skipped' \in [Queues -> Nat] BY <1>1, <1>2
<1>4. \A j \in Queues : skipped'[j] = skipped[j] \/ skipped'[j] = 0 BY <1>1, <1>2
<1> QED BY <1>1, <1>3, <1>4, StillInv

\* The oldest packets leave the sending buffer.
LEMMA AcknowledgeInv ==
  ASSUME IndInv, NEW i \in Queues, NEW n \in Nat, Acknowledge(i, n)
  PROVE  IndInv'
<1>1. /\ mode = "QCN" /\ n <= Len(sendingBuffer[i]) - unsent[i]
      /\ sendingBuffer' = [sendingBuffer EXCEPT ![i] = Without(@, n)]
      /\ UNCHANGED <<mode, queues, fcount, rrlast, skipped, unsent, refused>>
  BY DEF Acknowledge, queueVars, turnVars
<1>2. /\ Typed /\ queues \in [Queues -> Seq(Sizes)]
      /\ sendingBuffer \in [Queues -> Seq(Sizes)] /\ unsent \in [Queues -> Nat]
  BY DEF IndInv, Typed
<1>3. /\ sendingBuffer[i] \in Seq(Sizes) /\ unsent[i] \in Nat
      /\ Len(sendingBuffer[i]) \in Nat
  BY <1>2
<1>4. n \in 0 .. Len(sendingBuffer[i]) BY <1>1, <1>3
<1>5. /\ sendingBuffer'[i] = Without(sendingBuffer[i], n)
      /\ sendingBuffer'[i] \in Seq(Sizes)
      /\ Len(sendingBuffer'[i]) = Len(sendingBuffer[i]) - n
      /\ EndOf(sendingBuffer'[i], sendingBuffer[i])
  BY <1>1, <1>2, <1>3, <1>4, WithoutIsEnd
<1>6. sendingBuffer' \in [Queues -> Seq(Sizes)] BY <1>1, <1>2, <1>5
<1>7. Typed' BY <1>1, <1>2, <1>6 DEF Typed, InTurn
<1>8. OthersEmpty' BY <1>1 DEF IndInv, OthersEmpty, InTurn
<1>9. TurnsComing' BY <1>1, <1>2, SameTurns DEF Typed
<1>10. ASSUME i # 0 PROVE Matches(i)'
  <2>1. i \in 1 .. FCnt - 1 BY <1>10, QueueAssumption DEF Queues
  <2>2. Matches(i) BY <1>1, <2>1 DEF IndInv, QueueMatchesBuffer
  <2>3. unsent[i] <= Len(sendingBuffer'[i]) BY <1>1, <1>3, <1>5
  <2>4. ASSUME i \notin refused PROVE EndAlike(queues[i], sendingBuffer'[i])
    <3>1. queues[i] \in Seq(Sizes) BY <1>2
    <3>2. EndAlike(sendingBuffer[i], queues[i])
      BY <1>3, <2>2, <2>4, <3>1, EndAlikeTurned DEF Matches
    <3>3. EndAlike(sendingBuffer'[i], queues[i])
      BY <1>3, <1>5, <3>1, <3>2, EndAlikeEnd
    <3> QED BY <1>5, <3>1, <3>3, EndAlikeTurned
  <2> QED BY <1>1, <2>2, <2>3, <2>4 DEF Matches
<1>11. \A j \in Queues \ {i} :
         /\ UNCHANGED <<queues[j], sendingBuffer[j], unsent[j]>>
         /\ j \in refused' <=> j \in refused
  BY <1>1, <1>2
<1>12. QueueMatchesBuffer' BY <1>1, <1>10, <1>11, MatchesOne DEF IndInv
<1> QED BY <1>7, <1>8, <1>9, <1>12 DEF IndInv

\* What a go-back leaves of the sending buffer.
LEMMA GoesBackTo ==
  ASSUME NEW i \in Queues, NEW n \in Nat, GoesBack(i, n),
         sendingBuffer \in [Queues -> Seq(Sizes)], unsent \in [Queues -> Nat],
         unsent[i] <= Len(sendingBuffer[i])
  PROVE  /\ sendingBuffer' \in [Queues -> Seq(Sizes)]
         /\ unsent[i] <= Len(sendingBuffer'[i])
<1>1. /\ sendingBuffer' = [sendingBuffer EXCEPT ![i] = Without(@, n)]
      /\ n > 0 => n <= Len(sendingBuffer[i]) - unsent[i]
  BY DEF GoesBack
<1>2. /\ sendingBuffer[i] \in Seq(Sizes) /\ unsent[i] \in Nat
      /\ Len(sendingBuffer[i]) \in Nat
  OBVIOUS
<1>3. n \in 0 .. Len(sendingBuffer[i]) /\ n <= Len(sendingBuffer[i]) - unsent[i]
  BY <1>1, <1>2
<1>4. /\ Without(sendingBuffer[i], n) \in Seq(Sizes)
      /\ Len(Without(sendingBuffer[i], n)) = Len(sendingBuffer[i]) - n
  BY <1>2, <1>3, WithoutIsEnd
<1>5. sendingBuffer'[i] = Without(sendingBuffer[i], n) BY <1>1
<1>6. sendingBuffer' \in [Queues -> Seq(Sizes)] BY <1>1, <1>4
<1> QED BY <1>2, <1>3, <1>4, <1>5, <1>6

\* The queue of a flow is filled from the sending buffer.
LEMMA RecoverInv ==
  ASSUME IndInv, NEW i \in Queues, NEW n \in Nat, RecoverQueue(i, n)
  PROVE  IndInv'
<1>1. /\ mode = "QCN" /\ i \in 1 .. fcount - 1 /\ GoesBack(i, n)
      /\ queues' = [queues EXCEPT ![i] = sendingBuffer'[i]]
      /\ sendingBuffer' = [sendingBuffer EXCEPT ![i] = Without(@, n)]
      /\ refused' = refused \ {i}
      /\ UNCHANGED <<mode, fcount, rrlast, skipped, unsent>>
  BY DEF RecoverQueue, GoesBack, turnVars
<1>2. /\ Typed /\ queues \in [Queues -> Seq(Sizes)]
      /\ sendingBuffer \in [Queues -> Seq(Sizes)] /\ fcount \in Nat
      /\ unsent \in [Queues -> Nat] /\ refused \subseteq Queues
      /\ InTurn = fcount /\ Queues \subseteq Nat
  BY <1>1, Places DEF IndInv, Typed
<1>3. Matches(i)
  <2>1. i \in 1 .. FCnt - 1 BY <1>1, QueueAssumption DEF Queues
  <2> QED BY <1>1, <2>1 DEF IndInv, QueueMatchesBuffer
<1>4. /\ sendingBuffer' \in [Queues -> Seq(Sizes)]
      /\ unsent[i] <= Len(sendingBuffer'[i])
  BY <1>1, <1>2, <1>3, GoesBackTo DEF Matches
<1>5. queues' \in [Queues -> Seq(Sizes)] /\ queues'[i] = sendingBuffer'[i]
  BY <1>1, <1>2, <1>4
<1>6. Typed' BY <1>1, <1>2, <1>4, <1>5 DEF Typed, InTurn
<1>7. OthersEmpty'
  <2> SUFFICES ASSUME NEW j \in Queues, j >= fcount
               PROVE  queues'[j] = <<>> /\ skipped'[j] = 0
    BY <1>1, <1>2 DEF OthersEmpty, InTurn
  <2>1. j # i BY <1>1, <1>2
  <2> QED BY <1>1, <1>2, <2>1 DEF IndInv, OthersEmpty
<1>8. TurnsComing' BY <1>1, <1>2, SameTurns DEF Typed
<1>9. Matches(i)' BY <1>1, <1>4, <1>5, EndAlikeSame DEF Matches
<1>10. \A j \in Queues \ {i} :
         /\ UNCHANGED <<queues[j], sendingBuffer[j], unsent[j]>>
         /\ j \in refused' <=> j \in refused
  BY <1>1, <1>2
<1>11. QueueMatchesBuffer' BY <1>1, <1>9, <1>10, MatchesOne DEF IndInv
<1> QED BY <1>6, <1>7, <1>8, <1>11 DEF IndInv

\* Every step keeps the invariant.
LEMMA StepInv == IndInv /\ [Next]_vars => IndInv'
<1> SUFFICES ASSUME IndInv, [Next]_vars PROVE IndInv' OBVIOUS
<1>0. skipped \in [Queues -> Nat] BY DEF IndInv, Typed
<1>1. ASSUME NEW i \in Queues, NEW size \in Sizes, Enqueue(i, size) PROVE IndInv'
  BY <1>1, EnqueueInv
<1>2. ASSUME NEW i \in Queues, Dequeue(i) PROVE IndInv' BY <1>2, DequeueInv
<1>3. ASSUME NEW i \in Queues, Hold(i) PROVE IndInv' BY <1>3, HoldInv
<1>4. ASSUME NEW i \in Queues, Release(i) PROVE IndInv'
  <2>1. UNCHANGED <<mode, queues, keptVars, fcount, rrlast, skipped>>
    BY <1>4 DEF Release, queueVars, turnVars, nicVars
  <2> QED BY <1>0, <2>1, StillInv
<1>5. ASSUME NEW i \in Queues, NEW n \in 1 .. MaxKept, Acknowledge(i, n)
      PROVE  IndInv'
  BY <1>5, AcknowledgeInv
<1>6. ASSUME NEW i \in Queues, NEW n \in 0 .. MaxKept, RecoverQueue(i, n)
      PROVE  IndInv'
  BY <1>6, RecoverInv
<1>7. CASE Tick
  <2>1. UNCHANGED <<mode, queues, keptVars, fcount, rrlast, skipped>>
    BY <1>7 DEF Tick, queueVars, nicVars
  <2> QED BY <1>0, <2>1, StillInv
<1>8. CASE UNCHANGED vars
  <2>1. UNCHANGED <<mode, queues, keptVars, fcount, rrlast, skipped>>
    BY <1>8 DEF vars, queueVars, turnVars, nicVars
  <2> QED BY <1>0, <2>1, StillInv
<1> QED BY <1>1, <1>2, <1>3, <1>4, <1>5, <1>6, <1>7, <1>8 DEF Next

\* The invariant holds of every behaviour.
LEMMA Invariance == Spec => []IndInv
BY InitInv, StepInv, PTL DEF Spec

---------------------------------------------------------------------------
\* On a NIC with any number of flows or priorities, a queue that may be served
\* lets each other one pass at most once (broadcom-egress-queue.cc:125-158,
\* 223-269).
THEOREM TurnsAreServed == Spec => []ServedInTurn
<1>1. IndInv => ServedInTurn
  <2> SUFFICES ASSUME IndInv PROVE ServedInTurn OBVIOUS
  <2>1. Typed /\ skipped \in [Queues -> Nat] BY DEF IndInv, Typed
  <2>2. ASSUME mode = "QCN", NEW j \in 1 .. fcount - 1
        PROVE  skipped[j] <= InTurn - 2
    <3>1. j \in Queues /\ InRound(j)
      BY <2>1, <2>2, Places DEF Queues, InRound
    <3>2. /\ skipped[j] + Distance(j) <= Round /\ Distance(j) \in 1 .. Round
          /\ skipped[j] \in Nat
      BY <2>1, <2>2, <3>1, DistanceBounds DEF IndInv, TurnsComing
    <3>3. InTurn = Round + 1 /\ Round \in Int BY <2>1, <2>2, Places
    <3> QED BY <3>2, <3>3
  <2>3. ASSUME mode = "NIC", NEW j \in Queues
        PROVE  skipped[j] <= InTurn - 1
    <3>1. CASE j < InTurn
      <4>1. InRound(j) BY <2>1, <2>3, <3>1, Places DEF InRound
      <4>2. /\ skipped[j] + Distance(j) <= Round /\ Distance(j) \in 1 .. Round
            /\ skipped[j] \in Nat
        BY <2>1, <2>3, <4>1, DistanceBounds DEF IndInv, TurnsComing
      <4>3. InTurn = Round /\ Round \in Int BY <2>1, <2>3, Places
      <4> QED BY <4>2, <4>3
    <3>2. CASE ~(j < InTurn)
      <4>1. j \in Nat /\ InTurn \in Nat /\ InTurn >= 2 BY <2>1, <2>3, Places
      <4>2. skipped[j] = 0 BY <2>3, <3>2, <4>1 DEF IndInv, OthersEmpty
      <4> QED BY <4>1, <4>2
    <3> QED BY <3>1, <3>2
  <2> QED BY <2>2, <2>3 DEF ServedInTurn
<1> QED BY <1>1, Invariance, PTL

\* For any packets, buffers and answers, the queue of a flow and its sending
\* buffer end alike and hold what was never sent, but for packets refused since
\* the last go-back: going back reorders nothing and skips only packets that were
\* sent or that a full buffer has lost
\* (broadcom-egress-queue.cc:74-83, 461-486, qbb-net-device.cc:1033-1041).
THEOREM GoBackKeepsOrder == Spec => []QueueMatchesBuffer
<1>1. IndInv => QueueMatchesBuffer BY DEF IndInv
<1> QED BY <1>1, Invariance, PTL

---------------------------------------------------------------------------
(* The counts.                                                             *)

\* A count that changes by as much as one of its terms stays the sum.
LEMMA SumOfChanged ==
  ASSUME NEW f \in [Queues -> Nat], NEW i \in Queues, NEW v \in Nat
  PROVE  /\ SumOf(f) \in Nat
         /\ SumOf([f EXCEPT ![i] = v]) = SumOf(f) + (v - f[i])
<1> DEFINE g == [f EXCEPT ![i] = v]
<1>1. IsFiniteSet(Queues) BY QueueAssumption, FS_Interval DEF Queues
<1>2. DOMAIN f = Queues /\ DOMAIN g = Queues /\ g[i] = v OBVIOUS
<1>3. \A j \in Queues : f[j] \in Nat /\ f[j] \in Int OBVIOUS
<1>4. \A j \in Queues : j # i => g[j] = f[j] OBVIOUS
<1>5. g[i] \in Int BY <1>2
<1> HIDE DEF g
<1>6. SumFunctionOnSet(f, Queues) \in Nat BY <1>1, <1>3, SumNat
<1>7. SumFunctionOnSet(g, Queues) = SumFunctionOnSet(f, Queues) + (g[i] - f[i])
  BY <1>1, <1>3, <1>4, <1>5, SumChange
<1> QED BY <1>2, <1>6, <1>7 DEF SumOf, SumFunction, g

\* All queues begin with nothing to count.
LEMMA SumOfZeros == SumOf([i \in Queues |-> 0]) = 0
<1> DEFINE f == [i \in Queues |-> 0]
<1>1. IsFiniteSet(Queues) BY QueueAssumption, FS_Interval DEF Queues
<1>2. DOMAIN f = Queues /\ \A i \in Queues : f[i] = 0 OBVIOUS
<1> HIDE DEF f
<1>3. SumFunctionOnSet(f, Queues) = 0 BY <1>1, <1>2, SumZero
<1> QED BY <1>2, <1>3 DEF SumOf, SumFunction, f

\* A queue is a sequence of numbers.
LEMMA SizesAreNumbers ==
  ASSUME NEW q \in Seq(Sizes)
  PROVE  q \in Seq(Nat)
<1>1. Len(q) \in Nat /\ \A k \in 1 .. Len(q) : q[k] \in Sizes OBVIOUS
<1>2. \A k \in 1 .. Len(q) : q[k] \in Nat BY <1>1, QueueAssumption
<1>3. q = [k \in 1 .. Len(q) |-> q[k]] OBVIOUS
<1> QED BY <1>1, <1>2, <1>3

\* Packets in each queue.
Lengths == [i \in Queues |-> Len(queues[i])]

\* The counts, when queue i changes and its count with it.
LEMMA CountChange ==
  ASSUME BytesMatch, NEW i \in Queues, NEW q \in Seq(Sizes),
         queues' = [queues EXCEPT ![i] = q],
         bytesInQueue' = [bytesInQueue EXCEPT ![i] = SumOf(q)],
         bytesInQueueTotal' = bytesInQueueTotal + (SumOf(q) - bytesInQueue[i])
  PROVE  /\ queues' \in [Queues -> Seq(Sizes)]
         /\ bytesInQueue' \in [Queues -> Nat] /\ bytesInQueueTotal' \in Nat
         /\ \A j \in Queues : bytesInQueue'[j] = SumOf(queues'[j])
         /\ bytesInQueueTotal' = SumOf(bytesInQueue')
         /\ SumOf(Lengths') = SumOf(Lengths) + (Len(q) - Len(queues[i]))
<1>1. /\ queues \in [Queues -> Seq(Sizes)] /\ bytesInQueue \in [Queues -> Nat]
      /\ \A j \in Queues : bytesInQueue[j] = SumOf(queues[j])
      /\ bytesInQueueTotal = SumOf(bytesInQueue)
  BY DEF BytesMatch, TypeOK
<1>2. SumOf(q) \in Nat
  <2>1. q \in Seq(Nat) BY SizesAreNumbers
  <2> QED BY <2>1, SumSeqType DEF SumOf
<1>3. queues' \in [Queues -> Seq(Sizes)] BY <1>1
<1>4. bytesInQueue' \in [Queues -> Nat] BY <1>1, <1>2
<1>5. \A j \in Queues : bytesInQueue'[j] = SumOf(queues'[j]) BY <1>1
<1>6. /\ SumOf(bytesInQueue') = SumOf(bytesInQueue) + (SumOf(q) - bytesInQueue[i])
      /\ SumOf(bytesInQueue) \in Nat
  BY <1>1, <1>2, SumOfChanged
<1>7. bytesInQueueTotal' = SumOf(bytesInQueue') BY <1>1, <1>6
<1>8. SumOf(bytesInQueue') \in Nat BY <1>4, SumOfChanged
<1>9. SumOf(Lengths') = SumOf(Lengths) + (Len(q) - Len(queues[i]))
  <2>1. Lengths \in [Queues -> Nat] /\ Lengths[i] = Len(queues[i])
    BY <1>1 DEF Lengths
  <2>2. Lengths' = [Lengths EXCEPT ![i] = Len(q)]
    BY <1>1 DEF Lengths
  <2>3. Len(q) \in Nat OBVIOUS
  <2> QED BY <2>1, <2>2, <2>3, SumOfChanged
<1> QED BY <1>3, <1>4, <1>5, <1>7, <1>8, <1>9

\* The counts begin at zero.
LEMMA InitBytes == Init => BytesMatch
<1> SUFFICES ASSUME Init PROVE BytesMatch OBVIOUS
<1>1. /\ mode \in Modes /\ queues = [i \in Queues |-> <<>>]
      /\ bytesInQueue = [i \in Queues |-> 0] /\ bytesInQueueTotal = 0
      /\ nPackets = 0 /\ fcount = 1 /\ rrlast = 0 /\ held = {}
      /\ owed = [i \in Queues |-> 0] /\ wire = 0
      /\ sendingBuffer = [i \in Queues |-> <<>>] /\ recovers = 0
      /\ skipped = [i \in Queues |-> 0]
      /\ unsent = [i \in Queues |-> 0] /\ refused = {}
  BY DEF Init
<1>2. TypeOK
  <2>1. fcount \in 1 .. FCnt /\ rrlast \in Queues /\ recovers \in 0 .. MaxRecovers
    BY <1>1, QueueAssumption DEF Queues
  <2>2. queues \in [Queues -> Seq(Sizes)] /\ sendingBuffer \in [Queues -> Seq(Sizes)]
    BY <1>1
  <2> QED BY <1>1, <2>1, <2>2 DEF TypeOK
<1>3. \A i \in Queues : bytesInQueue[i] = SumOf(queues[i])
  BY <1>1, SumOfEmpty DEF SumOf
<1>4. bytesInQueueTotal = SumOf(bytesInQueue) BY <1>1, SumOfZeros
<1>5. nPackets = SumOf(Lengths)
  <2>1. Lengths = [i \in Queues |-> 0] BY <1>1 DEF Lengths
  <2> QED BY <1>1, <2>1, SumOfZeros
<1> QED BY <1>2, <1>3, <1>4, <1>5 DEF BytesMatch, Lengths

\* A packet that enters is counted in its queue, in all queues and as a packet.
LEMMA EnqueueBytes ==
  ASSUME IndInv, BytesMatch, NEW i \in Queues, NEW size \in Sizes, Enqueue(i, size),
         bytesInQueueTotal + size < MaxBytes
  PROVE  BytesMatch'
<1> DEFINE q == Append(queues[i], size)
<1>1. /\ queues' = [queues EXCEPT ![i] = q]
      /\ bytesInQueue' = [bytesInQueue EXCEPT ![i] = @ + size]
      /\ bytesInQueueTotal' = bytesInQueueTotal + size /\ nPackets' = nPackets + 1
      /\ UNCHANGED <<mode, held, rrlast, owed, wire, skipped, recovers>>
  BY DEF Enqueue, turnVars
<1>2. TypeOK /\ bytesInQueue[i] = SumOf(queues[i]) BY DEF BytesMatch
<1>3. /\ queues[i] \in Seq(Sizes) /\ bytesInQueue \in [Queues -> Nat]
      /\ bytesInQueueTotal \in Nat /\ nPackets \in Int /\ size \in Nat
  BY <1>2, QueueAssumption DEF TypeOK
<1>4. q \in Seq(Sizes) /\ Len(q) = Len(queues[i]) + 1 BY <1>3
<1>5. SumOf(q) = bytesInQueue[i] + size
  <2>1. queues[i] \in Seq(Nat) BY <1>3, SizesAreNumbers
  <2> QED BY <1>2, <1>3, <2>1, SumAppend DEF SumOf
<1>6. /\ fcount' \in 1 .. FCnt /\ sendingBuffer' \in [Queues -> Seq(Sizes)]
      /\ unsent' \in [Queues -> Nat] /\ refused' \subseteq Queues
  <2>1. IndInv' BY EnqueueInv
  <2> QED BY <2>1 DEF IndInv, Typed
<1> HIDE DEF q
<1>7. bytesInQueue' = [bytesInQueue EXCEPT ![i] = SumOf(q)] BY <1>1, <1>5
<1>8. bytesInQueueTotal' = bytesInQueueTotal + (SumOf(q) - bytesInQueue[i])
  BY <1>1, <1>3, <1>5
<1>9. /\ queues' \in [Queues -> Seq(Sizes)]
      /\ bytesInQueue' \in [Queues -> Nat] /\ bytesInQueueTotal' \in Nat
       /\ \A j \in Queues : bytesInQueue'[j] = SumOf(queues'[j])
       /\ bytesInQueueTotal' = SumOf(bytesInQueue')
       /\ SumOf(Lengths') = SumOf(Lengths) + (Len(q) - Len(queues[i]))
  BY <1>1, <1>4, <1>7, <1>8, CountChange
<1>10. recovers' = 0 => nPackets' = SumOf(Lengths')
  <2>1. recovers = 0 => nPackets = SumOf(Lengths) BY DEF BytesMatch, Lengths
  <2>2. Len(q) - Len(queues[i]) = 1 BY <1>3, <1>4
  <2> QED BY <1>1, <1>9, <2>1, <2>2
<1>11. TypeOK'
  <2>1. UNCHANGED <<mode, held, rrlast, owed, wire, skipped, recovers>> BY <1>1
  <2>2. nPackets' \in Int BY <1>1, <1>3
  <2> QED BY <1>2, <1>6, <1>9, <2>1, <2>2 DEF TypeOK
<1> QED BY <1>9, <1>10, <1>11 DEF BytesMatch, Lengths

\* The queue that is chosen holds a packet.
LEMMA ChosenHolds ==
  ASSUME NEW i, Chosen(i)
  PROVE  queues[i] # <<>>
<1>1. CASE i = Control /\ queues[i] # <<>> BY <1>1
<1>2. CASE i \in Unsatisfied BY <1>2 DEF Unsatisfied, Servable
<1>3. CASE RoundRobin(i) BY <1>3 DEF RoundRobin, Servable
<1> QED BY <1>1, <1>2, <1>3 DEF Chosen

\* A packet that leaves is taken off all three.
LEMMA DequeueBytes ==
  ASSUME IndInv, BytesMatch, NEW i \in Queues, Dequeue(i)
  PROVE  BytesMatch'
<1> DEFINE q == Tail(queues[i])
           size == Head(queues[i])
<1>1. /\ Chosen(i) /\ queues' = [queues EXCEPT ![i] = q]
      /\ bytesInQueue' = [bytesInQueue EXCEPT ![i] = @ - size]
      /\ bytesInQueueTotal' = bytesInQueueTotal - size /\ nPackets' = nPackets - 1
      /\ IF mode = "RR"
         THEN owed' = [owed EXCEPT ![i] = Satisfied(@, size)] /\ wire' = size
         ELSE UNCHANGED <<owed, wire>>
      /\ rrlast' = LastServed(i) /\ skipped' = SkippedAfter(i)
      /\ UNCHANGED <<mode, fcount, held, sendingBuffer, refused, recovers>>
  BY DEF Dequeue
<1>2. TypeOK /\ bytesInQueue[i] = SumOf(queues[i]) BY DEF BytesMatch
<1>3. /\ queues[i] \in Seq(Sizes) /\ queues[i] # <<>>
      /\ bytesInQueue \in [Queues -> Nat] /\ bytesInQueueTotal \in Nat
      /\ nPackets \in Int /\ owed \in [Queues -> Int] /\ wire \in Nat
      /\ skipped \in [Queues -> Nat] /\ rrlast \in Queues
  BY <1>1, <1>2, ChosenHolds DEF TypeOK
<1>4. /\ q \in Seq(Sizes) /\ Len(q) = Len(queues[i]) - 1 /\ Len(queues[i]) \in Nat
      /\ size \in Sizes
  BY <1>3
<1>5. SumOf(q) = bytesInQueue[i] - size
  <2>1. queues[i] \in Seq(Nat) BY <1>3, SizesAreNumbers
  <2>2. /\ size \in Nat /\ SumOf(q) \in Nat
        /\ SumOf(queues[i]) = size + SumOf(q)
    BY <1>3, <2>1, SumTail DEF SumOf
  <2> HIDE DEF q, size
  <2> QED BY <1>2, <2>2
<1> HIDE DEF q, size
<1>6. size \in Nat BY <1>4, QueueAssumption
<1>7. bytesInQueue' = [bytesInQueue EXCEPT ![i] = SumOf(q)] BY <1>1, <1>5
<1>8. bytesInQueueTotal' = bytesInQueueTotal + (SumOf(q) - bytesInQueue[i])
  <2>1. bytesInQueue[i] \in Nat BY <1>3
  <2> QED BY <1>1, <1>3, <1>5, <1>6, <2>1
<1>9. /\ queues' \in [Queues -> Seq(Sizes)]
      /\ bytesInQueue' \in [Queues -> Nat] /\ bytesInQueueTotal' \in Nat
      /\ \A j \in Queues : bytesInQueue'[j] = SumOf(queues'[j])
      /\ bytesInQueueTotal' = SumOf(bytesInQueue')
      /\ SumOf(Lengths') = SumOf(Lengths) + (Len(q) - Len(queues[i]))
  BY <1>1, <1>4, <1>7, <1>8, CountChange
<1>10. recovers' = 0 => nPackets' = SumOf(Lengths')
  <2>1. recovers = 0 => nPackets = SumOf(Lengths) BY DEF BytesMatch, Lengths
  <2>2. Len(q) - Len(queues[i]) = -1 BY <1>4
  <2> QED BY <1>1, <1>9, <2>1, <2>2, <1>3
<1>11. owed' \in [Queues -> Int] /\ wire' \in Nat
  <2>1. MinTx * size \in Int BY <1>6, QueueAssumption
  <2>2. Satisfied(owed[i], size) \in Int BY <1>3, <2>1 DEF Satisfied
  <2> QED BY <1>1, <1>3, <1>6, <2>2
<1>12. rrlast' \in Queues /\ skipped' \in [Queues -> Nat]
  BY <1>1, <1>3 DEF LastServed, SkippedAfter
<1>13. TypeOK'
  <2>1. UNCHANGED <<mode, fcount, held, sendingBuffer, refused, recovers>> BY <1>1
  <2>2. nPackets' \in Int BY <1>1, <1>3
  <2>3. IndInv' BY DequeueInv
  <2>4. unsent' \in [Queues -> Nat] BY <2>3 DEF IndInv, Typed
  <2> QED BY <1>2, <1>9, <1>11, <1>12, <2>1, <2>2, <2>4 DEF TypeOK
<1> QED BY <1>9, <1>10, <1>13 DEF BytesMatch, Lengths

\* A go-back counts the bytes of its queue anew.
LEMMA RecoverBytes ==
  ASSUME IndInv, BytesMatch, NEW i \in Queues, NEW n \in Nat, RecoverQueue(i, n)
  PROVE  BytesMatch'
<1> DEFINE q == sendingBuffer'[i]
<1>1. /\ queues' = [queues EXCEPT ![i] = q]
      /\ bytesInQueue' = [bytesInQueue EXCEPT ![i] = SumOf(q)]
      /\ bytesInQueueTotal' = bytesInQueueTotal - bytesInQueue[i] + SumOf(q)
      /\ recovers < MaxRecovers /\ recovers' = recovers + 1
      /\ UNCHANGED <<mode, nPackets, fcount, held, rrlast, owed, wire, skipped,
                     unsent>>
  BY DEF RecoverQueue, GoesBack, turnVars
<1>2. TypeOK BY DEF BytesMatch
<1>0. sendingBuffer' \in [Queues -> Seq(Sizes)] /\ refused' \subseteq Queues
  <2>1. IndInv' BY RecoverInv
  <2> QED BY <2>1 DEF IndInv, Typed
<1>3. /\ q \in Seq(Sizes) /\ bytesInQueue[i] \in Nat /\ bytesInQueueTotal \in Nat
      /\ recovers \in 0 .. MaxRecovers
  BY <1>0, <1>2 DEF TypeOK
<1> HIDE DEF q
<1>4. SumOf(q) \in Nat
  <2>1. q \in Seq(Nat) BY <1>3, SizesAreNumbers
  <2> QED BY <2>1, SumSeqType DEF SumOf
<1>5. bytesInQueueTotal' = bytesInQueueTotal + (SumOf(q) - bytesInQueue[i])
  BY <1>1, <1>3, <1>4
<1>6. /\ queues' \in [Queues -> Seq(Sizes)]
      /\ bytesInQueue' \in [Queues -> Nat] /\ bytesInQueueTotal' \in Nat
      /\ \A j \in Queues : bytesInQueue'[j] = SumOf(queues'[j])
      /\ bytesInQueueTotal' = SumOf(bytesInQueue')
  BY <1>1, <1>3, <1>5, CountChange
<1>7. recovers' \in 0 .. MaxRecovers /\ recovers' # 0
  BY <1>1, <1>3, QueueAssumption
<1>8. TypeOK' BY <1>0, <1>1, <1>2, <1>6, <1>7 DEF TypeOK
<1> QED BY <1>6, <1>7, <1>8 DEF BytesMatch

\* The other steps leave the queues and their counts.
LEMMA StillBytes ==
  ASSUME BytesMatch, UNCHANGED <<queueVars, recovers>>, TypeOK'
  PROVE  BytesMatch'
BY DEF BytesMatch, queueVars

\* Every step keeps the counts.
LEMMA StepBytes == IndInv /\ BytesMatch /\ [Next]_vars => BytesMatch'
<1> SUFFICES ASSUME IndInv, BytesMatch, [Next]_vars PROVE BytesMatch' OBVIOUS
<1>0. TypeOK BY DEF BytesMatch
<1>1. ASSUME NEW i \in Queues, NEW size \in Sizes, Enqueue(i, size)
      PROVE  BytesMatch'
  <2>1. CASE bytesInQueueTotal + size < MaxBytes BY <1>1, <2>1, EnqueueBytes
  <2>2. CASE ~(bytesInQueueTotal + size < MaxBytes)
    <3>1. UNCHANGED <<queueVars, recovers>> BY <1>1, <2>2 DEF Enqueue
    <3>2. IndInv' BY <1>1, EnqueueInv
    <3>3. /\ fcount' \in 1 .. FCnt /\ sendingBuffer' \in [Queues -> Seq(Sizes)]
          /\ unsent' \in [Queues -> Nat] /\ refused' \subseteq Queues
      BY <3>2 DEF IndInv, Typed
    <3>4. UNCHANGED <<mode, held, rrlast, owed, wire, skipped>>
      BY <1>1 DEF Enqueue, turnVars
    <3>5. TypeOK' BY <1>0, <3>1, <3>3, <3>4 DEF TypeOK, queueVars
    <3> QED BY <3>1, <3>5, StillBytes
  <2> QED BY <2>1, <2>2
<1>2. ASSUME NEW i \in Queues, Dequeue(i) PROVE BytesMatch' BY <1>2, DequeueBytes
<1>3. ASSUME NEW i \in Queues, Hold(i) PROVE BytesMatch'
  <2>1. TypeOK' BY <1>0, <1>3 DEF Hold, TypeOK, queueVars, nicVars, keptVars
  <2>2. UNCHANGED <<queueVars, recovers>> BY <1>3 DEF Hold, nicVars
  <2> QED BY <2>1, <2>2, StillBytes
<1>4. ASSUME NEW i \in Queues, Release(i) PROVE BytesMatch'
  <2>1. TypeOK' BY <1>0, <1>4 DEF Release, TypeOK, queueVars, turnVars, nicVars, keptVars
  <2>2. UNCHANGED <<queueVars, recovers>> BY <1>4 DEF Release, nicVars
  <2> QED BY <2>1, <2>2, StillBytes
<1>5. ASSUME NEW i \in Queues, NEW n \in 1 .. MaxKept, Acknowledge(i, n)
      PROVE  BytesMatch'
  <2>1. sendingBuffer' \in [Queues -> Seq(Sizes)]
    <3>1. IndInv' BY <1>5, AcknowledgeInv
    <3> QED BY <3>1 DEF IndInv, Typed
  <2>2. TypeOK' BY <1>0, <1>5, <2>1 DEF Acknowledge, TypeOK, queueVars, turnVars
  <2>3. UNCHANGED <<queueVars, recovers>> BY <1>5 DEF Acknowledge
  <2> QED BY <2>2, <2>3, StillBytes
<1>6. ASSUME NEW i \in Queues, NEW n \in 0 .. MaxKept, RecoverQueue(i, n)
      PROVE  BytesMatch'
  BY <1>6, RecoverBytes
<1>7. CASE Tick
  <2>1. Floor \in Int
    <3>1. MaxSize \in Sizes BY QueueAssumption DEF MaxSize
    <3>2. MaxSize \in Int BY <3>1, QueueAssumption
    <3>3. MinTx * MaxSize \in Int BY <3>2, QueueAssumption
    <3> QED BY <3>3 DEF Floor
  <2>2. owed' \in [Queues -> Int] /\ wire' \in Nat
    BY <1>0, <1>7, <2>1 DEF Tick, TypeOK
  <2>3. TypeOK' BY <1>0, <1>7, <2>2 DEF Tick, TypeOK, queueVars, nicVars, keptVars
  <2>4. UNCHANGED <<queueVars, recovers>> BY <1>7 DEF Tick, nicVars
  <2> QED BY <2>3, <2>4, StillBytes
<1>8. CASE UNCHANGED vars
  <2>1. TypeOK'
    BY <1>0, <1>8 DEF TypeOK, vars, queueVars, turnVars, nicVars, keptVars
  <2>2. UNCHANGED <<queueVars, recovers>> BY <1>8 DEF vars, nicVars
  <2> QED BY <2>1, <2>2, StillBytes
<1> QED BY <1>1, <1>2, <1>3, <1>4, <1>5, <1>6, <1>7, <1>8 DEF Next

\* For any number of queues, flows and packets, the bytes of each queue and of
\* all queues, and until the first go-back the number of packets, are those of
\* the packets that are queued (broadcom-egress-queue.cc:461-486).
THEOREM BytesAreCounted == Spec => []BytesMatch
<1>1. Init => IndInv /\ BytesMatch BY InitInv, InitBytes
<1>2. IndInv /\ BytesMatch /\ [Next]_vars => IndInv' /\ BytesMatch'
  BY StepInv, StepBytes
<1> QED BY <1>1, <1>2, PTL DEF Spec

---------------------------------------------------------------------------
(* The guarantees of a switch.                                             *)

\* What the largest packet takes of a guarantee.
Largest == MinTx * MaxSize

\* What a priority has used of its strict turn: all of it when it is satisfied
\* further ahead than the largest packet brings it.
Used(debt) == IF debt > Largest THEN 2 * Largest ELSE debt + Largest

PrioritiesAbove(i) == i + 1 .. QCnt - 2

UsedAbove(i) ==
  SumFunctionOnSet([j \in Queues |-> Used(owed[j])], PrioritiesAbove(i))

\* Each packet that passes i uses more of the turns above than time gives back
\* while it is sent; what it still gives back is on the wire.
Lags(i) ==
  /\ i <= QCnt - 2 /\ Servable(i) /\ owed[i] < 0
  /\ Above(i) < MinTx =>
       (MinTx - Above(i)) * skipped[i] + Above(i) * wire <= UsedAbove(i)

GuaranteeInv ==
  mode = "RR" =>
    /\ \A i \in Queues : owed[i] >= Floor
    /\ \A i \in Queues : i >= QCnt => queues[i] = <<>>
    /\ \A i \in Queues : skipped[i] > 0 => Lags(i)

\* Sizes and times are numbers.
LEMMA SizeFacts ==
  /\ MinTx \in Nat /\ MaxSize \in Nat /\ Largest \in Nat /\ Floor = -Largest
  /\ \A s \in Sizes : s \in Nat /\ s >= 1 /\ s <= MaxSize
  /\ \A s \in Sizes : MinTx * s \in Nat /\ MinTx * s <= Largest
<1>1. MaxSize \in Sizes /\ \A s \in Sizes : s <= MaxSize
  BY QueueAssumption DEF MaxSize
<1>2. /\ MinTx \in Nat /\ MaxSize \in Nat
      /\ \A s \in Sizes : s \in Nat /\ s >= 1 /\ s <= MaxSize
  BY <1>1, QueueAssumption
<1>3. \A a, b, c \in Nat : a * b \in Nat /\ (b <= c => a * b <= a * c) OBVIOUS
<1>4. Largest \in Nat BY <1>2, <1>3 DEF Largest
<1>5. \A s \in Sizes : MinTx * s \in Nat /\ MinTx * s <= Largest
  BY <1>2, <1>3 DEF Largest
<1> QED BY <1>2, <1>4, <1>5 DEF Floor, Largest

\* A turn is a number, at most two of the largest packets.
LEMMA UsedType ==
  ASSUME NEW debt \in Int, debt >= Floor
  PROVE  Used(debt) \in 0 .. 2 * Largest
<1> USE SizeFacts
<1> QED BY DEF Used

\* A packet of a priority below its guarantee uses its time at least.
LEMMA UsedBySatisfied ==
  ASSUME NEW debt \in Int, debt >= Floor, debt < 0, NEW size \in Sizes
  PROVE  /\ Satisfied(debt, size) \in Int /\ Satisfied(debt, size) >= Floor
         /\ Used(Satisfied(debt, size)) >= Used(debt) + MinTx * size
<1> DEFINE t == MinTx * size
<1>1. /\ t \in Nat /\ t <= Largest /\ Largest \in Nat /\ Floor = -Largest
  BY SizeFacts
<1>2. Satisfied(debt, size) = IF debt + t < 0 THEN 0 ELSE debt + t
  BY DEF Satisfied
<1> HIDE DEF t
<1> QED BY <1>1, <1>2 DEF Used, t

\* A unit of time gives back one at most.
LEMMA UsedByTime ==
  ASSUME NEW debt \in Int, debt >= Floor
  PROVE  LET later == IF debt > Floor THEN debt - 1 ELSE Floor IN
         /\ later \in Int /\ later >= Floor /\ later <= debt
         /\ Used(debt) <= Used(later) + 1
<1> USE SizeFacts
<1> QED BY DEF Used

\* The priorities above i.
LEMMA AboveFacts ==
  ASSUME NEW i \in Queues, i <= QCnt - 2
  PROVE  /\ Above(i) \in Nat
         /\ IsFiniteSet(PrioritiesAbove(i)) /\ PrioritiesAbove(i) \subseteq Queues
         /\ Cardinality(PrioritiesAbove(i)) = Above(i)
<1>1. /\ QCnt \in Nat /\ FCnt \in Nat /\ QCnt <= FCnt /\ i \in Nat
  BY QueueAssumption DEF Queues
<1>2. Above(i) \in Nat BY <1>1 DEF Above
<1>3. PrioritiesAbove(i) \subseteq Queues BY <1>1 DEF PrioritiesAbove, Queues
<1>4. i + 1 \in Int /\ QCnt - 2 \in Int BY <1>1
<1>5. /\ IsFiniteSet(PrioritiesAbove(i))
      /\ Cardinality(PrioritiesAbove(i))
           = IF i + 1 > QCnt - 2 THEN 0 ELSE (QCnt - 2) - (i + 1) + 1
  BY <1>4, FS_Interval DEF PrioritiesAbove
<1>6. Cardinality(PrioritiesAbove(i)) = Above(i) BY <1>1, <1>5 DEF Above
<1> QED BY <1>2, <1>3, <1>5, <1>6

\* The turns above i are bounded.
LEMMA UsedAboveBounds ==
  ASSUME NEW i \in Queues, i <= QCnt - 2,
         owed \in [Queues -> Int], \A j \in Queues : owed[j] >= Floor
  PROVE  UsedAbove(i) \in Nat /\ UsedAbove(i) <= Above(i) * (2 * Largest)
<1> DEFINE S == PrioritiesAbove(i)
           f == [j \in Queues |-> Used(owed[j])]
           z == [j \in Queues |-> 0]
<1>1. IsFiniteSet(S) /\ S \subseteq Queues /\ Cardinality(S) = Above(i)
  BY AboveFacts
<1>2. 2 * Largest \in Nat BY SizeFacts
<1>3. \A j \in S : f[j] \in Nat /\ f[j] <= 2 * Largest
  <2> TAKE j \in S
  <2>1. j \in Queues /\ owed[j] \in Int /\ owed[j] >= Floor BY <1>1
  <2>2. Used(owed[j]) \in 0 .. 2 * Largest BY <2>1, UsedType
  <2> QED BY <1>2, <2>1, <2>2
<1>4. \A j \in S : z[j] = 0 BY <1>1
<1> HIDE DEF S, f, z
<1>5. SumFunctionOnSet(f, S) \in Nat BY <1>1, <1>3, SumNat
<1>6. SumFunctionOnSet(z, S) = 0 BY <1>1, <1>4, SumZero
<1> DEFINE m == 2 * Largest
<1>7. m \in Nat /\ \A j \in S : f[j] \in Nat /\ z[j] \in Nat /\ f[j] <= z[j] + m
  BY <1>2, <1>3, <1>4
<1> HIDE DEF m
<1>8. SumFunctionOnSet(f, S) <= SumFunctionOnSet(z, S) + Cardinality(S) * m
  BY <1>1, <1>7, SumError
<1>9. Above(i) \in Nat /\ Above(i) * m \in Nat BY <1>7, AboveFacts
<1>10. SumFunctionOnSet(f, S) <= Above(i) * m BY <1>1, <1>6, <1>8, <1>9
<1> QED BY <1>5, <1>10 DEF UsedAbove, S, f, m

\* Of the priorities below their guarantee, one is the highest.
LEMMA HighestUnsatisfied ==
  ASSUME Unsatisfied # {}
  PROVE  \E i \in Unsatisfied : \A j \in Unsatisfied : j <= i
<1> DEFINE T == {Above(j) : j \in Unsatisfied}
<1>1. QCnt \in Nat /\ \A j \in Unsatisfied : j \in Nat /\ Above(j) \in Nat
  BY QueueAssumption DEF Unsatisfied, Above
<1>2. PICK m \in T : \A k \in T : m <= k BY <1>1, NatLeast
<1>3. PICK i \in Unsatisfied : m = Above(i) BY <1>2
<1>4. \A j \in Unsatisfied : Above(i) <= Above(j) BY <1>2, <1>3
<1> QED BY <1>1, <1>4 DEF Above

\* A queue that waits below its guarantee is one of the unsatisfied.
LEMMA LagsUnsatisfied ==
  ASSUME NEW i \in Queues, i <= QCnt - 2, Servable(i), owed[i] < 0
  PROVE  i \in Unsatisfied
BY QueueAssumption DEF Unsatisfied, Queues

\* A strict turn uses at least the time of its packet, of the turns above all
\* lower priorities.
LEMMA TurnUses ==
  ASSUME TypeOK, GuaranteeInv, mode = "RR", NEW i \in Queues, NEW size \in Sizes,
         owed[i] < 0, owed' = [owed EXCEPT ![i] = Satisfied(@, size)],
         NEW j \in Queues, j < i, i <= QCnt - 2
  PROVE  UsedAbove(j)' \in Int /\ UsedAbove(j)' >= UsedAbove(j) + MinTx * size
<1> DEFINE S == PrioritiesAbove(j)
           f == [k \in Queues |-> Used(owed[k])]
           g == [k \in Queues |-> Used(owed'[k])]
<1>1. /\ owed \in [Queues -> Int] /\ \A k \in Queues : owed[k] >= Floor
      /\ MinTx * size \in Nat
  BY SizeFacts DEF TypeOK, GuaranteeInv
<1>2. QCnt \in Nat /\ i \in Nat /\ j \in Nat BY QueueAssumption DEF Queues
<1>3. /\ IsFiniteSet(S) /\ S \subseteq Queues /\ i \in S
  BY <1>2, AboveFacts DEF PrioritiesAbove
<1>4. /\ Satisfied(owed[i], size) \in Int /\ Satisfied(owed[i], size) >= Floor
      /\ Used(Satisfied(owed[i], size)) >= Used(owed[i]) + MinTx * size
  BY <1>1, UsedBySatisfied
<1>5. \A k \in Queues : f[k] \in Int
  <2>1. \A k \in Queues : Used(owed[k]) \in 0 .. 2 * Largest BY <1>1, UsedType
  <2> QED BY <2>1, SizeFacts
<1>6. /\ f[i] = Used(owed[i]) /\ g[i] = Used(Satisfied(owed[i], size))
      /\ g[i] \in Int /\ \A k \in S : k # i => g[k] = f[k]
  <2>1. owed'[i] = Satisfied(owed[i], size) /\ \A k \in Queues : k # i => owed'[k] = owed[k]
    BY <1>1
  <2>2. Used(Satisfied(owed[i], size)) \in 0 .. 2 * Largest BY <1>4, UsedType
  <2> QED BY <1>3, <2>1, <2>2, SizeFacts
<1>7. UsedAbove(j) = SumFunctionOnSet(f, S) /\ UsedAbove(j)' = SumFunctionOnSet(g, S)
  BY DEF UsedAbove, PrioritiesAbove, Used, Largest
<1> HIDE DEF f, g, S
<1>8. \A k \in S : f[k] \in Int BY <1>3, <1>5
<1>9. SumFunctionOnSet(g, S) = SumFunctionOnSet(f, S) + (g[i] - f[i])
  BY <1>3, <1>6, <1>8, SumChange
<1>10. SumFunctionOnSet(f, S) \in Int BY <1>3, <1>8, SumTakeOut
<1>11. g[i] - f[i] >= MinTx * size BY <1>1, <1>4, <1>5, <1>6
<1>12. f[i] \in Int /\ g[i] \in Int BY <1>5, <1>6
<1> QED BY <1>1, <1>7, <1>9, <1>10, <1>11, <1>12

\* One packet more that has passed, and its time on the wire, for what a strict
\* turn has used.
LEMMA LagStep ==
  ASSUME NEW a \in Nat, NEW t \in Nat, a < t, NEW size \in Nat, size >= 1,
         NEW k \in Nat, NEW u \in Int, NEW v \in Int,
         (t - a) * k <= u, v >= u + t * size
  PROVE  (t - a) * (k + 1) + a * size <= v
<1> DEFINE d == t - a
<1>1. d \in Nat /\ d <= d * size
  <2>1. d \in Nat OBVIOUS
  <2>2. \A x, y \in Nat : y >= 1 => x <= x * y OBVIOUS
  <2> HIDE DEF d
  <2> QED BY <2>1, <2>2
<1>2. d * (k + 1) = d * k + d /\ d * k \in Int
  <2>1. d \in Nat OBVIOUS
  <2> HIDE DEF d
  <2> QED BY <2>1
<1>3. d * size + a * size = t * size OBVIOUS
<1>4. d * size \in Int /\ a * size \in Int /\ t * size \in Int OBVIOUS
<1>5. d * k <= u OBVIOUS
<1> HIDE DEF d
<1>6. d * (k + 1) + a * size <= v BY <1>1, <1>2, <1>3, <1>4, <1>5
<1> QED BY <1>6 DEF d

\* The queues begin empty.
LEMMA InitTurns == Init => GuaranteeInv
<1> SUFFICES ASSUME Init PROVE GuaranteeInv OBVIOUS
<1>1. \A i \in Queues : owed[i] = 0 /\ queues[i] = <<>> /\ skipped[i] = 0
  BY DEF Init
<1>2. 0 >= Floor BY SizeFacts
<1> QED BY <1>1, <1>2 DEF GuaranteeInv

\* A queue that still waits, when no time has passed and no turn was used.
LEMMA LagsStays ==
  ASSUME NEW i, Lags(i), UNCHANGED <<owed, wire>>, skipped'[i] = skipped[i],
         Servable(i)'
  PROVE  Lags(i)'
BY DEF Lags, Above, UsedAbove, Used, Largest, PrioritiesAbove

\* A packet that enters keeps the queues that wait.
LEMMA EnqueueTurns ==
  ASSUME TypeOK, GuaranteeInv, NEW i \in Queues, NEW size \in Sizes,
         Enqueue(i, size)
  PROVE  GuaranteeInv'
<1> SUFFICES ASSUME mode = "RR" PROVE GuaranteeInv' BY DEF Enqueue, GuaranteeInv
<1>1. /\ i < QCnt
      /\ queues' = [queues EXCEPT ![i] = Append(@, size)] \/ queues' = queues
      /\ UNCHANGED <<mode, held, rrlast, owed, wire, skipped>>
  BY DEF Enqueue, turnVars, queueVars
<1>2. queues \in [Queues -> Seq(Sizes)] BY DEF TypeOK
<1>3. QCnt \in Nat /\ i \in Nat BY QueueAssumption DEF Queues
<1>4. \A j \in Queues : Servable(j) => Servable(j)'
  <2> TAKE j \in Queues
  <2>1. queues[j] # <<>> => queues'[j] # <<>>
    <3>1. queues[i] \in Seq(Sizes) BY <1>2
    <3>2. Append(queues[i], size) # <<>> BY <3>1
    <3> QED BY <1>1, <1>2, <3>2
  <2> QED BY <1>1, <2>1 DEF Servable
<1>5. \A j \in Queues : j >= QCnt => queues'[j] = <<>>
  BY <1>1, <1>2, <1>3 DEF GuaranteeInv
<1>6. \A j \in Queues : skipped'[j] > 0 => Lags(j)'
  <2> SUFFICES ASSUME NEW j \in Queues, skipped'[j] > 0 PROVE Lags(j)' OBVIOUS
  <2>1. Lags(j) BY <1>1 DEF GuaranteeInv
  <2>2. Servable(j)' BY <1>4, <2>1 DEF Lags
  <2> QED BY <1>1, <2>1, <2>2, LagsStays
<1>7. \A j \in Queues : owed'[j] >= Floor BY <1>1 DEF GuaranteeInv
<1> QED BY <1>1, <1>5, <1>6, <1>7 DEF GuaranteeInv, Floor

\* A queue that waits below its guarantee is passed by a strict turn only.
LEMMA PassedByStrictTurn ==
  ASSUME TypeOK, GuaranteeInv, mode = "RR", NEW i \in Queues, Dequeue(i),
         NEW j \in Queues, skipped'[j] > 0
  PROVE  /\ i # j /\ Servable(j) /\ owed[j] < 0 /\ j <= QCnt - 2
         /\ j < i /\ i <= QCnt - 2 /\ owed[i] < 0
         /\ skipped'[j] = skipped[j] + 1
<1>1. QCnt \in Nat /\ QCnt >= 2 /\ i \in Nat /\ j \in Nat /\ Control = QCnt - 1
  BY QueueAssumption DEF Queues, Control
<1>2. Chosen(i) /\ skipped' = SkippedAfter(i) BY DEF Dequeue
<1>3. i # Control /\ j # i /\ j # Control /\ Servable(j) /\ owed[j] < 0
      /\ skipped'[j] = skipped[j] + 1
  <2>1. i # Control BY <1>2 DEF SkippedAfter
  <2>2. j # i /\ j # Control /\ Waits(j) /\ skipped'[j] = skipped[j] + 1
    BY <1>2, <2>1 DEF SkippedAfter
  <2> QED BY <2>1, <2>2 DEF Waits
<1>4. j <= QCnt - 2
  <2>1. j < QCnt BY <1>1, <1>3 DEF GuaranteeInv, Servable
  <2> QED BY <1>1, <1>3, <2>1
<1>5. j \in Unsatisfied BY <1>3, <1>4, LagsUnsatisfied
<1>6. i \in Unsatisfied /\ j <= i BY <1>2, <1>3, <1>5 DEF Chosen
<1>7. i <= QCnt - 2 /\ owed[i] < 0 BY <1>1, <1>6 DEF Unsatisfied
<1> QED BY <1>1, <1>3, <1>4, <1>6, <1>7

\* A packet that is sent uses a turn above every queue it passes.
LEMMA DequeueTurns ==
  ASSUME TypeOK, GuaranteeInv, NEW i \in Queues, Dequeue(i)
  PROVE  GuaranteeInv'
<1> SUFFICES ASSUME mode = "RR" PROVE GuaranteeInv' BY DEF Dequeue, GuaranteeInv
<1> DEFINE size == Head(queues[i])
<1>1. /\ wire = 0 /\ Chosen(i) /\ queues' = [queues EXCEPT ![i] = Tail(@)]
      /\ owed' = [owed EXCEPT ![i] = Satisfied(@, size)] /\ wire' = size
      /\ UNCHANGED <<mode, held>>
  BY DEF Dequeue
<1>2. /\ queues \in [Queues -> Seq(Sizes)] /\ owed \in [Queues -> Int]
      /\ skipped \in [Queues -> Nat] /\ queues[i] # <<>>
  BY <1>1, ChosenHolds DEF TypeOK
<1>3. size \in Sizes /\ size \in Nat /\ size >= 1 /\ MinTx \in Nat
  BY <1>2, SizeFacts
<1> HIDE DEF size
<1>4. \A j \in Queues : owed'[j] >= Floor
  <2>1. \A j \in Queues : owed[j] >= Floor BY DEF GuaranteeInv
  <2>2. Satisfied(owed[i], size) >= Floor
    <3>1. MinTx * size \in Nat /\ 0 >= Floor /\ Floor \in Int BY <1>3, SizeFacts
    <3>2. owed[i] \in Int /\ owed[i] >= Floor BY <1>2, <2>1
    <3> QED BY <3>1, <3>2 DEF Satisfied
  <2> QED BY <1>1, <1>2, <2>1, <2>2
<1>5. \A j \in Queues : j >= QCnt => queues'[j] = <<>>
  BY <1>1, <1>2 DEF GuaranteeInv
<1>6. \A j \in Queues : skipped'[j] > 0 => Lags(j)'
  <2> SUFFICES ASSUME NEW j \in Queues, skipped'[j] > 0 PROVE Lags(j)' OBVIOUS
  <2>1. /\ i # j /\ Servable(j) /\ owed[j] < 0 /\ j <= QCnt - 2
        /\ j < i /\ i <= QCnt - 2 /\ owed[i] < 0
        /\ skipped'[j] = skipped[j] + 1
    BY PassedByStrictTurn
  <2>2. Servable(j)' /\ owed'[j] < 0 BY <1>1, <1>2, <2>1 DEF Servable
  <2>3. UsedAbove(j)' \in Int /\ UsedAbove(j)' >= UsedAbove(j) + MinTx * size
    BY <1>1, <1>3, <2>1, TurnUses
  <2>4. UsedAbove(j) \in Nat
    BY <1>2, <2>1, UsedAboveBounds DEF GuaranteeInv
  <2>5. Above(j) \in Nat /\ skipped[j] \in Nat BY <1>2, <2>1, AboveFacts
  <2>6. ASSUME Above(j) < MinTx
        PROVE  (MinTx - Above(j)) * skipped'[j] + Above(j) * size <= UsedAbove(j)'
    <3>1. (MinTx - Above(j)) * skipped[j] <= UsedAbove(j)
      <4>1. CASE skipped[j] = 0
        <5>1. (MinTx - Above(j)) * 0 = 0 BY <1>3, <2>5
        <5> QED BY <2>4, <4>1, <5>1
      <4>2. CASE skipped[j] > 0
        <5>1. (MinTx - Above(j)) * skipped[j] + Above(j) * wire <= UsedAbove(j)
          BY <2>6, <4>2 DEF GuaranteeInv, Lags
        <5>2. Above(j) * wire = 0 BY <1>1, <2>5
        <5>3. (MinTx - Above(j)) * skipped[j] \in Int BY <1>3, <2>5
        <5> QED BY <5>1, <5>2, <5>3
      <4> QED BY <2>5, <4>1, <4>2
    <3> DEFINE u == UsedAbove(j)
               v == UsedAbove(j)'
    <3>2. u \in Int /\ v \in Int /\ v >= u + MinTx * size BY <2>3, <2>4
    <3>3. (MinTx - Above(j)) * skipped[j] <= u BY <3>1
    <3> HIDE DEF u, v
    <3>4. (MinTx - Above(j)) * (skipped[j] + 1) + Above(j) * size <= v
      BY <1>3, <2>5, <2>6, <3>2, <3>3, LagStep
    <3> QED BY <2>1, <3>4 DEF v
  <2>7. Above(j)' = Above(j) BY DEF Above
  <2> QED BY <1>1, <2>1, <2>2, <2>6, <2>7 DEF Lags
<1> QED BY <1>1, <1>4, <1>5, <1>6 DEF GuaranteeInv, Floor

\* While a queue waits below its guarantee, a packet is on the wire or is taken
\* from a queue.
LEMMA LinkIsBusy ==
  ASSUME TypeOK, GuaranteeInv, mode = "RR", NEW i \in Queues, Lags(i)
  PROVE  \E j \in 0 .. QCnt - 1 : Chosen(j)
<1>1. QCnt \in Nat /\ QCnt >= 2 /\ Control = QCnt - 1
  BY QueueAssumption DEF Control
<1>2. i \in Unsatisfied BY LagsUnsatisfied DEF Lags
<1>3. PICK m \in Unsatisfied : \A j \in Unsatisfied : j <= m
  BY <1>2, HighestUnsatisfied
<1>4. m \in 0 .. QCnt - 1 BY <1>1, <1>3 DEF Unsatisfied
<1>5. CASE queues[Control] # <<>>
  <2>1. Chosen(Control) BY <1>5 DEF Chosen
  <2> QED BY <1>1, <2>1
<1>6. CASE queues[Control] = <<>>
  <2>1. Chosen(m) BY <1>2, <1>3, <1>6 DEF Chosen
  <2> QED BY <1>4, <2>1
<1> QED BY <1>5, <1>6

\* Time gives back one unit of each turn above, and takes one off the wire.
LEMMA TickTurns ==
  ASSUME TypeOK, GuaranteeInv, Tick
  PROVE  GuaranteeInv'
<1>1. /\ mode = "RR"
      /\ wire > 0 \/ \A i \in 0 .. QCnt - 1 : ~Chosen(i)
      /\ wire' = IF wire > 0 THEN wire - 1 ELSE 0
      /\ owed' = [i \in Queues |-> IF owed[i] > Floor THEN owed[i] - 1 ELSE Floor]
      /\ UNCHANGED <<mode, queues, held, skipped>>
  BY DEF Tick, queueVars
<1>2. /\ mode = "RR" /\ owed \in [Queues -> Int] /\ skipped \in [Queues -> Nat]
      /\ wire \in Nat /\ \A i \in Queues : owed[i] >= Floor
  BY DEF Tick, TypeOK, GuaranteeInv
<1>3. \A i \in Queues : /\ owed'[i] \in Int /\ owed'[i] >= Floor
                        /\ owed'[i] <= owed[i] /\ Used(owed[i]) <= Used(owed'[i]) + 1
  BY <1>1, <1>2, UsedByTime
<1>4. ASSUME NEW i \in Queues, i <= QCnt - 2
      PROVE  /\ UsedAbove(i) \in Int /\ UsedAbove(i)' \in Int
             /\ UsedAbove(i) <= UsedAbove(i)' + Above(i)
  <2> DEFINE S == PrioritiesAbove(i)
             f == [k \in Queues |-> Used(owed[k])]
             g == [k \in Queues |-> Used(owed'[k])]
  <2>1. /\ IsFiniteSet(S) /\ S \subseteq Queues
        /\ Cardinality(S) = Above(i) /\ Above(i) \in Nat
    BY <1>4, AboveFacts
  <2>2. \A k \in Queues : f[k] \in Nat /\ g[k] \in Nat /\ f[k] <= g[k] + 1
    <3>1. 2 * Largest \in Nat BY SizeFacts
    <3> TAKE k \in Queues
    <3>2. Used(owed[k]) \in 0 .. 2 * Largest /\ Used(owed'[k]) \in 0 .. 2 * Largest
      BY <1>2, <1>3, UsedType
    <3>3. Used(owed[k]) \in Nat /\ Used(owed'[k]) \in Nat BY <3>1, <3>2
    <3> QED BY <1>3, <3>3
  <2>3. UsedAbove(i) = SumFunctionOnSet(f, S) /\ UsedAbove(i)' = SumFunctionOnSet(g, S)
    BY DEF UsedAbove, PrioritiesAbove, Used, Largest
  <2> HIDE DEF f, g, S
  <2>4. \A k \in S : f[k] \in Nat /\ g[k] \in Nat /\ f[k] <= g[k] + 1
    BY <2>1, <2>2
  <2>5. SumFunctionOnSet(f, S) \in Nat /\ SumFunctionOnSet(g, S) \in Nat
    BY <2>1, <2>4, SumNat
  <2>6. 1 \in Nat OBVIOUS
  <2>7. SumFunctionOnSet(f, S) <= SumFunctionOnSet(g, S) + Cardinality(S) * 1
    BY <2>1, <2>4, <2>6, SumError
  <2> QED BY <2>1, <2>3, <2>5, <2>7
<1>5. ASSUME NEW i \in Queues, skipped'[i] > 0 PROVE Lags(i)'
  <2>1. Lags(i) BY <1>1, <1>2, <1>5 DEF GuaranteeInv
  <2>2. wire > 0 /\ wire' = wire - 1
    <3>1. wire > 0 BY <1>1, <1>2, <2>1, LinkIsBusy
    <3> QED BY <1>1, <3>1
  <2>3. Servable(i)' /\ owed'[i] < 0
    <3>1. Servable(i) /\ owed[i] < 0 BY <2>1 DEF Lags
    <3> QED BY <1>1, <1>2, <1>3, <3>1 DEF Servable
  <2>4. i <= QCnt - 2 BY <2>1 DEF Lags
  <2>5. ASSUME Above(i) < MinTx
        PROVE  (MinTx - Above(i)) * skipped[i] + Above(i) * wire' <= UsedAbove(i)'
    <3>1. (MinTx - Above(i)) * skipped[i] + Above(i) * wire <= UsedAbove(i)
      BY <2>1, <2>5 DEF Lags
    <3>2. Above(i) \in Nat /\ MinTx \in Nat /\ skipped[i] \in Nat
      BY <1>2, <2>4, AboveFacts, SizeFacts
    <3>3. Above(i) * wire = Above(i) * (wire - 1) + Above(i)
          /\ Above(i) * (wire - 1) \in Int
      BY <1>2, <3>2
    <3>4. (MinTx - Above(i)) * skipped[i] \in Int BY <3>2
    <3> QED BY <1>4, <2>2, <2>4, <3>1, <3>2, <3>3, <3>4
  <2>6. Above(i)' = Above(i) BY DEF Above
  <2> QED BY <1>1, <2>3, <2>4, <2>5, <2>6 DEF Lags
<1>6. \A i \in Queues : i >= QCnt => queues'[i] = <<>>
  BY <1>1, <1>2 DEF GuaranteeInv
<1> QED BY <1>1, <1>3, <1>5, <1>6 DEF GuaranteeInv, Floor

\* Every step keeps what the guarantees rest on.
LEMMA StepTurns == TypeOK /\ GuaranteeInv /\ [Next]_vars => GuaranteeInv'
<1> SUFFICES ASSUME TypeOK, GuaranteeInv, [Next]_vars PROVE GuaranteeInv' OBVIOUS
<1>1. ASSUME NEW i \in Queues, NEW size \in Sizes, Enqueue(i, size)
      PROVE  GuaranteeInv'
  BY <1>1, EnqueueTurns
<1>2. ASSUME NEW i \in Queues, Dequeue(i) PROVE GuaranteeInv' BY <1>2, DequeueTurns
<1>3. ASSUME NEW i \in Queues, Hold(i) PROVE GuaranteeInv'
  <2> SUFFICES ASSUME mode = "RR" PROVE GuaranteeInv'
    BY <1>3 DEF Hold, GuaranteeInv
  <2>1. /\ held' = held \cup {i} /\ skipped' = [skipped EXCEPT ![i] = 0]
        /\ UNCHANGED <<mode, queues, owed, wire>>
    BY <1>3 DEF Hold, queueVars
  <2>2. skipped \in [Queues -> Nat] BY DEF TypeOK
  <2>3. \A j \in Queues : skipped'[j] > 0 => Lags(j)'
    <3> SUFFICES ASSUME NEW j \in Queues, skipped'[j] > 0 PROVE Lags(j)' OBVIOUS
    <3>1. j # i /\ skipped'[j] = skipped[j] BY <2>1, <2>2
    <3>2. Lags(j) BY <3>1 DEF GuaranteeInv
    <3>3. Servable(j)' BY <2>1, <3>1, <3>2 DEF Servable, Lags
    <3> QED BY <2>1, <3>1, <3>2, <3>3, LagsStays
  <2> QED BY <2>1, <2>3 DEF GuaranteeInv, Floor
<1>4. ASSUME NEW i \in Queues, Release(i) PROVE GuaranteeInv'
  <2> SUFFICES ASSUME mode = "RR" PROVE GuaranteeInv'
    BY <1>4 DEF Release, GuaranteeInv
  <2>1. held' = held \ {i} /\ UNCHANGED <<mode, queues, owed, wire, skipped>>
    BY <1>4 DEF Release, queueVars, turnVars
  <2>2. \A j \in Queues : skipped'[j] > 0 => Lags(j)'
    <3> SUFFICES ASSUME NEW j \in Queues, skipped'[j] > 0 PROVE Lags(j)' OBVIOUS
    <3>1. Lags(j) BY <2>1 DEF GuaranteeInv
    <3>2. Servable(j)' BY <2>1, <3>1 DEF Servable, Lags
    <3> QED BY <2>1, <3>1, <3>2, LagsStays
  <2> QED BY <2>1, <2>2 DEF GuaranteeInv, Floor
<1>5. ASSUME NEW i \in Queues, NEW n \in 1 .. MaxKept, Acknowledge(i, n)
      PROVE  GuaranteeInv'
  BY <1>5 DEF Acknowledge, GuaranteeInv
<1>6. ASSUME NEW i \in Queues, NEW n \in 0 .. MaxKept, RecoverQueue(i, n)
      PROVE  GuaranteeInv'
  BY <1>6 DEF RecoverQueue, GoesBack, GuaranteeInv
<1>7. CASE Tick BY <1>7, TickTurns
<1>8. CASE UNCHANGED vars
  <2> SUFFICES ASSUME mode = "RR" PROVE GuaranteeInv'
    BY <1>8 DEF vars, GuaranteeInv
  <2>1. UNCHANGED <<mode, queues, held, owed, wire, skipped>>
    BY <1>8 DEF vars, queueVars, turnVars
  <2>2. \A j \in Queues : skipped'[j] > 0 => Lags(j)'
    <3> SUFFICES ASSUME NEW j \in Queues, skipped'[j] > 0 PROVE Lags(j)' OBVIOUS
    <3>1. Lags(j) BY <2>1 DEF GuaranteeInv
    <3>2. Servable(j)' BY <2>1, <3>1 DEF Servable, Lags
    <3> QED BY <2>1, <3>1, <3>2, LagsStays
  <2> QED BY <2>1, <2>2 DEF GuaranteeInv, Floor
<1> QED BY <1>1, <1>2, <1>3, <1>4, <1>5, <1>6, <1>7, <1>8 DEF Next

\* What the turns above may have used bounds the packets that have passed.
LEMMA TurnsServe == TypeOK /\ GuaranteeInv => GuaranteeServes
<1> SUFFICES ASSUME TypeOK, GuaranteeInv, mode = "RR",
                    NEW i \in 0 .. QCnt - 2, Above(i) < MinTx
             PROVE  (MinTx - Above(i)) * skipped[i]
                      <= 2 * Above(i) * MinTx * MaxSize
  BY DEF GuaranteeServes
<1>1. i \in Queues /\ i <= QCnt - 2 BY QueueAssumption DEF Queues
<1>2. owed \in [Queues -> Int] /\ skipped \in [Queues -> Nat] /\ wire \in Nat
  BY DEF TypeOK
<1>3. Above(i) \in Nat /\ MinTx \in Nat /\ MaxSize \in Nat /\ skipped[i] \in Nat
  BY <1>1, <1>2, AboveFacts, SizeFacts
<1>4. Above(i) * (2 * Largest) = 2 * Above(i) * MinTx * MaxSize
  <2> DEFINE a == Above(i)
             l == MinTx * MaxSize
  <2>1. l \in Nat /\ a \in Nat BY <1>3, SizeFacts DEF Largest
  <2>2. 2 * a * MinTx * MaxSize = (2 * a) * l BY <1>3
  <2> HIDE DEF a, l
  <2>3. a * (2 * l) = (2 * a) * l BY <2>1
  <2> QED BY <2>2, <2>3 DEF a, l, Largest
<1>5. CASE skipped[i] = 0
  <2>1. (MinTx - Above(i)) * 0 = 0 BY <1>3
  <2>2. 2 * Above(i) * MinTx * MaxSize \in Nat BY <1>3
  <2> QED BY <1>5, <2>1, <2>2
<1>6. CASE skipped[i] > 0
  <2>1. (MinTx - Above(i)) * skipped[i] + Above(i) * wire <= UsedAbove(i)
    BY <1>1, <1>6 DEF GuaranteeInv, Lags
  <2>2. UsedAbove(i) \in Nat /\ UsedAbove(i) <= Above(i) * (2 * Largest)
    BY <1>1, <1>2, UsedAboveBounds DEF GuaranteeInv
  <2>3. /\ Above(i) * wire \in Nat /\ (MinTx - Above(i)) * skipped[i] \in Int
        /\ Above(i) * (2 * Largest) \in Nat
    BY <1>2, <1>3, SizeFacts
  <2>4. (MinTx - Above(i)) * skipped[i] <= Above(i) * (2 * Largest)
    BY <2>1, <2>2, <2>3
  <2> QED BY <1>4, <2>4
<1> QED BY <1>3, <1>5, <1>6

\* On a switch, however many priorities there are, a priority below its
\* guaranteed bandwidth lets only so many packets of others pass as the link can
\* carry beyond the guarantees of the priorities above
\* (broadcom-egress-queue.cc:177-199).
THEOREM GuaranteesHold == Spec => []GuaranteeServes
<1>1. Init => IndInv /\ BytesMatch /\ GuaranteeInv BY InitInv, InitBytes, InitTurns
<1>2. IndInv /\ BytesMatch /\ GuaranteeInv /\ [Next]_vars
        => IndInv' /\ BytesMatch' /\ GuaranteeInv'
  BY StepInv, StepBytes, StepTurns DEF BytesMatch
<1>3. BytesMatch /\ GuaranteeInv => GuaranteeServes BY TurnsServe DEF BytesMatch
<1> QED BY <1>1, <1>2, <1>3, PTL DEF Spec
================================================================================
