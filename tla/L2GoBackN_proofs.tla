--------------------------- MODULE L2GoBackN_proofs ---------------------------
(***************************************************************************)
(* Proofs about the go-back-N of the link layer, for messages, chunks and  *)
(* intervals of any size and any number of losses: the types, always; and, *)
(* as long as the full sending buffer drops nothing, that no packet is     *)
(* discarded too early, that every answer finds its packet, that a flow    *)
(* that waits for the acknowledgement of a message sends nothing of the    *)
(* next, and that an idle NIC with something to send will send it.         *)
(***************************************************************************)
EXTENDS L2GoBackN, NumberFacts, TLAPS

\* A packet that is handed over finds room in the sending buffer.
HasRoom == hi < Total => hi - lo # BufferCap

\* The whole flow fits into the sending buffer.
Fits == BufferCap >= Total

Answers == [kind : {"ACK", "NACK"}, seq : Nat]

\* GoBackTo with the setting of the run as a parameter.
At(b, seq) == IF b THEN ChunkStart(seq) ELSE seq

\* The sender, as DequeueAndTransmit sees it: what it sends is handed over; a
\* flow that is stopped has its timer; and in L2WaitForAck mode nothing is
\* beyond the message being sent, which is sent completely when the flow stops.
SenderOf(s) ==
  /\ s.hi \in Nat /\ s.hi <= Total /\ s.nxt \in Nat /\ s.nxt <= s.hi
  /\ s.ms \in Nat
  /\ s.waiting \in BOOLEAN /\ s.timer \in BOOLEAN /\ s.busy \in BOOLEAN
  /\ s.avail \in {"now", "soon", "far"}
  /\ data \in Seq(Nat) /\ \A i \in 1 .. Len(data) : data[i] < s.hi
  /\ (s.avail = "far" => s.timer) /\ (s.timer <=> s.waiting)
  /\ WaitAck =>
       /\ s.nxt <= s.ms /\ (s.avail # "far" => s.nxt < s.ms)
       /\ \A i \in 1 .. Len(data) : data[i] < s.ms

Sender == SenderOf(Now)

Types ==
  /\ lo \in Nat /\ lo <= hi /\ expected \in Nat /\ expected <= hi
  /\ backto0 \in BOOLEAN /\ back \in Seq(Answers)

\* What the sender keeps, against what the receiver has asked for.
Kept ==
  /\ lo <= At(backto0, expected)
  /\ \A k \in 1 .. Len(back) :
       At(backto0, back[k].seq) <= At(backto0, expected)

\* A NACK is behind no answer that acknowledges more than it.
NacksFind ==
  \A k \in 1 .. Len(back) : back[k].kind = "NACK" =>
    /\ lo <= At(backto0, back[k].seq) /\ At(backto0, back[k].seq) < hi
    /\ \A i \in 1 .. k - 1 :
         At(backto0, back[i].seq) <= At(backto0, back[k].seq)

\* No answer ahead of an ACK acknowledges everything.
AcksFind ==
  \A k \in 1 .. Len(back) : back[k].kind = "ACK" =>
    /\ lo < hi
    /\ \A i \in 1 .. k - 1 : At(backto0, back[i].seq) < hi

\* In L2WaitForAck mode nothing asked for is beyond the message being sent.
WithinMessage ==
  WaitAck =>
    /\ lo < milestone_tx /\ expected <= milestone_tx
    /\ \A k \in 1 .. Len(back) :
         /\ back[k].seq <= milestone_tx
         /\ back[k].kind = "NACK" => back[k].seq < milestone_tx

Answered == Types /\ Kept /\ NacksFind /\ AcksFind /\ WithinMessage

IndInv == Sender /\ Answered

---------------------------------------------------------------------------
(* Going back.                                                             *)

\* Where the sender goes back to: not beyond the packet, in the order of the
\* packets, and from the start of a chunk no further.
LEMMA GoBackFacts ==
  ASSUME NEW b, NEW x \in Nat
  PROVE  /\ At(b, x) \in Nat /\ At(b, x) <= x
         /\ ChunkStart(x) \in Nat /\ ChunkStart(x) <= x
<1> DEFINE q == x \div Chunk
<1>1. Chunk \in Nat \ {0} BY GbnAssumption
<1>2. q \in Nat /\ q * Chunk <= x BY <1>1, DivBounds
<1>3. ChunkStart(x) = q * Chunk BY DEF ChunkStart
<1> HIDE DEF q
<1>4. q * Chunk \in Nat BY <1>1, <1>2
<1> QED BY <1>2, <1>3, <1>4 DEF At

\* Going back keeps the order of the packets.
LEMMA GoBackMono ==
  ASSUME NEW x \in Nat, NEW y \in Nat, NEW b, x <= y
  PROVE  At(b, x) <= At(b, y)
<1> DEFINE p == x \div Chunk
           q == y \div Chunk
<1>1. Chunk \in Nat \ {0} BY GbnAssumption
<1>2. p \in Nat /\ p * Chunk <= x /\ q \in Nat BY <1>1, DivBounds
<1>3. ChunkStart(x) = p * Chunk /\ ChunkStart(y) = q * Chunk BY DEF ChunkStart
<1>4. p <= q
  <2>1. p * Chunk <= y
    <3> HIDE DEF p, q
    <3>1. p * Chunk \in Nat BY <1>1, <1>2
    <3> QED BY <1>2, <3>1
  <2> HIDE DEF p
  <2> QED BY <1>1, <1>2, <2>1, DivLargest
<1> HIDE DEF p, q
<1>5. p * Chunk <= q * Chunk BY <1>1, <1>2, <1>4, MulMono
<1> QED BY <1>3, <1>5 DEF At

\* The start of a chunk is in its chunk.
LEMMA GoBackTwice ==
  ASSUME NEW x \in Nat
  PROVE  ChunkStart(ChunkStart(x)) = ChunkStart(x)
<1> DEFINE q == x \div Chunk
           r == (q * Chunk) \div Chunk
<1>1. Chunk \in Nat \ {0} BY GbnAssumption
<1>2. q \in Nat BY <1>1, DivBounds
<1>3. /\ ChunkStart(x) = q * Chunk
      /\ ChunkStart(ChunkStart(x)) = r * Chunk
  BY DEF ChunkStart
<1>4. r = q
  <2> HIDE DEF q
  <2> DEFINE m == q * Chunk
  <2>1. m \in Nat BY <1>1, <1>2
  <2>2. q * Chunk <= m /\ m <= q * Chunk BY <2>1
  <2> HIDE DEF m
  <2>3. q <= m \div Chunk BY <1>1, <1>2, <2>1, <2>2, DivLargest
  <2>4. m \div Chunk <= q BY <1>1, <1>2, <2>1, <2>2, DivSmallest
  <2>5. m \div Chunk \in Nat BY <1>1, <2>1, DivBounds
  <2>6. m \div Chunk = q BY <1>2, <2>3, <2>4, <2>5
  <2> QED BY <2>6 DEF m
<1> QED BY <1>3, <1>4

---------------------------------------------------------------------------
(* Sequences.                                                              *)

\* What is left of a sequence without its element i.
LEMMA WithoutFacts ==
  ASSUME NEW S, NEW s \in Seq(S), NEW i \in 1 .. Len(s)
  PROVE  /\ Without(s, i) \in Seq(S) /\ Len(Without(s, i)) = Len(s) - 1
         /\ \A k \in 1 .. Len(s) - 1 :
              Without(s, i)[k] = IF k < i THEN s[k] ELSE s[k + 1]
<1> DEFINE a == SubSeq(s, 1, i - 1)
           b == SubSeq(s, i + 1, Len(s))
           l == Len(s)
<1>1. l \in Nat /\ i \in Nat /\ 1 <= i /\ i <= l OBVIOUS
<1>2. a \in Seq(S) /\ Len(a) = i - 1 /\ \A k \in 1 .. i - 1 : a[k] = s[k]
  <2>1. \A k \in 1 .. i - 1 : s[k] \in S BY <1>1
  <2>2. a = [k \in 1 .. i - 1 |-> s[k]] BY <1>1
  <2> QED BY <1>1, <2>1, <2>2
<1>3. /\ b \in Seq(S) /\ Len(b) = l - i
      /\ \A k \in 1 .. l - i : b[k] = s[i + k]
  <2>1. \A k \in 1 .. l - i : s[i + k] \in S BY <1>1
  <2>2. b = [k \in 1 .. l - i |-> s[i + k]] BY <1>1
  <2>3. l - i \in Nat BY <1>1
  <2> QED BY <1>1, <2>1, <2>2, <2>3
<1>4. Without(s, i) = a \o b BY DEF Without
<1> HIDE DEF a, b, l
<1>5. a \o b \in Seq(S) /\ Len(a \o b) = l - 1
  <2>1. a \in Seq(S) /\ b \in Seq(S) BY <1>2, <1>3
  <2>2. Len(a \o b) = Len(a) + Len(b) BY <2>1
  <2> DEFINE m == Len(a)
             n == Len(b)
  <2>3. m = i - 1 /\ n = l - i BY <1>2, <1>3
  <2> HIDE DEF m, n
  <2>4. m + n = l - 1 BY <1>1, <2>3
  <2>5. a \o b \in Seq(S) BY <2>1
  <2> QED BY <2>2, <2>4, <2>5 DEF m, n
<1>6. ASSUME NEW k \in 1 .. l - 1
      PROVE  (a \o b)[k] = IF k < i THEN s[k] ELSE s[k + 1]
  <2>1. CASE k < i
    <3>1. k \in 1 .. i - 1 BY <1>1, <2>1
    <3>2. (a \o b)[k] = a[k] BY <1>1, <1>2, <1>3, <3>1
    <3> QED BY <1>2, <2>1, <3>1, <3>2
  <2>2. CASE ~(k < i)
    <3>1. k - (i - 1) \in 1 .. l - i /\ i + (k - (i - 1)) = k + 1 BY <1>1, <2>2
    <3>2. (a \o b)[k] = b[k - (i - 1)] BY <1>1, <1>2, <1>3, <2>2
    <3> QED BY <1>3, <2>2, <3>1, <3>2
  <2> QED BY <2>1, <2>2
<1> QED BY <1>4, <1>5, <1>6 DEF l

\* Every element of w is one of s but i, behind the same ones as there.
InOrderBut(s, i, w) ==
  \A k \in 1 .. Len(w) : \E o \in 1 .. Len(s) :
    /\ o # i /\ w[k] = s[o]
    /\ \A j \in 1 .. k - 1 : \E p \in 1 .. o - 1 : p # i /\ w[j] = s[p]

\* What is left keeps its order, and is not the element taken out.
LEMMA WithoutOrder ==
  ASSUME NEW S, NEW s \in Seq(S), NEW i \in 1 .. Len(s)
  PROVE  InOrderBut(s, i, Without(s, i))
<1> DEFINE w == Without(s, i)
<1> SUFFICES ASSUME NEW k \in 1 .. Len(w)
             PROVE  \E o \in 1 .. Len(s) :
                      /\ o # i /\ w[k] = s[o]
                      /\ \A j \in 1 .. k - 1 : \E p \in 1 .. o - 1 :
                           p # i /\ w[j] = s[p]
  BY DEF InOrderBut
<1> DEFINE l == Len(s)
           n(j) == IF j < i THEN j ELSE j + 1
<1>1. l \in Nat /\ i \in 1 .. l OBVIOUS
<1>2. /\ Len(w) = l - 1
      /\ \A j \in 1 .. l - 1 : w[j] = IF j < i THEN s[j] ELSE s[j + 1]
  BY WithoutFacts
<1> HIDE DEF l, w
<1>3. k \in 1 .. l - 1 BY <1>2
<1>4. \A j \in 1 .. l - 1 : n(j) \in 1 .. l /\ n(j) # i /\ w[j] = s[n(j)]
  BY <1>1, <1>2
<1>5. \A j \in 1 .. k - 1 : j \in 1 .. l - 1 /\ n(j) \in 1 .. n(k) - 1
  BY <1>1, <1>3
<1> HIDE DEF n
<1>6. \A j \in 1 .. k - 1 : \E p \in 1 .. n(k) - 1 : p # i /\ w[j] = s[p]
  BY <1>4, <1>5
<1> QED BY <1>3, <1>4, <1>6 DEF l

---------------------------------------------------------------------------
(* The sender.                                                             *)

\* DequeueAndTransmit sends one packet at most, and stops after the last one
\* of a message.
LEMMA Transmits ==
  ASSUME NEW s, SenderOf(s), DequeueAndTransmit(s)
  PROVE  Sender' /\ hi' = s.hi /\ milestone_tx' = s.ms
<1>1. hi' = s.hi /\ milestone_tx' = s.ms BY DEF DequeueAndTransmit
<1>2. CASE Sendable(s)
  <2>1. /\ s.nxt < s.hi /\ s.avail = "now"
        /\ data' = Append(data, s.nxt) /\ nxt' = s.nxt + 1 /\ busy' = TRUE
        /\ avail' \in {"now", "soon", "far"}
        /\ EndsChunk(s) <=> avail' = "far"
        /\ waitingAck' = (s.waiting \/ EndsChunk(s))
        /\ timer' = (s.timer \/ (EndsChunk(s) /\ ~s.waiting))
    BY <1>2 DEF DequeueAndTransmit, Sendable
  <2>2. /\ data \in Seq(Nat) /\ s.nxt \in Nat /\ s.hi \in Nat /\ s.ms \in Nat
        /\ s.hi <= Total
        /\ \A i \in 1 .. Len(data) : data[i] < s.hi
        /\ WaitAck => /\ s.nxt < s.ms
                      /\ \A i \in 1 .. Len(data) : data[i] < s.ms
    BY <2>1 DEF SenderOf
  <2>3. /\ data' \in Seq(Nat) /\ Len(data') = Len(data) + 1
        /\ \A i \in 1 .. Len(data') :
             (i \in 1 .. Len(data) /\ data'[i] = data[i]) \/ data'[i] = s.nxt
    BY <2>1, <2>2
  <2>4. waitingAck' \in BOOLEAN /\ timer' \in BOOLEAN /\ (timer' <=> waitingAck')
        /\ (avail' = "far" => timer')
    BY <2>1, Zenon DEF SenderOf
  <2>5. WaitAck => nxt' <= s.ms /\ (avail' # "far" => nxt' < s.ms)
    BY <2>1, <2>2 DEF EndsChunk
  <2>6. \A i \in 1 .. Len(data') : data'[i] < s.hi /\ (WaitAck => data'[i] < s.ms)
    BY <2>1, <2>2, <2>3
  <2>7. nxt' \in Nat /\ nxt' <= s.hi BY <2>1, <2>2
  <2> QED BY <1>1, <2>1, <2>2, <2>3, <2>4, <2>5, <2>6, <2>7 DEF Sender, SenderOf, Now
<1>3. CASE ~Sendable(s)
  <2>1. /\ data' = data /\ nxt' = s.nxt /\ busy' = s.busy /\ avail' = s.avail
        /\ waitingAck' = s.waiting /\ timer' = s.timer
    BY <1>3 DEF DequeueAndTransmit
  <2> QED BY <1>1, <2>1 DEF Sender, SenderOf, Now
<1> QED BY <1>1, <1>2, <1>3

\* A sender that does nothing, while packets arrive or are lost.
LEMMA SenderStays ==
  ASSUME Sender,
         UNCHANGED <<hi, milestone_tx, nxt, waitingAck, timer, avail, busy>>,
         data' \in Seq(Nat),
         \A i \in 1 .. Len(data') : \E j \in 1 .. Len(data) : data'[i] = data[j]
  PROVE  Sender'
BY DEF Sender, SenderOf, Now

---------------------------------------------------------------------------
(* The answers on their way.                                               *)

\* The answers and the packets they send the sender back to have their types.
LEMMA BackTyped ==
  ASSUME back \in Seq(Answers), NEW k \in 1 .. Len(back)
  PROVE  back[k].seq \in Nat /\ At(backto0, back[k].seq) \in Nat /\ back[k] \in Answers
<1>1. back[k] \in Answers OBVIOUS
<1>2. back[k].seq \in Nat BY <1>1 DEF Answers
<1> QED BY <1>1, <1>2, GoBackFacts

\* What is needed of them when no answer is sent, taken or lost.
LEMMA BackStays ==
  ASSUME Sender, Answered, UNCHANGED <<lo, back, backto0>>,
         hi' \in Nat, hi <= hi', milestone_tx' \in Nat, milestone_tx <= milestone_tx',
         expected' \in Nat, expected <= expected', expected' <= hi',
         WaitAck => expected' <= milestone_tx'
  PROVE  Answered'
<1> DEFINE g(x) == At(backto0, x)
<1>1. /\ hi \in Nat /\ milestone_tx \in Nat /\ lo \in Nat /\ lo <= hi
      /\ expected \in Nat /\ back \in Seq(Answers)
  BY DEF Sender, SenderOf, Now, Answered, Types
<1>2. \A k \in 1 .. Len(back) :
        back[k].seq \in Nat /\ g(back[k].seq) \in Nat /\ back[k] \in Answers
  BY <1>1, BackTyped
<1>3. g(expected) \in Nat /\ g(expected') \in Nat /\ g(expected) <= g(expected')
  BY <1>1, GoBackFacts, GoBackMono
<1>4. Types' BY <1>1 DEF Answered, Types
<1> HIDE DEF g
<1>5. Kept'
  <2>1. lo <= g(expected) /\ \A k \in 1 .. Len(back) : g(back[k].seq) <= g(expected)
    BY DEF Answered, Kept, g
  <2>2. lo <= g(expected') /\ \A k \in 1 .. Len(back) : g(back[k].seq) <= g(expected')
    BY <1>1, <1>2, <1>3, <2>1
  <2> QED BY <2>2 DEF Kept, g
<1>6. NacksFind'
  <2> SUFFICES ASSUME NEW k \in 1 .. Len(back), back[k].kind = "NACK"
               PROVE  /\ lo <= g(back[k].seq) /\ g(back[k].seq) < hi'
                      /\ \A i \in 1 .. k - 1 : g(back[i].seq) <= g(back[k].seq)
    BY DEF NacksFind, g
  <2>1. /\ lo <= g(back[k].seq) /\ g(back[k].seq) < hi
        /\ \A i \in 1 .. k - 1 : g(back[i].seq) <= g(back[k].seq)
    BY DEF Answered, NacksFind, g
  <2>2. g(back[k].seq) \in Nat BY <1>2
  <2> QED BY <1>1, <2>1, <2>2
<1>7. AcksFind'
  <2> SUFFICES ASSUME NEW k \in 1 .. Len(back), back[k].kind = "ACK"
               PROVE  lo < hi' /\ \A i \in 1 .. k - 1 : g(back[i].seq) < hi'
    BY DEF AcksFind, g
  <2>1. lo < hi /\ \A i \in 1 .. k - 1 : g(back[i].seq) < hi
    BY DEF Answered, AcksFind, g
  <2>2. \A i \in 1 .. k - 1 : g(back[i].seq) \in Nat BY <1>1, <1>2
  <2> QED BY <1>1, <2>1, <2>2
<1>8. WithinMessage'
  <2> SUFFICES ASSUME WaitAck
               PROVE  /\ lo < milestone_tx' /\ expected' <= milestone_tx'
                      /\ \A k \in 1 .. Len(back) :
                           /\ back[k].seq <= milestone_tx'
                           /\ back[k].kind = "NACK" => back[k].seq < milestone_tx'
    BY DEF WithinMessage
  <2>1. /\ lo < milestone_tx
        /\ \A k \in 1 .. Len(back) :
             /\ back[k].seq <= milestone_tx
             /\ back[k].kind = "NACK" => back[k].seq < milestone_tx
    BY DEF Answered, WithinMessage
  <2> QED BY <1>1, <1>2, <2>1
<1> QED BY <1>4, <1>5, <1>6, <1>7, <1>8 DEF Answered

\* An answer is taken off, and the sender discards nothing that the others ask
\* for.
LEMMA BackShrinks ==
  ASSUME Sender, Answered, NEW i \in 1 .. Len(back), back' = Without(back, i),
         UNCHANGED <<hi, expected, backto0>>,
         lo' \in Nat, lo' <= hi, lo' <= At(backto0, expected),
         \A k \in 1 .. Len(back) : k # i /\ back[k].kind = "NACK" =>
            lo' <= At(backto0, back[k].seq),
         \A k \in 1 .. Len(back) : k # i /\ back[k].kind = "ACK" => lo' < hi,
         milestone_tx' \in Nat, milestone_tx <= milestone_tx',
         WaitAck => lo' < milestone_tx'
  PROVE  Answered'
<1> DEFINE g(x) == At(backto0, x)
<1>1. /\ hi \in Nat /\ milestone_tx \in Nat /\ expected \in Nat
      /\ back \in Seq(Answers)
  BY DEF Sender, SenderOf, Now, Answered, Types
<1>2. \A k \in 1 .. Len(back) :
        back[k].seq \in Nat /\ g(back[k].seq) \in Nat /\ back[k] \in Answers
  BY <1>1, BackTyped
<1>3. back' \in Seq(Answers) BY <1>1, WithoutFacts
<1>4. \A k \in 1 .. Len(back') : \E o \in 1 .. Len(back) :
        /\ o # i /\ back'[k] = back[o]
        /\ \A j \in 1 .. k - 1 : \E p \in 1 .. o - 1 :
             p # i /\ back'[j] = back[p]
  <2>1. InOrderBut(back, i, back') BY <1>1, WithoutOrder
  <2> QED BY <2>1 DEF InOrderBut
<1>5. Types' BY <1>1, <1>3 DEF Answered, Types
<1> HIDE DEF g
<1>6. Kept'
  <2>1. \A k \in 1 .. Len(back) : g(back[k].seq) <= g(expected)
    BY DEF Answered, Kept, g
  <2>2. \A k \in 1 .. Len(back') : g(back'[k].seq) <= g(expected) BY <1>4, <2>1
  <2> QED BY <2>2 DEF Kept, g
<1>7. NacksFind'
  <2> SUFFICES ASSUME NEW k \in 1 .. Len(back'), back'[k].kind = "NACK"
               PROVE  /\ lo' <= g(back'[k].seq) /\ g(back'[k].seq) < hi
                      /\ \A j \in 1 .. k - 1 : g(back'[j].seq) <= g(back'[k].seq)
    BY DEF NacksFind, g
  <2>1. PICK o \in 1 .. Len(back) :
          /\ o # i /\ back'[k] = back[o]
          /\ \A j \in 1 .. k - 1 : \E p \in 1 .. o - 1 :
               p # i /\ back'[j] = back[p]
    BY <1>4
  <2>2. /\ g(back[o].seq) < hi
        /\ \A p \in 1 .. o - 1 : g(back[p].seq) <= g(back[o].seq)
    BY <2>1 DEF Answered, NacksFind, g
  <2>3. lo' <= g(back[o].seq) BY <2>1 DEF g
  <2> QED BY <2>1, <2>2, <2>3
<1>8. AcksFind'
  <2> SUFFICES ASSUME NEW k \in 1 .. Len(back'), back'[k].kind = "ACK"
               PROVE  lo' < hi /\ \A j \in 1 .. k - 1 : g(back'[j].seq) < hi
    BY DEF AcksFind, g
  <2>1. PICK o \in 1 .. Len(back) :
          /\ o # i /\ back'[k] = back[o]
          /\ \A j \in 1 .. k - 1 : \E p \in 1 .. o - 1 :
               p # i /\ back'[j] = back[p]
    BY <1>4
  <2>2. \A p \in 1 .. o - 1 : g(back[p].seq) < hi
    BY <2>1 DEF Answered, AcksFind, g
  <2> QED BY <2>1, <2>2
<1>9. WithinMessage'
  <2> SUFFICES ASSUME WaitAck
               PROVE  /\ lo' < milestone_tx' /\ expected <= milestone_tx'
                      /\ \A k \in 1 .. Len(back') :
                           /\ back'[k].seq <= milestone_tx'
                           /\ back'[k].kind = "NACK" => back'[k].seq < milestone_tx'
    BY DEF WithinMessage
  <2>1. /\ expected <= milestone_tx
        /\ \A k \in 1 .. Len(back) :
             /\ back[k].seq <= milestone_tx
             /\ back[k].kind = "NACK" => back[k].seq < milestone_tx
    BY DEF Answered, WithinMessage
  <2>2. \A k \in 1 .. Len(back) :
          /\ back[k].seq <= milestone_tx'
          /\ back[k].kind = "NACK" => back[k].seq < milestone_tx'
    BY <1>1, <1>2, <2>1
  <2>3. \A k \in 1 .. Len(back') : \E o \in 1 .. Len(back) : back'[k] = back[o]
    BY <1>4
  <2> QED BY <1>1, <2>1, <2>2, <2>3
<1> QED BY <1>5, <1>6, <1>7, <1>8, <1>9 DEF Answered

\* The receiver answers: an ACK follows progress, and a NACK asks for a packet
\* that is handed over and not beyond where it was.
LEMMA BackGrows ==
  ASSUME Sender, Answered, UNCHANGED <<hi, lo, milestone_tx, backto0>>,
         NEW kind \in {"ACK", "NACK"}, Answer(kind, expected'),
         expected < hi, expected' \in Nat, expected' <= hi,
         At(backto0, expected) <= At(backto0, expected'),
         WaitAck => expected' <= milestone_tx,
         kind = "NACK" => expected' <= expected,
         WaitAck /\ kind = "NACK" => expected' < milestone_tx
  PROVE  Answered'
<1> DEFINE g(x) == At(backto0, x)
           n == Len(back)
           m == [kind |-> kind, seq |-> expected']
<1>1. /\ hi \in Nat /\ milestone_tx \in Nat /\ lo \in Nat /\ expected \in Nat
      /\ back \in Seq(Answers) /\ backto0 \in BOOLEAN
  BY DEF Sender, SenderOf, Now, Answered, Types
<1>2. \A k \in 1 .. n :
        back[k].seq \in Nat /\ g(back[k].seq) \in Nat /\ back[k] \in Answers
  BY <1>1, BackTyped
<1>3. /\ g(expected) \in Nat /\ g(expected') \in Nat /\ g(expected) <= g(expected')
      /\ g(expected) <= expected /\ g(expected') <= expected'
  BY <1>1, GoBackFacts
<1>4. m \in Answers BY DEF Answers
<1>5. /\ back' \in Seq(Answers) /\ Len(back') = n + 1 /\ n \in Nat
      /\ back'[n + 1] = m /\ \A k \in 1 .. n : back'[k] = back[k]
  <2>1. back' = Append(back, m) BY DEF Answer
  <2> HIDE DEF m
  <2> QED BY <1>1, <1>4, <2>1
<1>6. m.kind = kind /\ m.seq = expected' OBVIOUS
<1>7. Types' BY <1>1, <1>5 DEF Answered, Types
<1> HIDE DEF g, n, m
<1>8. /\ lo <= g(expected)
      /\ \A k \in 1 .. n : g(back[k].seq) <= g(expected)
  BY DEF Answered, Kept, g, n
<1>9. /\ lo <= g(expected') /\ lo < hi
      /\ \A k \in 1 .. n : g(back[k].seq) <= g(expected') /\ g(back[k].seq) < hi
  BY <1>1, <1>2, <1>3, <1>8
<1>10. \A k \in 1 .. n + 1 : k \in 1 .. n \/ k = n + 1 BY <1>5
<1>11. Kept'
  <2>1. \A k \in 1 .. n + 1 : g(back'[k].seq) <= g(expected')
    BY <1>3, <1>5, <1>6, <1>9, <1>10
  <2> QED BY <1>5, <1>9, <2>1 DEF Kept, g
<1>12. NacksFind'
  <2> SUFFICES ASSUME NEW k \in 1 .. n + 1, back'[k].kind = "NACK"
               PROVE  /\ lo <= g(back'[k].seq) /\ g(back'[k].seq) < hi
                      /\ \A j \in 1 .. k - 1 : g(back'[j].seq) <= g(back'[k].seq)
    BY <1>5 DEF NacksFind, g
  <2>1. CASE k \in 1 .. n
    <3>1. /\ lo <= g(back[k].seq) /\ g(back[k].seq) < hi
          /\ \A j \in 1 .. k - 1 : g(back[j].seq) <= g(back[k].seq)
      BY <1>5, <2>1 DEF Answered, NacksFind, g, n
    <3>2. \A j \in 1 .. k - 1 : j \in 1 .. n BY <1>5, <2>1
    <3> QED BY <1>5, <2>1, <3>1, <3>2
  <2>2. CASE k = n + 1
    <3>1. kind = "NACK" /\ back'[k].seq = expected' BY <1>5, <1>6, <2>2
    <3>2. g(expected') < hi BY <1>1, <1>3, <3>1
    <3>3. \A j \in 1 .. k - 1 : j \in 1 .. n BY <1>5, <2>2
    <3> QED BY <1>5, <1>9, <3>1, <3>2, <3>3
  <2> QED BY <1>10, <2>1, <2>2
<1>13. AcksFind'
  <2> SUFFICES ASSUME NEW k \in 1 .. n + 1, back'[k].kind = "ACK"
               PROVE  lo < hi /\ \A j \in 1 .. k - 1 : g(back'[j].seq) < hi
    BY <1>5 DEF AcksFind, g
  <2>1. \A j \in 1 .. k - 1 : j \in 1 .. n BY <1>5
  <2> QED BY <1>5, <1>9, <2>1
<1>14. WithinMessage'
  <2> SUFFICES ASSUME WaitAck
               PROVE  /\ lo < milestone_tx /\ expected' <= milestone_tx
                      /\ \A k \in 1 .. n + 1 :
                           /\ back'[k].seq <= milestone_tx
                           /\ back'[k].kind = "NACK" => back'[k].seq < milestone_tx
    BY <1>5 DEF WithinMessage
  <2>1. /\ lo < milestone_tx
        /\ \A k \in 1 .. n :
             /\ back[k].seq <= milestone_tx
             /\ back[k].kind = "NACK" => back[k].seq < milestone_tx
    BY DEF Answered, WithinMessage, n
  <2> QED BY <1>5, <1>6, <1>10, <2>1
<1> QED BY <1>7, <1>11, <1>12, <1>13, <1>14 DEF Answered

---------------------------------------------------------------------------
(* Every step keeps the invariant.                                         *)

\* The first packet is the oldest of an empty buffer, queue and receiver.
LEMMA InitInv == Init => IndInv
<1> SUFFICES ASSUME Init PROVE IndInv OBVIOUS
<1>1. /\ Total \in Nat /\ Chunk \in Nat \ {0} /\ BackTo0s \subseteq BOOLEAN
  BY GbnAssumption
<1>2. Sender
  <2>1. /\ hi = 0 /\ nxt = 0 /\ milestone_tx = Chunk /\ avail = "now"
        /\ data \in Seq(Nat) /\ Len(data) = 0
    BY DEF Init
  <2>2. \A i \in 1 .. Len(data) : FALSE BY <2>1
  <2>3. 0 < Chunk /\ 0 <= Chunk /\ Chunk \in Nat BY <1>1
  <2>4. /\ waitingAck \in BOOLEAN /\ timer \in BOOLEAN /\ busy \in BOOLEAN
        /\ ~waitingAck /\ ~timer
    BY Zenon DEF Init
  <2> QED BY <1>1, <2>1, <2>2, <2>3, <2>4 DEF Sender, SenderOf, Now
<1>3. Types BY <1>1 DEF Init, Types
<1>4. Len(back) = 0 /\ lo = 0 /\ expected = 0 /\ milestone_tx = Chunk BY DEF Init
<1>5. At(backto0, 0) \in Nat BY GoBackFacts
<1>6. Kept BY <1>4, <1>5 DEF Kept
<1>7. NacksFind /\ AcksFind BY <1>4 DEF NacksFind, AcksFind
<1>8. WithinMessage BY <1>1, <1>4 DEF WithinMessage
<1> QED BY <1>2, <1>3, <1>6, <1>7, <1>8 DEF IndInv, Answered

\* The types of the variables, read off the invariant.
LEMMA IndTypes ==
  ASSUME IndInv
  PROVE  /\ hi \in Nat /\ hi <= Total /\ lo \in Nat /\ lo <= hi
         /\ nxt \in Nat /\ nxt <= hi /\ milestone_tx \in Nat
         /\ expected \in Nat /\ expected <= hi /\ backto0 \in BOOLEAN
         /\ back \in Seq(Answers) /\ data \in Seq(Nat)
         /\ \A i \in 1 .. Len(data) :
              data[i] < hi /\ (WaitAck => data[i] < milestone_tx)
         /\ WaitAck => lo < milestone_tx /\ expected <= milestone_tx
         /\ Total \in Nat /\ Chunk \in Nat \ {0}
BY GbnAssumption
   DEF IndInv, Sender, SenderOf, Now, Answered, Types, WithinMessage

\* One more packet is handed over, and the buffer has room for it.
LEMMA SendInv ==
  ASSUME HasRoom, IndInv, Send
  PROVE  IndInv'
<1> DEFINE s == [Now EXCEPT !.hi = hi + 1]
<1>1. hi < Total /\ DequeueAndTransmit(s) /\ UNCHANGED <<back, backto0, expected>>
  BY DEF Send, recvVars, runVars
<1>2. lo' = lo
  <2>1. hi - lo # BufferCap BY <1>1 DEF HasRoom
  <2> QED BY <2>1 DEF Send
<1>3. SenderOf(s) BY <1>1, IndTypes DEF IndInv, Sender, SenderOf, Now
<1>4. s.hi = hi + 1 /\ s.ms = milestone_tx BY DEF Now
<1> HIDE DEF s
<1>5. Sender' /\ hi' = hi + 1 /\ milestone_tx' = milestone_tx
  BY <1>1, <1>3, <1>4, Transmits
<1>6. Answered' BY <1>1, <1>2, <1>5, IndTypes, BackStays DEF IndInv
<1> QED BY <1>5, <1>6 DEF IndInv

\* The steps of the sender's own events: they end in DequeueAndTransmit.
LEMMA EventInv ==
  ASSUME IndInv, NEW s, SenderOf(s), s.hi = hi, s.ms = milestone_tx,
         DequeueAndTransmit(s), UNCHANGED <<lo, recvVars, back, runVars>>
  PROVE  IndInv'
<1>1. Sender' /\ hi' = hi /\ milestone_tx' = milestone_tx BY Transmits
<1>2. Answered' BY <1>1, IndTypes, BackStays DEF IndInv, recvVars, runVars
<1> QED BY <1>1, <1>2 DEF IndInv

\* The packet on the link is sent, and the next one may follow.
LEMMA CompleteInv ==
  ASSUME IndInv, TransmitComplete
  PROVE  IndInv'
<1> DEFINE s == [Now EXCEPT !.busy = FALSE]
<1>1. DequeueAndTransmit(s) /\ UNCHANGED <<lo, recvVars, back, runVars>>
  BY DEF TransmitComplete
<1>2. SenderOf(s) BY DEF IndInv, Sender, SenderOf, Now
<1>3. s.hi = hi /\ s.ms = milestone_tx BY DEF Now
<1> HIDE DEF s
<1> QED BY <1>1, <1>2, <1>3, EventInv

\* The event that wakes an idle NIC, at the latest when the gap ends.
LEMMA NextSendInv ==
  ASSUME IndInv, NextSendFires
  PROVE  IndInv'
<1>1. PICK a \in {avail} \cup (IF avail = "soon" THEN {"now"} ELSE {}) :
        DequeueAndTransmit([Now EXCEPT !.nextSend = "none", !.avail = a])
  BY DEF NextSendFires
<1> DEFINE s == [Now EXCEPT !.nextSend = "none", !.avail = a]
<1>2. DequeueAndTransmit(s) /\ UNCHANGED <<lo, recvVars, back, runVars>>
  BY <1>1 DEF NextSendFires
<1>3. a \in {"now", "soon", "far"} /\ (a = "far" <=> avail = "far")
  BY DEF IndInv, Sender, SenderOf, Now
<1>4. SenderOf(s) BY <1>3 DEF IndInv, Sender, SenderOf, Now
<1>5. s.hi = hi /\ s.ms = milestone_tx BY DEF Now
<1> HIDE DEF s
<1> QED BY <1>2, <1>4, <1>5, EventInv

\* The gap ends; the next packet is one of the message.
LEMMA PacingInv ==
  ASSUME IndInv, PacingGapEnds
  PROVE  IndInv'
<1>1. avail = "soon" /\ avail' = "now"
      /\ UNCHANGED <<hi, lo, milestone_tx, nxt, waitingAck, timer, busy, data,
                     expected, back, backto0>>
  BY DEF PacingGapEnds, flowVars, recvVars, runVars
<1>2. Sender' BY <1>1 DEF IndInv, Sender, SenderOf, Now
<1>3. Answered' BY <1>1, IndTypes, BackStays DEF IndInv
<1> QED BY <1>2, <1>3 DEF IndInv

\* A flow that is unblocked starts from a packet of the message.
LEMMA Unblocks ==
  ASSUME IndInv, NEW s, s.hi = hi, s.nxt \in Nat, s.nxt <= hi,
         s.ms \in Nat, milestone_tx <= s.ms, WaitAck => s.nxt < s.ms,
         s.avail = "now", s.timer = FALSE, s.waiting = FALSE, s.busy = busy
  PROVE  SenderOf(s)
<1>1. /\ hi \in Nat /\ hi <= Total /\ data \in Seq(Nat) /\ busy \in BOOLEAN
      /\ milestone_tx \in Nat
      /\ \A i \in 1 .. Len(data) :
           data[i] < hi /\ (WaitAck => data[i] < milestone_tx)
  BY DEF IndInv, Sender, SenderOf, Now
<1>2. \A i \in 1 .. Len(data) : data[i] \in Nat BY <1>1
<1>3. WaitAck => \A i \in 1 .. Len(data) : data[i] < s.ms BY <1>1, <1>2
<1>4. WaitAck => s.nxt <= s.ms /\ s.nxt < s.ms OBVIOUS
<1> QED BY <1>1, <1>3, <1>4 DEF SenderOf

\* The timer sends the buffer again, from a packet of the message.
LEMMA RetransmitInv ==
  ASSUME IndInv, Retransmit
  PROVE  IndInv'
<1> DEFINE s == [Unblocked(Now) EXCEPT !.nxt = lo]
<1>1. DequeueAndTransmit(s) /\ UNCHANGED <<lo, recvVars, back, runVars>>
  BY DEF Retransmit
<1>2. /\ s.hi = hi /\ s.ms = milestone_tx /\ s.nxt = lo /\ s.avail = "now"
      /\ s.timer = FALSE /\ s.waiting = FALSE /\ s.busy = busy
  BY DEF Unblocked, Now
<1> HIDE DEF s
<1>3. /\ s.nxt \in Nat /\ s.nxt <= hi /\ s.ms \in Nat /\ milestone_tx <= s.ms
      /\ WaitAck => s.nxt < s.ms
  BY <1>2, IndTypes
<1>4. SenderOf(s) BY <1>2, <1>3, Unblocks, Zenon
<1> QED BY <1>1, <1>2, <1>4, EventInv

\* A NACK finds its packet; nothing the answers behind it or the receiver ask
\* for is before it.
LEMMA NackInv ==
  ASSUME IndInv, ReceiveNack
  PROVE  IndInv'
<1>1. PICK i \in DOMAIN back :
        /\ Arrives(i) /\ back[i].kind = "NACK" /\ NackServable(back[i].seq)
        /\ lo' = NackedUpTo(back[i].seq)
        /\ back' = Without(back, i)
        /\ IF WaitAck /\ waitingAck
           THEN DequeueAndTransmit([Unblocked(Now) EXCEPT !.nxt = lo'])
           ELSE /\ nxt' = lo'
                /\ UNCHANGED <<hi, milestone_tx, waitingAck, timer, avail,
                               nextSend, busy, data>>
        /\ UNCHANGED <<recvVars, runVars>>
  BY DEF ReceiveNack
<1> DEFINE g == At(backto0, back[i].seq)
<1>2. i \in 1 .. Len(back) BY IndTypes
<1>3. g \in Nat /\ g <= back[i].seq /\ back[i].seq \in Nat
  BY <1>2, IndTypes, BackTyped, GoBackFacts
<1>4. lo <= g /\ g < hi /\ lo' = g
  <2>1. lo <= g /\ g < hi BY <1>1, <1>2 DEF IndInv, Answered, NacksFind
  <2>2. lo' = IF lo > g THEN lo ELSE g
    BY <1>1 DEF NackedUpTo, Larger, GoBackTo, At
  <2> HIDE DEF g
  <2> QED BY <1>3, <2>1, <2>2, IndTypes
<1>5. lo' <= At(backto0, expected) BY <1>2, <1>4 DEF IndInv, Answered, Kept
<1>6. WaitAck => lo' < milestone_tx
  <2>1. WaitAck => back[i].seq < milestone_tx
    BY <1>1, <1>2 DEF IndInv, Answered, WithinMessage
  <2> HIDE DEF g
  <2> QED BY <1>3, <1>4, <2>1, IndTypes
<1>7. \A k \in 1 .. Len(back) : k # i /\ back[k].kind = "NACK" =>
        lo' <= At(backto0, back[k].seq)
  <2> SUFFICES ASSUME NEW k \in 1 .. Len(back), k # i, back[k].kind = "NACK"
               PROVE  g <= At(backto0, back[k].seq)
    BY <1>4
  <2>1. ~(k \in 1 .. i - 1) BY <1>1 DEF Arrives
  <2>2. i \in 1 .. k - 1 BY <1>2, <2>1
  <2> QED BY <2>2 DEF IndInv, Answered, NacksFind
<1>8. /\ lo' \in Nat /\ lo' < hi /\ lo' <= hi
  <2> HIDE DEF g
  <2> QED BY <1>3, <1>4, IndTypes
<1> HIDE DEF g
<1>9. UNCHANGED <<expected, backto0>> BY <1>1 DEF recvVars, runVars
<1>10. Sender' /\ hi' = hi /\ milestone_tx' = milestone_tx
  <2>1. CASE WaitAck /\ waitingAck
    <3> DEFINE s == [Unblocked(Now) EXCEPT !.nxt = lo']
    <3>1. DequeueAndTransmit(s) BY <1>1, <2>1
    <3>2. /\ s.hi = hi /\ s.ms = milestone_tx /\ s.nxt = lo' /\ s.avail = "now"
          /\ s.timer = FALSE /\ s.waiting = FALSE /\ s.busy = busy
      BY DEF Unblocked, Now
    <3> HIDE DEF s
    <3>3. /\ s.nxt \in Nat /\ s.nxt <= hi /\ s.ms \in Nat /\ milestone_tx <= s.ms
          /\ WaitAck => s.nxt < s.ms
      BY <1>6, <1>8, <3>2, IndTypes
    <3>4. SenderOf(s) BY <3>2, <3>3, Unblocks, Zenon
    <3> QED BY <3>1, <3>2, <3>4, Transmits
  <2>2. CASE ~(WaitAck /\ waitingAck)
    <3>1. /\ nxt' = lo'
          /\ UNCHANGED <<hi, milestone_tx, waitingAck, timer, avail, busy, data>>
      BY <1>1, <2>2
    <3>2. WaitAck => nxt' <= milestone_tx /\ nxt' < milestone_tx
      BY <1>6, <1>8, <3>1, IndTypes
    <3> QED BY <1>8, <3>1, <3>2 DEF IndInv, Sender, SenderOf, Now
  <2> QED BY <2>1, <2>2
<1>11. Answered'
  BY <1>1, <1>2, <1>5, <1>6, <1>7, <1>8, <1>9, <1>10, IndTypes, BackShrinks
  DEF IndInv
<1> QED BY <1>10, <1>11 DEF IndInv

\* An ACK is the oldest answer; it acknowledges what the others do not ask for,
\* and perhaps the end of the message.
LEMMA AckInv ==
  ASSUME IndInv, ReceiveAck
  PROVE  IndInv'
<1>1. PICK i \in DOMAIN back :
        /\ Arrives(i) /\ back[i].kind = "ACK" /\ AckServable
        /\ lo' = AckedUpTo(back[i].seq)
        /\ back' = Without(back, i)
        /\ IF WaitAck /\ back[i].seq >= milestone_tx
           THEN DequeueAndTransmit([Unblocked(Now) EXCEPT !.ms = @ + Chunk])
           ELSE UNCHANGED <<hi, milestone_tx, nicVars>>
        /\ UNCHANGED <<recvVars, runVars>>
  BY DEF ReceiveAck
<1> DEFINE g == At(backto0, back[i].seq)
<1>2. i \in 1 .. Len(back) /\ i = 1
  <2>1. i \in 1 .. Len(back) BY IndTypes
  <2>2. ~(1 \in 1 .. i - 1) BY <1>1 DEF Arrives
  <2> QED BY <2>1, <2>2
<1>3. g \in Nat /\ g <= back[i].seq /\ back[i].seq \in Nat
  BY <1>2, IndTypes, BackTyped, GoBackFacts
<1>4. lo' \in Nat /\ lo' <= hi /\ (lo' = lo \/ lo' <= g)
  <2> DEFINE c == Smaller(g, hi)
  <2>1. lo' = lo \/ lo' = Larger(lo, c) BY <1>1 DEF AckedUpTo, GoBackTo, At
  <2> HIDE DEF g
  <2>2. c \in Nat /\ c <= g /\ c <= hi BY <1>3, IndTypes DEF Smaller
  <2> HIDE DEF c
  <2>3. Larger(lo, c) = lo \/ Larger(lo, c) = c BY DEF Larger
  <2> QED BY <1>3, <2>1, <2>2, <2>3, IndTypes
<1>5. lo <= At(backto0, expected) /\ g <= At(backto0, expected)
  BY <1>2 DEF IndInv, Answered, Kept
<1>6. At(backto0, expected) \in Nat BY IndTypes, GoBackFacts
<1>7. lo < hi BY <1>1 DEF AckServable
<1>8. \A k \in 1 .. Len(back) : k # i /\ back[k].kind = "NACK" =>
        lo' <= At(backto0, back[k].seq)
  <2> SUFFICES ASSUME NEW k \in 1 .. Len(back), k # i, back[k].kind = "NACK"
               PROVE  lo' <= At(backto0, back[k].seq)
    OBVIOUS
  <2>1. i \in 1 .. k - 1 BY <1>2
  <2>2. lo <= At(backto0, back[k].seq) /\ g <= At(backto0, back[k].seq)
    BY <2>1 DEF IndInv, Answered, NacksFind
  <2>3. At(backto0, back[k].seq) \in Nat BY IndTypes, BackTyped
  <2> HIDE DEF g
  <2> QED BY <1>3, <1>4, <2>2, <2>3, IndTypes
<1>9. \A k \in 1 .. Len(back) : k # i /\ back[k].kind = "ACK" => lo' < hi
  <2> SUFFICES ASSUME NEW k \in 1 .. Len(back), k # i, back[k].kind = "ACK"
               PROVE  lo' < hi
    OBVIOUS
  <2>1. i \in 1 .. k - 1 BY <1>2
  <2>2. g < hi BY <2>1 DEF IndInv, Answered, AcksFind
  <2> HIDE DEF g
  <2> QED BY <1>3, <1>4, <1>7, <2>2, IndTypes
<1>10. WaitAck => lo < milestone_tx /\ back[i].seq <= milestone_tx
  BY <1>2 DEF IndInv, Answered, WithinMessage
<1>11. lo' <= At(backto0, expected)
  <2> HIDE DEF g
  <2> QED BY <1>3, <1>4, <1>5, <1>6, IndTypes
<1>12. UNCHANGED <<expected, backto0>> BY <1>1 DEF recvVars, runVars
<1>13. /\ Sender' /\ hi' = hi
       /\ milestone_tx' \in Nat /\ milestone_tx <= milestone_tx'
       /\ WaitAck => lo' < milestone_tx'
  <2>1. CASE WaitAck /\ back[i].seq >= milestone_tx
    <3> DEFINE s == [Unblocked(Now) EXCEPT !.ms = @ + Chunk]
    <3>1. DequeueAndTransmit(s) BY <1>1, <2>1
    <3>2. /\ s.hi = hi /\ s.ms = milestone_tx + Chunk /\ s.nxt = nxt
          /\ s.avail = "now" /\ s.timer = FALSE /\ s.waiting = FALSE
          /\ s.busy = busy
      BY DEF Unblocked, Now
    <3> HIDE DEF s, g
    <3>3. WaitAck => nxt <= milestone_tx BY DEF IndInv, Sender, SenderOf, Now
    <3>4. /\ s.nxt \in Nat /\ s.nxt <= hi /\ s.ms \in Nat /\ milestone_tx <= s.ms
          /\ WaitAck => s.nxt < s.ms
      BY <3>2, <3>3, IndTypes
    <3>5. SenderOf(s) BY <3>2, <3>4, Unblocks, Zenon
    <3>6. Sender' /\ hi' = hi /\ milestone_tx' = milestone_tx + Chunk
      BY <3>1, <3>2, <3>5, Transmits
    <3>7. WaitAck => lo' < milestone_tx + Chunk
      BY <1>3, <1>4, <1>10, IndTypes
    <3> QED BY <3>6, <3>7, IndTypes
  <2>2. CASE ~(WaitAck /\ back[i].seq >= milestone_tx)
    <3>1. UNCHANGED <<hi, milestone_tx, nxt, waitingAck, timer, avail, busy, data>>
      BY <1>1, <2>2 DEF nicVars
    <3>2. Sender' BY <3>1 DEF IndInv, Sender, SenderOf, Now
    <3> HIDE DEF g
    <3>3. WaitAck => lo' < milestone_tx BY <1>3, <1>4, <1>10, <2>2, IndTypes
    <3> QED BY <3>1, <3>2, <3>3, IndTypes
  <2> QED BY <2>1, <2>2
<1> HIDE DEF g
<1>14. Answered'
  BY <1>1, <1>2, <1>4, <1>8, <1>9, <1>11, <1>12, <1>13, BackShrinks DEF IndInv
<1> QED BY <1>13, <1>14 DEF IndInv

\* The receiver takes a packet that is handed over and of this message.
LEMMA DataInv ==
  ASSUME IndInv, ReceiveData
  PROVE  IndInv'
<1> DEFINE p == Head(data)
<1>1. /\ data # <<>> /\ data' = Tail(data)
      /\ InOrder(p) \/ Gap(p) \/ Duplicate(p)
      /\ UNCHANGED <<hi, lo, milestone_tx, nxt, waitingAck, timer, avail, busy,
                     backto0>>
  BY DEF ReceiveData, flowVars, runVars
<1>2. /\ p \in Nat /\ p < hi /\ (WaitAck => p < milestone_tx)
      /\ data' \in Seq(Nat)
      /\ \A i \in 1 .. Len(data') : \E j \in 1 .. Len(data) : data'[i] = data[j]
  <2>1. data \in Seq(Nat) /\ data # <<>> BY <1>1, IndTypes
  <2>2. p = data[1] /\ 1 \in 1 .. Len(data) BY <2>1
  <2>3. \A i \in 1 .. Len(data') : i + 1 \in 1 .. Len(data) /\ data'[i] = data[i + 1]
    BY <1>1, <2>1
  <2> QED BY <1>1, <2>1, <2>2, <2>3, IndTypes
<1> HIDE DEF p
<1>3. Sender' BY <1>1, <1>2, SenderStays DEF IndInv
<1>4. At(backto0, expected) \in Nat BY IndTypes, GoBackFacts
<1>5. CASE InOrder(p)
  <2>1. /\ expected = p /\ expected' = expected + 1
        /\ Answer("ACK", expected') \/ UNCHANGED back
    BY <1>5 DEF InOrder
  <2>2. /\ expected < hi /\ expected' \in Nat /\ expected <= expected'
        /\ expected' <= hi /\ (WaitAck => expected' <= milestone_tx)
    BY <1>2, <2>1, IndTypes
  <2>3. At(backto0, expected) <= At(backto0, expected') BY <2>2, IndTypes, GoBackMono
  <2>4. CASE Answer("ACK", expected')
    BY <1>1, <1>3, <2>2, <2>3, <2>4, BackGrows DEF IndInv
  <2>5. CASE UNCHANGED back
    BY <1>1, <1>3, <2>2, <2>5, IndTypes, BackStays DEF IndInv
  <2> QED BY <2>1, <2>4, <2>5
<1>6. CASE Gap(p)
  <2>1. expected < p /\ expected < hi /\ (WaitAck => expected < milestone_tx)
    BY <1>2, <1>6, IndTypes DEF Gap
  <2>2. CASE ~nackQuiet \/ lastNACK # expected
    <3>1. /\ expected' = IF backto0 /\ ~TestRead THEN ChunkStart(expected)
                         ELSE expected
          /\ Answer("NACK", expected')
      BY <1>6, <2>2 DEF Gap
    <3>2. ChunkStart(expected) \in Nat /\ ChunkStart(expected) <= expected
      BY IndTypes, GoBackFacts
    <3>3. /\ expected' \in Nat /\ expected' <= expected /\ expected' <= hi
          /\ WaitAck => expected' <= milestone_tx /\ expected' < milestone_tx
      BY <2>1, <3>1, <3>2, IndTypes
    <3>4. At(backto0, expected') = At(backto0, expected)
      BY <3>1, IndTypes, GoBackTwice DEF At
    <3>5. At(backto0, expected) <= At(backto0, expected') BY <1>4, <3>4
    <3>6. Answered' BY <1>1, <2>1, <3>1, <3>3, <3>5, BackGrows DEF IndInv
    <3> QED BY <1>3, <3>6 DEF IndInv
  <2>3. CASE ~(~nackQuiet \/ lastNACK # expected)
    <3>1. UNCHANGED <<expected, back>> BY <1>6, <2>3 DEF Gap
    <3>2. Answered' BY <1>1, <3>1, IndTypes, BackStays DEF IndInv
    <3> QED BY <1>3, <3>2 DEF IndInv
  <2> QED BY <2>2, <2>3
<1>7. CASE Duplicate(p)
  <2>1. UNCHANGED <<expected, back>> BY <1>7 DEF Duplicate, recvVars
  <2>2. Answered' BY <1>1, <2>1, IndTypes, BackStays DEF IndInv
  <2> QED BY <1>3, <2>2 DEF IndInv
<1> QED BY <1>1, <1>5, <1>6, <1>7

\* Packets that are lost leave the others in order.
LEMMA LoseDataInv ==
  ASSUME IndInv, LoseData
  PROVE  IndInv'
<1>1. PICK i \in DOMAIN data : data' = Without(data, i) BY DEF LoseData
<1>2. UNCHANGED <<hi, lo, milestone_tx, nxt, waitingAck, timer, avail, busy,
                  expected, back, backto0>>
  BY DEF LoseData, flowVars, recvVars
<1>3. i \in 1 .. Len(data) BY IndTypes
<1>4. data' \in Seq(Nat) BY <1>1, <1>3, IndTypes, WithoutFacts
<1>5. InOrderBut(data, i, data') BY <1>1, <1>3, IndTypes, WithoutOrder
<1>6. Sender' BY <1>2, <1>4, <1>5, SenderStays DEF IndInv, InOrderBut
<1>7. Answered' BY <1>2, IndTypes, BackStays DEF IndInv
<1> QED BY <1>6, <1>7 DEF IndInv

\* Answers that are lost leave the others in order.
LEMMA LoseBackInv ==
  ASSUME IndInv, LoseBack
  PROVE  IndInv'
<1>1. PICK i \in DOMAIN back : back' = Without(back, i) BY DEF LoseBack
<1>2. UNCHANGED <<hi, lo, milestone_tx, nxt, waitingAck, timer, avail, busy,
                  data, expected, backto0>>
  BY DEF LoseBack, flowVars, nicVars, recvVars
<1>3. i \in 1 .. Len(back) BY IndTypes
<1>4. Sender' BY <1>2 DEF IndInv, Sender, SenderOf, Now
<1>5. /\ lo <= At(backto0, expected)
      /\ \A k \in 1 .. Len(back) : k # i /\ back[k].kind = "NACK" =>
           lo <= At(backto0, back[k].seq)
      /\ \A k \in 1 .. Len(back) : k # i /\ back[k].kind = "ACK" => lo < hi
      /\ WaitAck => lo < milestone_tx
  BY DEF IndInv, Answered, Kept, NacksFind, AcksFind, WithinMessage
<1>6. Answered' BY <1>1, <1>2, <1>3, <1>5, IndTypes, BackShrinks DEF IndInv
<1> QED BY <1>4, <1>6 DEF IndInv

\* Steps that change nothing the invariant is about.
LEMMA QuietInv ==
  ASSUME IndInv, UNCHANGED <<hi, lo, milestone_tx, nxt, waitingAck, timer, avail,
                             busy, data, expected, back, backto0>>
  PROVE  IndInv'
<1>1. Sender' BY DEF IndInv, Sender, SenderOf, Now
<1>2. Answered' BY IndTypes, BackStays DEF IndInv
<1> QED BY <1>1, <1>2 DEF IndInv

\* Every step of a sender whose buffer has room.
LEMMA StepInv ==
  ASSUME HasRoom, IndInv, [Next]_vars
  PROVE  IndInv'
<1>1. CASE Send BY <1>1, SendInv
<1>2. CASE TransmitComplete BY <1>2, CompleteInv
<1>3. CASE NextSendFires BY <1>3, NextSendInv
<1>4. CASE PacingGapEnds BY <1>4, PacingInv
<1>5. CASE Retransmit BY <1>5, RetransmitInv
<1>6. CASE ReceiveNack BY <1>6, NackInv
<1>7. CASE ReceiveAck BY <1>7, AckInv
<1>8. CASE ReceiveData BY <1>8, DataInv
<1>9. CASE NackIntervalEnds
  BY <1>9, QuietInv DEF NackIntervalEnds, flowVars, nicVars, runVars
<1>10. CASE LoseData BY <1>10, LoseDataInv
<1>11. CASE LoseBack BY <1>11, LoseBackInv
<1>12. CASE UNCHANGED vars
  BY <1>12, QuietInv DEF vars, flowVars, nicVars, recvVars, runVars
<1> QED BY <1>1, <1>2, <1>3, <1>4, <1>5, <1>6, <1>7, <1>8, <1>9, <1>10, <1>11, <1>12
       DEF Next

\* The invariant holds as long as the sending buffer has room.
LEMMA Invariance == Spec /\ []HasRoom => []IndInv
<1>1. HasRoom /\ IndInv /\ [Next]_vars => IndInv' BY StepInv
<1> QED BY <1>1, InitInv, PTL DEF Spec

\* A buffer that holds the whole flow always has room.
LEMMA FitsHasRoom ==
  ASSUME Fits
  PROVE  Spec => []HasRoom
<1>1. IndInv => HasRoom BY IndTypes, GbnAssumption DEF Fits, HasRoom
<1>2. IndInv /\ [Next]_vars => IndInv' BY <1>1, StepInv
<1> QED BY <1>1, <1>2, InitInv, PTL DEF Spec

---------------------------------------------------------------------------
\* While the sending buffer has room, and whatever ACKs and NACKs are delayed,
\* lost or reordered, nothing is discarded before the receiver has it for good
\* (qbb-net-device.cc:765-830, 880-930).
THEOREM KeepsNeeded == Spec /\ []HasRoom => []SenderKeepsNeeded
<1>1. IndInv => SenderKeepsNeeded
  BY DEF IndInv, Answered, Kept, At, SenderKeepsNeeded
<1> QED BY <1>1, Invariance, PTL

\* Every answer finds its packet in the sending buffer (qbb-net-device.cc:763,
\* 821).
THEOREM ServesAnswers == Spec /\ []HasRoom => []AnswersServed
<1>1. IndInv => AnswersServed
  <2> SUFFICES ASSUME IndInv PROVE AnswersServed OBVIOUS
  <2>1. DOMAIN back = 1 .. Len(back) BY IndTypes
  <2>2. NacksServed
    <3> SUFFICES ASSUME NEW k \in 1 .. Len(back), back[k].kind = "NACK"
                 PROVE  NackServable(back[k].seq)
      BY <2>1 DEF NacksServed
    <3> DEFINE g == At(backto0, back[k].seq)
    <3>1. lo <= g /\ g < hi BY DEF IndInv, Answered, NacksFind
    <3>2. g \in Nat BY IndTypes, BackTyped
    <3>3. GoBackTo(back[k].seq) = g BY DEF GoBackTo, At
    <3> HIDE DEF g
    <3> QED BY <3>1, <3>2, <3>3, IndTypes DEF NackServable
  <2>3. AcksServed
    BY <2>1 DEF IndInv, Answered, AcksFind, AcksServed, AckServable
  <2> QED BY <2>2, <2>3 DEF AnswersServed
<1> QED BY <1>1, Invariance, PTL

\* A flow that waits for an acknowledgement has its timer and sends nothing of
\* the next message (qbb-net-device.cc:169, 381-387).
THEOREM WaitsForAck == Spec /\ []HasRoom => []StopsAndWaits
<1>1. IndInv => StopsAndWaits
  <2> SUFFICES ASSUME IndInv PROVE StopsAndWaits OBVIOUS
  <2>1. DOMAIN data = 1 .. Len(data) BY IndTypes
  <2>2. StoppedHasTimer
    BY DEF IndInv, Sender, SenderOf, Now, StoppedHasTimer
  <2>3. OneMessageAtATime BY <2>1, IndTypes DEF OneMessageAtATime
  <2> QED BY <2>2, <2>3 DEF StopsAndWaits
<1> QED BY <1>1, Invariance, PTL
---------------------------------------------------------------------------
(* The types, whether the sending buffer has room or not.                  *)

\* The sender, as DequeueAndTransmit sees it.
TypedSender(s) ==
  /\ s.hi \in 0 .. Total /\ s.nxt \in 0 .. s.hi
  /\ s.ms \in Nat /\ s.ms % Chunk = 0
  /\ s.waiting \in BOOLEAN /\ s.timer \in BOOLEAN /\ s.busy \in BOOLEAN
  /\ s.avail \in {"now", "soon", "far"}
  /\ s.nextSend \in {"none", "soon", "far"}
  /\ data \in Seq(0 .. s.hi - 1)

TypedReceiver ==
  /\ expected \in 0 .. hi /\ milestone_rx \in Nat /\ lastNACK \in -1 .. hi
  /\ nackQuiet \in BOOLEAN

TypedAnswers ==
  /\ lo \in 0 .. hi /\ back \in Seq([kind : {"ACK", "NACK"}, seq : 0 .. hi])
  /\ backto0 \in BackTo0s

\* The three parts are the types of the component.
LEMMA TypedParts ==
  TypeOK <=> TypedSender(Now) /\ TypedReceiver /\ TypedAnswers
BY DEF TypeOK, TypedSender, TypedReceiver, TypedAnswers, Now

LEMMA TypedAfter ==
  ASSUME TypedSender(Now)', TypedReceiver', TypedAnswers'
  PROVE  TypeOK'
BY DEF TypeOK, TypedSender, TypedReceiver, TypedAnswers, Now

\* A sequence over a set is one over a larger set.
LEMMA SeqWidens ==
  ASSUME NEW S, NEW T, S \subseteq T, NEW s \in Seq(S)
  PROVE  s \in Seq(T)
<1>1. \A i \in 1 .. Len(s) : s[i] \in T OBVIOUS
<1>2. s = [i \in 1 .. Len(s) |-> s[i]] /\ Len(s) \in Nat OBVIOUS
<1> QED BY <1>1, <1>2

\* The end of the next chunk is a multiple of the chunk.
LEMMA NextChunk ==
  ASSUME NEW m \in Nat, m % Chunk = 0
  PROVE  m + Chunk \in Nat /\ (m + Chunk) % Chunk = 0
<1>1. Chunk \in Nat \ {0} /\ m + Chunk \in Nat BY GbnAssumption
<1> DEFINE p == m \div Chunk
           q == (m + Chunk) \div Chunk
           r == (m + Chunk) % Chunk
<1>2. /\ p \in Int /\ m = p * Chunk
      /\ q \in Int /\ r \in 0 .. Chunk - 1 /\ m + Chunk = q * Chunk + r
  BY <1>1
<1> HIDE DEF p, q, r
<1> DEFINE d == p + 1 - q
<1>3. d \in Int /\ d * Chunk = r BY <1>1, <1>2
<1> HIDE DEF d
<1>4. d * Chunk < 1 * Chunk /\ (-1) * Chunk < d * Chunk BY <1>1, <1>2, <1>3
<1>5. d = 0 BY <1>1, <1>3, <1>4, MulMono
<1>6. r = 0 BY <1>1, <1>3, <1>5
<1> QED BY <1>1, <1>6 DEF r

\* DequeueAndTransmit keeps the types.
LEMMA TransmitsTyped ==
  ASSUME NEW s, TypedSender(s), DequeueAndTransmit(s)
  PROVE  /\ TypedSender(Now)' /\ hi' = s.hi /\ milestone_tx' = s.ms
<1>1. hi' = s.hi /\ milestone_tx' = s.ms BY DEF DequeueAndTransmit
<1>2. /\ s.hi \in Nat /\ s.hi \in 0 .. Total /\ s.nxt \in Nat
      /\ s.nxt <= s.hi
      /\ s.ms \in Nat /\ s.ms % Chunk = 0 /\ data \in Seq(0 .. s.hi - 1)
      /\ s.avail \in {"now", "soon", "far"}
      /\ s.nextSend \in {"none", "soon", "far"}
  BY GbnAssumption DEF TypedSender
<1>3. CASE Sendable(s)
  <2>1. /\ s.nxt < s.hi
        /\ data' = Append(data, s.nxt) /\ nxt' = s.nxt + 1 /\ busy' = TRUE
        /\ avail' \in {"now", "soon", "far"}
        /\ waitingAck' = (s.waiting \/ EndsChunk(s))
        /\ timer' = (s.timer \/ (EndsChunk(s) /\ ~s.waiting))
        /\ nextSend' = s.nextSend
    BY <1>3 DEF DequeueAndTransmit, Sendable
  <2>2. nxt' \in 0 .. s.hi /\ s.nxt \in 0 .. s.hi - 1 BY <1>2, <2>1
  <2>3. data' \in Seq(0 .. s.hi - 1)
    <3> DEFINE S == 0 .. s.hi - 1
               p == s.nxt
    <3>1. data \in Seq(S) /\ p \in S /\ data' = Append(data, p) BY <1>2, <2>1, <2>2
    <3> HIDE DEF S, p
    <3>2. data' \in Seq(S) BY <3>1
    <3> QED BY <3>2 DEF S
  <2>4. waitingAck' \in BOOLEAN /\ timer' \in BOOLEAN BY <2>1, Zenon DEF TypedSender
  <2> QED BY <1>1, <1>2, <2>1, <2>2, <2>3, <2>4 DEF TypedSender, Now
<1>4. CASE ~Sendable(s)
  <2>1. /\ nxt' = s.nxt /\ busy' = s.busy /\ avail' = s.avail
        /\ waitingAck' = s.waiting /\ timer' = s.timer /\ data' = data
        /\ nextSend' = IF ~s.busy /\ s.nxt < s.hi /\ s.nextSend = "none"
                       THEN s.avail ELSE s.nextSend
    BY <1>4 DEF DequeueAndTransmit
  <2>2. nextSend' \in {"none", "soon", "far"}
    <3>1. CASE ~s.busy /\ s.nxt < s.hi /\ s.nextSend = "none"
      <4>1. s.avail # "now" BY <1>4, <3>1 DEF Sendable
      <4> QED BY <1>2, <2>1, <3>1, <4>1
    <3>2. CASE ~(~s.busy /\ s.nxt < s.hi /\ s.nextSend = "none")
      BY <1>2, <2>1, <3>2
    <3> QED BY <3>1, <3>2
  <2> QED BY <1>1, <2>1, <2>2 DEF TypedSender, Now
<1> QED BY <1>1, <1>3, <1>4

\* What the types say where the proofs below need it.
LEMMA TypeFacts ==
  ASSUME TypeOK
  PROVE  /\ hi \in Nat /\ hi <= Total /\ Total \in Nat
         /\ lo \in Nat /\ lo <= hi /\ nxt \in Nat /\ nxt <= hi
         /\ milestone_tx \in Nat /\ milestone_tx % Chunk = 0
         /\ waitingAck \in BOOLEAN /\ timer \in BOOLEAN /\ busy \in BOOLEAN
         /\ expected \in Nat /\ expected <= hi
         /\ data \in Seq(0 .. hi - 1) /\ DOMAIN data = 1 .. Len(data)
         /\ back \in Seq([kind : {"ACK", "NACK"}, seq : 0 .. hi])
         /\ DOMAIN back = 1 .. Len(back)
         /\ \A i \in 1 .. Len(back) : back[i].seq \in Nat /\ back[i].seq <= hi
<1>1. /\ hi \in Nat /\ hi <= Total /\ Total \in Nat
      /\ lo \in Nat /\ lo <= hi /\ nxt \in Nat /\ nxt <= hi
      /\ milestone_tx \in Nat /\ milestone_tx % Chunk = 0
      /\ waitingAck \in BOOLEAN /\ timer \in BOOLEAN /\ busy \in BOOLEAN
      /\ expected \in Nat /\ expected <= hi
  BY GbnAssumption DEF TypeOK
<1>2. data \in Seq(0 .. hi - 1) /\ back \in Seq([kind : {"ACK", "NACK"}, seq : 0 .. hi])
  BY DEF TypeOK
<1>3. \A i \in 1 .. Len(back) : back[i] \in [kind : {"ACK", "NACK"}, seq : 0 .. hi]
  <2> DEFINE A == [kind : {"ACK", "NACK"}, seq : 0 .. hi]
  <2>1. back \in Seq(A) BY <1>2
  <2> HIDE DEF A
  <2>2. \A i \in 1 .. Len(back) : back[i] \in A BY <2>1
  <2> QED BY <2>2 DEF A
<1>4. \A i \in 1 .. Len(back) : back[i].seq \in 0 .. hi BY <1>3
<1>5. \A i \in 1 .. Len(back) : back[i].seq \in Nat /\ back[i].seq <= hi
  BY <1>1, <1>4
<1> QED BY <1>1, <1>2, <1>5

\* The sender sends, and the rest of the component keeps its types.
LEMMA SenderActs ==
  ASSUME TypeOK, NEW s, TypedSender(s), DequeueAndTransmit(s), s.hi = hi,
         UNCHANGED <<recvVars, runVars>>, TypedAnswers'
  PROVE  TypeOK'
<1>1. TypedSender(Now)' /\ hi' = hi BY TransmitsTyped
<1>2. TypedReceiver' BY <1>1, TypedParts DEF TypedReceiver, recvVars
<1> QED BY <1>1, <1>2, TypedAfter

\* A new packet of the application widens what is sent and asked for.
LEMMA SendTypes ==
  ASSUME TypeOK, Send
  PROVE  TypeOK'
<1> DEFINE s == [Now EXCEPT !.hi = hi + 1]
<1>1. /\ hi < Total /\ lo' = (IF hi - lo = BufferCap THEN lo + 1 ELSE lo)
      /\ DequeueAndTransmit(s) /\ UNCHANGED <<recvVars, back, runVars>>
  BY DEF Send
<1>2. /\ s.hi = hi + 1 /\ s.nxt = nxt /\ s.ms = milestone_tx
      /\ s.waiting = waitingAck /\ s.timer = timer /\ s.avail = avail
      /\ s.nextSend = nextSend /\ s.busy = busy
  BY DEF Now
<1> HIDE DEF s
<1>3. data \in Seq(0 .. s.hi - 1)
  <2>1. 0 .. hi - 1 \subseteq 0 .. s.hi - 1 BY <1>2, TypeFacts
  <2> QED BY <2>1, TypeFacts, SeqWidens
<1>4. s.hi \in 0 .. Total /\ s.nxt \in 0 .. s.hi BY <1>1, <1>2, TypeFacts
<1>5. TypedSender(s) BY <1>2, <1>3, <1>4 DEF TypedSender, TypeOK
<1>6. TypedSender(Now)' /\ hi' = hi + 1 BY <1>1, <1>2, <1>5, TransmitsTyped
<1>7. TypedReceiver'
  BY <1>1, <1>6, TypeFacts DEF TypedReceiver, recvVars, TypeOK
<1>8. TypedAnswers'
  <2> DEFINE A == [kind : {"ACK", "NACK"}, seq : 0 .. hi]
             B == [kind : {"ACK", "NACK"}, seq : 0 .. hi + 1]
  <2>1. A \subseteq B BY TypeFacts
  <2>2. back \in Seq(A) BY TypeFacts
  <2> HIDE DEF A, B
  <2>3. back \in Seq(B) BY <2>1, <2>2, SeqWidens
  <2>4. lo' \in 0 .. hi + 1 BY <1>1, TypeFacts
  <2>5. backto0 \in BackTo0s BY DEF TypeOK
  <2> QED BY <1>1, <1>6, <2>3, <2>4, <2>5 DEF TypedAnswers, runVars, B
<1> QED BY <1>6, <1>7, <1>8, TypedAfter

\* The sender's own events.
LEMMA SenderTypes ==
  ASSUME TypeOK, TransmitComplete \/ NextSendFires \/ PacingGapEnds \/ Retransmit
  PROVE  TypeOK'
<1>1. UNCHANGED <<lo, back, backto0, recvVars, runVars>> /\ hi' = hi
  BY DEF TransmitComplete, NextSendFires, PacingGapEnds, Retransmit, flowVars,
         runVars, DequeueAndTransmit, Now, Unblocked
<1>2. TypedAnswers' BY <1>1, TypedParts DEF TypedAnswers
<1>3. TypedSender(Now) BY TypedParts
<1>4. CASE TransmitComplete
  <2> DEFINE s == [Now EXCEPT !.busy = FALSE]
  <2>1. DequeueAndTransmit(s) BY <1>4 DEF TransmitComplete
  <2>2. TypedSender(s) /\ s.hi = hi BY <1>3 DEF TypedSender, Now
  <2> QED BY <1>1, <1>2, <2>1, <2>2, SenderActs
<1>5. CASE NextSendFires
  <2>1. PICK a \in {avail} \cup (IF avail = "soon" THEN {"now"} ELSE {}) :
          DequeueAndTransmit([Now EXCEPT !.nextSend = "none", !.avail = a])
    BY <1>5 DEF NextSendFires
  <2>2. a \in {"now", "soon", "far"} BY DEF TypeOK
  <2> DEFINE s == [Now EXCEPT !.nextSend = "none", !.avail = a]
  <2>3. TypedSender(s) /\ s.hi = hi BY <1>3, <2>2 DEF TypedSender, Now
  <2> QED BY <1>1, <1>2, <2>1, <2>3, SenderActs
<1>6. CASE PacingGapEnds
  BY <1>1, <1>6 DEF PacingGapEnds, TypeOK, flowVars, recvVars, runVars
<1>7. CASE Retransmit
  <2> DEFINE s == [Unblocked(Now) EXCEPT !.nxt = lo]
  <2>1. DequeueAndTransmit(s) BY <1>7 DEF Retransmit
  <2>2. TypedSender(s) /\ s.hi = hi
    BY <1>3, TypeFacts DEF TypedSender, Now, Unblocked, TypeOK
  <2> QED BY <1>1, <1>2, <2>1, <2>2, SenderActs
<1> QED BY <1>4, <1>5, <1>6, <1>7

\* Where an answer sends the sender back to is within the sending buffer.
LEMMA AnswerTypes ==
  ASSUME TypeOK, ReceiveNack \/ ReceiveAck
  PROVE  TypeOK'
<1>1. ASSUME NEW i \in DOMAIN back, lo' \in 0 .. hi, hi' = hi,
             back' = Without(back, i), backto0' = backto0
      PROVE  TypedAnswers'
  <2>1. i \in 1 .. Len(back) BY TypeFacts
  <2>2. back' \in Seq([kind : {"ACK", "NACK"}, seq : 0 .. hi])
    <3> DEFINE A == [kind : {"ACK", "NACK"}, seq : 0 .. hi]
    <3>1. back \in Seq(A) BY TypeFacts
    <3> HIDE DEF A
    <3>2. back' \in Seq(A) BY <1>1, <2>1, <3>1, WithoutFacts
    <3> QED BY <3>2 DEF A
  <2>3. backto0 \in BackTo0s BY DEF TypeOK
  <2> QED BY <1>1, <2>2, <2>3 DEF TypedAnswers
<1>2. CASE ReceiveNack
  <2>1. PICK i \in DOMAIN back :
          /\ NackServable(back[i].seq) /\ lo' = NackedUpTo(back[i].seq)
          /\ back' = Without(back, i)
          /\ IF WaitAck /\ waitingAck
             THEN DequeueAndTransmit([Unblocked(Now) EXCEPT !.nxt = lo'])
             ELSE /\ nxt' = lo'
                  /\ UNCHANGED <<hi, milestone_tx, waitingAck, timer, avail,
                                 nextSend, busy, data>>
          /\ UNCHANGED <<recvVars, runVars>>
    BY <1>2 DEF ReceiveNack
  <2>2. lo' \in 0 .. hi
    BY <2>1, TypeFacts DEF NackServable, NackedUpTo, Larger
  <2>3. CASE WaitAck /\ waitingAck
    <3> DEFINE s == [Unblocked(Now) EXCEPT !.nxt = lo']
    <3>1. DequeueAndTransmit(s) BY <2>1, <2>3
    <3>2. TypedSender(s) /\ s.hi = hi
      BY <2>2, TypedParts DEF TypedSender, Now, Unblocked
    <3>3. hi' = hi BY <3>1, <3>2 DEF DequeueAndTransmit
    <3>4. TypedAnswers' BY <1>1, <2>1, <2>2, <3>3 DEF runVars
    <3> QED BY <2>1, <3>1, <3>2, <3>4, SenderActs
  <2>4. CASE ~(WaitAck /\ waitingAck)
    <3>1. /\ nxt' = lo' /\ hi' = hi
          /\ UNCHANGED <<milestone_tx, waitingAck, timer, avail, nextSend, busy, data>>
      BY <2>1, <2>4
    <3>2. TypedSender(Now)' BY <2>2, <3>1, TypedParts DEF TypedSender, Now
    <3>3. TypedAnswers' BY <1>1, <2>1, <2>2, <3>1 DEF runVars
    <3>4. TypedReceiver' BY <2>1, <3>1, TypedParts DEF TypedReceiver, recvVars
    <3> QED BY <3>2, <3>3, <3>4, TypedAfter
  <2> QED BY <2>3, <2>4
<1>3. CASE ReceiveAck
  <2>1. PICK i \in DOMAIN back :
          /\ lo' = AckedUpTo(back[i].seq)
          /\ back' = Without(back, i)
          /\ IF WaitAck /\ back[i].seq >= milestone_tx
             THEN DequeueAndTransmit([Unblocked(Now) EXCEPT !.ms = @ + Chunk])
             ELSE UNCHANGED <<hi, milestone_tx, nicVars>>
          /\ UNCHANGED <<recvVars, runVars>>
    BY <1>3 DEF ReceiveAck
  <2>2. lo' \in 0 .. hi
    <3>1. back[i].seq \in Nat BY TypeFacts
    <3>2. GoBackTo(back[i].seq) \in Nat BY <3>1, GoBackFacts DEF GoBackTo, At
    <3> DEFINE g == GoBackTo(back[i].seq)
    <3>3. lo' = lo \/ lo' = Larger(lo, Smaller(g, hi)) BY <2>1 DEF AckedUpTo
    <3> HIDE DEF g
    <3> QED BY <3>2, <3>3, TypeFacts DEF Larger, Smaller, g
  <2>3. CASE WaitAck /\ back[i].seq >= milestone_tx
    <3> DEFINE s == [Unblocked(Now) EXCEPT !.ms = @ + Chunk]
    <3>1. DequeueAndTransmit(s) BY <2>1, <2>3
    <3>2. /\ s.hi = hi /\ s.nxt = nxt /\ s.ms = milestone_tx + Chunk
          /\ s.waiting = FALSE /\ s.timer = FALSE /\ s.avail = "now"
          /\ s.nextSend = nextSend /\ s.busy = busy
      BY DEF Now, Unblocked
    <3> HIDE DEF s
    <3>3. s.ms \in Nat /\ s.ms % Chunk = 0 BY <3>2, TypeFacts, NextChunk
    <3>4. TypedSender(s) BY <3>2, <3>3 DEF TypedSender, TypeOK
    <3>5. hi' = hi BY <3>1, <3>2 DEF DequeueAndTransmit
    <3>6. TypedAnswers' BY <1>1, <2>1, <2>2, <3>5 DEF runVars
    <3> QED BY <2>1, <3>1, <3>2, <3>4, <3>6, SenderActs
  <2>4. CASE ~(WaitAck /\ back[i].seq >= milestone_tx)
    <3>1. UNCHANGED <<hi, milestone_tx, nicVars>> BY <2>1, <2>4
    <3>2. TypedSender(Now)' BY <3>1, TypedParts DEF TypedSender, Now, nicVars
    <3>3. TypedAnswers' BY <1>1, <2>1, <2>2, <3>1 DEF runVars
    <3>4. TypedReceiver' BY <2>1, <3>1, TypedParts DEF TypedReceiver, recvVars
    <3> QED BY <3>2, <3>3, <3>4, TypedAfter
  <2> QED BY <2>3, <2>4
<1> QED BY <1>2, <1>3

\* The receiver expects and asks for packets that are handed over.
LEMMA DataTypes ==
  ASSUME TypeOK, ReceiveData
  PROVE  TypeOK'
<1> DEFINE p == Head(data)
           A == [kind : {"ACK", "NACK"}, seq : 0 .. hi]
<1>1. /\ data # <<>> /\ data' = Tail(data)
      /\ InOrder(p) \/ Gap(p) \/ Duplicate(p)
      /\ UNCHANGED <<flowVars, nxt, waitingAck, timer, avail, nextSend, busy, runVars>>
  BY DEF ReceiveData
<1>2. p \in 0 .. hi - 1 /\ data' \in Seq(0 .. hi - 1)
  <2> DEFINE S == 0 .. hi - 1
  <2>1. data \in Seq(S) BY TypeFacts
  <2> HIDE DEF S
  <2>2. Head(data) \in S /\ Tail(data) \in Seq(S) BY <1>1, <2>1
  <2> QED BY <1>1, <2>2 DEF S
<1> HIDE DEF p
<1>3. TypedSender(Now)'
  BY <1>1, <1>2, TypedParts DEF TypedSender, Now, flowVars
<1>4. back \in Seq(A) BY TypeFacts
<1>5. ASSUME NEW k \in {"ACK", "NACK"}, NEW q \in 0 .. hi, Answer(k, q)
      PROVE  back' \in Seq(A)
  <2> DEFINE a == [kind |-> k, seq |-> q]
  <2>1. a \in A /\ back' = Append(back, a) BY <1>5 DEF Answer
  <2> HIDE DEF a, A
  <2> QED BY <1>4, <2>1
<1> HIDE DEF A
<1>6. TypedReceiver' /\ back' \in Seq(A)
  <2>1. CASE InOrder(p)
    <3>1. /\ p = expected /\ expected' = expected + 1
          /\ UNCHANGED <<lastNACK, nackQuiet>>
          /\ milestone_rx' \in {milestone_rx, milestone_rx + AckInterval}
          /\ Answer("ACK", expected') \/ UNCHANGED back
      BY <2>1 DEF InOrder
    <3>2. expected' \in 0 .. hi BY <1>2, <3>1, TypeFacts
    <3>3. milestone_rx' \in Nat BY <3>1, GbnAssumption DEF TypeOK
    <3>4. back' \in Seq(A) BY <1>4, <1>5, <3>1, <3>2
    <3> QED BY <1>1, <3>1, <3>2, <3>3, <3>4 DEF TypedReceiver, TypeOK, flowVars
  <2>2. CASE Gap(p)
    <3>1. UNCHANGED milestone_rx BY <2>2 DEF Gap
    <3>2. CASE ~nackQuiet \/ lastNACK # expected
      <4>1. /\ nackQuiet' = TRUE /\ lastNACK' = expected
            /\ expected' \in {expected, ChunkStart(expected)}
            /\ Answer("NACK", expected')
        BY <2>2, <3>2 DEF Gap
      <4>2. expected' \in 0 .. hi /\ lastNACK' \in -1 .. hi
        <5>1. ChunkStart(expected) \in Nat /\ ChunkStart(expected) <= expected
          BY TypeFacts, GoBackFacts
        <5> QED BY <4>1, <5>1, TypeFacts
      <4>3. back' \in Seq(A) BY <1>5, <4>1, <4>2
      <4> QED BY <1>1, <3>1, <4>1, <4>2, <4>3 DEF TypedReceiver, TypeOK, flowVars
    <3>3. CASE ~(~nackQuiet \/ lastNACK # expected)
      <4>1. UNCHANGED <<expected, lastNACK, nackQuiet, back>> BY <2>2, <3>3 DEF Gap
      <4> QED BY <1>1, <1>4, <3>1, <4>1, TypedParts DEF TypedReceiver, flowVars
    <3> QED BY <3>2, <3>3
  <2>3. CASE Duplicate(p)
    BY <1>1, <1>4, <2>3, TypedParts DEF Duplicate, recvVars, TypedReceiver, flowVars
  <2> QED BY <1>1, <2>1, <2>2, <2>3
<1>7. TypedAnswers'
  BY <1>1, <1>6, TypedParts DEF TypedAnswers, flowVars, runVars, A
<1> QED BY <1>3, <1>6, <1>7, TypedAfter

\* The network takes packets and answers away; the NACK interval ends.
LEMMA NetworkTypes ==
  ASSUME TypeOK, NackIntervalEnds \/ LoseData \/ LoseBack \/ UNCHANGED vars
  PROVE  TypeOK'
<1>1. CASE NackIntervalEnds
  BY <1>1 DEF NackIntervalEnds, TypeOK, flowVars, nicVars, runVars
<1>2. CASE LoseData
  <2>1. PICK i \in DOMAIN data : data' = Without(data, i) BY <1>2 DEF LoseData
  <2> DEFINE S == 0 .. hi - 1
  <2>2. data \in Seq(S) /\ i \in 1 .. Len(data) BY TypeFacts
  <2> HIDE DEF S
  <2>3. data' \in Seq(S) BY <2>1, <2>2, WithoutFacts
  <2> QED BY <1>2, <2>3 DEF LoseData, TypeOK, flowVars, recvVars, S
<1>3. CASE LoseBack
  <2>1. PICK i \in DOMAIN back : back' = Without(back, i) BY <1>3 DEF LoseBack
  <2> DEFINE A == [kind : {"ACK", "NACK"}, seq : 0 .. hi]
  <2>2. back \in Seq(A) /\ i \in 1 .. Len(back) BY TypeFacts
  <2> HIDE DEF A
  <2>3. back' \in Seq(A) BY <2>1, <2>2, WithoutFacts
  <2> QED BY <1>3, <2>3 DEF LoseBack, TypeOK, flowVars, nicVars, recvVars, A
<1>4. CASE UNCHANGED vars
  BY <1>4 DEF vars, TypeOK, flowVars, nicVars, recvVars, runVars
<1> QED BY <1>1, <1>2, <1>3, <1>4

\* No step leaves the types, also where the sending buffer drops a packet: the
\* indices of the buffer and of the queue stay within the packets handed over,
\* and no answer asks for another (qbb-net-device.cc:765-930, 1033).
THEOREM HasTypes == Spec => []TypeOK
<1>1. Init => TypeOK
  <2> SUFFICES ASSUME Init PROVE TypeOK OBVIOUS
  <2>1. /\ Chunk \in Nat \ {0} /\ Chunk % Chunk = 0 /\ AckInterval \in Nat
        /\ Total \in Nat
    <3>1. Chunk \in Nat \ {0} BY GbnAssumption
    <3>2. Chunk % Chunk = Chunk - Chunk BY <3>1, ModRound
    <3> QED BY <3>1, <3>2, GbnAssumption
  <2>2. /\ hi = 0 /\ lo = 0 /\ nxt = 0 /\ milestone_tx = Chunk
        /\ expected = 0 /\ milestone_rx = AckInterval /\ lastNACK = -1
        /\ data = <<>> /\ back = <<>> /\ backto0 \in BackTo0s
        /\ waitingAck = FALSE /\ timer = FALSE /\ avail = "now"
        /\ nextSend = "none" /\ busy = FALSE /\ nackQuiet = FALSE
    BY DEF Init
  <2>3. data \in Seq(0 .. hi - 1) BY <2>2
  <2>4. back \in Seq([kind : {"ACK", "NACK"}, seq : 0 .. hi]) BY <2>2
  <2>5. /\ hi \in 0 .. Total /\ nxt \in 0 .. hi /\ lo \in 0 .. hi
        /\ expected \in 0 .. hi /\ lastNACK \in -1 .. hi
        /\ milestone_tx \in Nat /\ milestone_rx \in Nat
    BY <2>1, <2>2
  <2>6. milestone_tx % Chunk = 0 BY <2>1, <2>2
  <2>7. /\ waitingAck \in BOOLEAN /\ timer \in BOOLEAN /\ busy \in BOOLEAN
        /\ nackQuiet \in BOOLEAN /\ avail \in {"now", "soon", "far"}
        /\ nextSend \in {"none", "soon", "far"} /\ backto0 \in BackTo0s
    BY <2>2
  <2> QED BY <2>3, <2>4, <2>5, <2>6, <2>7, Zenon DEF TypeOK
<1>2. TypeOK /\ [Next]_vars => TypeOK'
  BY SendTypes, SenderTypes, AnswerTypes, DataTypes, NetworkTypes DEF Next
<1> QED BY <1>1, <1>2, PTL DEF Spec

---------------------------------------------------------------------------
(* An idle NIC.                                                            *)

\* At the line rate a flow is never in a pacing gap, and a NIC is idle only
\* when it has sent what is handed over, or when the rest of the message is
\* still to come.
IdleInv ==
  /\ avail \in {"now", "far"}
  /\ ~busy /\ avail = "now" => nxt = hi \/ hi < milestone_tx

\* DequeueAndTransmit leaves the NIC idle only if there is nothing to send.
LEMMA TransmitsIdle ==
  ASSUME NEW s, ~Paced, DequeueAndTransmit(s), s.avail \in {"now", "far"},
         s.nxt \in Nat, s.hi \in Nat, s.nxt <= s.hi
  PROVE  IdleInv'
<1>1. CASE Sendable(s)
  BY <1>1 DEF DequeueAndTransmit, IdleInv
<1>2. CASE ~Sendable(s)
  <2>1. /\ hi' = s.hi /\ nxt' = s.nxt /\ busy' = s.busy /\ avail' = s.avail
        /\ s.busy \/ ~(s.nxt < s.hi) \/ s.avail # "now"
    BY <1>2 DEF DequeueAndTransmit, Sendable
  <2> QED BY <2>1 DEF IdleInv
<1> QED BY <1>1, <1>2

\* A NACK fills the queue of an idle NIC only in the middle of a message.
LEMMA StepIdle ==
  ASSUME WaitAck, ~Paced, IndInv, IdleInv, [Next]_vars
  PROVE  IdleInv'
<1>1. /\ nxt \in Nat /\ hi \in Nat /\ nxt <= hi /\ lo \in Nat /\ lo <= hi
      /\ milestone_tx \in Nat
      /\ avail # "far" => nxt < milestone_tx
      /\ avail = "far" => waitingAck
  BY DEF IndInv, Sender, SenderOf, Now, Answered, Types
<1>2. ASSUME UNCHANGED <<hi, nxt, milestone_tx, avail, busy>>
      PROVE  IdleInv'
  BY <1>2 DEF IdleInv
<1>3. CASE Send
  <2> DEFINE s == [Now EXCEPT !.hi = hi + 1]
  <2>1. DequeueAndTransmit(s) BY <1>3 DEF Send
  <2>2. s.avail = avail /\ s.nxt = nxt /\ s.hi = hi + 1 BY DEF Now
  <2> HIDE DEF s
  <2> QED BY <1>1, <2>1, <2>2, TransmitsIdle DEF IdleInv
<1>4. CASE TransmitComplete
  <2> DEFINE s == [Now EXCEPT !.busy = FALSE]
  <2>1. DequeueAndTransmit(s) BY <1>4 DEF TransmitComplete
  <2>2. s.avail = avail /\ s.nxt = nxt /\ s.hi = hi BY DEF Now
  <2> HIDE DEF s
  <2> QED BY <1>1, <2>1, <2>2, TransmitsIdle DEF IdleInv
<1>5. CASE NextSendFires
  <2>1. PICK a \in {avail} \cup (IF avail = "soon" THEN {"now"} ELSE {}) :
          DequeueAndTransmit([Now EXCEPT !.nextSend = "none", !.avail = a])
    BY <1>5 DEF NextSendFires
  <2> DEFINE s == [Now EXCEPT !.nextSend = "none", !.avail = a]
  <2>2. s.avail = a /\ s.nxt = nxt /\ s.hi = hi BY DEF Now
  <2>3. a = avail BY DEF IdleInv
  <2> HIDE DEF s
  <2> QED BY <1>1, <2>1, <2>2, <2>3, TransmitsIdle DEF IdleInv, s
<1>6. CASE PacingGapEnds BY <1>6 DEF PacingGapEnds, IdleInv
<1>7. CASE Retransmit
  <2> DEFINE s == [Unblocked(Now) EXCEPT !.nxt = lo]
  <2>1. DequeueAndTransmit(s) BY <1>7 DEF Retransmit
  <2>2. s.avail = "now" /\ s.nxt = lo /\ s.hi = hi BY DEF Now, Unblocked
  <2> HIDE DEF s
  <2> QED BY <1>1, <2>1, <2>2, TransmitsIdle
<1>8. CASE ReceiveNack
  <2>1. PICK i \in DOMAIN back :
          /\ NackServable(back[i].seq) /\ lo' = NackedUpTo(back[i].seq)
          /\ IF WaitAck /\ waitingAck
             THEN DequeueAndTransmit([Unblocked(Now) EXCEPT !.nxt = lo'])
             ELSE /\ nxt' = lo'
                  /\ UNCHANGED <<hi, milestone_tx, waitingAck, timer, avail,
                                 nextSend, busy, data>>
    BY <1>8 DEF ReceiveNack
  <2>2. lo' \in Nat /\ lo' <= hi
    BY <1>1, <2>1 DEF NackServable, NackedUpTo, Larger
  <2>3. CASE waitingAck
    <3> DEFINE s == [Unblocked(Now) EXCEPT !.nxt = lo']
    <3>1. DequeueAndTransmit(s) BY <2>1, <2>3
    <3>2. s.avail = "now" /\ s.nxt = lo' /\ s.hi = hi BY DEF Now, Unblocked
    <3> HIDE DEF s
    <3> QED BY <1>1, <2>2, <3>1, <3>2, TransmitsIdle
  <2>4. CASE ~waitingAck
    <3>1. UNCHANGED <<hi, milestone_tx, avail, busy>> BY <2>1, <2>4
    <3>2. avail = "now" /\ nxt < milestone_tx BY <1>1, <2>4 DEF IdleInv
    <3>3. ~busy => hi < milestone_tx BY <3>2 DEF IdleInv
    <3> QED BY <3>1, <3>2, <3>3 DEF IdleInv
  <2> QED BY <2>3, <2>4
<1>9. CASE ReceiveAck
  <2>1. PICK i \in DOMAIN back :
          IF WaitAck /\ back[i].seq >= milestone_tx
          THEN DequeueAndTransmit([Unblocked(Now) EXCEPT !.ms = @ + Chunk])
          ELSE UNCHANGED <<hi, milestone_tx, nicVars>>
    BY <1>9 DEF ReceiveAck
  <2>2. CASE back[i].seq >= milestone_tx
    <3> DEFINE s == [Unblocked(Now) EXCEPT !.ms = @ + Chunk]
    <3>1. DequeueAndTransmit(s) BY <2>1, <2>2
    <3>2. s.avail = "now" /\ s.nxt = nxt /\ s.hi = hi BY DEF Now, Unblocked
    <3> HIDE DEF s
    <3> QED BY <1>1, <3>1, <3>2, TransmitsIdle
  <2>3. CASE ~(back[i].seq >= milestone_tx)
    BY <1>2, <2>1, <2>3 DEF nicVars
  <2> QED BY <2>2, <2>3
<1>10. CASE ReceiveData BY <1>2, <1>10 DEF ReceiveData, flowVars
<1>11. CASE NackIntervalEnds BY <1>2, <1>11 DEF NackIntervalEnds, flowVars, nicVars
<1>12. CASE LoseData BY <1>2, <1>12 DEF LoseData, flowVars
<1>13. CASE LoseBack BY <1>2, <1>13 DEF LoseBack, flowVars, nicVars
<1>14. CASE UNCHANGED vars BY <1>2, <1>14 DEF vars, flowVars, nicVars
<1> QED BY <1>3, <1>4, <1>5, <1>6, <1>7, <1>8, <1>9, <1>10, <1>11, <1>12, <1>13,
           <1>14 DEF Next

\* In L2WaitForAck mode and at the line rate, whatever is lost: a NIC that is
\* idle while its flow may send has sent the rest of the message, has an event
\* to send it, or gets one with the rest of the message (qbb-net-device.cc:454).
THEOREM IdleWakes ==
  ASSUME WaitAck, ~Paced
  PROVE  Spec /\ []HasRoom => []IdleNicWakesUp
<1>1. Init => IdleInv BY DEF Init, IdleInv
<1>2. IndInv /\ IdleInv /\ [Next]_vars => IdleInv' BY StepIdle
<1>3. IndInv /\ IdleInv => IdleNicWakesUp
  BY IndTypes DEF IdleInv, IdleNicWakesUp
<1> QED BY <1>1, <1>2, <1>3, Invariance, PTL DEF Spec
===============================================================================
