-------------------- MODULE PriorityFlowControl_proofs ---------------------
(***************************************************************************)
(* Proofs about the buffers of a switch and about its flow control, for    *)
(* any ports, priority groups, pools, limits, delays and packets.          *)
(*                                                                         *)
(* First the buffers on their own (BroadcomMMU): the ingress counters are  *)
(* the sums of what is stored and so never wrap; the guaranteed part of an *)
(* egress queue may wrap below zero, but with the shared part it is what   *)
(* is queued modulo the word at any time, and the shared counters are sums *)
(* of the shared parts.                                                    *)
(*                                                                         *)
(* Then the switch with its peers: its steps are steps of the buffers, and *)
(* a class over its limit stays paused because a pause is never older than *)
(* a recheck that is due before the pause ends. A paused peer has a timer  *)
(* that ends the pause.                                                    *)
(*                                                                         *)
(* Last, how much a class over its limit still receives: what is on the    *)
(* wire and what its peer sends until a frame arrives has room (Contained),*)
(* and so, with buffers for that, nothing is lost.                         *)
(***************************************************************************)
EXTENDS PriorityFlowControl, NumberFacts, TLAPS

---------------------------------------------------------------------------
(* Bytes of a queue and sums over queues.                                  *)

\* The terms that BytesFrom adds.
Terms(packets, ins) ==
  [k \in DOMAIN packets |-> IF packets[k].in \in ins THEN packets[k].size ELSE 0]

\* The size of a packet, if it is one of those from ins.
SizeFrom(p, ins) == IF p.in \in ins THEN p.size ELSE 0

LEMMA TermsType ==
  ASSUME NEW s \in Seq(Packet), NEW ins
  PROVE  Terms(s, ins) \in Seq(Nat) /\ BytesFrom(s, ins) = SumFunction(Terms(s, ins))
<1>1. Len(s) \in Nat /\ DOMAIN s = 1 .. Len(s) /\ \A k \in 1 .. Len(s) : s[k] \in Packet
  OBVIOUS
<1>2. \A k \in 1 .. Len(s) : s[k].size \in Nat
  BY <1>1, MmuAssumption DEF Packet
<1>3. Terms(s, ins) \in [1 .. Len(s) -> Nat] BY <1>1, <1>2 DEF Terms
<1>4. Terms(s, ins) \in Seq(Nat) BY <1>1, <1>3
<1> QED BY <1>4 DEF BytesFrom, Terms

LEMMA BytesType ==
  ASSUME NEW s \in Seq(Packet), NEW ins
  PROVE  BytesFrom(s, ins) \in Nat
BY TermsType, SumSeqType

LEMMA BytesNone ==
  ASSUME NEW ins
  PROVE  BytesFrom(<<>>, ins) = 0
<1> DEFINE t == [k \in DOMAIN <<>> |->
                   IF <<>>[k].in \in ins THEN <<>>[k].size ELSE 0]
<1>1. DOMAIN t = {} OBVIOUS
<1> HIDE DEF t
<1>2. SumFunction(t) = 0 BY <1>1, SumEmpty DEF SumFunction
<1> QED BY <1>2 DEF BytesFrom, t

LEMMA BytesAppend ==
  ASSUME NEW s \in Seq(Packet), NEW p \in Packet, NEW ins
  PROVE  /\ Append(s, p) \in Seq(Packet) /\ SizeFrom(p, ins) \in Nat
         /\ BytesFrom(Append(s, p), ins) = BytesFrom(s, ins) + SizeFrom(p, ins)
<1> DEFINE t == Append(s, p)
<1>1. t \in Seq(Packet) OBVIOUS
<1>2. SizeFrom(p, ins) \in Nat BY MmuAssumption DEF SizeFrom, Packet
<1>3. Terms(s, ins) \in Seq(Nat) BY TermsType
<1>4. Terms(t, ins) = Append(Terms(s, ins), SizeFrom(p, ins))
  <2> DEFINE a == Terms(t, ins)
             b == Append(Terms(s, ins), SizeFrom(p, ins))
             n == Len(s)
  <2>1. /\ n \in Nat /\ DOMAIN s = 1 .. n /\ DOMAIN t = 1 .. n + 1
        /\ t[n + 1] = p /\ \A k \in 1 .. n : t[k] = s[k]
    OBVIOUS
  <2> HIDE DEF t, n
  <2>2. DOMAIN a = 1 .. n + 1 BY <2>1 DEF Terms
  <2>3. DOMAIN Terms(s, ins) = 1 .. n BY <2>1 DEF Terms
  <2>4. Len(Terms(s, ins)) = n BY <1>3, <2>1, <2>3
  <2>5. b \in Seq(Nat) /\ DOMAIN b = 1 .. n + 1 BY <1>2, <1>3, <2>1, <2>4
  <2>6. b[n + 1] = SizeFrom(p, ins) /\ \A k \in 1 .. n : b[k] = Terms(s, ins)[k]
    BY <1>2, <1>3, <2>1, <2>4
  <2>7. a[n + 1] = SizeFrom(p, ins) BY <2>1 DEF Terms, SizeFrom
  <2>8. ASSUME NEW k \in 1 .. n PROVE a[k] = Terms(s, ins)[k]
    <3>1. k \in 1 .. n + 1 /\ t[k] = s[k] BY <2>1
    <3> QED BY <2>1, <3>1 DEF Terms
  <2>9. a = [k \in 1 .. n + 1 |-> a[k]] BY <2>1 DEF Terms
  <2>10. b = [k \in 1 .. n + 1 |-> b[k]]
    <3> HIDE DEF b
    <3> QED BY <2>5
  <2>11. ASSUME NEW k \in 1 .. n + 1 PROVE a[k] = b[k]
    <3>1. k = n + 1 \/ k \in 1 .. n BY <2>1
    <3> HIDE DEF a, b
    <3> QED BY <2>6, <2>7, <2>8, <3>1
  <2> HIDE DEF a, b
  <2>12. a = b BY <2>9, <2>10, <2>11
  <2> QED BY <2>12 DEF a, b
<1> HIDE DEF t
<1>5. SumFunction(Terms(t, ins)) = SumFunction(Terms(s, ins)) + SizeFrom(p, ins)
  BY <1>2, <1>3, <1>4, SumAppend
<1> QED BY <1>1, <1>2, <1>5, TermsType DEF t

LEMMA BytesTail ==
  ASSUME NEW s \in Seq(Packet), s # <<>>, NEW ins
  PROVE  /\ Head(s) \in Packet /\ Tail(s) \in Seq(Packet)
         /\ SizeFrom(Head(s), ins) \in Nat /\ BytesFrom(Tail(s), ins) \in Nat
         /\ BytesFrom(s, ins) = SizeFrom(Head(s), ins) + BytesFrom(Tail(s), ins)
<1> DEFINE t == Tail(s)
           a == Terms(s, ins)
           b == Terms(t, ins)
           n == Len(s) - 1
<1>1. /\ t \in Seq(Packet) /\ Head(s) \in Packet /\ Head(s) = s[1]
      /\ n \in Nat /\ DOMAIN s = 1 .. n + 1 /\ DOMAIN t = 1 .. n
      /\ \A k \in 1 .. n : t[k] = s[k + 1]
  OBVIOUS
<1> HIDE DEF t, n
<1>2. a \in Seq(Nat) /\ b \in Seq(Nat) BY <1>1, TermsType
<1>3. DOMAIN a = 1 .. n + 1 /\ DOMAIN b = 1 .. n BY <1>1 DEF Terms
<1>4. a[1] = SizeFrom(Head(s), ins) BY <1>1 DEF Terms, SizeFrom
<1>5. ASSUME NEW k \in 1 .. n PROVE b[k] = a[k + 1]
  <2>1. k + 1 \in 1 .. n + 1 /\ t[k] = s[k + 1] BY <1>1
  <2> QED BY <1>1, <2>1 DEF Terms
<1> HIDE DEF a, b
<1>6. a # <<>> /\ Head(a) = a[1] /\ Len(a) = n + 1 /\ Len(b) = n
  BY <1>1, <1>2, <1>3
<1>7. Tail(a) = b
  <2>1. /\ Tail(a) \in Seq(Nat) /\ Len(Tail(a)) = n
        /\ \A k \in 1 .. n : Tail(a)[k] = a[k + 1]
    BY <1>1, <1>2, <1>6
  <2>2. \A k \in 1 .. n : Tail(a)[k] = b[k] BY <1>5, <2>1
  <2> QED BY <1>2, <1>6, <2>1, <2>2
<1>8. /\ Head(a) \in Nat /\ SumFunction(b) \in Nat
      /\ SumFunction(a) = Head(a) + SumFunction(b)
  BY <1>2, <1>6, <1>7, SumTail
<1>9. BytesFrom(s, ins) = SumFunction(a) /\ BytesFrom(t, ins) = SumFunction(b)
  BY <1>1, TermsType DEF a, b
<1> QED BY <1>1, <1>4, <1>6, <1>8, <1>9 DEF t

\* The terms that Total adds.
Cells(amount, outs, qs) == [oq \in outs \X qs |-> amount[oq[1]][oq[2]]]

Amounts == [Ports -> [Queues -> Nat]]

\* What a proof needs of the terms f of the sum of a over outs and qs.
AddsUp(f, a, outs, qs) ==
  /\ IsFiniteSet(outs \X qs)
  /\ Total(a, outs, qs) = SumFunctionOnSet(f, outs \X qs)
  /\ \A oq \in outs \X qs : f[oq] = a[oq[1]][oq[2]] /\ f[oq] \in Nat

LEMMA CellsType ==
  ASSUME NEW a \in Amounts,
         NEW outs, outs \subseteq Ports, NEW qs, qs \subseteq Queues
  PROVE  AddsUp(Cells(a, outs, qs), a, outs, qs) /\ Total(a, outs, qs) \in Nat
<1>1. IsFiniteSet(outs) /\ IsFiniteSet(qs) BY FS_Subset, MmuAssumption
<1>2. IsFiniteSet(outs \X qs) BY <1>1, FS_Product
<1>3. DOMAIN Cells(a, outs, qs) = outs \X qs BY DEF Cells
<1>4. \A oq \in outs \X qs : /\ Cells(a, outs, qs)[oq] = a[oq[1]][oq[2]]
                             /\ Cells(a, outs, qs)[oq] \in Nat
  <2> TAKE oq \in outs \X qs
  <2>1. oq[1] \in Ports /\ oq[2] \in Queues OBVIOUS
  <2>2. a[oq[1]][oq[2]] \in Nat BY <2>1 DEF Amounts
  <2> QED BY <2>2 DEF Cells
<1>5. Total(a, outs, qs) = SumFunctionOnSet(Cells(a, outs, qs), outs \X qs)
  BY <1>3 DEF Total, Cells, SumFunction
<1> DEFINE S == outs \X qs
           f == Cells(a, outs, qs)
<1>6. IsFiniteSet(S) /\ \A x \in S : f[x] \in Nat BY <1>2, <1>4
<1> HIDE DEF S, f
<1>7. SumFunctionOnSet(f, S) \in Nat BY <1>6, SumNat
<1> QED BY <1>2, <1>4, <1>5, <1>7 DEF S, f, AddsUp

\* Changing one amount changes the sums it is in as much.
LEMMA TotalChange ==
  ASSUME NEW a \in Amounts, NEW o \in Ports, NEW q \in Queues,
         NEW v \in Nat, NEW outs, outs \subseteq Ports, NEW qs, qs \subseteq Queues
  PROVE  Total([a EXCEPT ![o][q] = v], outs, qs) =
           IF o \in outs /\ q \in qs THEN Total(a, outs, qs) + (v - a[o][q])
           ELSE Total(a, outs, qs)
<1> DEFINE b == [a EXCEPT ![o][q] = v]
           S == outs \X qs
           f == Cells(a, outs, qs)
           g == Cells(b, outs, qs)
           x == <<o, q>>
<1>1. b \in Amounts BY DEF Amounts
<1>2. /\ a[o][q] \in Nat /\ b[o][q] = v
      /\ \A p \in Ports, r \in Queues : p # o \/ r # q => b[p][r] = a[p][r]
  BY DEF Amounts
<1> HIDE DEF b
<1>3. /\ IsFiniteSet(S)
      /\ Total(a, outs, qs) = SumFunctionOnSet(f, S)
      /\ Total(b, outs, qs) = SumFunctionOnSet(g, S)
      /\ \A y \in S : f[y] = a[y[1]][y[2]] /\ f[y] \in Int
      /\ \A y \in S : g[y] = b[y[1]][y[2]] /\ g[y] \in Int
  <2>1. AddsUp(f, a, outs, qs) /\ AddsUp(g, b, outs, qs) BY <1>1, CellsType
  <2> HIDE DEF f, g
  <2> QED BY <2>1 DEF AddsUp
<1>4. ASSUME NEW y \in S, y # x PROVE g[y] = f[y]
  <2>1. y[1] \in Ports /\ y[2] \in Queues /\ (y[1] # o \/ y[2] # q)
    BY <1>4
  <2>2. b[y[1]][y[2]] = a[y[1]][y[2]] BY <1>2, <2>1
  <2> HIDE DEF S, f, g
  <2> QED BY <1>3, <2>2
<1>5. x \in S <=> o \in outs /\ q \in qs OBVIOUS
<1>6. x \in S => f[x] = a[o][q] /\ g[x] = v /\ g[x] \in Int
  <2>1. x[1] = o /\ x[2] = q OBVIOUS
  <2> HIDE DEF S, f, g, x
  <2> QED BY <1>2, <1>3, <2>1
<1> HIDE DEF S, f, g, x
<1>7. x \in S => SumFunctionOnSet(g, S) = SumFunctionOnSet(f, S) + (g[x] - f[x])
  BY <1>3, <1>4, <1>6, SumChange
<1>8. x \notin S => SumFunctionOnSet(g, S) = SumFunctionOnSet(f, S)
  <2>1. SUFFICES ASSUME x \notin S
                 PROVE  SumFunctionOnSet(g, S) = SumFunctionOnSet(f, S)
    OBVIOUS
  <2>2. \A y \in S : g[y] = f[y] BY <1>4, <2>1
  <2> QED BY <1>3, <2>2, SumSame
<1>9. Total(b, outs, qs) = IF o \in outs /\ q \in qs
                       THEN Total(a, outs, qs) + (v - a[o][q])
                       ELSE Total(a, outs, qs)
  BY <1>3, <1>5, <1>6, <1>7, <1>8
<1> QED BY <1>9 DEF b

\* A sum over some queues of amounts that are not greater, but for an error.
LEMMA TotalError ==
  ASSUME NEW a \in Amounts, NEW b \in Amounts, NEW m \in Nat,
         \A o \in Ports, q \in Queues : a[o][q] <= b[o][q] + m,
         NEW outs, outs \subseteq Ports, NEW qs, qs \subseteq Queues
  PROVE  Total(a, outs, qs) <=
           Total(b, Ports, Queues) + Cardinality(Ports \X Queues) * m
<1> DEFINE S == Ports \X Queues
           T == outs \X qs
           f == Cells(a, Ports, Queues)
           t == Cells(a, outs, qs)
           g == Cells(b, Ports, Queues)
<1>1. /\ IsFiniteSet(S) /\ IsFiniteSet(T)
      /\ Total(a, outs, qs) = SumFunctionOnSet(t, T)
      /\ Total(b, Ports, Queues) = SumFunctionOnSet(g, S)
      /\ \A x \in S : f[x] = a[x[1]][x[2]] /\ f[x] \in Nat
      /\ \A x \in T : t[x] = a[x[1]][x[2]] /\ t[x] \in Int
      /\ \A x \in S : g[x] = b[x[1]][x[2]] /\ g[x] \in Nat
  <2>1. /\ AddsUp(f, a, Ports, Queues) /\ AddsUp(t, a, outs, qs)
        /\ AddsUp(g, b, Ports, Queues)
    BY CellsType
  <2> HIDE DEF f, g, t
  <2> QED BY <2>1 DEF AddsUp
<1>2. T \subseteq S /\ \A x \in S : x[1] \in Ports /\ x[2] \in Queues OBVIOUS
<1> HIDE DEF S, T, f, g, t
<1>3. \A x \in T : t[x] = f[x] BY <1>1, <1>2
<1>4. SumFunctionOnSet(t, T) = SumFunctionOnSet(f, T) BY <1>1, <1>3, SumSame
<1>5. SumFunctionOnSet(f, T) <= SumFunctionOnSet(f, S) BY <1>1, <1>2, SumSubset
<1>6. \A x \in S : f[x] \in Nat /\ g[x] \in Nat /\ f[x] <= g[x] + m
  BY <1>1, <1>2
<1>7. SumFunctionOnSet(f, S) <= SumFunctionOnSet(g, S) + Cardinality(S) * m
  BY <1>1, <1>6, SumError
<1>8. /\ SumFunctionOnSet(f, T) \in Nat /\ SumFunctionOnSet(f, S) \in Nat
      /\ SumFunctionOnSet(g, S) \in Nat /\ Cardinality(S) * m \in Nat
  <2>1. \A x \in T : f[x] \in Nat BY <1>1, <1>2
  <2>2. Cardinality(S) \in Nat BY <1>1, FS_CardinalityType
  <2>3. Cardinality(S) * m \in Nat BY <2>2
  <2>4. SumFunctionOnSet(f, T) \in Nat BY <1>1, <2>1, SumNat
  <2> QED BY <1>1, <2>3, <2>4, SumNat
<1> DEFINE e == Cardinality(S) * m
<1>9. e \in Nat /\ SumFunctionOnSet(f, S) <= SumFunctionOnSet(g, S) + e
  BY <1>7, <1>8
<1> HIDE DEF e
<1>10. SumFunctionOnSet(t, T) <= SumFunctionOnSet(g, S) + e
  BY <1>4, <1>5, <1>8, <1>9
<1> QED BY <1>1, <1>10 DEF e, S

\* The same without an error: parts of what is stored.
LEMMA TotalPart ==
  ASSUME NEW a \in Amounts, NEW b \in Amounts,
         \A o \in Ports, q \in Queues : a[o][q] <= b[o][q],
         NEW outs, outs \subseteq Ports, NEW qs, qs \subseteq Queues
  PROVE  Total(a, outs, qs) <= Total(b, Ports, Queues)
<1>1. \A o \in Ports, q \in Queues : a[o][q] <= b[o][q] + 0
  BY DEF Amounts
<1> DEFINE c == Cardinality(Ports \X Queues)
<1>2. Total(a, outs, qs) <= Total(b, Ports, Queues) + c * 0
  BY <1>1, TotalError
<1>3. c \in Nat
  <2>1. IsFiniteSet(Ports \X Queues) BY FS_Product, MmuAssumption
  <2> QED BY <2>1, FS_CardinalityType
<1> HIDE DEF c
<1>4. c * 0 = 0 BY <1>3
<1>5. Total(b, Ports, Queues) \in Nat BY CellsType
<1> QED BY <1>2, <1>4, <1>5

\* An amount is not greater than a sum it is in.
LEMMA TotalTerm ==
  ASSUME NEW a \in Amounts, NEW outs, outs \subseteq Ports,
         NEW qs, qs \subseteq Queues, NEW o \in outs, NEW q \in qs
  PROVE  a[o][q] <= Total(a, outs, qs)
<1> DEFINE S == outs \X qs
           f == Cells(a, outs, qs)
           x == <<o, q>>
<1>1. /\ IsFiniteSet(S) /\ Total(a, outs, qs) = SumFunctionOnSet(f, S)
      /\ \A y \in S : f[y] = a[y[1]][y[2]] /\ f[y] \in Nat
  <2>1. AddsUp(f, a, outs, qs) BY CellsType
  <2> HIDE DEF f
  <2> QED BY <2>1 DEF AddsUp
<1>2. x \in S /\ x[1] = o /\ x[2] = q OBVIOUS
<1> HIDE DEF S, f, x
<1>3. f[x] = a[o][q] BY <1>1, <1>2
<1>4. f[x] <= SumFunctionOnSet(f, S) BY <1>1, <1>2, SumNat
<1> QED BY <1>1, <1>3, <1>4

\* With nothing stored, every sum is zero.
LEMMA TotalNone ==
  ASSUME NEW a \in Amounts,
         \A o \in Ports, q \in Queues : a[o][q] = 0,
         NEW outs, outs \subseteq Ports, NEW qs, qs \subseteq Queues
  PROVE  Total(a, outs, qs) = 0
<1> DEFINE S == outs \X qs
           f == Cells(a, outs, qs)
<1>1. /\ IsFiniteSet(S) /\ Total(a, outs, qs) = SumFunctionOnSet(f, S)
      /\ \A y \in S : f[y] = a[y[1]][y[2]]
  <2>1. AddsUp(f, a, outs, qs) BY CellsType
  <2> HIDE DEF f
  <2> QED BY <2>1 DEF AddsUp
<1>2. \A y \in S : y[1] \in Ports /\ y[2] \in Queues OBVIOUS
<1> HIDE DEF S, f
<1>3. \A y \in S : f[y] = 0 BY <1>1, <1>2
<1> QED BY <1>1, <1>3, SumZero

---------------------------------------------------------------------------
(* The two parts of an egress queue.                                       *)

\* The largest packet.
MaxSize == CHOOSE m \in Sizes :
  /\ \A s \in Sizes : s <= m
  /\ MaxBuffer + Cell + (2 + Cardinality(Ports \X Queues)) * m < Word

\* Errors that all queues can have at once.
AllErrors == Cardinality(Ports \X Queues) * MaxSize

LEMMA ConstantFacts ==
  /\ MaxBuffer \in Nat /\ SpLimit \in Nat /\ Cell \in Nat /\ Cell >= 1
  /\ Word \in Nat /\ AllErrors \in Nat /\ MaxSize \in Sizes
  /\ MaxSize \in Nat /\ MaxSize >= 1
  /\ \A s \in Sizes : s \in Nat /\ s >= 1 /\ s <= MaxSize
  /\ MaxBuffer + Cell + 2 * MaxSize + AllErrors < Word
<1>1. /\ MaxSize \in Sizes /\ \A s \in Sizes : s <= MaxSize
      /\ MaxBuffer + Cell + (2 + Cardinality(Ports \X Queues)) * MaxSize < Word
  BY MmuAssumption DEF MaxSize
<1>2. /\ MaxBuffer \in Nat /\ SpLimit \in Nat /\ Cell \in Nat /\ Cell >= 1
      /\ Word \in Nat /\ Sizes \subseteq Nat \ {0}
  BY MmuAssumption
<1>3. MaxSize \in Nat /\ MaxSize >= 1 BY <1>1, <1>2
<1> DEFINE c == Cardinality(Ports \X Queues)
           m == MaxSize
<1>4. c \in Nat
  <2>1. IsFiniteSet(Ports \X Queues) BY FS_Product, MmuAssumption
  <2> QED BY <2>1, FS_CardinalityType
<1>5. MaxBuffer + Cell + (2 + c) * m < Word BY <1>1
<1> HIDE DEF c, m
<1>6. m \in Nat BY <1>3 DEF m
<1>7. (2 + c) * m = 2 * m + c * m /\ c * m \in Nat BY <1>4, <1>6
<1>8. AllErrors = c * m BY DEF AllErrors, c, m
<1>9. MaxBuffer + Cell + 2 * m + AllErrors < Word
  BY <1>2, <1>5, <1>6, <1>7, <1>8
<1>10. \A s \in Sizes : s \in Nat /\ s >= 1 BY <1>2
<1> QED BY <1>1, <1>2, <1>3, <1>7, <1>8, <1>9, <1>10 DEF m

\* The guaranteed part holds what the shared part lacks of the bytes b; where
\* the shared part has too much, it wraps.
Split(c, b) ==
  /\ c = [min |-> c.min, shared |-> c.shared]
  /\ c.shared \in Nat /\ c.shared >= b - Cell /\ c.shared < b + MaxSize
  /\ c.min = IF c.shared <= b THEN b - c.shared ELSE b - c.shared + Word

\* Counting up and down without a carry.
LEMMA AddSmall ==
  ASSUME NEW x \in Nat, NEW y \in Int,
         x + y >= 0, x + y < Word
  PROVE  Add(x, y) = x + y
<1>1. x + y \in Nat /\ Word \in Nat BY ConstantFacts
<1> DEFINE z == x + y
<1>2. z % Word = z
  <2> HIDE DEF z
  <2>1. z \in Int /\ z < Word /\ -Word < z /\ ~(z < 0) BY <1>1 DEF z
  <2> QED BY <1>1, <2>1, ModNear
<1> QED BY <1>2 DEF Add

\* Filling the cell changes how the bytes are split.
LEMMA PatchSplit ==
  ASSUME NEW c, NEW b \in Nat, Split(c, b), b <= MaxBuffer
  PROVE  Split(Patch(c), b)
<1>1. /\ c = [min |-> c.min, shared |-> c.shared]
      /\ c.shared \in Nat /\ c.shared >= b - Cell /\ c.shared < b + MaxSize
      /\ c.min = IF c.shared <= b THEN b - c.shared ELSE b - c.shared + Word
  BY DEF Split
<1>2. CASE c.min < Cell /\ c.shared > Cell
  <2> DEFINE d == [min |-> Cell, shared |-> c.shared - Cell + c.min]
  <2>1. c.shared <= b BY <1>1, <1>2, ConstantFacts
  <2>2. c.min = b - c.shared BY <1>1, <2>1
  <2>3. d.min = Cell /\ d.shared = b - Cell BY <1>1, <2>2, ConstantFacts
  <2>4. d.shared \in Nat /\ d.shared <= b
    BY <1>1, <1>2, <2>1, <2>3, ConstantFacts
  <2>5. Patch(c) = d BY <1>2 DEF Patch
  <2>6. d = [min |-> d.min, shared |-> d.shared] OBVIOUS
  <2> HIDE DEF d
  <2>7. Split(d, b)
    <3>1. d.shared >= b - Cell /\ d.shared < b + MaxSize
      BY <2>3, <2>4, ConstantFacts
    <3>2. d.min = b - d.shared BY <2>3, ConstantFacts
    <3> QED BY <2>4, <2>6, <3>1, <3>2 DEF Split
  <2> QED BY <2>5, <2>7
<1>3. CASE ~(c.min < Cell /\ c.shared > Cell)
  BY <1>3 DEF Patch
<1> QED BY <1>2, <1>3

\* A packet that enters.
LEMMA ChargeSplit ==
  ASSUME NEW c, NEW b \in Nat, NEW size \in Sizes,
         Split(c, b), b + size <= MaxBuffer
  PROVE  Split(Charge(c, size), b + size)
<1>0. size \in Nat /\ size >= 1 /\ size <= MaxSize BY ConstantFacts
<1>1. /\ c = [min |-> c.min, shared |-> c.shared]
      /\ c.shared \in Nat /\ c.shared >= b - Cell /\ c.shared < b + MaxSize
      /\ c.min = IF c.shared <= b THEN b - c.shared ELSE b - c.shared + Word
  BY DEF Split
<1>2. CASE c.shared <= b + size
  <2> DEFINE m == b - c.shared + size
  <2>1. m \in Nat /\ m <= Cell + size /\ m < Word
    BY <1>0, <1>1, <1>2, ConstantFacts
  <2>2. Add(c.min, size) = m
    <3>1. CASE c.shared <= b
      <4>1. c.min = b - c.shared /\ c.min \in Nat BY <1>1, <3>1
      <4>2. c.min + size = m BY <1>0, <1>1, <4>1
      <4> QED BY <1>0, <2>1, <4>1, <4>2, AddSmall
    <3>2. CASE ~(c.shared <= b)
      <4>1. c.min = b - c.shared + Word BY <1>1, <3>2
      <4> DEFINE z == c.min + size
      <4>2. z \in Nat /\ z = m + Word /\ Word \in Nat \ {0} /\ z < Word + Word
        BY <1>0, <1>1, <2>1, <4>1, ConstantFacts
      <4> HIDE DEF z, m
      <4>3. z % Word = z - Word BY <2>1, <4>2, ModRound
      <4> QED BY <2>1, <4>2, <4>3 DEF Add, z
    <3> QED BY <3>1, <3>2
  <2>3. CASE m < Cell
    <3> DEFINE d == [c EXCEPT !.min = m]
    <3>1. Charge(c, size) = d BY <2>2, <2>3 DEF Charge
    <3>2. d = [min |-> m, shared |-> c.shared] BY <1>1
    <3> HIDE DEF d
    <3>3. d.min = m /\ d.shared = c.shared BY <3>2
    <3>4. Split(d, b + size)
      BY <1>0, <1>1, <1>2, <2>1, <2>3, <3>2, <3>3, ConstantFacts DEF Split
    <3> QED BY <3>1, <3>4
  <2>4. CASE ~(m < Cell)
    <3> DEFINE d == [c EXCEPT !.shared = Add(@, size)]
    <3>1. Charge(c, size) = Patch(d) BY <2>2, <2>4 DEF Charge
    <3>2. Add(c.shared, size) = c.shared + size
      BY <1>0, <1>1, AddSmall, ConstantFacts
    <3>3. d = [min |-> c.min, shared |-> c.shared + size] BY <1>1, <3>2
    <3> HIDE DEF d
    <3>4. d.min = c.min /\ d.shared = c.shared + size BY <3>3
    <3>5. Split(d, b + size)
      BY <1>0, <1>1, <3>3, <3>4, ConstantFacts DEF Split
    <3>6. b + size \in Nat BY <1>0
    <3> QED BY <3>1, <3>5, <3>6, PatchSplit
  <2> QED BY <2>3, <2>4
<1>3. CASE ~(c.shared <= b + size)
  <2>1. c.min = b - c.shared + Word BY <1>0, <1>1, <1>3
  <2>2. Add(c.min, size) = c.min + size
    <3>1. c.min \in Nat BY <1>1, <1>3, <2>1, ConstantFacts
    <3>2. c.min + size < Word BY <1>0, <1>1, <1>3, <2>1, ConstantFacts
    <3> QED BY <1>0, <3>1, <3>2, AddSmall
  <2>3. ~(Add(c.min, size) < Cell)
    BY <1>0, <1>1, <1>3, <2>1, <2>2, ConstantFacts
  <2> DEFINE d == [c EXCEPT !.shared = Add(@, size)]
  <2>4. Charge(c, size) = Patch(d) BY <2>3 DEF Charge
  <2>5. Add(c.shared, size) = c.shared + size
    BY <1>0, <1>1, AddSmall, ConstantFacts
  <2>6. d = [min |-> c.min, shared |-> c.shared + size] BY <1>1, <2>5
  <2> HIDE DEF d
  <2>7. d.min = c.min /\ d.shared = c.shared + size BY <2>6
  <2>8. Split(d, b + size)
    BY <1>0, <1>1, <2>6, <2>7, ConstantFacts DEF Split
  <2>9. b + size \in Nat BY <1>0
  <2> QED BY <2>4, <2>8, <2>9, PatchSplit
<1> QED BY <1>2, <1>3

\* A packet that leaves, one of those the bytes are of.
LEMMA DischargeSplit ==
  ASSUME NEW c, NEW b \in Nat, NEW size \in Sizes,
         Split(c, b), size <= b, b <= MaxBuffer
  PROVE  Split(Discharge(c, size), b - size)
<1>0. size \in Nat /\ size >= 1 /\ size <= MaxSize /\ b - size \in Nat
  BY ConstantFacts
<1>1. /\ c = [min |-> c.min, shared |-> c.shared]
      /\ c.shared \in Nat /\ c.shared >= b - Cell /\ c.shared < b + MaxSize
      /\ c.min = IF c.shared <= b THEN b - c.shared ELSE b - c.shared + Word
  BY DEF Split
<1>2. CASE c.shared >= size
  <2> DEFINE d == [c EXCEPT !.shared = @ - size]
  <2>1. Discharge(c, size) = d BY <1>2 DEF Discharge
  <2>2. d = [min |-> c.min, shared |-> c.shared - size] BY <1>1
  <2> HIDE DEF d
  <2>3. d.min = c.min /\ d.shared = c.shared - size BY <2>2
  <2>4. Split(d, b - size)
    BY <1>0, <1>1, <1>2, <2>2, <2>3, ConstantFacts DEF Split
  <2> QED BY <2>1, <2>4
<1>3. CASE ~(c.shared >= size)
  <2> DEFINE d == [c EXCEPT !.min = Add(@, -size)]
             m == b - c.shared - size
  <2>1. Discharge(c, size) = Patch(d) BY <1>3 DEF Discharge
  <2>2. c.min = b - c.shared /\ c.min \in Nat BY <1>0, <1>1, <1>3
  <2>3. m \in Int /\ m < Word /\ -Word < m /\ c.min + (-size) = m
    BY <1>0, <1>1, <1>3, <2>2, ConstantFacts
  <2> HIDE DEF m
  <2>4. Add(c.min, -size) = IF m < 0 THEN m + Word ELSE m
    BY <2>3, ModNear, ConstantFacts DEF Add
  <2>5. d = [min |-> IF m < 0 THEN m + Word ELSE m, shared |-> c.shared]
    BY <1>1, <2>4
  <2> HIDE DEF d
  <2>6. d.min = (IF m < 0 THEN m + Word ELSE m) /\ d.shared = c.shared BY <2>5
  <2>7. Split(d, b - size)
    <3>1. d.shared >= b - size - Cell /\ d.shared < b - size + MaxSize
      BY <1>0, <1>1, <1>3, <2>6, ConstantFacts
    <3>2. d.min = IF d.shared <= b - size THEN b - size - d.shared
                  ELSE b - size - d.shared + Word
      BY <1>0, <1>1, <2>6, ConstantFacts DEF m
    <3>3. d = [min |-> d.min, shared |-> d.shared] BY <2>5
    <3> QED BY <1>1, <2>6, <3>1, <3>2, <3>3 DEF Split
  <2>8. b - size <= MaxBuffer BY <1>0, ConstantFacts
  <2> QED BY <1>0, <2>1, <2>7, <2>8, PatchSplit
<1> QED BY <1>2, <1>3

\* The parts add up, in the counters' arithmetic.
LEMMA SplitAdds ==
  ASSUME NEW c, NEW b \in Nat, b <= MaxBuffer, Split(c, b)
  PROVE  Add(c.min, c.shared) = b /\ c.min \in 0 .. Word - 1
                              /\ c.shared \in 0 .. Word - 1
<1>1. /\ c.shared \in Nat /\ c.shared >= b - Cell /\ c.shared < b + MaxSize
      /\ c.min = IF c.shared <= b THEN b - c.shared ELSE b - c.shared + Word
  BY DEF Split
<1>2. c.shared \in 0 .. Word - 1 BY <1>1, ConstantFacts
<1>3. c.min \in 0 .. Word - 1 BY <1>1, ConstantFacts
<1>4. Add(c.min, c.shared) = b
  <2>1. CASE c.shared <= b
    <3>1. c.min \in Nat /\ c.min + c.shared = b BY <1>1, <2>1
    <3>2. b < Word BY ConstantFacts
    <3> QED BY <1>1, <3>1, <3>2, AddSmall
  <2>2. CASE ~(c.shared <= b)
    <3> DEFINE z == c.min + c.shared
    <3>1. z = b + Word /\ z \in Nat /\ z < Word + Word /\ Word \in Nat \ {0}
      BY <1>1, <2>2, ConstantFacts
    <3> HIDE DEF z
    <3>2. z % Word = z - Word BY <3>1, ModRound
    <3> QED BY <3>1, <3>2, ConstantFacts DEF Add, z
  <2> QED BY <2>1, <2>2
<1> QED BY <1>2, <1>3, <1>4

---------------------------------------------------------------------------
(* What is stored in the egress queues qu.                                 *)

Storage == [Ports -> [Queues -> Seq(Packet)]]

HeldOf(qu, ins) ==
  [o \in Ports |-> [q \in Queues |-> BytesFrom(qu[o][q], ins)]]

\* Bytes of the queues qs that came in through a port of ins.
Stored(qu, ins, qs) == Total(HeldOf(qu, ins), Ports, qs)

LEMMA HeldType ==
  ASSUME NEW qu \in Storage, NEW ins
  PROVE  /\ HeldOf(qu, ins) \in Amounts
         /\ \A o \in Ports, q \in Queues :
              HeldOf(qu, ins)[o][q] = BytesFrom(qu[o][q], ins)
<1>1. \A o \in Ports, q \in Queues : BytesFrom(qu[o][q], ins) \in Nat
  <2> TAKE o \in Ports, q \in Queues
  <2>1. qu[o][q] \in Seq(Packet) BY DEF Storage
  <2> QED BY <2>1, BytesType
<1> QED BY <1>1 DEF HeldOf, Amounts

\* What came in through some ports is a part of all.
LEMMA BytesPart ==
  ASSUME NEW s \in Seq(Packet), NEW ins
  PROVE  BytesFrom(s, ins) <= BytesFrom(s, Ports)
<1> DEFINE S == DOMAIN s
           f == Terms(s, ins)
           g == Terms(s, Ports)
<1>1. /\ Len(s) \in Nat /\ S = 1 .. Len(s)
      /\ \A k \in S : s[k].size \in Nat /\ s[k].in \in Ports
  <2>1. Len(s) \in Nat /\ S = 1 .. Len(s) /\ \A k \in S : s[k] \in Packet
    OBVIOUS
  <2>2. \A p \in Packet : p.size \in Nat /\ p.in \in Ports
    BY MmuAssumption DEF Packet
  <2> QED BY <2>1, <2>2
<1>2. IsFiniteSet(S) BY <1>1, FS_Interval
<1>3. DOMAIN f = S /\ DOMAIN g = S BY DEF Terms
<1>4. \A k \in S : f[k] \in Nat /\ g[k] \in Nat /\ f[k] <= g[k] + 0
  BY <1>1 DEF Terms
<1>5. /\ BytesFrom(s, ins) = SumFunction(f)
      /\ BytesFrom(s, Ports) = SumFunction(g)
  BY TermsType
<1> HIDE DEF S, f, g
<1>6. SumFunctionOnSet(f, S) <= SumFunctionOnSet(g, S) + Cardinality(S) * 0
  BY <1>2, <1>4, SumError
<1>7. Cardinality(S) \in Nat BY <1>2, FS_CardinalityType
<1>8. SumFunctionOnSet(f, S) \in Nat /\ SumFunctionOnSet(g, S) \in Nat
  BY <1>2, <1>4, SumNat
<1> DEFINE c == Cardinality(S)
<1>9. c \in Nat /\ SumFunctionOnSet(f, S) <= SumFunctionOnSet(g, S) + c * 0
  BY <1>6, <1>7
<1> HIDE DEF c
<1>10. SumFunctionOnSet(f, S) <= SumFunctionOnSet(g, S) BY <1>8, <1>9
<1> QED BY <1>3, <1>5, <1>10 DEF SumFunction

LEMMA StoredPart ==
  ASSUME NEW qu \in Storage, NEW ins,
         NEW qs, qs \subseteq Queues
  PROVE  /\ Stored(qu, ins, qs) \in Nat
         /\ Stored(qu, ins, qs) <= Stored(qu, Ports, Queues)
<1> DEFINE a == HeldOf(qu, ins)
           b == HeldOf(qu, Ports)
<1>1. a \in Amounts /\ b \in Amounts BY HeldType
<1>2. \A o \in Ports, q \in Queues : a[o][q] <= b[o][q]
  <2> TAKE o \in Ports, q \in Queues
  <2>1. qu[o][q] \in Seq(Packet) BY DEF Storage
  <2>2. BytesFrom(qu[o][q], ins) <= BytesFrom(qu[o][q], Ports)
    BY <2>1, BytesPart
  <2>3. /\ a[o][q] = BytesFrom(qu[o][q], ins)
        /\ b[o][q] = BytesFrom(qu[o][q], Ports)
    BY HeldType
  <2> QED BY <2>2, <2>3
<1> HIDE DEF a, b
<1>3. Total(a, Ports, qs) <= Total(b, Ports, Queues)
  BY <1>1, <1>2, TotalPart
<1>4. Total(a, Ports, qs) \in Nat BY <1>1, CellsType
<1> QED BY <1>3, <1>4 DEF Stored, a, b

\* Queue q of port o goes from the packets s to the packets t.
Changed(new, old, o, q, t) ==
  /\ \A ins : \A p \in Ports, r \in Queues :
       HeldOf(new, ins)[p][r] = IF p = o /\ r = q THEN BytesFrom(t, ins)
                                ELSE HeldOf(old, ins)[p][r]
  /\ \A ins, qs : qs \subseteq Queues =>
       Stored(new, ins, qs) =
         IF q \in qs
         THEN Stored(old, ins, qs) + (BytesFrom(t, ins) -
                                      BytesFrom(old[o][q], ins))
         ELSE Stored(old, ins, qs)

LEMMA StoredChange ==
  ASSUME NEW qu \in Storage, NEW o \in Ports,
         NEW q \in Queues, NEW t \in Seq(Packet)
  PROVE  LET next == [qu EXCEPT ![o][q] = t]
         IN  next \in Storage /\ Changed(next, qu, o, q, t)
<1> DEFINE next == [qu EXCEPT ![o][q] = t]
<1>1. next \in Storage BY DEF Storage
<1>2. \A p \in Ports, r \in Queues :
        next[p][r] = IF p = o /\ r = q THEN t ELSE qu[p][r]
  BY DEF Storage
<1> HIDE DEF next
<1>3. ASSUME NEW ins
      PROVE  HeldOf(next, ins) =
               [HeldOf(qu, ins) EXCEPT ![o][q] = BytesFrom(t, ins)]
  <2> DEFINE v == BytesFrom(t, ins)
             a == HeldOf(qu, ins)
             b == HeldOf(next, ins)
  <2>1. a \in Amounts /\ b \in Amounts /\ v \in Nat
    BY <1>1, HeldType, BytesType
  <2>2. \A i \in Ports, r \in Queues :
          b[i][r] = IF i = o /\ r = q THEN v ELSE a[i][r]
    BY <1>2 DEF HeldOf
  <2> HIDE DEF v, a, b
  <2>3. b = [a EXCEPT ![o][q] = v]
    <3> DEFINE c == [a EXCEPT ![o][q] = v]
    <3>1. c \in Amounts BY <2>1 DEF Amounts
    <3>2. \A i \in Ports, r \in Queues :
            c[i][r] = IF i = o /\ r = q THEN v ELSE a[i][r]
      BY <2>1 DEF Amounts
    <3> HIDE DEF c
    <3>3. ASSUME NEW i \in Ports PROVE b[i] = c[i]
      <4>1. b[i] \in [Queues -> Nat] /\ c[i] \in [Queues -> Nat]
        BY <2>1, <3>1 DEF Amounts
      <4>2. \A r \in Queues : b[i][r] = c[i][r] BY <2>2, <3>2
      <4> QED BY <4>1, <4>2
    <3>4. b = c BY <2>1, <3>1, <3>3 DEF Amounts
    <3> QED BY <3>4 DEF c
  <2> QED BY <2>3 DEF v, a, b
<1>4. ASSUME NEW ins, NEW p \in Ports, NEW r \in Queues
      PROVE  HeldOf(next, ins)[p][r] = IF p = o /\ r = q
                                       THEN BytesFrom(t, ins)
                                       ELSE HeldOf(qu, ins)[p][r]
  BY <1>2 DEF HeldOf
<1>5. ASSUME NEW ins, NEW qs, qs \subseteq Queues
      PROVE  Stored(next, ins, qs) =
               IF q \in qs
               THEN Stored(qu, ins, qs) + (BytesFrom(t, ins) -
                                           BytesFrom(qu[o][q], ins))
               ELSE Stored(qu, ins, qs)
  <2> DEFINE a == HeldOf(qu, ins)
             v == BytesFrom(t, ins)
  <2>1. a \in Amounts /\ a[o][q] = BytesFrom(qu[o][q], ins) BY HeldType
  <2>2. v \in Nat BY BytesType
  <2>3. HeldOf(next, ins) = [a EXCEPT ![o][q] = v] BY <1>3
  <2> HIDE DEF a, v
  <2>4. Total([a EXCEPT ![o][q] = v], Ports, qs) =
          IF o \in Ports /\ q \in qs
          THEN Total(a, Ports, qs) + (v - a[o][q])
          ELSE Total(a, Ports, qs)
    BY <1>5, <2>1, <2>2, TotalChange
  <2> QED BY <2>1, <2>3, <2>4 DEF Stored, a, v
<1>6. Changed(next, qu, o, q, t) BY <1>4, <1>5 DEF Changed
<1> QED BY <1>1, <1>6 DEF next

\* Packet p is stored at the end of a queue of old, which gives new; or it is
\* taken from the front of new, which gives old.
More(new, old, o, q, p) ==
  /\ \A ins : \A i \in Ports, r \in Queues :
       HeldOf(new, ins)[i][r] =
         HeldOf(old, ins)[i][r] + IF i = o /\ r = q THEN SizeFrom(p, ins) ELSE 0
  /\ \A ins, qs : qs \subseteq Queues =>
       Stored(new, ins, qs) =
         Stored(old, ins, qs) + IF q \in qs THEN SizeFrom(p, ins) ELSE 0

LEMMA StoredAppend ==
  ASSUME NEW qu \in Storage, NEW o \in Ports,
         NEW q \in Queues, NEW p \in Packet
  PROVE  LET next == [qu EXCEPT ![o][q] = Append(@, p)]
         IN  next \in Storage /\ More(next, qu, o, q, p)
<1> DEFINE t == Append(qu[o][q], p)
           next == [qu EXCEPT ![o][q] = t]
<1>1. qu[o][q] \in Seq(Packet) BY DEF Storage
<1>2. /\ t \in Seq(Packet)
      /\ \A ins : /\ BytesFrom(t, ins) =
                       BytesFrom(qu[o][q], ins) + SizeFrom(p, ins)
                  /\ SizeFrom(p, ins) \in Nat
                  /\ BytesFrom(qu[o][q], ins) \in Nat
  BY <1>1, BytesAppend, BytesType
<1>3. next = [qu EXCEPT ![o][q] = Append(@, p)] OBVIOUS
<1> HIDE DEF t
<1>4. next \in Storage /\ Changed(next, qu, o, q, t)
  BY <1>2, StoredChange
<1> HIDE DEF next
<1>5. ASSUME NEW ins, NEW i \in Ports, NEW r \in Queues
      PROVE  HeldOf(next, ins)[i][r] =
               HeldOf(qu, ins)[i][r] + IF i = o /\ r = q THEN SizeFrom(p, ins)
                                                         ELSE 0
  <2>1. HeldOf(qu, ins)[o][q] = BytesFrom(qu[o][q], ins) BY HeldType
  <2>2. HeldOf(qu, ins)[i][r] \in Nat BY HeldType DEF Amounts
  <2> QED BY <1>2, <1>4, <2>1, <2>2 DEF Changed
<1>6. ASSUME NEW ins, NEW qs, qs \subseteq Queues
      PROVE  Stored(next, ins, qs) =
               Stored(qu, ins, qs) + IF q \in qs THEN SizeFrom(p, ins) ELSE 0
  <2>1. Stored(qu, ins, qs) \in Nat BY <1>6, StoredPart
  <2> QED BY <1>2, <1>4, <1>6, <2>1 DEF Changed
<1>7. More(next, qu, o, q, p) BY <1>5, <1>6 DEF More
<1> QED BY <1>3, <1>4, <1>7

LEMMA StoredTail ==
  ASSUME NEW qu \in Storage, NEW o \in Ports,
         NEW q \in Queues, qu[o][q] # <<>>
  PROVE  LET next == [qu EXCEPT ![o][q] = Tail(@)]
             p == Head(qu[o][q])
         IN  next \in Storage /\ p \in Packet /\ More(qu, next, o, q, p)
<1> DEFINE t == Tail(qu[o][q])
           p == Head(qu[o][q])
           next == [qu EXCEPT ![o][q] = t]
<1>1. qu[o][q] \in Seq(Packet) BY DEF Storage
<1>2. /\ t \in Seq(Packet) /\ p \in Packet
      /\ \A ins : /\ BytesFrom(qu[o][q], ins) =
                       SizeFrom(p, ins) + BytesFrom(t, ins)
                  /\ SizeFrom(p, ins) \in Nat /\ BytesFrom(t, ins) \in Nat
  BY <1>1, BytesTail
<1>3. next = [qu EXCEPT ![o][q] = Tail(@)] OBVIOUS
<1> HIDE DEF t, p
<1>4. next \in Storage /\ Changed(next, qu, o, q, t)
  BY <1>2, StoredChange
<1> HIDE DEF next
<1>5. ASSUME NEW ins, NEW i \in Ports, NEW r \in Queues
      PROVE  HeldOf(qu, ins)[i][r] =
               HeldOf(next, ins)[i][r] + IF i = o /\ r = q THEN SizeFrom(p, ins)
                                                           ELSE 0
  <2>1. HeldOf(qu, ins)[o][q] = BytesFrom(qu[o][q], ins) BY HeldType
  <2>2. HeldOf(qu, ins)[i][r] \in Nat BY HeldType DEF Amounts
  <2> QED BY <1>2, <1>4, <2>1, <2>2 DEF Changed
<1>6. ASSUME NEW ins, NEW qs, qs \subseteq Queues
      PROVE  Stored(qu, ins, qs) =
               Stored(next, ins, qs) + IF q \in qs THEN SizeFrom(p, ins) ELSE 0
  <2>1. Stored(qu, ins, qs) \in Nat BY <1>6, StoredPart
  <2> QED BY <1>2, <1>4, <1>6, <2>1 DEF Changed
<1>7. More(qu, next, o, q, p) BY <1>5, <1>6 DEF More
<1> QED BY <1>2, <1>3, <1>4, <1>7 DEF p

---------------------------------------------------------------------------
(* The ingress counters.                                                   *)

\* The counters are the sums they stand for.
IngressCounts ==
  /\ usedTotal = Stored(queue, Ports, Queues)
  /\ usedIngressSP = [s \in SPs |-> Stored(queue, Ports, InPool(s))]
  /\ usedIngressPort = [i \in Ports |-> Stored(queue, {i}, Queues)]
  /\ usedIngressPG =
       [i \in Ports |-> [q \in Queues |-> Stored(queue, {i}, {q})]]

IngressInv ==
  /\ queue \in Storage
  /\ IngressCounts
  /\ usedTotal <= MaxBuffer
  /\ headroom \in Amounts
  /\ HeadroomWithinPG

\* A packet of queue q from port in changes, by d, the sums it is a part of.
Recount(new, old, in, q, d) ==
  \A ins, qs : qs \subseteq Queues =>
    Stored(new, ins, qs) = IF in \in ins /\ q \in qs
                           THEN Add(Stored(old, ins, qs), d)
                           ELSE Stored(old, ins, qs)

LEMMA RecountAppend ==
  ASSUME NEW qu \in Storage, NEW o \in Ports,
         NEW q \in Queues, NEW in \in Ports, NEW size \in Sizes,
         Stored(qu, Ports, Queues) + size <= MaxBuffer
  PROVE  LET next == [qu EXCEPT ![o][q] = Append(@, [in |-> in, size |-> size])]
         IN  Recount(next, qu, in, q, size)
<1> DEFINE p == [in |-> in, size |-> size]
           next == [qu EXCEPT ![o][q] = Append(@, p)]
<1>1. p \in Packet /\ p.in = in /\ p.size = size BY DEF Packet
<1>2. More(next, qu, o, q, p) BY <1>1, StoredAppend
<1> HIDE DEF next, p
<1>3. size \in Nat BY ConstantFacts
<1>4. ASSUME NEW ins, NEW qs, qs \subseteq Queues
      PROVE  Stored(next, ins, qs) = IF in \in ins /\ q \in qs
                                     THEN Add(Stored(qu, ins, qs), size)
                                     ELSE Stored(qu, ins, qs)
  <2> DEFINE x == Stored(qu, ins, qs)
  <2>1. x \in Nat /\ x <= Stored(qu, Ports, Queues)
        /\ Stored(qu, Ports, Queues) \in Nat
    BY <1>4, StoredPart
  <2>2. Stored(next, ins, qs) = x + IF q \in qs THEN SizeFrom(p, ins) ELSE 0
    BY <1>2, <1>4 DEF More
  <2>3. SizeFrom(p, ins) = IF in \in ins THEN size ELSE 0 BY <1>1 DEF SizeFrom
  <2> HIDE DEF x
  <2>4. x + size < Word BY <1>3, <2>1, ConstantFacts
  <2>5. Add(x, size) = x + size BY <1>3, <2>1, <2>4, AddSmall
  <2>6. Stored(next, ins, qs) = IF in \in ins /\ q \in qs THEN Add(x, size)
                                                         ELSE x
    BY <2>1, <2>2, <2>3, <2>5
  <2> QED BY <2>6 DEF x
<1>5. Recount(next, qu, in, q, size) BY <1>4 DEF Recount
<1> QED BY <1>5 DEF next, p

LEMMA RecountTail ==
  ASSUME NEW qu \in Storage, NEW o \in Ports,
         NEW q \in Queues, qu[o][q] # <<>>,
         Stored(qu, Ports, Queues) <= MaxBuffer
  PROVE  LET next == [qu EXCEPT ![o][q] = Tail(@)]
             p == Head(qu[o][q])
         IN  Recount(next, qu, p.in, q, -p.size)
<1> DEFINE next == [qu EXCEPT ![o][q] = Tail(@)]
           p == Head(qu[o][q])
<1>1. next \in Storage /\ p \in Packet /\ More(qu, next, o, q, p)
  BY StoredTail
<1> HIDE DEF next, p
<1>2. p.in \in Ports /\ p.size \in Nat BY <1>1, ConstantFacts DEF Packet
<1>3. ASSUME NEW ins, NEW qs, qs \subseteq Queues
      PROVE  Stored(next, ins, qs) = IF p.in \in ins /\ q \in qs
                                     THEN Add(Stored(qu, ins, qs), -p.size)
                                     ELSE Stored(qu, ins, qs)
  <2> DEFINE x == Stored(qu, ins, qs)
             y == Stored(next, ins, qs)
  <2>1. x \in Nat /\ x <= Stored(qu, Ports, Queues)
        /\ Stored(qu, Ports, Queues) \in Nat /\ y \in Nat
    BY <1>1, <1>3, StoredPart
  <2>2. x = y + IF q \in qs THEN SizeFrom(p, ins) ELSE 0
    BY <1>1, <1>3 DEF More
  <2>3. SizeFrom(p, ins) = IF p.in \in ins THEN p.size ELSE 0 BY DEF SizeFrom
  <2> HIDE DEF x, y
  <2>4. ASSUME p.in \in ins, q \in qs PROVE Add(x, -p.size) = y
    <3>1. x + (-p.size) = y BY <1>2, <2>1, <2>2, <2>3, <2>4
    <3>2. y < Word BY <1>2, <2>1, <2>2, <2>3, <2>4, ConstantFacts
    <3> QED BY <1>2, <2>1, <3>1, <3>2, AddSmall
  <2>5. y = IF p.in \in ins /\ q \in qs THEN Add(x, -p.size) ELSE x
    BY <1>2, <2>1, <2>2, <2>3, <2>4
  <2> QED BY <2>5 DEF x, y
<1>4. Recount(next, qu, p.in, q, -p.size) BY <1>3 DEF Recount
<1> QED BY <1>4 DEF next, p

\* Counters that change by d where the sums do remain the sums.
LEMMA CountsFollow ==
  ASSUME IngressCounts, NEW in \in Ports, NEW q \in Queues,
         NEW d, Recount(queue', queue, in, q, d),
         usedTotal' = Add(usedTotal, d),
         usedIngressSP' =
           [usedIngressSP EXCEPT ![GetSP(q)] = Add(@, d)],
         usedIngressPort' = [usedIngressPort EXCEPT ![in] = Add(@, d)],
         usedIngressPG' = [usedIngressPG EXCEPT ![in][q] = Add(@, d)]
  PROVE  IngressCounts'
<1>1. \A ins, qs : qs \subseteq Queues =>
        Stored(queue', ins, qs) = IF in \in ins /\ q \in qs
                                  THEN Add(Stored(queue, ins, qs), d)
                                  ELSE Stored(queue, ins, qs)
  BY DEF Recount
<1>2. usedTotal' = Stored(queue', Ports, Queues)
  BY <1>1 DEF IngressCounts
<1>3. usedIngressSP' =
        [s \in SPs |-> Stored(queue', Ports, InPool(s))]
  <2>1. \A s \in SPs : /\ InPool(s) \subseteq Queues
                       /\ q \in InPool(s) <=> s = GetSP(q)
    BY DEF InPool
  <2>2. \A s \in SPs :
          Stored(queue', Ports, InPool(s)) =
            IF s = GetSP(q)
            THEN Add(Stored(queue, Ports, InPool(s)), d)
            ELSE Stored(queue, Ports, InPool(s))
    BY <1>1, <2>1
  <2> QED BY <2>2 DEF IngressCounts
<1>4. usedIngressPort' = [i \in Ports |-> Stored(queue', {i}, Queues)]
  <2>1. \A i \in Ports :
          Stored(queue', {i}, Queues) =
            IF i = in THEN Add(Stored(queue, {i}, Queues), d)
                      ELSE Stored(queue, {i}, Queues)
    BY <1>1
  <2> QED BY <2>1 DEF IngressCounts
<1>5. usedIngressPG' =
        [i \in Ports |-> [r \in Queues |-> Stored(queue', {i}, {r})]]
  <2>1. \A i \in Ports, r \in Queues :
          Stored(queue', {i}, {r}) =
            IF i = in /\ r = q THEN Add(Stored(queue, {i}, {r}), d)
                               ELSE Stored(queue, {i}, {r})
    BY <1>1
  <2> QED BY <2>1 DEF IngressCounts
<1> QED BY <1>2, <1>3, <1>4, <1>5 DEF IngressCounts

\* Every ingress counter is a number not greater than the buffer.
LEMMA IngressBounds ==
  ASSUME IngressInv
  PROVE  /\ usedTotal \in 0 .. MaxBuffer
         /\ usedIngressSP \in [SPs -> 0 .. MaxBuffer]
         /\ usedIngressPort \in [Ports -> 0 .. MaxBuffer]
         /\ usedIngressPG \in [Ports -> [Queues -> 0 .. MaxBuffer]]
         /\ headroom \in [Ports -> [Queues -> 0 .. MaxBuffer]]
<1>1. usedTotal \in 0 .. MaxBuffer
  BY StoredPart, ConstantFacts DEF IngressInv, IngressCounts
<1>2. ASSUME NEW ins, NEW qs, qs \subseteq Queues
      PROVE  Stored(queue, ins, qs) \in 0 .. MaxBuffer
  <2>1. /\ Stored(queue, ins, qs) \in Nat
        /\ Stored(queue, ins, qs) <= usedTotal
    BY <1>2, StoredPart DEF IngressInv, IngressCounts
  <2> QED BY <1>1, <2>1, ConstantFacts
<1>3. usedIngressSP \in [SPs -> 0 .. MaxBuffer]
  <2>1. \A s \in SPs : InPool(s) \subseteq Queues BY DEF InPool
  <2>2. \A s \in SPs : Stored(queue, Ports, InPool(s)) \in 0 .. MaxBuffer
    BY <1>2, <2>1
  <2> QED BY <2>2 DEF IngressInv, IngressCounts
<1>4. usedIngressPort \in [Ports -> 0 .. MaxBuffer]
  BY <1>2 DEF IngressInv, IngressCounts
<1>5. usedIngressPG \in [Ports -> [Queues -> 0 .. MaxBuffer]]
  <2>1. \A i \in Ports, r \in Queues : Stored(queue, {i}, {r}) \in 0 .. MaxBuffer
    BY <1>2
  <2> QED BY <2>1 DEF IngressInv, IngressCounts
<1>6. headroom \in [Ports -> [Queues -> 0 .. MaxBuffer]]
  <2>1. \A i \in Ports, r \in Queues : headroom[i][r] \in 0 .. MaxBuffer
    <3> TAKE i \in Ports, r \in Queues
    <3>1. headroom[i][r] <= usedIngressPG[i][r] /\ headroom[i][r] \in Nat
      BY DEF IngressInv, HeadroomWithinPG, Amounts
    <3>2. usedIngressPG[i][r] \in 0 .. MaxBuffer BY <1>5
    <3> QED BY <3>1, <3>2, ConstantFacts
  <2> QED BY <2>1 DEF IngressInv, Amounts
<1> QED BY <1>1, <1>3, <1>4, <1>5, <1>6

LEMMA IngressAdmit ==
  ASSUME IngressInv, NEW in \in Ports, NEW o \in Ports,
         NEW q \in Queues, NEW size \in Sizes,
         CheckIngressAdmission(in, q, size),
         UpdateIngressAdmission(in, q, size),
         queue' = [queue EXCEPT ![o][q] = Append(@, [in |-> in, size |-> size])]
  PROVE  IngressInv' /\ usedTotal' = usedTotal + size
<1> DEFINE p == [in |-> in, size |-> size]
<1>1. p \in Packet /\ size \in Nat BY ConstantFacts DEF Packet
<1>2. queue' \in Storage BY <1>1, StoredAppend DEF IngressInv
<1>3. /\ Add(usedTotal, size) = usedTotal + size
      /\ usedTotal + size <= MaxBuffer
  <2>1. usedTotal \in 0 .. MaxBuffer BY IngressBounds
  <2>2. usedTotal + size < Word BY <1>1, <2>1, ConstantFacts
  <2>3. Add(usedTotal, size) = usedTotal + size
    BY <1>1, <2>1, <2>2, AddSmall, ConstantFacts
  <2> QED BY <2>3 DEF CheckIngressAdmission
<1>4. Recount(queue', queue, in, q, size)
  BY <1>3, RecountAppend DEF IngressInv, IngressCounts
<1>5. IngressCounts'
  BY <1>4, CountsFollow DEF IngressInv, UpdateIngressAdmission
<1>6. usedTotal' = usedTotal + size BY <1>3 DEF UpdateIngressAdmission
<1>7. /\ \A i \in Ports, r \in Queues :
           /\ headroom[i][r] \in Nat /\ headroom[i][r] <= usedIngressPG[i][r]
           /\ usedIngressPG[i][r] \in 0 .. MaxBuffer
           /\ usedIngressPG'[i][r] =
                IF i = in /\ r = q THEN usedIngressPG[i][r] + size
                                   ELSE usedIngressPG[i][r]
      /\ Add(headroom[in][q], size) = headroom[in][q] + size
  <2>1. usedIngressPG \in [Ports -> [Queues -> 0 .. MaxBuffer]]
    BY IngressBounds
  <2>2. /\ headroom[in][q] \in Nat /\ headroom[in][q] <= usedIngressPG[in][q]
        /\ usedIngressPG[in][q] \in 0 .. MaxBuffer
    BY <2>1 DEF IngressInv, Amounts, HeadroomWithinPG
  <2>3. usedIngressPG[in][q] + size < Word BY <1>1, <2>2, ConstantFacts
  <2>4. Add(usedIngressPG[in][q], size) = usedIngressPG[in][q] + size
    BY <1>1, <2>2, <2>3, AddSmall, ConstantFacts
  <2>5. headroom[in][q] + size < Word
    <3>1. /\ headroom[in][q] \in Nat /\ usedIngressPG[in][q] \in Nat
          /\ headroom[in][q] <= usedIngressPG[in][q] /\ Word \in Nat
      BY <2>2, ConstantFacts
    <3> QED BY <1>1, <2>3, <3>1
  <2>6. Add(headroom[in][q], size) = headroom[in][q] + size
    BY <1>1, <2>2, <2>5, AddSmall, ConstantFacts
  <2>7. usedIngressPG' = [usedIngressPG EXCEPT ![in][q] = Add(@, size)]
    BY DEF UpdateIngressAdmission
  <2>8. \A i \in Ports, r \in Queues :
          usedIngressPG'[i][r] =
            IF i = in /\ r = q THEN usedIngressPG[i][r] + size
                               ELSE usedIngressPG[i][r]
    BY <2>1, <2>4, <2>7
  <2>9. \A i \in Ports, r \in Queues :
          /\ headroom[i][r] \in Nat /\ headroom[i][r] <= usedIngressPG[i][r]
          /\ usedIngressPG[i][r] \in 0 .. MaxBuffer
    BY <2>1 DEF IngressInv, Amounts, HeadroomWithinPG
  <2> QED BY <2>6, <2>8, <2>9
<1>8. headroom' \in Amounts /\ HeadroomWithinPG'
  <2> DEFINE v == headroom[in][q] + size
  <2>1. v \in Nat BY <1>1, <1>7
  <2>2. headroom' = headroom \/ headroom' = [headroom EXCEPT ![in][q] = v]
    BY <1>7 DEF UpdateIngressAdmission
  <2>3. headroom \in Amounts BY DEF IngressInv
  <2>4. \A i \in Ports, r \in Queues :
          headroom'[i][r] = headroom[i][r]
            \/ (i = in /\ r = q /\ headroom'[i][r] = v)
    BY <2>2, <2>3 DEF Amounts
  <2>5. headroom' \in Amounts
    <3>1. [headroom EXCEPT ![in][q] = v] \in Amounts
      <4> HIDE DEF v
      <4> QED BY <2>1, <2>3 DEF Amounts
    <3> QED BY <2>2, <2>3, <3>1
  <2>6. \A i \in Ports, r \in Queues : headroom'[i][r] <= usedIngressPG'[i][r]
    <3> TAKE i \in Ports, r \in Queues
    <3>1. /\ headroom[i][r] \in Nat /\ headroom[i][r] <= usedIngressPG[i][r]
          /\ usedIngressPG[i][r] \in Nat
          /\ usedIngressPG'[i][r] =
               IF i = in /\ r = q THEN usedIngressPG[i][r] + size
                                  ELSE usedIngressPG[i][r]
      BY <1>7, ConstantFacts
    <3>2. \/ headroom'[i][r] = headroom[i][r]
          \/ i = in /\ r = q /\ headroom'[i][r] = headroom[i][r] + size
      BY <2>4
    <3> QED BY <1>1, <3>1, <3>2
  <2> QED BY <2>5, <2>6 DEF HeadroomWithinPG
<1> QED BY <1>2, <1>3, <1>5, <1>6, <1>8 DEF IngressInv

LEMMA IngressTransmit ==
  ASSUME IngressInv, NEW o \in Ports, NEW q \in Queues,
         queue[o][q] # <<>>,
         RemoveFromIngressAdmission(Head(queue[o][q]).in, q,
                                    Head(queue[o][q]).size),
         queue' = [queue EXCEPT ![o][q] = Tail(@)]
  PROVE  /\ IngressInv'
         /\ \A i \in Ports, r \in Queues :
              usedIngressPG'[i][r] <= usedIngressPG[i][r]
         /\ \E i \in Ports, s \in Nat :
              /\ s <= usedIngressPG[i][q] /\ usedTotal' = usedTotal - s
              /\ usedIngressPG' = [usedIngressPG EXCEPT ![i][q] = @ - s]
<1> DEFINE p == Head(queue[o][q])
           in == p.in
           size == p.size
<1>1. queue' \in Storage /\ p \in Packet /\ More(queue, queue', o, q, p)
  BY StoredTail DEF IngressInv
<1>2. Recount(queue', queue, in, q, -size)
  BY RecountTail DEF IngressInv, IngressCounts
<1>3. /\ usedTotal' = Add(usedTotal, -size)
      /\ usedIngressSP' =
           [usedIngressSP EXCEPT ![GetSP(q)] = Add(@, -size)]
      /\ usedIngressPort' = [usedIngressPort EXCEPT ![in] = Add(@, -size)]
      /\ usedIngressPG' = [usedIngressPG EXCEPT ![in][q] = Add(@, -size)]
      /\ headroom' = [headroom EXCEPT ![in][q] = IF @ > size THEN @ - size ELSE 0]
  BY DEF RemoveFromIngressAdmission
<1> HIDE DEF p
<1>4. in \in Ports /\ size \in Sizes /\ size \in Nat
  BY <1>1, ConstantFacts DEF Packet
<1> HIDE DEF in, size
<1>5. IngressCounts' BY <1>2, <1>3, <1>4, CountsFollow DEF IngressInv
<1>6. ASSUME NEW ins, NEW qs, qs \subseteq Queues
      PROVE  /\ Stored(queue', ins, qs) \in Nat /\ Stored(queue, ins, qs) \in Nat
             /\ Stored(queue, ins, qs) =
                  Stored(queue', ins, qs) +
                    IF q \in qs THEN SizeFrom(p, ins) ELSE 0
  <2>1. Stored(queue', ins, qs) \in Nat BY <1>1, <1>6, StoredPart
  <2>2. Stored(queue, ins, qs) \in Nat BY <1>6, StoredPart DEF IngressInv
  <2> QED BY <1>1, <1>6, <2>1, <2>2 DEF More
<1>7. \A ins : SizeFrom(p, ins) = IF in \in ins THEN size ELSE 0
  BY DEF SizeFrom, in, size
<1>8. /\ usedTotal' \in Nat /\ usedTotal' <= MaxBuffer
      /\ usedTotal' = usedTotal - size
  <2>1. Stored(queue, Ports, Queues) <= MaxBuffer
    BY DEF IngressInv, IngressCounts
  <2>2. /\ Stored(queue', Ports, Queues) \in Nat
        /\ Stored(queue, Ports, Queues) =
             Stored(queue', Ports, Queues) + SizeFrom(p, Ports)
        /\ SizeFrom(p, Ports) = size
    BY <1>4, <1>6, <1>7
  <2>3. Stored(queue', Ports, Queues) <= MaxBuffer
    BY <1>4, <2>1, <2>2, ConstantFacts
  <2>4. /\ usedTotal = Stored(queue, Ports, Queues)
        /\ usedTotal' = Stored(queue', Ports, Queues)
    BY <1>5 DEF IngressInv, IngressCounts
  <2>5. usedTotal' = usedTotal - size BY <1>4, <2>2, <2>4
  <2> QED BY <2>2, <2>3, <2>4, <2>5
<1>9. \A i \in Ports, r \in Queues :
        /\ usedIngressPG[i][r] \in Nat /\ usedIngressPG'[i][r] \in Nat
        /\ usedIngressPG[i][r] =
             usedIngressPG'[i][r] + IF i = in /\ r = q THEN size ELSE 0
  <2> TAKE i \in Ports, r \in Queues
  <2>1. /\ usedIngressPG[i][r] = Stored(queue, {i}, {r})
        /\ usedIngressPG'[i][r] = Stored(queue', {i}, {r})
    BY <1>5 DEF IngressInv, IngressCounts
  <2>2. SizeFrom(p, {i}) = IF i = in THEN size ELSE 0 BY <1>7
  <2>3. /\ Stored(queue', {i}, {r}) \in Nat /\ Stored(queue, {i}, {r}) \in Nat
        /\ Stored(queue, {i}, {r}) =
             Stored(queue', {i}, {r}) +
               IF q \in {r} THEN SizeFrom(p, {i}) ELSE 0
    BY <1>6
  <2> QED BY <1>4, <2>1, <2>2, <2>3
<1>10. headroom' \in Amounts /\ HeadroomWithinPG'
  <2> DEFINE v == IF headroom[in][q] > size THEN headroom[in][q] - size ELSE 0
  <2>1. /\ headroom \in Amounts
        /\ \A i \in Ports, r \in Queues : /\ headroom[i][r] \in Nat
                                          /\ headroom[i][r] <= usedIngressPG[i][r]
    BY DEF IngressInv, Amounts, HeadroomWithinPG
  <2>2. v \in Nat BY <1>4, <2>1
  <2>3. headroom' = [headroom EXCEPT ![in][q] = v] BY <1>3, <1>4, <2>1
  <2>4. \A i \in Ports, r \in Queues :
          headroom'[i][r] = IF i = in /\ r = q THEN v ELSE headroom[i][r]
    <3> HIDE DEF v
    <3> QED BY <2>1, <2>3 DEF Amounts
  <2>5. headroom' \in Amounts
    <3> HIDE DEF v
    <3> QED BY <2>1, <2>2, <2>3 DEF Amounts
  <2>6. \A i \in Ports, r \in Queues : headroom'[i][r] <= usedIngressPG'[i][r]
    BY <1>4, <1>9, <2>1, <2>4
  <2> QED BY <2>5, <2>6 DEF HeadroomWithinPG
<1>11. \A i \in Ports, r \in Queues :
         usedIngressPG'[i][r] <= usedIngressPG[i][r]
  BY <1>4, <1>9
<1>12. /\ size <= usedIngressPG[in][q]
       /\ usedIngressPG' = [usedIngressPG EXCEPT ![in][q] = @ - size]
  <2>1. /\ size <= usedIngressPG[in][q]
        /\ usedIngressPG'[in][q] = usedIngressPG[in][q] - size
    BY <1>4, <1>9
  <2>2. usedIngressPG \in [Ports -> [Queues -> 0 .. MaxBuffer]]
    BY IngressBounds
  <2>3. usedIngressPG'[in][q] = Add(usedIngressPG[in][q], -size)
    BY <1>3, <1>4, <2>2
  <2> QED BY <1>3, <2>1, <2>3
<1> QED BY <1>1, <1>4, <1>5, <1>8, <1>10, <1>11, <1>12 DEF IngressInv

---------------------------------------------------------------------------
(* The egress counters.                                                    *)

EgressCounts ==
  /\ usedEgressPort = [o \in Ports |-> Total(qShared, {o}, Queues)]
  /\ usedEgressSP =
       [s \in SPs |-> Total(qShared, Ports, InPool(s))]

EgressInv ==
  /\ qMin \in Amounts /\ qShared \in Amounts
  /\ EgressCounts
  /\ \A o \in Ports, q \in Queues :
       Split(Egress(o, q), HeldOf(queue, Ports)[o][q])

\* The bytes of a queue are not more than the buffer.
LEMMA HeldBounds ==
  ASSUME NEW qu \in Storage,
         Stored(qu, Ports, Queues) <= MaxBuffer, NEW o \in Ports, NEW q \in Queues
  PROVE  /\ HeldOf(qu, Ports)[o][q] \in Nat
         /\ HeldOf(qu, Ports)[o][q] <= MaxBuffer
<1> DEFINE a == HeldOf(qu, Ports)
<1>1. a \in Amounts BY HeldType
<1>2. Total(a, Ports, Queues) <= MaxBuffer BY DEF Stored
<1> HIDE DEF a
<1>3. a[o][q] <= Total(a, Ports, Queues) BY <1>1, TotalTerm
<1>4. Total(a, Ports, Queues) \in Nat BY <1>1, CellsType
<1>5. a[o][q] \in Nat BY <1>1 DEF Amounts
<1> QED BY <1>2, <1>3, <1>4, <1>5, ConstantFacts DEF a

LEMMA EgressStep ==
  ASSUME IngressInv', EgressInv, NEW o \in Ports,
         NEW q \in Queues, NEW c, SetEgress(o, q, c),
         Split(c, HeldOf(queue', Ports)[o][q]),
         \A i \in Ports, r \in Queues :
           i # o \/ r # q =>
             HeldOf(queue', Ports)[i][r] = HeldOf(queue, Ports)[i][r]
  PROVE  EgressInv'
<1> DEFINE held == HeldOf(queue', Ports)
           next == [qShared EXCEPT ![o][q] = c.shared]
<1>1. /\ held \in Amounts /\ Total(held, Ports, Queues) \in Nat
      /\ Total(held, Ports, Queues) <= MaxBuffer
      /\ \A i \in Ports, r \in Queues : held[i][r] \in Nat
                                        /\ held[i][r] <= MaxBuffer
  <2>1. queue' \in Storage /\ Stored(queue', Ports, Queues) <= MaxBuffer
    BY DEF IngressInv, IngressCounts
  <2>2. held \in Amounts BY <2>1, HeldType
  <2>3. \A i \in Ports, r \in Queues : held[i][r] \in Nat
                                       /\ held[i][r] <= MaxBuffer
    BY <2>1, HeldBounds
  <2>4. Total(held, Ports, Queues) <= MaxBuffer BY <2>1 DEF Stored
  <2> HIDE DEF held
  <2>5. Total(held, Ports, Queues) \in Nat BY <2>2, CellsType
  <2> QED BY <2>2, <2>3, <2>4, <2>5
<1> HIDE DEF held
<1>2. /\ qMin' = [qMin EXCEPT ![o][q] = c.min] /\ qShared' = next
      /\ usedEgressPort' =
           [usedEgressPort EXCEPT ![o] = Add(@, c.shared - qShared[o][q])]
      /\ usedEgressSP' = [usedEgressSP EXCEPT ![GetSP(q)] =
                            Add(@, c.shared - qShared[o][q])]
  BY DEF SetEgress
<1>3. /\ Split(c, held[o][q])
      /\ \A i \in Ports, r \in Queues :
           i # o \/ r # q => held[i][r] = HeldOf(queue, Ports)[i][r]
  BY DEF held
<1>4. c.min \in Nat /\ c.shared \in Nat /\ c = [min |-> c.min, shared |-> c.shared]
  BY <1>1, <1>3, SplitAdds, ConstantFacts DEF Split
<1>5. qMin' \in Amounts /\ next \in Amounts
  BY <1>2, <1>4 DEF EgressInv, Amounts
<1>6. \A i \in Ports, r \in Queues :
        /\ qMin'[i][r] = IF i = o /\ r = q THEN c.min ELSE qMin[i][r]
        /\ next[i][r] = IF i = o /\ r = q THEN c.shared ELSE qShared[i][r]
  BY <1>2 DEF EgressInv, Amounts
<1> HIDE DEF next
<1>7. \A i \in Ports, r \in Queues :
        Split([min |-> qMin'[i][r], shared |-> next[i][r]], held[i][r])
  <2> TAKE i \in Ports, r \in Queues
  <2>1. CASE i = o /\ r = q BY <1>3, <1>4, <1>6, <2>1
  <2>2. CASE ~(i = o /\ r = q)
    <3>1. Split(Egress(i, r), HeldOf(queue, Ports)[i][r]) BY DEF EgressInv
    <3>2. Egress(i, r) = [min |-> qMin'[i][r], shared |-> next[i][r]]
      BY <1>6, <2>2 DEF Egress
    <3> QED BY <1>3, <2>2, <3>1, <3>2
  <2> QED BY <2>1, <2>2
<1>8. ASSUME NEW outs, outs \subseteq Ports, NEW qs, qs \subseteq Queues
      PROVE  Total(next, outs, qs) =
               IF o \in outs /\ q \in qs
               THEN Add(Total(qShared, outs, qs), c.shared - qShared[o][q])
               ELSE Total(qShared, outs, qs)
  <2> DEFINE x == Total(qShared, outs, qs)
             y == Total(next, outs, qs)
             d == c.shared - qShared[o][q]
  <2>1. x \in Nat BY <1>8, CellsType DEF EgressInv
  <2>2. y \in Nat BY <1>5, <1>8, CellsType
  <2>3. d \in Int BY <1>4 DEF EgressInv, Amounts
  <2>4. y = IF o \in outs /\ q \in qs THEN x + d ELSE x
    BY <1>4, <1>8, TotalChange DEF EgressInv, next
  <2>5. y < Word
    <3>1. \A i \in Ports, r \in Queues : next[i][r] <= held[i][r] + MaxSize
      <4> TAKE i \in Ports, r \in Queues
      <4>1. next[i][r] < held[i][r] + MaxSize BY <1>7 DEF Split
      <4>2. next[i][r] \in Nat BY <1>5 DEF Amounts
      <4> QED BY <1>1, <4>1, <4>2, ConstantFacts
    <3>2. y <= Total(held, Ports, Queues) +
                 Cardinality(Ports \X Queues) * MaxSize
      BY <1>1, <1>5, <1>8, <3>1, TotalError, ConstantFacts
    <3>3. y <= Total(held, Ports, Queues) + AllErrors
      BY <3>2 DEF AllErrors
    <3> QED BY <1>1, <2>2, <3>3, ConstantFacts
  <2> HIDE DEF x, y, d
  <2>6. ASSUME o \in outs, q \in qs PROVE y = Add(x, d)
    <3>1. y = x + d BY <2>4, <2>6
    <3> QED BY <2>1, <2>2, <2>3, <2>5, <3>1, AddSmall
  <2>7. y = IF o \in outs /\ q \in qs THEN Add(x, d) ELSE x
    BY <2>4, <2>6
  <2> QED BY <2>7 DEF x, y, d
<1>9. usedEgressPort' = [i \in Ports |-> Total(next, {i}, Queues)]
  <2>1. \A i \in Ports :
          Total(next, {i}, Queues) =
            IF i = o
            THEN Add(Total(qShared, {i}, Queues), c.shared - qShared[o][q])
            ELSE Total(qShared, {i}, Queues)
    BY <1>8
  <2> QED BY <1>2, <2>1 DEF EgressInv, EgressCounts
<1>10. usedEgressSP' =
         [s \in SPs |-> Total(next, Ports, InPool(s))]
  <2>1. \A s \in SPs : /\ InPool(s) \subseteq Queues
                       /\ q \in InPool(s) <=> s = GetSP(q)
    BY DEF InPool
  <2>2. \A s \in SPs :
          Total(next, Ports, InPool(s)) =
            IF s = GetSP(q)
            THEN Add(Total(qShared, Ports, InPool(s)),
                     c.shared - qShared[o][q])
            ELSE Total(qShared, Ports, InPool(s))
    BY <1>8, <2>1
  <2> QED BY <1>2, <2>2 DEF EgressInv, EgressCounts
<1>11. EgressCounts' BY <1>2, <1>9, <1>10 DEF EgressCounts
<1>12. \A i \in Ports, r \in Queues :
         Split([min |-> qMin'[i][r], shared |-> qShared'[i][r]],
               HeldOf(queue', Ports)[i][r])
  BY <1>2, <1>7 DEF held
<1> QED BY <1>2, <1>5, <1>11, <1>12 DEF EgressInv, Egress

---------------------------------------------------------------------------
(* The switch alone.                                                       *)

MmuInv == IngressInv /\ EgressInv

LEMMA MmuInit ==
  ASSUME BufferInit
  PROVE  MmuInv
<1>1. queue \in Storage
  <2>1. <<>> \in Seq(Packet) OBVIOUS
  <2> QED BY <2>1 DEF BufferInit, Storage
<1>2. ASSUME NEW ins PROVE \A o \in Ports, q \in Queues : HeldOf(queue, ins)[o][q] = 0
  <2>1. BytesFrom(<<>>, ins) = 0 BY BytesNone
  <2>2. \A o \in Ports, q \in Queues : queue[o][q] = <<>> BY DEF BufferInit
  <2>3. \A o \in Ports, q \in Queues : BytesFrom(queue[o][q], ins) = 0
    BY <2>1, <2>2
  <2> QED BY <1>1, <2>3, HeldType
<1>3. ASSUME NEW ins, NEW qs, qs \subseteq Queues PROVE Stored(queue, ins, qs) = 0
  <2> DEFINE a == HeldOf(queue, ins)
  <2>1. a \in Amounts BY <1>1, HeldType
  <2>2. \A o \in Ports, q \in Queues : a[o][q] = 0 BY <1>2
  <2> HIDE DEF a
  <2>3. Total(a, Ports, qs) = 0 BY <1>3, <2>1, <2>2, TotalNone
  <2> QED BY <2>3 DEF Stored, a
<1>4. qShared \in Amounts /\ qMin \in Amounts /\ headroom \in Amounts
  BY DEF BufferInit, Amounts
<1>5. ASSUME NEW outs, outs \subseteq Ports, NEW qs, qs \subseteq Queues
      PROVE  Total(qShared, outs, qs) = 0
  <2>1. \A o \in Ports, q \in Queues : qShared[o][q] = 0 BY DEF BufferInit
  <2> QED BY <1>4, <1>5, <2>1, TotalNone
<1>6. \A s \in SPs : InPool(s) \subseteq Queues BY DEF InPool
<1>7. IngressCounts
  <2>1. usedTotal = Stored(queue, Ports, Queues) BY <1>3 DEF BufferInit
  <2>2. \A s \in SPs : Stored(queue, Ports, InPool(s)) = 0 BY <1>3, <1>6
  <2>3. \A i \in Ports : Stored(queue, {i}, Queues) = 0 BY <1>3
  <2>4. \A i \in Ports, q \in Queues : Stored(queue, {i}, {q}) = 0 BY <1>3
  <2> QED BY <2>1, <2>2, <2>3, <2>4 DEF IngressCounts, BufferInit
<1>8. EgressCounts
  <2>1. \A s \in SPs : Total(qShared, Ports, InPool(s)) = 0
    BY <1>5, <1>6
  <2>2. \A o \in Ports : Total(qShared, {o}, Queues) = 0 BY <1>5
  <2> QED BY <2>1, <2>2 DEF EgressCounts, BufferInit
<1>9. IngressInv
  BY <1>1, <1>4, <1>7, ConstantFacts DEF IngressInv, BufferInit,
     HeadroomWithinPG
<1>10. ASSUME NEW o \in Ports, NEW q \in Queues
       PROVE  Split(Egress(o, q), HeldOf(queue, Ports)[o][q])
  <2>1. Egress(o, q) = [min |-> 0, shared |-> 0]
    BY DEF Egress, BufferInit
  <2>2. HeldOf(queue, Ports)[o][q] = 0 BY <1>2
  <2> QED BY <2>1, <2>2, ConstantFacts DEF Split
<1> QED BY <1>4, <1>8, <1>9, <1>10 DEF MmuInv, EgressInv

LEMMA MmuAdmit ==
  ASSUME MmuInv, NEW in \in Ports, NEW o \in Ports,
         NEW q \in Queues, NEW size \in Sizes, Admit(in, o, q, size)
  PROVE  MmuInv'
<1> DEFINE p == [in |-> in, size |-> size]
           b == HeldOf(queue, Ports)[o][q]
           c == Charge(Egress(o, q), size)
<1>1. p \in Packet /\ size \in Nat /\ p.in = in /\ p.size = size
  BY ConstantFacts DEF Packet
<1>2. queue' = [queue EXCEPT ![o][q] = Append(@, p)] BY DEF Admit
<1>3. IngressInv' /\ usedTotal' = usedTotal + size
  BY IngressAdmit DEF MmuInv, Admit
<1>4. More(queue', queue, o, q, p)
  BY <1>1, <1>2, StoredAppend DEF MmuInv, IngressInv
<1> HIDE DEF p
<1>5. \A i \in Ports, r \in Queues :
        /\ HeldOf(queue, Ports)[i][r] \in Nat
        /\ HeldOf(queue', Ports)[i][r] = HeldOf(queue, Ports)[i][r] +
                                           IF i = o /\ r = q THEN size ELSE 0
  <2>1. SizeFrom(p, Ports) = size BY <1>1 DEF SizeFrom
  <2>2. HeldOf(queue, Ports) \in Amounts
    BY HeldType DEF MmuInv, IngressInv
  <2> QED BY <1>4, <2>1, <2>2 DEF More, Amounts
<1>6. HeldOf(queue', Ports)[o][q] = b + size /\ b \in Nat BY <1>5
<1>7. b + size <= MaxBuffer
  <2>1. queue' \in Storage /\ Stored(queue', Ports, Queues) <= MaxBuffer
    BY <1>3 DEF IngressInv, IngressCounts
  <2> QED BY <1>6, <2>1, HeldBounds
<1>8. Split(Egress(o, q), b) BY DEF MmuInv, EgressInv
<1>9. Split(c, b + size) BY <1>6, <1>7, <1>8, ChargeSplit
<1>10. SetEgress(o, q, c) BY DEF Admit
<1>11. \A i \in Ports, r \in Queues :
         i # o \/ r # q =>
           HeldOf(queue', Ports)[i][r] = HeldOf(queue, Ports)[i][r]
  BY <1>5
<1> HIDE DEF b, c
<1>12. EgressInv' BY <1>3, <1>6, <1>9, <1>10, <1>11, EgressStep DEF MmuInv
<1> QED BY <1>3, <1>12 DEF MmuInv

LEMMA MmuTransmit ==
  ASSUME MmuInv, NEW o \in Ports, NEW q \in Queues,
         DequeueAndTransmit(o, q)
  PROVE  /\ MmuInv'
         /\ \A i \in Ports, r \in Queues :
              usedIngressPG'[i][r] <= usedIngressPG[i][r]
         /\ \E i \in Ports, s \in Nat :
              /\ s <= usedIngressPG[i][q] /\ usedTotal' = usedTotal - s
              /\ usedIngressPG' = [usedIngressPG EXCEPT ![i][q] = @ - s]
<1> DEFINE p == Head(queue[o][q])
           b == HeldOf(queue, Ports)[o][q]
           c == Discharge(Egress(o, q), p.size)
<1>1. /\ queue[o][q] # <<>> /\ queue' = [queue EXCEPT ![o][q] = Tail(@)]
      /\ RemoveFromIngressAdmission(p.in, q, p.size)
      /\ SetEgress(o, q, c)
  BY DEF DequeueAndTransmit
<1>2. /\ IngressInv'
      /\ \A i \in Ports, r \in Queues :
           usedIngressPG'[i][r] <= usedIngressPG[i][r]
      /\ \E i \in Ports, s \in Nat :
           /\ s <= usedIngressPG[i][q] /\ usedTotal' = usedTotal - s
           /\ usedIngressPG' = [usedIngressPG EXCEPT ![i][q] = @ - s]
  BY <1>1, IngressTransmit DEF MmuInv
<1>3. p \in Packet /\ More(queue, queue', o, q, p)
  BY <1>1, StoredTail DEF MmuInv, IngressInv
<1> HIDE DEF p
<1>4. p.in \in Ports /\ p.size \in Sizes /\ p.size \in Nat
  BY <1>3, ConstantFacts DEF Packet
<1>5. \A i \in Ports, r \in Queues :
        /\ HeldOf(queue', Ports)[i][r] \in Nat
        /\ HeldOf(queue, Ports)[i][r] = HeldOf(queue', Ports)[i][r] +
                                          IF i = o /\ r = q THEN p.size ELSE 0
  <2>1. SizeFrom(p, Ports) = p.size BY <1>4 DEF SizeFrom
  <2>2. HeldOf(queue', Ports) \in Amounts
    BY <1>2, HeldType DEF IngressInv
  <2> QED BY <1>3, <2>1, <2>2 DEF More, Amounts
<1>6. /\ HeldOf(queue', Ports)[o][q] = b - p.size
      /\ b \in Nat /\ p.size <= b
  BY <1>4, <1>5
<1>7. b <= MaxBuffer
  BY HeldBounds DEF MmuInv, IngressInv, IngressCounts
<1>8. Split(Egress(o, q), b) BY DEF MmuInv, EgressInv
<1>9. Split(c, b - p.size) BY <1>4, <1>6, <1>7, <1>8, DischargeSplit
<1>10. \A i \in Ports, r \in Queues :
         i # o \/ r # q =>
           HeldOf(queue', Ports)[i][r] = HeldOf(queue, Ports)[i][r]
  BY <1>5
<1> HIDE DEF b, c
<1>11. EgressInv' BY <1>1, <1>2, <1>6, <1>9, <1>10, EgressStep DEF MmuInv
<1> QED BY <1>2, <1>11 DEF MmuInv

LEMMA MmuStep ==
  ASSUME MmuInv, [BufferNext]_mmuVars
  PROVE  MmuInv'
<1>1. CASE BufferNext
  <2>1. PICK o \in Ports, q \in Queues :
          \/ \E in \in Ports, size \in Sizes : Admit(in, o, q, size)
          \/ DequeueAndTransmit(o, q)
    BY <1>1 DEF BufferNext
  <2> QED BY <2>1, MmuAdmit, MmuTransmit
<1>2. CASE UNCHANGED mmuVars
  <2>1. /\ UNCHANGED <<usedTotal, usedIngressSP, usedIngressPort,
                       usedIngressPG, headroom>>
        /\ UNCHANGED <<qMin, qShared, usedEgressPort, usedEgressSP, queue>>
    BY <1>2 DEF mmuVars, ingressVars, egressVars
  <2>2. IngressInv'
    BY <2>1 DEF MmuInv, IngressInv, IngressCounts, HeadroomWithinPG
  <2>3. EgressInv'
    BY <2>1 DEF MmuInv, EgressInv, EgressCounts, Egress
  <2> QED BY <2>2, <2>3 DEF MmuInv
<1> QED BY <1>1, <1>2

\* Sums over the shared parts do not wrap either.
LEMMA EgressBounds ==
  ASSUME MmuInv, NEW outs, outs \subseteq Ports,
         NEW qs, qs \subseteq Queues
  PROVE  Total(qShared, outs, qs) \in 0 .. Word - 1
<1> DEFINE held == HeldOf(queue, Ports)
           y == Total(qShared, outs, qs)
<1>1. held \in Amounts BY HeldType DEF MmuInv, IngressInv
<1>2. /\ qShared \in Amounts
      /\ \A o \in Ports, q \in Queues :
           Split([min |-> qMin[o][q], shared |-> qShared[o][q]], held[o][q])
  BY DEF MmuInv, EgressInv, Egress
<1>3. Total(held, Ports, Queues) <= MaxBuffer
  BY DEF MmuInv, IngressInv, IngressCounts, Stored
<1> HIDE DEF held
<1>4. \A o \in Ports, q \in Queues : qShared[o][q] <= held[o][q] + MaxSize
  <2> TAKE o \in Ports, q \in Queues
  <2>1. qShared[o][q] < held[o][q] + MaxSize BY <1>2 DEF Split
  <2>2. qShared[o][q] \in Nat /\ held[o][q] \in Nat BY <1>1, <1>2 DEF Amounts
  <2> QED BY <2>1, <2>2, ConstantFacts
<1>5. y <= Total(held, Ports, Queues) + Cardinality(Ports \X Queues) * MaxSize
  BY <1>1, <1>2, <1>4, TotalError, ConstantFacts
<1>6. y <= Total(held, Ports, Queues) + AllErrors BY <1>5 DEF AllErrors
<1>7. y \in Nat BY <1>2, CellsType
<1>8. Total(held, Ports, Queues) \in Nat BY <1>1, CellsType
<1> HIDE DEF y
<1>9. y \in 0 .. Word - 1 BY <1>3, <1>6, <1>7, <1>8, ConstantFacts
<1> QED BY <1>9 DEF y

LEMMA MmuTypeOK ==
  ASSUME MmuInv
  PROVE  BufferTypes
<1>1. 0 .. MaxBuffer \subseteq Counter BY ConstantFacts DEF Counter
<1>2. /\ usedTotal \in Counter
      /\ usedIngressSP \in [SPs -> Counter]
      /\ usedIngressPort \in [Ports -> Counter]
      /\ usedIngressPG \in [Ports -> [Queues -> Counter]]
      /\ headroom \in [Ports -> [Queues -> Counter]]
  <2> DEFINE B == 0 .. MaxBuffer
  <2>1. /\ usedTotal \in B
        /\ usedIngressSP \in [SPs -> B]
        /\ usedIngressPort \in [Ports -> B]
        /\ usedIngressPG \in [Ports -> [Queues -> B]]
        /\ headroom \in [Ports -> [Queues -> B]]
    BY IngressBounds DEF MmuInv
  <2>2. B \subseteq Counter BY <1>1
  <2> HIDE DEF B
  <2> QED BY <2>1, <2>2
<1>3. queue \in [Ports -> [Queues -> Seq(Packet)]]
  BY DEF MmuInv, IngressInv, Storage
<1>4. /\ qMin \in [Ports -> [Queues -> Counter]]
      /\ qShared \in [Ports -> [Queues -> Counter]]
  <2>1. ASSUME NEW o \in Ports, NEW q \in Queues
        PROVE  qMin[o][q] \in Counter /\ qShared[o][q] \in Counter
    <3> DEFINE c == Egress(o, q)
               b == HeldOf(queue, Ports)[o][q]
    <3>1. b \in Nat /\ b <= MaxBuffer
      BY HeldBounds DEF MmuInv, IngressInv, IngressCounts
    <3>2. Split(c, b) BY DEF MmuInv, EgressInv
    <3>3. c.min = qMin[o][q] /\ c.shared = qShared[o][q] BY DEF Egress
    <3> HIDE DEF c, b
    <3>4. c.min \in 0 .. Word - 1 /\ c.shared \in 0 .. Word - 1
      BY <3>1, <3>2, SplitAdds
    <3> QED BY <3>3, <3>4 DEF Counter
  <2>2. qMin \in Amounts /\ qShared \in Amounts BY DEF MmuInv, EgressInv
  <2> QED BY <2>1, <2>2 DEF Amounts
<1>5. /\ usedEgressPort \in [Ports -> Counter]
      /\ usedEgressSP \in [SPs -> Counter]
  <2>1. \A o \in Ports : Total(qShared, {o}, Queues) \in Counter
    BY EgressBounds DEF Counter
  <2>2. \A s \in SPs :
          Total(qShared, Ports, InPool(s)) \in Counter
    <3> TAKE s \in SPs
    <3>1. InPool(s) \subseteq Queues BY DEF InPool
    <3> QED BY <3>1, EgressBounds DEF Counter
  <2> QED BY <2>1, <2>2 DEF MmuInv, EgressInv, EgressCounts
<1> QED BY <1>2, <1>3, <1>4, <1>5 DEF BufferTypes

LEMMA MmuCounters ==
  ASSUME MmuInv
  PROVE  CountersMatch /\ HeadroomWithinPG
<1>1. \A ins : Held(ins) = HeldOf(queue, ins) BY DEF Held, HeldOf
<1>2. IngressMatchesStored
  <2>1. /\ usedTotal = Stored(queue, Ports, Queues)
        /\ \A s \in SPs :
             usedIngressSP[s] = Stored(queue, Ports, InPool(s))
        /\ \A i \in Ports : usedIngressPort[i] = Stored(queue, {i}, Queues)
        /\ \A i \in Ports, q \in Queues :
             usedIngressPG[i][q] = Stored(queue, {i}, {q})
    BY DEF MmuInv, IngressInv, IngressCounts
  <2> QED BY <1>1, <2>1 DEF IngressMatchesStored, Stored
<1>3. ASSUME NEW o \in Ports, NEW q \in Queues
      PROVE  /\ Add(qMin[o][q], qShared[o][q]) = Held(Ports)[o][q]
             /\ qShared[o][q] >= Held(Ports)[o][q] - Cell
             /\ \E s \in Sizes : qShared[o][q] < Held(Ports)[o][q] + s
  <2> DEFINE c == Egress(o, q)
             b == HeldOf(queue, Ports)[o][q]
  <2>1. b \in Nat /\ b <= MaxBuffer
    BY HeldBounds DEF MmuInv, IngressInv, IngressCounts
  <2>2. Split(c, b) BY DEF MmuInv, EgressInv
  <2>3. c.min = qMin[o][q] /\ c.shared = qShared[o][q] BY DEF Egress
  <2>4. Held(Ports)[o][q] = b BY <1>1
  <2> HIDE DEF c, b
  <2>5. Add(c.min, c.shared) = b BY <2>1, <2>2, SplitAdds
  <2>6. c.shared >= b - Cell /\ c.shared < b + MaxSize BY <2>2 DEF Split
  <2>7. MaxSize \in Sizes BY ConstantFacts
  <2> QED BY <2>3, <2>4, <2>5, <2>6, <2>7
<1>4. EgressMatchesQueues
  BY <1>3 DEF EgressMatchesQueues, MmuInv, EgressInv, EgressCounts
<1>5. SharedTracksQueue BY <1>3 DEF SharedTracksQueue
<1> QED BY <1>2, <1>4, <1>5 DEF CountersMatch, MmuInv, IngressInv

\* The switch on its own: the invariant of all theorems about its accounting.
THEOREM MmuKeeps == BufferSpec => []MmuInv
<1>1. BufferInit => MmuInv BY MmuInit
<1>2. MmuInv /\ [BufferNext]_mmuVars => MmuInv' BY MmuStep
<1> QED BY <1>1, <1>2, PTL DEF BufferSpec

\* No counter of the switch leaves the range of an unsigned word and no queue
\* holds anything but packets.
THEOREM MmuTypes == BufferSpec => []BufferTypes
<1>1. MmuInv => BufferTypes BY MmuTypeOK
<1> QED BY <1>1, MmuKeeps, PTL

\* However many ports, queues and packet sizes, and whatever the unsigned
\* counters wrap through, all ten match what is stored (broadcom-node.cc:178).
THEOREM AccountsAreRight == BufferSpec => []CountersMatch
<1>1. MmuInv => CountersMatch BY MmuCounters
<1> QED BY <1>1, MmuKeeps, PTL

\* Headroom in use never exceeds what its priority group holds
\* (broadcom-node.cc:185, :235).
THEOREM HeadroomIsPart == BufferSpec => []HeadroomWithinPG
<1>1. MmuInv => HeadroomWithinPG BY MmuCounters
<1> QED BY <1>1, MmuKeeps, PTL


---------------------------------------------------------------------------
(* Flow control: types.                                                    *)

LEMMA RecheckInTime ==
  /\ RecheckDelay \in Nat /\ RecheckDelay < PauseTime
  /\ PauseTime \in Nat /\ PauseTime > 0 /\ FrameDelay \in Nat /\ DataDelay \in Nat
  /\ RecheckDelay = PauseTime \div 2
<1>1. /\ PauseTime \in Nat \ {0} /\ FrameDelay \in Nat /\ DataDelay \in Nat
  BY PfcAssumption
<1> DEFINE d == PauseTime \div 2
<1>2. d \in Nat /\ d * 2 <= PauseTime BY <1>1, DivBounds
<1> HIDE DEF d
<1>3. d < PauseTime BY <1>1, <1>2
<1> QED BY <1>1, <1>2, <1>3 DEF RecheckDelay, d

LEMMA SendingTypes ==
  ASSUME FlowTypes, event.step # "none"
  PROVE  event \in Sending
BY DEF FlowTypes, Idle

LEMMA TravelledType ==
  ASSUME NEW R, NEW s \in Seq(R),
         \A x \in R : [x EXCEPT !.due = Elapsed(@)] \in R
  PROVE  Travelled(s) \in Seq(R)
<1>1. Len(s) \in Nat /\ DOMAIN s = 1 .. Len(s) /\ \A k \in 1 .. Len(s) : s[k] \in R
  OBVIOUS
<1>2. Travelled(s) \in [1 .. Len(s) -> R] BY <1>1 DEF Travelled
<1> QED BY <1>1, <1>2

\* What a check may add: a frame that pauses, and one that resumes.
LEMMA CheckTypes ==
  ASSUME FlowTypes, NEW out \in Ports, NEW in \in Ports, NEW q \in Queues,
         NEW left \in Off .. PauseTime \div 2, CheckQueueFull(out, in, q, left)
  PROVE  /\ frames' \in [Ports -> Seq(PfcFrame)]
         /\ pauseRemote' \in [Ports -> [Queues -> BOOLEAN]]
         /\ recheckEvt' \in [Ports -> [Ports -> [Queues -> Off .. PauseTime \div 2]]]
<1> DEFINE P == GetPauseClasses(in, q)
           res == (P # {} \/ pauseRemote[in][q]) /\ GetResumeClasses(in, q)
           stop == [classes |-> P, time |-> PauseTime, due |-> FrameDelay]
           go == [classes |-> {0}, time |-> 0, due |-> FrameDelay]
           more == (IF P = {} THEN <<>> ELSE <<stop>>) \o
                   (IF res THEN <<go>> ELSE <<>>)
           add == [frames EXCEPT ![in] = @ \o
                     (IF P = {} THEN <<>> ELSE <<stop>>)
                     \o (IF res THEN <<go>> ELSE <<>>)]
           t == IF res THEN Off ELSE IF P # {} THEN RecheckDelay ELSE left
<1>1. P \subseteq Classes
  BY DEF GetPauseClasses, DynamicPauseClasses, Classes
<1>2. stop \in PfcFrame /\ go \in PfcFrame
  BY <1>1, RecheckInTime DEF PfcFrame, Classes
<1>3. /\ frames' = add
      /\ pauseRemote' = [pauseRemote EXCEPT ![in][q] = (@ \/ P # {}) /\ ~res]
      /\ recheckEvt' = [recheckEvt EXCEPT ![out][in][q] = t]
  BY DEF CheckQueueFull
<1>4. res \in BOOLEAN BY DEF FlowTypes
<1> HIDE DEF P, res, stop, go
<1>5. add \in [Ports -> Seq(PfcFrame)] BY <1>2 DEF FlowTypes
<1>6. pauseRemote' \in [Ports -> [Queues -> BOOLEAN]]
  BY <1>3, <1>4 DEF FlowTypes
<1>7. recheckEvt' \in [Ports -> [Ports -> [Queues -> Off .. PauseTime \div 2]]]
  <2>1. t \in Off .. PauseTime \div 2 BY RecheckInTime DEF Off
  <2> HIDE DEF t
  <2> QED BY <1>3, <2>1 DEF FlowTypes
<1> QED BY <1>3, <1>5, <1>6, <1>7

LEMMA TypesSend ==
  ASSUME FlowTypes, NEW in \in Ports, Send(in)
  PROVE  FlowTypes' /\ event' \in Sending /\ Head(wire[in]) \in WirePacket
<1> DEFINE p == Head(wire[in])
<1>1. wire[in] \in Seq(WirePacket) /\ wire[in] # <<>> BY DEF FlowTypes, Send
<1>2. p \in WirePacket /\ Tail(wire[in]) \in Seq(WirePacket) BY <1>1
<1>3. /\ event' = [step |-> "transmit", in |-> in, out |-> p.out, q |-> p.q]
      /\ wire' = [wire EXCEPT ![in] = Tail(@)] /\ (lost' = TRUE \/ UNCHANGED lost)
      /\ UNCHANGED <<dynamicth, pauseRemote, recheckEvt, frames, paused,
                     resumeEvt, sent>>
  BY DEF Send
<1> HIDE DEF p
<1>4. event' \in Sending BY <1>2, <1>3 DEF Sending, WirePacket
<1>5. wire' \in [Ports -> Seq(WirePacket)] BY <1>2, <1>3 DEF FlowTypes
<1> QED BY <1>2, <1>3, <1>4, <1>5 DEF FlowTypes, p

LEMMA TypesTransmits ==
  ASSUME FlowTypes, NEW out \in Ports, NEW q \in Queues, NEW ok,
         SendTransmits(out, q, ok)
  PROVE  FlowTypes' /\ event \in Sending /\ event' \in Sending
         /\ event'.in = event.in /\ event'.q = event.q
<1>1. /\ event.step # "none" /\ event' = [event EXCEPT !.step = "check"]
      /\ UNCHANGED <<dynamicth, pauseRemote, recheckEvt, lost, frames, paused,
                     resumeEvt, wire, sent>>
  BY DEF SendTransmits, peerVars
<1>2. event \in Sending BY <1>1, SendingTypes
<1>3. event' \in Sending /\ event'.in = event.in /\ event'.q = event.q
  BY <1>1, <1>2 DEF Sending
<1> QED BY <1>1, <1>2, <1>3 DEF FlowTypes

LEMMA TypesChecks ==
  ASSUME FlowTypes, SendChecks
  PROVE  FlowTypes' /\ event \in Sending
<1>1. /\ event.step # "none" /\ event' = Idle
      /\ CheckQueueFull(event.out, event.in, event.q,
                        recheckEvt[event.out][event.in][event.q])
      /\ UNCHANGED <<dynamicth, lost, paused, resumeEvt, wire, sent>>
  BY DEF SendChecks, peerVars
<1>2. event \in Sending BY <1>1, SendingTypes
<1>3. event.out \in Ports /\ event.in \in Ports /\ event.q \in Queues
  BY <1>2 DEF Sending
<1>4. recheckEvt[event.out][event.in][event.q] \in Off .. PauseTime \div 2
  BY <1>3 DEF FlowTypes
<1>5. /\ frames' \in [Ports -> Seq(PfcFrame)]
      /\ pauseRemote' \in [Ports -> [Queues -> BOOLEAN]]
      /\ recheckEvt' \in [Ports -> [Ports -> [Queues -> Off .. PauseTime \div 2]]]
  BY <1>1, <1>3, <1>4, CheckTypes
<1> QED BY <1>1, <1>2, <1>5 DEF FlowTypes

LEMMA TypesRecheck ==
  ASSUME FlowTypes, NEW out \in Ports, NEW in \in Ports, NEW q \in Queues,
         Recheck(out, in, q)
  PROVE  FlowTypes'
<1>1. /\ CheckQueueFull(out, in, q, Off)
      /\ UNCHANGED <<dynamicth, event, lost, paused, resumeEvt, wire, sent>>
  BY DEF Recheck, peerVars
<1>2. Off \in Off .. PauseTime \div 2 BY RecheckInTime DEF Off
<1>3. /\ frames' \in [Ports -> Seq(PfcFrame)]
      /\ pauseRemote' \in [Ports -> [Queues -> BOOLEAN]]
      /\ recheckEvt' \in [Ports -> [Ports -> [Queues -> Off .. PauseTime \div 2]]]
  BY <1>1, <1>2, CheckTypes
<1> QED BY <1>1, <1>3 DEF FlowTypes

LEMMA TypesPeerSend ==
  ASSUME FlowTypes, NEW in \in Ports, NEW out \in Ports, NEW q \in Queues,
         NEW size \in Sizes, PeerSend(in, out, q, size)
  PROVE  FlowTypes'
<1> DEFINE p == [out |-> out, q |-> q, size |-> size, due |-> DataDelay]
<1>1. /\ sent' = [sent EXCEPT ![in] = TRUE]
      /\ wire' = [wire EXCEPT ![in] = Append(@, p)]
      /\ UNCHANGED <<dynamicth, pauseRemote, recheckEvt, event, lost, frames,
                     paused, resumeEvt>>
  BY DEF PeerSend, switchVars
<1>2. p \in WirePacket BY RecheckInTime DEF WirePacket
<1> HIDE DEF p
<1>3. wire' \in [Ports -> Seq(WirePacket)] BY <1>1, <1>2 DEF FlowTypes
<1> QED BY <1>1, <1>3 DEF FlowTypes

LEMMA TypesReceiveFrame ==
  ASSUME FlowTypes, NEW in \in Ports, ReceiveFrame(in)
  PROVE  FlowTypes' /\ Head(frames[in]) \in PfcFrame
<1> DEFINE f == Head(frames[in])
<1>1. frames[in] \in Seq(PfcFrame) /\ frames[in] # <<>>
  BY DEF FlowTypes, ReceiveFrame
<1>2. f \in PfcFrame /\ Tail(frames[in]) \in Seq(PfcFrame) BY <1>1
<1>3. /\ paused' = [paused EXCEPT ![in] =
           [c \in Classes |-> IF c \in f.classes THEN f.time > 0 ELSE @[c]]]
      /\ resumeEvt' = [resumeEvt EXCEPT ![in] =
           [c \in Classes |-> IF c \in f.classes THEN PauseTimer(@[c], f.time)
                                                 ELSE @[c]]]
      /\ frames' = [frames EXCEPT ![in] = Tail(@)]
      /\ UNCHANGED <<dynamicth, pauseRemote, recheckEvt, event, lost, wire, sent>>
  BY DEF ReceiveFrame
<1> HIDE DEF f
<1>4. f.time \in {0, PauseTime} BY <1>2 DEF PfcFrame
<1>5. \A left : PauseTimer(left, f.time) \in Off .. PauseTime
  BY <1>4, RecheckInTime DEF PauseTimer, Off
<1>6. (f.time > 0) \in BOOLEAN OBVIOUS
<1>7. paused' \in [Ports -> [Classes -> BOOLEAN]] BY <1>3, <1>6 DEF FlowTypes
<1>8. resumeEvt' \in [Ports -> [Classes -> Off .. PauseTime]]
  BY <1>3, <1>5 DEF FlowTypes
<1>9. frames' \in [Ports -> Seq(PfcFrame)] BY <1>2, <1>3 DEF FlowTypes
<1> QED BY <1>2, <1>3, <1>7, <1>8, <1>9 DEF FlowTypes, f

LEMMA TypesPauseFinish ==
  ASSUME FlowTypes, NEW in \in Ports, NEW c \in Classes, PauseFinish(in, c)
  PROVE  FlowTypes'
<1>1. /\ paused' = [paused EXCEPT ![in][c] = FALSE]
      /\ resumeEvt' = [resumeEvt EXCEPT ![in][c] = Off]
      /\ UNCHANGED <<dynamicth, pauseRemote, recheckEvt, event, lost, frames,
                     wire, sent>>
  BY DEF PauseFinish, switchVars
<1>2. Off \in Off .. PauseTime BY RecheckInTime DEF Off
<1>3. /\ paused' \in [Ports -> [Classes -> BOOLEAN]]
      /\ resumeEvt' \in [Ports -> [Classes -> Off .. PauseTime]]
  BY <1>1, <1>2 DEF FlowTypes
<1> QED BY <1>1, <1>3 DEF FlowTypes

LEMMA TypesTick ==
  ASSUME FlowTypes, Tick
  PROVE  FlowTypes'
<1>1. /\ wire' = [i \in Ports |-> Travelled(wire[i])]
      /\ frames' = [i \in Ports |-> Travelled(frames[i])]
      /\ resumeEvt' =
           [i \in Ports |-> [c \in Classes |-> Elapsed(resumeEvt[i][c])]]
      /\ recheckEvt' = [o \in Ports |-> [i \in Ports |-> [q \in Queues |->
                          Elapsed(recheckEvt[o][i][q])]]]
      /\ sent' = [i \in Ports |-> FALSE]
      /\ UNCHANGED <<dynamicth, pauseRemote, event, lost, paused>>
  BY DEF Tick
<1>2. \A n \in Nat : /\ \A t \in 0 .. n : Elapsed(t) \in 0 .. n
                     /\ \A t \in Off .. n : Elapsed(t) \in Off .. n
  BY DEF Elapsed, Off
<1>3. \A x \in WirePacket : [x EXCEPT !.due = Elapsed(@)] \in WirePacket
  <2> TAKE x \in WirePacket
  <2>1. x.due \in 0 .. DataDelay BY DEF WirePacket
  <2>2. Elapsed(x.due) \in 0 .. DataDelay BY <1>2, <2>1, RecheckInTime
  <2> QED BY <2>2 DEF WirePacket
<1>4. \A x \in PfcFrame : [x EXCEPT !.due = Elapsed(@)] \in PfcFrame
  <2> TAKE x \in PfcFrame
  <2>1. x.due \in 0 .. FrameDelay BY DEF PfcFrame
  <2>2. Elapsed(x.due) \in 0 .. FrameDelay BY <1>2, <2>1, RecheckInTime
  <2> QED BY <2>2 DEF PfcFrame
<1>5. wire' \in [Ports -> Seq(WirePacket)]
  <2>1. \A i \in Ports : wire[i] \in Seq(WirePacket) BY DEF FlowTypes
  <2>2. \A i \in Ports : Travelled(wire[i]) \in Seq(WirePacket)
    BY <1>3, <2>1, TravelledType
  <2> QED BY <1>1, <2>2
<1>6. frames' \in [Ports -> Seq(PfcFrame)]
  <2>1. \A i \in Ports : frames[i] \in Seq(PfcFrame) BY DEF FlowTypes
  <2>2. \A i \in Ports : Travelled(frames[i]) \in Seq(PfcFrame)
    BY <1>4, <2>1, TravelledType
  <2> QED BY <1>1, <2>2
<1>7. resumeEvt' \in [Ports -> [Classes -> Off .. PauseTime]]
  BY <1>1, <1>2, RecheckInTime DEF FlowTypes
<1>8. recheckEvt' \in [Ports -> [Ports -> [Queues -> Off .. PauseTime \div 2]]]
  <2> DEFINE d == PauseTime \div 2
             T == Off .. d
  <2>1. \A t \in T : Elapsed(t) \in T BY <1>2, RecheckInTime
  <2>2. recheckEvt \in [Ports -> [Ports -> [Queues -> T]]] BY DEF FlowTypes
  <2> HIDE DEF T
  <2>3. recheckEvt' \in [Ports -> [Ports -> [Queues -> T]]]
    BY <1>1, <2>1, <2>2
  <2> QED BY <2>3 DEF T
<1> QED BY <1>1, <1>5, <1>6, <1>7, <1>8 DEF FlowTypes

LEMMA TypesStep ==
  ASSUME FlowTypes, [Next]_vars
  PROVE  FlowTypes'
<1>1. CASE SendChecks BY <1>1, TypesChecks
<1>2. CASE Tick BY <1>2, TypesTick
<1>3. ASSUME NEW in \in Ports,
             \/ Send(in) \/ ReceiveFrame(in)
             \/ \E c \in Classes : PauseFinish(in, c)
      PROVE  FlowTypes'
  BY <1>3, TypesSend, TypesReceiveFrame, TypesPauseFinish
<1>4. ASSUME NEW out \in Ports, NEW q \in Queues,
             \/ Serve(out, q) \/ SendTransmits(out, q, FALSE)
             \/ \E in \in Ports : Recheck(out, in, q)
      PROVE  FlowTypes'
  <2>1. CASE Transmit(out, q)
    <3>1. UNCHANGED <<switchVars, peerVars>> BY <2>1 DEF Transmit
    <3> QED BY <3>1 DEF FlowTypes, switchVars, peerVars
  <2>2. ASSUME NEW ok, SendTransmits(out, q, ok) PROVE FlowTypes'
    BY <2>2, TypesTransmits
  <2>3. CASE \E in \in Ports : Recheck(out, in, q) BY <2>3, TypesRecheck
  <2> QED BY <1>4, <2>1, <2>2, <2>3 DEF Serve
<1>5. ASSUME NEW in \in Sources, NEW out \in Destinations, NEW q \in Queues,
             NEW size \in Sizes, PeerSend(in, out, q, size)
      PROVE  FlowTypes'
  <2>1. in \in Ports /\ out \in Ports BY PfcAssumption
  <2> QED BY <1>5, <2>1, TypesPeerSend
<1>6. CASE UNCHANGED vars
  BY <1>6 DEF vars, switchVars, peerVars, FlowTypes
<1> QED BY <1>1, <1>2, <1>3, <1>4, <1>5, <1>6 DEF Next


LEMMA TypesInit == Init => FlowTypes
<1>1. SUFFICES ASSUME Init PROVE FlowTypes OBVIOUS
<1>2. Off \in Off .. PauseTime \div 2 /\ Off \in Off .. PauseTime
  BY RecheckInTime DEF Off
<1>3. <<>> \in Seq(PfcFrame) /\ <<>> \in Seq(WirePacket) OBVIOUS
<1> QED BY <1>1, <1>2, <1>3 DEF Init, FlowTypes

---------------------------------------------------------------------------
(* Flow control keeps the accounts of the switch.                          *)

\* A step of the composition admits, transmits or leaves the switch alone.
LEMMA SwitchStep ==
  ASSUME FlowTypes, [Next]_vars
  PROVE  [BufferNext]_mmuVars
<1> DEFINE G == [BufferNext]_mmuVars
<1>1. UNCHANGED mmuVars => G
  BY DEF mmuVars, ingressVars, egressVars
<1>2. SendChecks \/ Tick => G BY <1>1 DEF SendChecks, Tick
<1>3. ASSUME NEW in \in Ports, Send(in) PROVE G
  <2>1. Head(wire[in]) \in WirePacket BY <1>3, TypesSend
  <2>2. /\ Head(wire[in]).out \in Ports /\ Head(wire[in]).q \in Queues
        /\ Head(wire[in]).size \in Sizes
    BY <2>1 DEF WirePacket
  <2>3. \/ Admit(in, Head(wire[in]).out, Head(wire[in]).q,
                 Head(wire[in]).size)
        \/ UNCHANGED mmuVars
    BY <1>3 DEF Send
  <2> QED BY <1>1, <2>2, <2>3 DEF BufferNext
<1>4. ASSUME NEW in \in Ports,
             ReceiveFrame(in) \/ \E c \in Classes : PauseFinish(in, c)
      PROVE  G
  BY <1>1, <1>4 DEF ReceiveFrame, PauseFinish
<1>5. ASSUME NEW out \in Ports, NEW q \in Queues,
             Transmit(out, q) \/ \E ok \in BOOLEAN : SendTransmits(out, q, ok)
      PROVE  G
  <2>1. DequeueAndTransmit(out, q) \/ UNCHANGED mmuVars
    BY <1>5 DEF Transmit, SendTransmits
  <2> QED BY <1>1, <2>1 DEF BufferNext
<1>6. ASSUME NEW out \in Ports, NEW in \in Ports, NEW q \in Queues,
             Recheck(out, in, q)
      PROVE  G
  BY <1>1, <1>6 DEF Recheck
<1>7. ASSUME NEW in, NEW out, NEW q, NEW size, PeerSend(in, out, q, size)
      PROVE  G
  BY <1>1, <1>7 DEF PeerSend
<1>8. UNCHANGED vars => G BY <1>1 DEF vars
<1> HIDE DEF G
<1>9. ASSUME NEW in \in Ports,
             \/ Send(in) \/ ReceiveFrame(in)
             \/ \E c \in Classes : PauseFinish(in, c)
      PROVE  G
  BY <1>3, <1>4, <1>9
<1>10. ASSUME NEW out \in Ports, NEW q \in Queues,
              \/ Serve(out, q) \/ SendTransmits(out, q, FALSE)
              \/ \E in \in Ports : Recheck(out, in, q)
       PROVE  G
  BY <1>5, <1>6, <1>10 DEF Serve
<1>11. G BY <1>2, <1>7, <1>8, <1>9, <1>10 DEF Next
<1> QED BY <1>11 DEF G

---------------------------------------------------------------------------
(* A class over its limit stays paused.                                    *)

\* A check by one of the timers comes before the pause in force ends, or a
\* frame that pauses the class is on its way.
Kept(i, q) ==
  \E o \in Ports :
    /\ recheckEvt[o][i][q] >= 0
    /\ \/ PauseComing(i, q)
       \/ paused[i][q] /\ resumeEvt[i][q] > recheckEvt[o][i][q]

\* The check that belongs to a packet of this priority group is still to come.
Checking(i, q) == event.step # "none" /\ event.in = i /\ event.q = q

OverIsKept ==
  \A i \in Ports, q \in Queues \ Exempt :
    ~dynamicth /\ usedIngressPG[i][q] > PgSharedLimit /\ ~Checking(i, q)
      => Kept(i, q)

\* A frame that resumes names class 0.
ResumesNone ==
  \A i \in Ports : \A k \in DOMAIN frames[i] :
    frames[i][k].time = 0 => frames[i][k].classes = {0}

FlowInv == MmuInv /\ FlowTypes /\ OverIsKept /\ ResumesNone

\* Over is the state of a group that the static thresholds would pause.
Over(i, q) ==
  /\ i \in Ports /\ q \in Queues \ Exempt
  /\ ~dynamicth /\ usedIngressPG[i][q] > PgSharedLimit

LEMMA CountersAreNumbers ==
  ASSUME MmuInv, NEW i \in Ports, NEW q \in Queues
  PROVE  usedIngressPG[i][q] \in Nat
<1>1. usedIngressPG \in [Ports -> [Queues -> 0 .. MaxBuffer]]
  BY IngressBounds DEF MmuInv
<1> QED BY <1>1

\* A check of a group that is over its limit pauses it and will check again.
LEMMA CheckPauses ==
  ASSUME MmuInv, FlowTypes, NEW out \in Ports, NEW in \in Ports,
         NEW q \in Queues, NEW left, CheckQueueFull(out, in, q, left),
         Over(in, q)
  PROVE  /\ PauseComing(in, q)' /\ recheckEvt'[out][in][q] >= 0
         /\ \E k \in DOMAIN frames'[in] :
              /\ q \in frames'[in][k].classes /\ frames'[in][k].time > 0
              /\ frames'[in][k].due = FrameDelay
<1> DEFINE P == GetPauseClasses(in, q)
           res == (P # {} \/ pauseRemote[in][q]) /\ GetResumeClasses(in, q)
           stop == [classes |-> P, time |-> PauseTime, due |-> FrameDelay]
<1>1. q \in P
  BY DEF Over, GetPauseClasses, Classes
<1>2. ~GetResumeClasses(in, q)
  <2>1. usedIngressPG[in][q] \in Nat BY CountersAreNumbers
  <2>2. ~(usedIngressPG[in][q] < PgSharedOff)
    BY <2>1, PfcAssumption DEF Over
  <2> QED BY <2>2 DEF GetResumeClasses, Over
<1>3. ~res /\ P # {} BY <1>1, <1>2
<1>4. frames' = [frames EXCEPT ![in] = @ \o <<stop>> \o <<>>]
  BY <1>3 DEF CheckQueueFull
<1>5. recheckEvt' = [recheckEvt EXCEPT ![out][in][q] = RecheckDelay]
  BY <1>3 DEF CheckQueueFull
<1>6. recheckEvt'[out][in][q] >= 0 BY <1>5, RecheckInTime DEF FlowTypes
<1>7. \E k \in DOMAIN frames'[in] :
        /\ q \in frames'[in][k].classes /\ frames'[in][k].time > 0
        /\ frames'[in][k].due = FrameDelay
  <2> DEFINE s == frames[in]
             n == Len(s) + 1
  <2>1. s \in Seq(PfcFrame) BY DEF FlowTypes
  <2>2. q \in stop.classes /\ stop.time > 0 /\ stop.due = FrameDelay
    BY <1>1, RecheckInTime
  <2> HIDE DEF stop
  <2>3. /\ n \in DOMAIN (s \o <<stop>> \o <<>>)
        /\ (s \o <<stop>> \o <<>>)[n] = stop
    BY <2>1
  <2>4. frames'[in] = s \o <<stop>> \o <<>> BY <1>4 DEF FlowTypes
  <2> QED BY <2>2, <2>3, <2>4
<1>8. PauseComing(in, q)' BY <1>7 DEF PauseComing
<1> QED BY <1>6, <1>7, <1>8

\* t is s, or s and x after it.
LongerBy(t, s, x) ==
  /\ \A k \in DOMAIN s : k \in DOMAIN t /\ t[k] = s[k]
  /\ \A k \in DOMAIN t : (k \in DOMAIN s /\ t[k] = s[k]) \/ t[k] = x

LEMMA Lengthen ==
  ASSUME NEW R, NEW s \in Seq(R), NEW x \in R, NEW e, e = <<>> \/ e = <<x>>
  PROVE  s \o e \in Seq(R) /\ LongerBy(s \o e, s, x)
<1>1. CASE e = <<>>
  <2>1. s \o e = s BY <1>1
  <2> QED BY <2>1 DEF LongerBy
<1>2. CASE e = <<x>>
  <2> DEFINE t == s \o e
  <2>1. /\ t \in Seq(R) /\ Len(s) \in Nat /\ DOMAIN s = 1 .. Len(s)
        /\ DOMAIN t = 1 .. Len(s) + 1 /\ t[Len(s) + 1] = x
        /\ \A k \in 1 .. Len(s) : t[k] = s[k]
    BY <1>2
  <2> HIDE DEF t
  <2>2. LongerBy(t, s, x) BY <2>1 DEF LongerBy
  <2> QED BY <2>1, <2>2 DEF t
<1> QED BY <1>1, <1>2

\* Frames are added after those on their way, timers of others run on.
LEMMA CheckKeeps ==
  ASSUME FlowTypes, ResumesNone, NEW out \in Ports, NEW in \in Ports,
         NEW q \in Queues, NEW left, CheckQueueFull(out, in, q, left)
  PROVE  /\ \A i \in Ports :
              /\ \A k \in DOMAIN frames[i] : /\ k \in DOMAIN frames'[i]
                                             /\ frames'[i][k] = frames[i][k]
              /\ \A k \in DOMAIN frames'[i] :
                   k \in DOMAIN frames[i] \/ frames'[i][k].due = FrameDelay
         /\ \A i \in Ports, r \in Queues : PauseComing(i, r) => PauseComing(i, r)'
         /\ \A o, i \in Ports, r \in Queues :
              i # in \/ r # q => recheckEvt'[o][i][r] = recheckEvt[o][i][r]
         /\ ResumesNone'
<1> DEFINE P == GetPauseClasses(in, q)
           res == (P # {} \/ pauseRemote[in][q]) /\ GetResumeClasses(in, q)
           stop == [classes |-> P, time |-> PauseTime, due |-> FrameDelay]
           go == [classes |-> {0}, time |-> 0, due |-> FrameDelay]
           more == IF P = {} THEN <<>> ELSE <<stop>>
           last == IF res THEN <<go>> ELSE <<>>
           t == IF res THEN Off ELSE IF P # {} THEN RecheckDelay ELSE left
<1>1. /\ frames' = [frames EXCEPT ![in] = @ \o more \o last]
      /\ recheckEvt' = [recheckEvt EXCEPT ![out][in][q] = t]
  BY DEF CheckQueueFull
<1>2. /\ stop.time # 0 /\ go.classes = {0}
      /\ stop.due = FrameDelay /\ go.due = FrameDelay
      /\ stop \in PfcFrame /\ go \in PfcFrame
  <2>1. P \subseteq Classes
    BY DEF GetPauseClasses, DynamicPauseClasses, Classes
  <2> QED BY <2>1, RecheckInTime DEF PfcFrame, Classes
<1> HIDE DEF P, res, stop, go, t
<1>3. \A i \in Ports : /\ frames[i] \in Seq(PfcFrame)
                       /\ Len(frames[i]) \in Nat
                       /\ DOMAIN frames[i] = 1 .. Len(frames[i])
  BY DEF FlowTypes
<1>4. \A i \in Ports : i # in => frames'[i] = frames[i]
  BY <1>1 DEF FlowTypes
<1>5. frames'[in] = frames[in] \o more \o last BY <1>1 DEF FlowTypes
<1>6. /\ \A k \in DOMAIN frames[in] : /\ k \in DOMAIN frames'[in]
                                      /\ frames'[in][k] = frames[in][k]
      /\ \A k \in DOMAIN frames'[in] :
           \/ k \in DOMAIN frames[in] /\ frames'[in][k] = frames[in][k]
           \/ frames'[in][k] = stop \/ frames'[in][k] = go
  <2> DEFINE s == frames[in]
  <2>1. s \in Seq(PfcFrame) BY <1>3
  <2> HIDE DEF s
  <2>2. stop \in PfcFrame /\ go \in PfcFrame BY <1>2
  <2>3. more = <<>> \/ more = <<stop>> OBVIOUS
  <2>4. last = <<>> \/ last = <<go>> OBVIOUS
  <2> DEFINE u == s \o more
             v == u \o last
  <2>5. u \in Seq(PfcFrame) /\ LongerBy(u, s, stop)
    BY <2>1, <2>2, <2>3, Lengthen
  <2> HIDE DEF u
  <2>6. LongerBy(v, u, go) BY <2>2, <2>4, <2>5, Lengthen
  <2>7. frames'[in] = v BY <1>5 DEF u, s
  <2> HIDE DEF v
  <2>8. /\ \A k \in DOMAIN s : k \in DOMAIN v /\ v[k] = s[k]
        /\ \A k \in DOMAIN v : \/ k \in DOMAIN s /\ v[k] = s[k]
                               \/ v[k] = stop \/ v[k] = go
    BY <2>5, <2>6 DEF LongerBy
  <2> QED BY <2>7, <2>8 DEF s
<1>7. \A i \in Ports, r \in Queues : PauseComing(i, r) => PauseComing(i, r)'
  BY <1>4, <1>6 DEF PauseComing
<1>8. \A o, i \in Ports, r \in Queues :
        i # in \/ r # q => recheckEvt'[o][i][r] = recheckEvt[o][i][r]
  <2>1. recheckEvt \in [Ports -> [Ports -> [Queues -> Off .. PauseTime \div 2]]]
    BY DEF FlowTypes
  <2> TAKE o, i \in Ports, r \in Queues
  <2>2. o # out => recheckEvt'[o] = recheckEvt[o] BY <1>1, <2>1
  <2>3. i # in => recheckEvt'[out][i] = recheckEvt[out][i] BY <1>1, <2>1
  <2>4. recheckEvt'[out][in] = [recheckEvt[out][in] EXCEPT ![q] = t]
    BY <1>1, <2>1
  <2>5. recheckEvt[out][in] \in [Queues -> Off .. PauseTime \div 2] BY <2>1
  <2>6. r # q => recheckEvt'[out][in][r] = recheckEvt[out][in][r]
    BY <2>4, <2>5
  <2> QED BY <2>2, <2>3, <2>6
<1>9. ResumesNone' BY <1>2, <1>4, <1>6 DEF ResumesNone
<1>10. \A i \in Ports :
         /\ \A k \in DOMAIN frames[i] : /\ k \in DOMAIN frames'[i]
                                        /\ frames'[i][k] = frames[i][k]
         /\ \A k \in DOMAIN frames'[i] :
              k \in DOMAIN frames[i] \/ frames'[i][k].due = FrameDelay
  BY <1>2, <1>4, <1>6
<1> QED BY <1>7, <1>8, <1>9, <1>10


LEMMA FlowInit == Init => FlowInv
<1>1. SUFFICES ASSUME Init PROVE FlowInv OBVIOUS
<1>2. MmuInv BY <1>1, MmuInit DEF Init
<1>3. FlowTypes BY <1>1, TypesInit
<1>4. OverIsKept
  <2>1. \A i \in Ports, q \in Queues : usedIngressPG[i][q] = 0
    BY <1>1 DEF Init, BufferInit
  <2>2. PgSharedLimit \in Nat BY PfcAssumption
  <2>3. \A i \in Ports, q \in Queues : ~(usedIngressPG[i][q] > PgSharedLimit)
    BY <2>1, <2>2
  <2> QED BY <2>3 DEF OverIsKept
<1>5. ResumesNone BY <1>1 DEF Init, ResumesNone
<1> QED BY <1>2, <1>3, <1>4, <1>5 DEF FlowInv

\* Which action may disturb what keeps a class paused, and why it does not.
LEMMA KeptByOthers ==
  ASSUME OverIsKept, ResumesNone,
         UNCHANGED <<dynamicth, frames, recheckEvt, paused, resumeEvt>>,
         \A i \in Ports, q \in Queues :
           Over(i, q)' /\ ~Checking(i, q)' => Over(i, q) /\ ~Checking(i, q)
  PROVE  OverIsKept' /\ ResumesNone'
<1>1. ResumesNone' BY DEF ResumesNone
<1>2. ASSUME NEW i \in Ports, NEW q \in Queues \ Exempt,
             Over(i, q)', ~Checking(i, q)'
      PROVE  Kept(i, q)'
  <2>1. Over(i, q) /\ ~Checking(i, q) BY <1>2
  <2>2. Kept(i, q) BY <2>1 DEF OverIsKept, Over
  <2> QED BY <2>2 DEF Kept, PauseComing
<1> QED BY <1>1, <1>2 DEF OverIsKept, Over

LEMMA KeptSend ==
  ASSUME FlowInv, MmuInv', NEW in \in Ports, Send(in)
  PROVE  OverIsKept' /\ ResumesNone'
<1> DEFINE p == Head(wire[in])
<1>1. /\ p \in WirePacket /\ event = Idle
      /\ event' = [step |-> "transmit", in |-> in, out |-> p.out, q |-> p.q]
      /\ UNCHANGED <<dynamicth, frames, recheckEvt, paused, resumeEvt>>
      /\ Admit(in, p.out, p.q, p.size) \/ UNCHANGED mmuVars
  BY TypesSend DEF Send, FlowInv
<1> HIDE DEF p
<1>2. \A i \in Ports, q \in Queues : ~Checking(i, q) BY <1>1 DEF Checking, Idle
<1>3. \A i \in Ports, q \in Queues :
        ~Checking(i, q)' => i # in \/ q # p.q
  BY <1>1 DEF Checking
<1>4. \A i \in Ports, q \in Queues :
        i # in \/ q # p.q => usedIngressPG'[i][q] = usedIngressPG[i][q]
  <2>1. usedIngressPG \in [Ports -> [Queues -> 0 .. MaxBuffer]]
    BY IngressBounds DEF FlowInv, MmuInv
  <2>2. \/ UNCHANGED usedIngressPG
        \/ usedIngressPG' =
             [usedIngressPG EXCEPT ![in][p.q] = Add(@, p.size)]
    BY <1>1 DEF Admit, UpdateIngressAdmission, mmuVars, ingressVars
  <2> QED BY <2>1, <2>2
<1>5. \A i \in Ports, q \in Queues :
        Over(i, q)' /\ ~Checking(i, q)' => Over(i, q) /\ ~Checking(i, q)
  BY <1>1, <1>2, <1>3, <1>4 DEF Over
<1> QED BY <1>1, <1>5, KeptByOthers DEF FlowInv

\* Transmitting takes nothing but bytes.
LEMMA ServeLess ==
  ASSUME MmuInv, NEW out \in Ports, NEW q \in Queues,
         DequeueAndTransmit(out, q) \/ UNCHANGED mmuVars
  PROVE  \A i \in Ports, r \in Queues :
           /\ usedIngressPG'[i][r] \in Nat /\ usedIngressPG[i][r] \in Nat
           /\ usedIngressPG'[i][r] <= usedIngressPG[i][r]
<1>1. CASE UNCHANGED mmuVars
  BY <1>1, CountersAreNumbers DEF mmuVars, ingressVars
<1>2. CASE DequeueAndTransmit(out, q)
  <2>1. /\ MmuInv'
        /\ \A i \in Ports, r \in Queues :
             usedIngressPG'[i][r] <= usedIngressPG[i][r]
    BY <1>2, MmuTransmit
  <2>2. usedIngressPG' \in [Ports -> [Queues -> Nat]]
    <3>1. IngressCounts' /\ queue' \in Storage BY <2>1 DEF MmuInv, IngressInv
    <3>2. \A i \in Ports, r \in Queues : Stored(queue', {i}, {r}) \in Nat
      BY <3>1, StoredPart
    <3> QED BY <3>1, <3>2 DEF IngressCounts
  <2> QED BY <2>1, <2>2, CountersAreNumbers
<1> QED BY <1>1, <1>2

LEMMA KeptServe ==
  ASSUME FlowInv, NEW out \in Ports, NEW q \in Queues,
         DequeueAndTransmit(out, q) \/ UNCHANGED mmuVars,
         UNCHANGED <<dynamicth, frames, recheckEvt, paused, resumeEvt>>,
         \A i \in Ports, r \in Queues : Checking(i, r) => Checking(i, r)'
  PROVE  OverIsKept' /\ ResumesNone'
<1>1. \A i \in Ports, r \in Queues :
        /\ usedIngressPG'[i][r] \in Nat /\ usedIngressPG[i][r] \in Nat
        /\ usedIngressPG'[i][r] <= usedIngressPG[i][r]
  BY ServeLess DEF FlowInv
<1>2. PgSharedLimit \in Nat BY PfcAssumption
<1>3. \A i \in Ports, r \in Queues :
        Over(i, r)' /\ ~Checking(i, r)' => Over(i, r) /\ ~Checking(i, r)
  BY <1>1, <1>2 DEF Over
<1> QED BY <1>3, KeptByOthers DEF FlowInv

\* A check, by a packet that came in or by a timer that has run out.
LEMMA KeptCheck ==
  ASSUME FlowInv, NEW out \in Ports, NEW in \in Ports, NEW q \in Queues,
         NEW left, CheckQueueFull(out, in, q, left),
         UNCHANGED <<mmuVars, dynamicth, paused, resumeEvt>>,
         \A i \in Ports, r \in Queues :
           (i # in \/ r # q) /\ Checking(i, r) => Checking(i, r)'
  PROVE  OverIsKept' /\ ResumesNone'
<1>1. /\ \A i \in Ports, r \in Queues : PauseComing(i, r) => PauseComing(i, r)'
      /\ \A o, i \in Ports, r \in Queues :
           i # in \/ r # q => recheckEvt'[o][i][r] = recheckEvt[o][i][r]
      /\ ResumesNone'
  BY CheckKeeps DEF FlowInv
<1>2. UNCHANGED usedIngressPG BY DEF mmuVars, ingressVars
<1>3. ASSUME NEW i \in Ports, NEW r \in Queues \ Exempt,
             Over(i, r)', ~Checking(i, r)'
      PROVE  Kept(i, r)'
  <2>1. Over(i, r) BY <1>2, <1>3 DEF Over
  <2>2. CASE i = in /\ r = q
    <3>1. PauseComing(in, q)' /\ recheckEvt'[out][in][q] >= 0
      BY <2>1, <2>2, CheckPauses DEF FlowInv
    <3> QED BY <2>2, <3>1 DEF Kept
  <2>3. CASE i # in \/ r # q
    <3>1. ~Checking(i, r) BY <1>3, <2>3
    <3>2. Kept(i, r) BY <2>1, <3>1 DEF FlowInv, OverIsKept, Over
    <3>3. PICK o \in Ports :
            /\ recheckEvt[o][i][r] >= 0
            /\ \/ PauseComing(i, r)
               \/ paused[i][r] /\ resumeEvt[i][r] > recheckEvt[o][i][r]
      BY <3>2 DEF Kept
    <3>4. recheckEvt'[o][i][r] = recheckEvt[o][i][r] BY <1>1, <2>3
    <3>5. PauseComing(i, r) => PauseComing(i, r)' BY <1>1
    <3> QED BY <3>3, <3>4, <3>5 DEF Kept
  <2> QED BY <2>2, <2>3
<1> QED BY <1>1, <1>3 DEF OverIsKept, Over


\* A frame that arrives starts the pause again, or is behind one that will.
LEMMA KeptReceive ==
  ASSUME FlowInv, NEW in \in Ports, ReceiveFrame(in)
  PROVE  OverIsKept' /\ ResumesNone'
<1> DEFINE f == Head(frames[in])
           s == frames[in]
<1>1. s \in Seq(PfcFrame) /\ s # <<>> BY DEF FlowInv, FlowTypes, ReceiveFrame
<1>2. /\ f \in PfcFrame /\ 1 \in DOMAIN s /\ f = s[1]
      /\ \A k \in DOMAIN s : k = 1 \/ (k - 1 \in DOMAIN Tail(s)
                                       /\ Tail(s)[k - 1] = s[k])
      /\ \A k \in DOMAIN Tail(s) : k + 1 \in DOMAIN s /\ Tail(s)[k] = s[k + 1]
  BY <1>1
<1>3. /\ paused' = [paused EXCEPT ![in] =
           [c \in Classes |-> IF c \in f.classes THEN f.time > 0 ELSE @[c]]]
      /\ resumeEvt' = [resumeEvt EXCEPT ![in] =
           [c \in Classes |-> IF c \in f.classes THEN PauseTimer(@[c], f.time)
                                                 ELSE @[c]]]
      /\ frames' = [frames EXCEPT ![in] = Tail(@)]
      /\ UNCHANGED <<mmuVars, dynamicth, recheckEvt, event>>
  BY DEF ReceiveFrame
<1>4. /\ frames'[in] = Tail(s)
      /\ \A i \in Ports : i # in => /\ frames'[i] = frames[i]
                                    /\ paused'[i] = paused[i]
                                    /\ resumeEvt'[i] = resumeEvt[i]
  BY <1>3 DEF FlowInv, FlowTypes
<1>5. \A c \in Classes :
        /\ paused'[in][c] = IF c \in f.classes THEN f.time > 0 ELSE paused[in][c]
        /\ resumeEvt'[in][c] = IF c \in f.classes
                               THEN PauseTimer(resumeEvt[in][c], f.time)
                               ELSE resumeEvt[in][c]
  BY <1>3 DEF FlowInv, FlowTypes
<1> HIDE DEF f
<1>6. f.time \in {0, PauseTime} BY <1>2 DEF PfcFrame
<1>7. f.time = 0 => f.classes = {0}
  BY <1>2 DEF FlowInv, ResumesNone
<1>8. ResumesNone'
  <2>1. \A k \in DOMAIN s : s[k].time = 0 => s[k].classes = {0}
    BY DEF FlowInv, ResumesNone
  <2> HIDE DEF s
  <2>2. \A k \in DOMAIN Tail(s) : Tail(s)[k].time = 0 => Tail(s)[k].classes = {0}
    BY <1>2, <2>1
  <2>3. \A k \in DOMAIN frames'[in] :
          frames'[in][k].time = 0 => frames'[in][k].classes = {0}
    BY <1>4, <2>2
  <2>4. \A i \in Ports : i # in =>
          \A k \in DOMAIN frames'[i] :
            frames'[i][k].time = 0 => frames'[i][k].classes = {0}
    BY <1>4 DEF FlowInv, ResumesNone
  <2> QED BY <2>3, <2>4 DEF ResumesNone
<1>9. ASSUME NEW i \in Ports, NEW r \in Queues \ Exempt,
             Over(i, r)', ~Checking(i, r)'
      PROVE  Kept(i, r)'
  <2>1. Over(i, r) /\ ~Checking(i, r) BY <1>3, <1>9 DEF Over, Checking, mmuVars, ingressVars
  <2>2. PICK o \in Ports :
          /\ recheckEvt[o][i][r] >= 0
          /\ \/ PauseComing(i, r)
             \/ paused[i][r] /\ resumeEvt[i][r] > recheckEvt[o][i][r]
    BY <2>1 DEF FlowInv, OverIsKept, Over, Kept
  <2>3. CASE i # in
    BY <1>3, <1>4, <2>2, <2>3 DEF Kept, PauseComing
  <2>4. CASE i = in
    <3>1. r \in Classes /\ r # 0 BY PfcAssumption DEF Classes
    <3>2. CASE r \in f.classes
      <4>1. f.time = PauseTime BY <1>6, <1>7, <3>1, <3>2
      <4>2. paused'[in][r] /\ resumeEvt'[in][r] = PauseTime
        BY <1>5, <3>1, <3>2, <4>1, RecheckInTime DEF PauseTimer
      <4>3. recheckEvt[o][i][r] < PauseTime
        <5>1. recheckEvt[o][i][r] \in Off .. PauseTime \div 2
          BY DEF FlowInv, FlowTypes
        <5> QED BY <5>1, RecheckInTime DEF Off
      <4> QED BY <1>3, <2>2, <2>4, <4>2, <4>3 DEF Kept
    <3>3. CASE r \notin f.classes
      <4>1. PauseComing(in, r) => PauseComing(in, r)'
        <5>1. SUFFICES ASSUME NEW k \in DOMAIN s, r \in s[k].classes,
                              s[k].time > 0
                       PROVE  PauseComing(in, r)'
          BY DEF PauseComing
        <5> HIDE DEF s
        <5>2. k # 1 BY <1>2, <3>3, <5>1
        <5>3. k - 1 \in DOMAIN Tail(s) /\ Tail(s)[k - 1] = s[k] BY <1>2, <5>2
        <5> QED BY <1>4, <5>1, <5>3 DEF PauseComing
      <4>2. /\ paused'[in][r] = paused[in][r]
            /\ resumeEvt'[in][r] = resumeEvt[in][r]
        BY <1>5, <3>1, <3>3
      <4> QED BY <1>3, <2>2, <2>4, <4>1, <4>2 DEF Kept
    <3> QED BY <3>2, <3>3
  <2> QED BY <2>3, <2>4
<1> QED BY <1>8, <1>9 DEF OverIsKept, Over

\* A pause that ends is one that a frame on its way renews.
LEMMA KeptFinish ==
  ASSUME FlowInv, NEW in \in Ports, NEW c \in Classes, PauseFinish(in, c)
  PROVE  OverIsKept' /\ ResumesNone'
<1>1. /\ resumeEvt[in][c] = 0
      /\ paused' = [paused EXCEPT ![in][c] = FALSE]
      /\ resumeEvt' = [resumeEvt EXCEPT ![in][c] = Off]
      /\ UNCHANGED <<mmuVars, dynamicth, recheckEvt, event, frames>>
  BY DEF PauseFinish, switchVars
<1>2. ResumesNone' BY <1>1 DEF FlowInv, ResumesNone
<1>3. \A i \in Ports, d \in Classes :
        i # in \/ d # c => /\ paused'[i][d] = paused[i][d]
                           /\ resumeEvt'[i][d] = resumeEvt[i][d]
  BY <1>1 DEF FlowInv, FlowTypes
<1>4. ASSUME NEW i \in Ports, NEW r \in Queues \ Exempt,
             Over(i, r)', ~Checking(i, r)'
      PROVE  Kept(i, r)'
  <2>1. Over(i, r) /\ ~Checking(i, r) BY <1>1, <1>4 DEF Over, Checking, mmuVars, ingressVars
  <2>2. PICK o \in Ports :
          /\ recheckEvt[o][i][r] >= 0
          /\ \/ PauseComing(i, r)
             \/ paused[i][r] /\ resumeEvt[i][r] > recheckEvt[o][i][r]
    BY <2>1 DEF FlowInv, OverIsKept, Over, Kept
  <2>3. PauseComing(i, r) => PauseComing(i, r)' BY <1>1 DEF PauseComing
  <2>4. CASE PauseComing(i, r) BY <1>1, <2>2, <2>3, <2>4 DEF Kept
  <2>5. CASE paused[i][r] /\ resumeEvt[i][r] > recheckEvt[o][i][r]
    <3>1. r \in Classes BY DEF Classes
    <3>2. recheckEvt[o][i][r] \in Off .. PauseTime \div 2
      BY DEF FlowInv, FlowTypes
    <3>3. i # in \/ r # c BY <1>1, <2>2, <2>5, <3>2, RecheckInTime DEF Off
    <3> QED BY <1>1, <1>3, <2>2, <2>5, <3>1, <3>3 DEF Kept
  <2> QED BY <2>2, <2>4, <2>5
<1> QED BY <1>2, <1>4 DEF OverIsKept, Over

\* The timers run on together.
LEMMA KeptTick ==
  ASSUME FlowInv, Tick
  PROVE  OverIsKept' /\ ResumesNone'
<1>1. /\ NothingDue
      /\ frames' = [i \in Ports |-> Travelled(frames[i])]
      /\ resumeEvt' =
           [i \in Ports |-> [c \in Classes |-> Elapsed(resumeEvt[i][c])]]
      /\ recheckEvt' = [o \in Ports |-> [i \in Ports |-> [q \in Queues |->
                          Elapsed(recheckEvt[o][i][q])]]]
      /\ UNCHANGED <<mmuVars, dynamicth, event, paused>>
  BY DEF Tick
<1>2. \A i \in Ports :
        /\ DOMAIN frames'[i] = DOMAIN frames[i]
        /\ \A k \in DOMAIN frames[i] :
             /\ frames'[i][k].classes = frames[i][k].classes
             /\ frames'[i][k].time = frames[i][k].time
  <2> TAKE i \in Ports
  <2>1. frames[i] \in Seq(PfcFrame) BY DEF FlowInv, FlowTypes
  <2>2. \A k \in DOMAIN frames[i] : frames[i][k] \in PfcFrame BY <2>1
  <2>3. frames'[i] = [k \in DOMAIN frames[i] |->
                        [frames[i][k] EXCEPT !.due = Elapsed(@)]]
    BY <1>1 DEF Travelled
  <2> QED BY <2>2, <2>3 DEF PfcFrame
<1>3. ResumesNone' BY <1>2 DEF FlowInv, ResumesNone
<1>4. ASSUME NEW i \in Ports, NEW r \in Queues \ Exempt,
             Over(i, r)', ~Checking(i, r)'
      PROVE  Kept(i, r)'
  <2>1. Over(i, r) /\ ~Checking(i, r) BY <1>1, <1>4 DEF Over, Checking, mmuVars, ingressVars
  <2>2. PICK o \in Ports :
          /\ recheckEvt[o][i][r] >= 0
          /\ \/ PauseComing(i, r)
             \/ paused[i][r] /\ resumeEvt[i][r] > recheckEvt[o][i][r]
    BY <2>1 DEF FlowInv, OverIsKept, Over, Kept
  <2>3. PauseComing(i, r) => PauseComing(i, r)' BY <1>2 DEF PauseComing
  <2>4. r \in Classes BY DEF Classes
  <2>5. /\ recheckEvt[o][i][r] \in Off .. PauseTime \div 2
        /\ resumeEvt[i][r] \in Off .. PauseTime
    BY <2>4 DEF FlowInv, FlowTypes
  <2>6. recheckEvt[o][i][r] # 0 BY <1>1 DEF NothingDue
  <2> DEFINE a == recheckEvt[o][i][r]
             b == resumeEvt[i][r]
  <2>7. a \in Int /\ b \in Int /\ a > 0 BY <2>2, <2>5, <2>6, RecheckInTime DEF Off
  <2>8. recheckEvt'[o][i][r] = Elapsed(a) /\ resumeEvt'[i][r] = Elapsed(b)
    BY <1>1, <2>4
  <2> HIDE DEF a, b
  <2>9. Elapsed(a) >= 0 /\ (b > a => Elapsed(b) > Elapsed(a))
    BY <2>7 DEF Elapsed
  <2> QED BY <1>1, <2>2, <2>3, <2>8, <2>9 DEF Kept, a, b
<1> QED BY <1>3, <1>4 DEF OverIsKept, Over

LEMMA FlowStep ==
  ASSUME FlowInv, [Next]_vars
  PROVE  FlowInv'
<1>1. MmuInv'
  BY SwitchStep, MmuStep DEF FlowInv
<1>2. FlowTypes' BY TypesStep DEF FlowInv
<1> DEFINE G == OverIsKept' /\ ResumesNone'
<1>3. SendChecks => G
  <2>1. SUFFICES ASSUME SendChecks PROVE G OBVIOUS
  <2>2. event \in Sending BY <2>1, TypesChecks DEF FlowInv
  <2>3. event.out \in Ports /\ event.in \in Ports /\ event.q \in Queues
    BY <2>2 DEF Sending
  <2>4. /\ CheckQueueFull(event.out, event.in, event.q,
                          recheckEvt[event.out][event.in][event.q])
        /\ UNCHANGED <<mmuVars, dynamicth, paused, resumeEvt>>
    BY <2>1 DEF SendChecks, peerVars
  <2>5. \A i \in Ports, r \in Queues :
          (i # event.in \/ r # event.q) /\ Checking(i, r) => Checking(i, r)'
    BY DEF Checking
  <2> QED BY <2>3, <2>4, <2>5, KeptCheck
<1>4. Tick => G BY KeptTick
<1>5. ASSUME NEW in \in Ports,
             \/ Send(in) \/ ReceiveFrame(in)
             \/ \E c \in Classes : PauseFinish(in, c)
      PROVE  G
  BY <1>1, <1>5, KeptSend, KeptReceive, KeptFinish
<1>6. ASSUME NEW out \in Ports, NEW q \in Queues, Transmit(out, q)
      PROVE  G
  <2>1. /\ DequeueAndTransmit(out, q)
        /\ UNCHANGED <<dynamicth, frames, recheckEvt, paused, resumeEvt, event>>
    BY <1>6 DEF Transmit, switchVars, peerVars
  <2>2. \A i \in Ports, r \in Queues : Checking(i, r) => Checking(i, r)'
    BY <2>1 DEF Checking
  <2> QED BY <2>1, <2>2, KeptServe
<1>7. ASSUME NEW out \in Ports, NEW q \in Queues, NEW ok,
             SendTransmits(out, q, ok)
      PROVE  G
  <2>1. /\ DequeueAndTransmit(out, q) \/ UNCHANGED mmuVars
        /\ UNCHANGED <<dynamicth, frames, recheckEvt, paused, resumeEvt>>
    BY <1>7 DEF SendTransmits, peerVars
  <2>2. event' \in Sending /\ event'.in = event.in /\ event'.q = event.q
    BY <1>7, TypesTransmits DEF FlowInv
  <2>3. event'.step # "none" BY <2>2 DEF Sending
  <2>4. \A i \in Ports, r \in Queues : Checking(i, r) => Checking(i, r)'
    BY <2>2, <2>3 DEF Checking
  <2> QED BY <2>1, <2>4, KeptServe
<1>8. ASSUME NEW out \in Ports, NEW in \in Ports, NEW q \in Queues,
             Recheck(out, in, q)
      PROVE  G
  <2>1. /\ CheckQueueFull(out, in, q, Off)
        /\ UNCHANGED <<mmuVars, dynamicth, event, paused, resumeEvt>>
    BY <1>8 DEF Recheck, peerVars
  <2>2. \A i \in Ports, r \in Queues : Checking(i, r) => Checking(i, r)'
    BY <2>1 DEF Checking
  <2> QED BY <2>1, <2>2, KeptCheck
<1>9. ASSUME NEW in, NEW out, NEW q, NEW size, PeerSend(in, out, q, size)
      PROVE  G
  <2>1. UNCHANGED <<mmuVars, dynamicth, frames, recheckEvt, paused, resumeEvt,
                    event>>
    BY <1>9 DEF PeerSend, switchVars
  <2>2. \A i \in Ports, r \in Queues :
          Over(i, r)' /\ ~Checking(i, r)' => Over(i, r) /\ ~Checking(i, r)
    BY <2>1 DEF Over, Checking, mmuVars, ingressVars
  <2> QED BY <2>1, <2>2, KeptByOthers DEF FlowInv
<1>10. UNCHANGED vars => G
  <2>1. SUFFICES ASSUME UNCHANGED vars PROVE G OBVIOUS
  <2>2. UNCHANGED <<mmuVars, dynamicth, frames, recheckEvt, paused, resumeEvt,
                    event>>
    BY <2>1 DEF vars, switchVars, peerVars
  <2>3. \A i \in Ports, r \in Queues :
          Over(i, r)' /\ ~Checking(i, r)' => Over(i, r) /\ ~Checking(i, r)
    BY <2>2 DEF Over, Checking, mmuVars, ingressVars
  <2> QED BY <2>2, <2>3, KeptByOthers DEF FlowInv
<1> HIDE DEF G
<1>11. ASSUME NEW out \in Ports, NEW q \in Queues,
              \/ Serve(out, q) \/ SendTransmits(out, q, FALSE)
              \/ \E in \in Ports : Recheck(out, in, q)
       PROVE  G
  BY <1>6, <1>7, <1>8, <1>11 DEF Serve
<1>12. G BY <1>3, <1>4, <1>5, <1>9, <1>10, <1>11 DEF Next
<1> QED BY <1>1, <1>2, <1>12 DEF FlowInv, G

\* The invariant of all theorems about the composition.
THEOREM FlowKeeps == Spec => []FlowInv
<1>1. Init => FlowInv BY FlowInit
<1>2. FlowInv /\ [Next]_vars => FlowInv' BY FlowStep
<1> QED BY <1>1, <1>2, PTL DEF Spec

\* Timers, frames, packets on the wire and the event in progress have their
\* types, and so do the counters of the switch, in every state.
THEOREM FlowHasTypes == Spec => []TypeOK
<1>1. FlowInv => TypeOK
  BY MmuTypeOK DEF FlowInv, TypeOK
<1> QED BY <1>1, FlowKeeps, PTL

\* With static thresholds, a class whose priority group is over its limit is
\* paused at its peer or will be as soon as a frame arrives, for any delays,
\* thresholds, ports and queues (qbb-net-device.cc:1111).
THEOREM OverStaysPaused == Spec => []PausedWhileOver
<1>1. FlowInv => PausedWhileOver
  <2>1. SUFFICES ASSUME FlowInv, NEW i \in Ports, NEW q \in Queues \ Exempt,
                        ~dynamicth, event = Idle,
                        usedIngressPG[i][q] > PgSharedLimit
                 PROVE  paused[i][q] \/ PauseComing(i, q)
    BY DEF PausedWhileOver
  <2>2. ~Checking(i, q) BY <2>1 DEF Checking, Idle
  <2>3. Kept(i, q) BY <2>1, <2>2 DEF FlowInv, OverIsKept
  <2> QED BY <2>3 DEF Kept
<1> QED BY <1>1, FlowKeeps, PTL

\* Whatever flow control does, the switch behaves as BroadcomMMU alone allows:
\* it admits packets, transmits them, or leaves its accounts as they are.
THEOREM SwitchRefines == Spec => BufferSpec
<1>1. Init => BufferInit BY DEF Init
<1>2. FlowInv /\ [Next]_vars => [BufferNext]_mmuVars
  BY SwitchStep DEF FlowInv
<1> QED BY <1>1, <1>2, FlowKeeps, PTL DEF Spec, BufferSpec

---------------------------------------------------------------------------
(* A pause runs out.                                                       *)

\* A class is paused at a peer as long as its timer runs, and no longer.
PausesRunOut ==
  \A i \in Ports, c \in Classes : paused[i][c] <=> resumeEvt[i][c] # Off

\* Every step keeps a pause and its timer together.
LEMMA StepRunsOut == FlowInv /\ PausesRunOut /\ [Next]_vars => PausesRunOut'
<1> SUFFICES ASSUME FlowInv, PausesRunOut, [Next]_vars PROVE PausesRunOut' OBVIOUS
<1>1. /\ paused \in [Ports -> [Classes -> BOOLEAN]]
      /\ resumeEvt \in [Ports -> [Classes -> Off .. PauseTime]]
      /\ frames \in [Ports -> Seq(PfcFrame)] /\ PauseTime \in Nat /\ Off = -1
  BY PfcAssumption DEF FlowInv, FlowTypes, Off
<1>2. ASSUME UNCHANGED <<paused, resumeEvt>> PROVE PausesRunOut'
  BY <1>2 DEF PausesRunOut
<1>3. ASSUME NEW in \in Ports, ReceiveFrame(in) PROVE PausesRunOut'
  <2> DEFINE f == Head(frames[in])
  <2>1. /\ paused' = [paused EXCEPT ![in] =
             [c \in Classes |-> IF c \in f.classes THEN f.time > 0 ELSE @[c]]]
        /\ resumeEvt' = [resumeEvt EXCEPT ![in] =
             [c \in Classes |-> IF c \in f.classes
                                THEN PauseTimer(@[c], f.time) ELSE @[c]]]
        /\ frames[in] # <<>>
    BY <1>3 DEF ReceiveFrame
  <2>2. f.time \in Nat
    <3>1. frames[in] \in Seq(PfcFrame) BY <1>1
    <3>2. f \in PfcFrame BY <2>1, <3>1
    <3> HIDE DEF f
    <3>3. f.time \in {0, PauseTime} BY <3>2 DEF PfcFrame
    <3> QED BY <1>1, <3>3
  <2> HIDE DEF f
  <2> SUFFICES ASSUME NEW i \in Ports, NEW c \in Classes
               PROVE  paused'[i][c] <=> resumeEvt'[i][c] # Off
    BY DEF PausesRunOut
  <2>3. paused[i][c] <=> resumeEvt[i][c] # Off BY DEF PausesRunOut
  <2>4. CASE i = in /\ c \in f.classes
    <3>1. paused'[i][c] = (f.time > 0) BY <1>1, <2>1, <2>4
    <3>2. resumeEvt'[i][c] = PauseTimer(resumeEvt[i][c], f.time)
      BY <1>1, <2>1, <2>4
    <3>3. f.time > 0 <=> PauseTimer(resumeEvt[i][c], f.time) # Off
      BY <1>1, <2>2 DEF PauseTimer
    <3> QED BY <3>1, <3>2, <3>3
  <2>5. CASE ~(i = in /\ c \in f.classes)
    <3>1. paused'[i][c] = paused[i][c] BY <1>1, <2>1, <2>5
    <3>2. resumeEvt'[i][c] = resumeEvt[i][c] BY <1>1, <2>1, <2>5
    <3> QED BY <2>3, <3>1, <3>2
  <2> QED BY <2>4, <2>5
<1>4. ASSUME NEW in \in Ports, NEW d \in Classes, PauseFinish(in, d)
      PROVE  PausesRunOut'
  <2>1. /\ paused' = [paused EXCEPT ![in][d] = FALSE]
        /\ resumeEvt' = [resumeEvt EXCEPT ![in][d] = Off]
    BY <1>4 DEF PauseFinish
  <2> SUFFICES ASSUME NEW i \in Ports, NEW c \in Classes
               PROVE  paused'[i][c] <=> resumeEvt'[i][c] # Off
    BY DEF PausesRunOut
  <2>2. paused[i][c] <=> resumeEvt[i][c] # Off BY DEF PausesRunOut
  <2>3. CASE i = in /\ c = d BY <1>1, <2>1, <2>3
  <2>4. CASE ~(i = in /\ c = d)
    <3>1. paused'[i][c] = paused[i][c] BY <1>1, <2>1, <2>4
    <3>2. resumeEvt'[i][c] = resumeEvt[i][c] BY <1>1, <2>1, <2>4
    <3> QED BY <2>2, <3>1, <3>2
  <2> QED BY <2>3, <2>4
<1>5. CASE Tick
  <2>1. /\ paused' = paused
        /\ resumeEvt' =
             [i \in Ports |-> [c \in Classes |-> Elapsed(resumeEvt[i][c])]]
    BY <1>5 DEF Tick
  <2> SUFFICES ASSUME NEW i \in Ports, NEW c \in Classes
               PROVE  paused'[i][c] <=> resumeEvt'[i][c] # Off
    BY DEF PausesRunOut
  <2>2. paused[i][c] <=> resumeEvt[i][c] # Off BY DEF PausesRunOut
  <2>3. resumeEvt[i][c] \in Off .. PauseTime BY <1>1
  <2>4. resumeEvt'[i][c] = Elapsed(resumeEvt[i][c]) BY <2>1
  <2>5. Elapsed(resumeEvt[i][c]) # Off <=> resumeEvt[i][c] # Off
    BY <1>1, <2>3 DEF Elapsed
  <2> QED BY <2>1, <2>2, <2>4, <2>5
<1>6. ASSUME NEW in \in Ports, Send(in) PROVE PausesRunOut'
  BY <1>2, <1>6 DEF Send
<1>7. ASSUME NEW out \in Ports, NEW q \in Queues,
             \/ Serve(out, q) \/ SendTransmits(out, q, FALSE)
             \/ \E in \in Ports : Recheck(out, in, q)
      PROVE  PausesRunOut'
  BY <1>2, <1>7 DEF Serve, Transmit, SendTransmits, Recheck, peerVars
<1>8. ASSUME NEW in \in Sources, NEW out \in Destinations, NEW q \in Queues,
             NEW size \in Sizes, PeerSend(in, out, q, size)
      PROVE  PausesRunOut'
  BY <1>2, <1>8 DEF PeerSend
<1>9. CASE SendChecks \/ UNCHANGED vars
  BY <1>2, <1>9 DEF SendChecks, vars, peerVars
<1> QED BY <1>3, <1>4, <1>5, <1>6, <1>7, <1>8, <1>9 DEF Next

\* However often a pause is refreshed or resumed early, its timer is never lost
\* and never outlives it: the safety part of PauseEnds
\* (qbb-net-device.cc:567-620).
THEOREM TimersRun == Spec => []PausesRunOut
<1>1. Init => PausesRunOut BY DEF Init, PausesRunOut
<1>2. FlowInv /\ PausesRunOut /\ [Next]_vars => FlowInv' /\ PausesRunOut'
  BY FlowStep, StepRunsOut
<1> QED BY <1>1, <1>2, FlowInit, PTL DEF Spec

---------------------------------------------------------------------------
(* How far a class may go over its limit.                                  *)

\* What a priority group may hold: its limit, the packet that crosses it, and
\* what the peer sends until the pause reaches it.
MostHeld == PgSharedLimit + (DataDelay + FrameDelay + 1) * MaxSize

\* A group with pg bytes has room for a packet in each of slots more units.
Fits(pg, slots) == pg + slots * MaxSize <= MostHeld

LEMMA MostHeldType ==
  /\ MostHeld \in Nat /\ PgSharedLimit \in Nat
  /\ PgSharedLimit + MaxSize <= MostHeld
<1> DEFINE m == MaxSize
           n == DataDelay + FrameDelay + 1
<1>1. m \in Nat /\ m >= 1 BY ConstantFacts
<1>2. n \in Nat /\ n >= 1 BY PfcAssumption
<1>3. PgSharedLimit \in Nat BY PfcAssumption
<1>4. MostHeld = PgSharedLimit + n * m BY DEF MostHeld
<1> HIDE DEF m, n
<1>5. n * m \in Nat /\ 1 * m <= n * m BY <1>1, <1>2, MulMono
<1>6. 1 * m = m BY <1>1
<1>7. MostHeld \in Nat /\ PgSharedLimit + m <= MostHeld
  BY <1>1, <1>3, <1>4, <1>5, <1>6
<1> QED BY <1>3, <1>7 DEF m

\* Less is held, or less is to come.
LEMMA FitsLess ==
  ASSUME NEW pg \in Nat, NEW slots \in Int, NEW b \in Nat, NEW t \in Int,
         b <= pg, t <= slots, Fits(pg, slots)
  PROVE  Fits(b, t)
<1> DEFINE m == MaxSize
<1>1. m \in Nat /\ m >= 1 /\ MostHeld \in Nat BY ConstantFacts, MostHeldType
<1>2. pg + slots * m <= MostHeld BY DEF Fits
<1> HIDE DEF m
<1>3. t * m <= slots * m /\ t * m \in Int /\ slots * m \in Int BY <1>1, MulMono
<1>4. b + t * m <= MostHeld BY <1>1, <1>2, <1>3
<1> QED BY <1>4 DEF Fits, m

\* A packet arrives in one of the units.
LEMMA FitsOne ==
  ASSUME NEW pg \in Nat, NEW slots \in Int, NEW t \in Int, NEW size \in Sizes,
         t <= slots - 1, 0 <= slots - 1, Fits(pg, slots)
  PROVE  pg + size \in Nat /\ Fits(pg + size, t) /\ pg + size <= MostHeld
<1> DEFINE m == MaxSize
           u == slots - 1
<1>1. /\ m \in Nat /\ m >= 1 /\ MostHeld \in Nat
      /\ size \in Nat /\ size <= m
  BY ConstantFacts, MostHeldType
<1>2. pg + slots * m <= MostHeld BY DEF Fits
<1> HIDE DEF m
<1>3. u \in Nat /\ slots = u + 1 OBVIOUS
<1> HIDE DEF u
<1>4. slots * m = u * m + m /\ u * m \in Nat BY <1>1, <1>3
<1>5. t <= u BY <1>3
<1>6. t * m <= u * m /\ t * m \in Int BY <1>1, <1>3, <1>5, MulMono
<1>7. pg + size + t * m <= MostHeld /\ pg + size <= MostHeld
  BY <1>1, <1>2, <1>4, <1>6
<1> QED BY <1>1, <1>7 DEF Fits, m

\* The packet that crosses the limit leaves room for the units that follow.
LEMMA FitsFresh ==
  ASSUME NEW pg \in Nat, pg <= PgSharedLimit + MaxSize, NEW t \in Int,
         t <= DataDelay + FrameDelay
  PROVE  Fits(pg, t)
<1> DEFINE m == MaxSize
           n == DataDelay + FrameDelay
           l == PgSharedLimit
<1>1. m \in Nat /\ m >= 1 /\ l \in Nat BY ConstantFacts, MostHeldType
<1>2. n \in Nat BY PfcAssumption
<1>3. MostHeld = l + (n + 1) * m BY DEF MostHeld
<1>4. t <= n OBVIOUS
<1>5. pg <= l + m OBVIOUS
<1> HIDE DEF m, n, l
<1>6. (n + 1) * m = n * m + m /\ n * m \in Nat BY <1>1, <1>2
<1>7. t * m <= n * m /\ t * m \in Int BY <1>1, <1>2, <1>4, MulMono
<1>8. pg + t * m <= MostHeld BY <1>1, <1>3, <1>5, <1>6, <1>7
<1> QED BY <1>8 DEF Fits, m

---------------------------------------------------------------------------
(* The wire: packets arrive in different units, in the order of sending.   *)

InOrder(w, s) ==
  /\ \A j, k \in DOMAIN w : j < k => w[j].due < w[k].due
  /\ ~s => \A k \in DOMAIN w : w[k].due < DataDelay

\* When the next packet arrives, at the earliest.
Earliest(w, s) ==
  IF w # <<>> THEN w[1].due ELSE IF s THEN DataDelay + 1 ELSE DataDelay

\* What is on the wire for class q comes within d units and has room.
Room(w, s, pg, q, d) ==
  /\ \A k \in DOMAIN w : w[k].q = q => w[k].due <= d
  /\ pg <= MostHeld
  /\ Fits(pg, d + 1 - Earliest(w, s))

LEMMA WireFacts ==
  ASSUME NEW w \in Seq(WirePacket), NEW s \in BOOLEAN
  PROVE  /\ Len(w) \in Nat /\ DOMAIN w = 1 .. Len(w)
         /\ \A k \in DOMAIN w : w[k] \in WirePacket /\ w[k].due \in 0 .. DataDelay
         /\ w # <<>> <=> 1 \in DOMAIN w
         /\ Earliest(w, s) \in Nat /\ DataDelay \in Nat /\ FrameDelay \in Nat
<1>1. DataDelay \in Nat /\ FrameDelay \in Nat BY PfcAssumption
<1>2. /\ Len(w) \in Nat /\ DOMAIN w = 1 .. Len(w)
      /\ \A k \in DOMAIN w : w[k] \in WirePacket
      /\ w # <<>> <=> 1 \in DOMAIN w
  OBVIOUS
<1>3. \A k \in DOMAIN w : w[k].due \in 0 .. DataDelay BY <1>2 DEF WirePacket
<1> QED BY <1>1, <1>2, <1>3 DEF Earliest

LEMMA WireAppend ==
  ASSUME NEW w \in Seq(WirePacket), InOrder(w, FALSE), NEW p \in WirePacket,
         p.due = DataDelay
  PROVE  /\ InOrder(Append(w, p), TRUE)
         /\ \A pg \in Nat, q \in Queues, d \in Int :
              Room(w, FALSE, pg, q, d) /\ (p.q = q => DataDelay <= d)
                => Room(Append(w, p), TRUE, pg, q, d)
<1> DEFINE t == Append(w, p)
           n == Len(w)
<1>1. /\ t \in Seq(WirePacket) /\ n \in Nat /\ DOMAIN w = 1 .. n
      /\ DOMAIN t = 1 .. n + 1 /\ t[n + 1] = p
      /\ \A k \in 1 .. n : t[k] = w[k]
      /\ w # <<>> <=> n # 0
      /\ t # <<>>
  OBVIOUS
<1> HIDE DEF t, n
<1>2. /\ \A k \in 1 .. n : w[k].due \in 0 .. DataDelay /\ w[k].due < DataDelay
      /\ DataDelay \in Nat
  BY <1>1, WireFacts DEF InOrder
<1>3. ASSUME NEW j \in 1 .. n + 1, NEW k \in 1 .. n + 1, j < k
      PROVE  t[j].due < t[k].due
  <2>1. j \in 1 .. n BY <1>1, <1>3
  <2>2. CASE k = n + 1 BY <1>1, <1>2, <2>1, <2>2
  <2>3. CASE k # n + 1
    <3>1. k \in 1 .. n BY <1>1, <2>3
    <3> QED BY <1>1, <1>3, <2>1, <3>1 DEF InOrder
  <2> QED BY <2>2, <2>3
<1>4. InOrder(t, TRUE) BY <1>1, <1>3 DEF InOrder
<1>5. Earliest(t, TRUE) = Earliest(w, FALSE)
  <2>1. CASE n = 0
    <3>1. t[1] = p BY <1>1, <2>1
    <3> QED BY <1>1, <2>1, <3>1 DEF Earliest
  <2>2. CASE n # 0
    <3>1. 1 \in 1 .. n BY <1>1, <2>2
    <3> QED BY <1>1, <2>2, <3>1 DEF Earliest
  <2> QED BY <2>1, <2>2
<1>6. ASSUME NEW pg \in Nat, NEW q \in Queues, NEW d \in Int,
             Room(w, FALSE, pg, q, d), p.q = q => DataDelay <= d
      PROVE  Room(t, TRUE, pg, q, d)
  <2>1. ASSUME NEW k \in 1 .. n + 1, t[k].q = q PROVE t[k].due <= d
    <3>1. CASE k = n + 1 BY <1>1, <1>6, <2>1, <3>1
    <3>2. CASE k # n + 1
      <4>1. k \in 1 .. n BY <1>1, <3>2
      <4> QED BY <1>1, <1>6, <2>1, <4>1 DEF Room
    <3> QED BY <3>1, <3>2
  <2> QED BY <1>1, <1>5, <1>6, <2>1 DEF Room
<1> QED BY <1>4, <1>6 DEF t

LEMMA WirePop ==
  ASSUME NEW w \in Seq(WirePacket), NEW s \in BOOLEAN, InOrder(w, s),
         w # <<>>, Head(w).due = 0
  PROVE  /\ InOrder(Tail(w), s)
         /\ \A pg \in Nat, b \in Nat, q \in Queues, d \in Int :
              /\ Room(w, s, pg, q, d) /\ b <= pg => Room(Tail(w), s, b, q, d)
              /\ Room(w, s, pg, q, d) /\ Head(w).q = q
                   => /\ pg + Head(w).size <= MostHeld
                      /\ Room(Tail(w), s, pg + Head(w).size, q, d)
         /\ Earliest(Tail(w), s) >= 1
<1> DEFINE t == Tail(w)
           n == Len(w) - 1
<1>1. /\ t \in Seq(WirePacket) /\ n \in Nat /\ DOMAIN w = 1 .. n + 1
      /\ DOMAIN t = 1 .. n /\ \A k \in 1 .. n : t[k] = w[k + 1]
      /\ Head(w) = w[1] /\ (t # <<>> <=> n # 0)
  <2>1. Len(w) \in Nat \ {0} /\ DOMAIN w = 1 .. Len(w) OBVIOUS
  <2>2. t \in Seq(WirePacket) /\ Len(t) = Len(w) - 1 OBVIOUS
  <2>3. DOMAIN t = 1 .. Len(t) /\ \A k \in 1 .. Len(t) : t[k] = w[k + 1]
    OBVIOUS
  <2>4. Head(w) = w[1] OBVIOUS
  <2>5. t # <<>> <=> Len(t) # 0 BY <2>2
  <2> HIDE DEF t
  <2> QED BY <2>1, <2>2, <2>3, <2>4, <2>5
<1> HIDE DEF t, n
<1>2. /\ \A k \in 1 .. n + 1 : w[k] \in WirePacket /\ w[k].due \in 0 .. DataDelay
      /\ DataDelay \in Nat /\ Earliest(t, s) \in Nat
  BY <1>1, WireFacts
<1>3. \A k \in 1 .. n : k + 1 \in 1 .. n + 1 BY <1>1
<1>4. InOrder(t, s)
  <2>1. ASSUME NEW j \in 1 .. n, NEW k \in 1 .. n, j < k
        PROVE  t[j].due < t[k].due
    <3>1. j + 1 \in 1 .. n + 1 /\ k + 1 \in 1 .. n + 1 /\ j + 1 < k + 1
      BY <1>1, <2>1
    <3>2. w[j + 1].due < w[k + 1].due BY <1>1, <3>1 DEF InOrder
    <3> QED BY <1>1, <3>2
  <2>2. ASSUME ~s, NEW k \in 1 .. n PROVE t[k].due < DataDelay
    BY <1>1, <1>3, <2>2 DEF InOrder
  <2> QED BY <1>1, <2>1, <2>2 DEF InOrder
<1>5. Earliest(t, s) >= 1
  <2>1. CASE n # 0
    <3>1. 1 \in 1 .. n /\ 1 \in 1 .. n + 1 /\ 2 \in 1 .. n + 1 /\ t[1] = w[2]
      BY <1>1, <2>1
    <3>2. w[1].due < w[2].due BY <1>1, <3>1 DEF InOrder
    <3>3. w[1].due = 0 /\ w[2].due \in 0 .. DataDelay BY <1>1, <1>2, <3>1
    <3>4. t[1].due >= 1 BY <1>2, <3>1, <3>2, <3>3
    <3> QED BY <1>1, <2>1, <3>4 DEF Earliest
  <2>2. CASE n = 0
    <3>1. 1 \in 1 .. n + 1 BY <1>1
    <3>2. ~s => 0 < DataDelay BY <1>1, <3>1 DEF InOrder
    <3>3. Earliest(t, s) = IF s THEN DataDelay + 1 ELSE DataDelay
      BY <1>1, <2>2 DEF Earliest
    <3> QED BY <1>2, <3>2, <3>3
  <2> QED BY <2>1, <2>2
<1>6. Earliest(w, s) = 0
  BY <1>1 DEF Earliest
<1> DEFINE e == Earliest(t, s)
<1>7. e \in Nat /\ e >= 1 BY <1>2, <1>5
<1>8. ASSUME NEW pg \in Nat, NEW q \in Queues, NEW d \in Int, Room(w, s, pg, q, d)
      PROVE  /\ \A k \in 1 .. n : t[k].q = q => t[k].due <= d
             /\ pg <= MostHeld /\ Fits(pg, d + 1)
             /\ Head(w).q = q => 0 <= d
  <2>1. \A k \in 1 .. n : t[k].q = q => t[k].due <= d
    BY <1>1, <1>3, <1>8 DEF Room
  <2>2. d + 1 - 0 = d + 1 OBVIOUS
  <2>3. pg <= MostHeld /\ Fits(pg, d + 1) BY <1>6, <1>8, <2>2 DEF Room
  <2>4. 1 \in DOMAIN w BY <1>1
  <2>5. Head(w).q = q => 0 <= d BY <1>1, <1>8, <2>4 DEF Room
  <2> QED BY <2>1, <2>3, <2>5
<1>9. ASSUME NEW pg \in Nat, NEW b \in Nat, NEW q \in Queues, NEW d \in Int,
             Room(w, s, pg, q, d), b <= pg
      PROVE  Room(t, s, b, q, d)
  <2>1. d + 1 - e <= d + 1 /\ d + 1 - e \in Int /\ d + 1 \in Int BY <1>7
  <2>2. Fits(b, d + 1 - e) BY <1>8, <1>9, <2>1, FitsLess
  <2>3. b <= MostHeld BY <1>8, <1>9, MostHeldType
  <2> QED BY <1>1, <1>8, <1>9, <2>2, <2>3 DEF Room
<1>10. ASSUME NEW pg \in Nat, NEW q \in Queues, NEW d \in Int,
              Room(w, s, pg, q, d), Head(w).q = q
       PROVE  pg + Head(w).size <= MostHeld /\ Room(t, s, pg + Head(w).size, q, d)
  <2>1. Head(w).size \in Sizes BY <1>1, <1>2 DEF WirePacket
  <2>2. 0 <= d /\ Fits(pg, d + 1) BY <1>8, <1>10
  <2>3. /\ d + 1 - e <= (d + 1) - 1 /\ d + 1 - e \in Int /\ d + 1 \in Int
        /\ 0 <= (d + 1) - 1
    BY <1>7, <2>2
  <2>4. Fits(pg + Head(w).size, d + 1 - e) /\ pg + Head(w).size <= MostHeld
    BY <2>1, <2>2, <2>3, FitsOne
  <2> QED BY <1>1, <1>8, <1>10, <2>4 DEF Room
<1> QED BY <1>4, <1>5, <1>9, <1>10 DEF t

LEMMA WireTick ==
  ASSUME NEW w \in Seq(WirePacket), NEW s \in BOOLEAN, InOrder(w, s),
         w # <<>> => Head(w).due > 0
  PROVE  /\ InOrder(Travelled(w), FALSE)
         /\ \A pg \in Nat, q \in Queues, d \in Int :
              Room(w, s, pg, q, d) => Room(Travelled(w), FALSE, pg, q, d - 1)
<1> DEFINE t == Travelled(w)
           n == Len(w)
<1>1. /\ n \in Nat /\ DOMAIN w = 1 .. n /\ (w # <<>> <=> 1 \in 1 .. n)
      /\ \A k \in 1 .. n : w[k] \in WirePacket /\ w[k].due \in 0 .. DataDelay
      /\ DataDelay \in Nat /\ Earliest(w, s) \in Nat
  BY WireFacts
<1>2. \A k \in 1 .. n : w[k].due > 0
  <2> TAKE k \in 1 .. n
  <2>1. 1 \in 1 .. n BY <1>1
  <2>2. w[1].due > 0 BY <1>1, <2>1
  <2>3. k = 1 \/ 1 < k BY <1>1
  <2>4. 1 < k => w[1].due < w[k].due BY <1>1, <2>1 DEF InOrder
  <2> QED BY <1>1, <2>1, <2>2, <2>3, <2>4
<1>3. /\ DOMAIN t = 1 .. n
      /\ \A k \in 1 .. n : t[k].q = w[k].q /\ t[k].due = w[k].due - 1
  <2>1. \A k \in 1 .. n : Elapsed(w[k].due) = w[k].due - 1
    BY <1>2 DEF Elapsed
  <2>2. t = [k \in 1 .. n |-> [w[k] EXCEPT !.due = Elapsed(@)]]
    BY <1>1 DEF Travelled
  <2> HIDE DEF t
  <2>3. \A k \in 1 .. n : t[k].q = w[k].q /\ t[k].due = Elapsed(w[k].due)
    BY <1>1, <2>2 DEF WirePacket
  <2> QED BY <2>1, <2>2, <2>3
<1>4. t # <<>> <=> 1 \in 1 .. n
  <2> HIDE DEF t
  <2>1. t = <<>> => DOMAIN t = {} OBVIOUS
  <2>2. DOMAIN t = 1 .. n BY <1>3
  <2>3. t = [k \in 1 .. n |-> t[k]] BY <1>1 DEF t, Travelled
  <2>4. 1 \notin 1 .. n => 1 .. n = {} BY <1>1
  <2>5. 1 \notin 1 .. n => t = <<>> BY <2>3, <2>4
  <2> QED BY <2>1, <2>2, <2>5
<1> HIDE DEF t, n
<1>5. InOrder(t, FALSE)
  <2>1. ASSUME NEW j \in 1 .. n, NEW k \in 1 .. n, j < k
        PROVE  t[j].due < t[k].due
    <3>1. w[j].due < w[k].due BY <1>1, <2>1 DEF InOrder
    <3>2. /\ w[j].due \in 0 .. DataDelay /\ w[k].due \in 0 .. DataDelay
          /\ t[j].due = w[j].due - 1 /\ t[k].due = w[k].due - 1
      BY <1>1, <1>3
    <3> QED BY <1>1, <3>1, <3>2
  <2>2. ASSUME NEW k \in 1 .. n PROVE t[k].due < DataDelay
    <3>1. w[k].due \in 0 .. DataDelay /\ t[k].due = w[k].due - 1 BY <1>1, <1>3
    <3> QED BY <1>1, <3>1
  <2> QED BY <1>3, <2>1, <2>2 DEF InOrder
<1>6. Earliest(t, FALSE) \in Nat /\ Earliest(t, FALSE) >= Earliest(w, s) - 1
  <2> DEFINE g == Earliest(t, FALSE)
             e == Earliest(w, s)
  <2>1. CASE 1 \in 1 .. n
    <3>1. t # <<>> /\ w # <<>> BY <1>1, <1>4, <2>1
    <3>2. /\ w[1].due \in 0 .. DataDelay /\ w[1].due > 0
          /\ t[1].due = w[1].due - 1
      BY <1>1, <1>2, <1>3, <2>1
    <3>3. Earliest(t, FALSE) = t[1].due /\ Earliest(w, s) = w[1].due
      BY <3>1 DEF Earliest
    <3> DEFINE x == w[1].due
               y == t[1].due
    <3>4. x \in Nat /\ x > 0 /\ y = x - 1 BY <1>1, <3>2
    <3>5. g = y /\ e = x BY <3>3
    <3> HIDE DEF x, y, g, e
    <3>6. g \in Nat /\ g >= e - 1 BY <3>4, <3>5
    <3> QED BY <3>6 DEF g, e
  <2>2. CASE 1 \notin 1 .. n
    <3>1. t = <<>> /\ w = <<>> BY <1>1, <1>4, <2>2
    <3>2. Earliest(t, FALSE) = DataDelay BY <3>1 DEF Earliest
    <3>3. Earliest(w, s) = DataDelay + 1 \/ Earliest(w, s) = DataDelay
      BY <3>1 DEF Earliest
    <3>4. DataDelay \in Nat BY <1>1
    <3> DEFINE x == DataDelay
    <3>5. x \in Nat /\ g = x /\ (e = x + 1 \/ e = x) BY <3>2, <3>3, <3>4
    <3> HIDE DEF x, g, e
    <3>6. g \in Nat /\ g >= e - 1 BY <3>5
    <3> QED BY <3>6 DEF g, e
  <2> QED BY <2>1, <2>2
<1>7. ASSUME NEW pg \in Nat, NEW q \in Queues, NEW d \in Int, Room(w, s, pg, q, d)
      PROVE  Room(t, FALSE, pg, q, d - 1)
  <2> DEFINE e == Earliest(w, s)
             g == Earliest(t, FALSE)
  <2>1. e \in Nat /\ g \in Nat /\ g >= e - 1 BY <1>1, <1>6
  <2>2. Fits(pg, d + 1 - e) /\ pg <= MostHeld BY <1>7 DEF Room
  <2> HIDE DEF e, g
  <2>3. /\ d - 1 + 1 - g <= d + 1 - e /\ d - 1 + 1 - g \in Int
        /\ d + 1 - e \in Int
    BY <2>1
  <2>4. Fits(pg, d - 1 + 1 - g) BY <2>2, <2>3, FitsLess
  <2>5. ASSUME NEW k \in 1 .. n, t[k].q = q PROVE t[k].due <= d - 1
    <3>1. w[k].due <= d BY <1>1, <1>3, <1>7, <2>5 DEF Room
    <3>2. w[k].due \in 0 .. DataDelay /\ t[k].due = w[k].due - 1 BY <1>1, <1>3
    <3> QED BY <1>1, <3>1, <3>2
  <2> QED BY <1>3, <2>2, <2>4, <2>5 DEF Room, g
<1> QED BY <1>5, <1>7 DEF t

---------------------------------------------------------------------------
(* What keeps a class from sending: a pause that a check renews in time, or *)
(* a frame that arrives before the pause ends or before unit d.            *)

\* A frame reaches the peer in less than the time until the check is repeated.
FramesInTime == FrameDelay < RecheckDelay

Arriving(f, q, k) == k \in DOMAIN f /\ q \in f[k].classes /\ f[k].time > 0

\* f are the frames on their way, r is what is left of the pause if there is
\* one (p), c what is left of the timer of a check.
Blocked(f, p, r, c, q, d) ==
  /\ c >= 0
  /\ \/ p /\ r > c + FrameDelay
     \/ \E k : /\ Arriving(f, q, k)
               /\ (p /\ r > f[k].due) \/ f[k].due + DataDelay <= d

\* Frames arrive in the order in which they were sent.
FramesInOrder(f) == \A j, k \in DOMAIN f : j < k => f[j].due <= f[k].due

LEMMA FrameFacts ==
  ASSUME NEW f \in Seq(PfcFrame)
  PROVE  /\ Len(f) \in Nat /\ DOMAIN f = 1 .. Len(f)
         /\ \A k \in DOMAIN f : /\ f[k] \in PfcFrame /\ f[k].due \in 0 .. FrameDelay
                                /\ f[k].time \in {0, PauseTime}
         /\ f # <<>> <=> 1 \in DOMAIN f
<1>1. /\ Len(f) \in Nat /\ DOMAIN f = 1 .. Len(f)
      /\ \A k \in DOMAIN f : f[k] \in PfcFrame
      /\ f # <<>> <=> 1 \in DOMAIN f
  OBVIOUS
<1>2. \A k \in DOMAIN f : f[k].due \in 0 .. FrameDelay /\ f[k].time \in {0, PauseTime}
  BY <1>1 DEF PfcFrame
<1> QED BY <1>1, <1>2

LEMMA DelayFacts ==
  ASSUME FramesInTime
  PROVE  /\ FrameDelay \in Nat /\ DataDelay \in Nat /\ PauseTime \in Nat
         /\ RecheckDelay \in Nat /\ RecheckDelay + FrameDelay < PauseTime
<1>1. PauseTime \in Nat \ {0} /\ FrameDelay \in Nat /\ DataDelay \in Nat
  BY PfcAssumption
<1> DEFINE c == RecheckDelay
<1>2. c \in Nat /\ c * 2 <= PauseTime BY <1>1, DivBounds DEF RecheckDelay
<1>3. FrameDelay < c BY DEF FramesInTime
<1> HIDE DEF c
<1>4. c + FrameDelay < PauseTime BY <1>1, <1>2, <1>3
<1> QED BY <1>1, <1>2, <1>4 DEF c

\* More frames behind those on their way change nothing.
LEMMA BlockedLonger ==
  ASSUME NEW f, NEW g, \A k \in DOMAIN f : k \in DOMAIN g /\ g[k] = f[k],
         NEW p, NEW r, NEW c, NEW q, NEW d, Blocked(f, p, r, c, q, d)
  PROVE  Blocked(g, p, r, c, q, d)
BY DEF Blocked, Arriving

\* A new frame takes over when the check starts again.
LEMMA BlockedAnew ==
  ASSUME FramesInTime,
         NEW f, NEW g, \A k \in DOMAIN f : k \in DOMAIN g /\ g[k] = f[k],
         NEW p \in BOOLEAN, NEW r \in Int, NEW c \in Int, NEW a \in Int, NEW q,
         NEW d \in Int, Blocked(f, p, r, c, q, d), a >= 0,
         NEW k, Arriving(g, q, k), g[k].due = FrameDelay
  PROVE  Blocked(g, p, r, a, q, d)
<1>1. CASE p /\ r > c + FrameDelay
  <2>1. c >= 0 /\ FrameDelay \in Nat BY DelayFacts DEF Blocked
  <2>2. r > FrameDelay BY <1>1, <2>1
  <2> QED BY <1>1, <2>2 DEF Blocked
<1>2. CASE \E j : /\ Arriving(f, q, j)
                  /\ (p /\ r > f[j].due) \/ f[j].due + DataDelay <= d
  BY <1>2 DEF Blocked, Arriving
<1> QED BY <1>1, <1>2 DEF Blocked

\* A frame that arrives starts the pause again; a class that is in none of
\* those that resume keeps its pause.
LEMMA BlockedReceive ==
  ASSUME FramesInTime, NEW f \in Seq(PfcFrame), f # <<>>, NEW q, q # 0,
         Head(f).time = 0 => Head(f).classes = {0},
         NEW p \in BOOLEAN, NEW r \in Int, NEW c \in Int, c <= RecheckDelay,
         NEW d \in Int, Blocked(f, p, r, c, q, d),
         NEW pp, NEW rr \in Int,
         q \in Head(f).classes => /\ Head(f).time > 0 => pp
                                  /\ rr = PauseTimer(r, Head(f).time),
         q \notin Head(f).classes => (p => pp) /\ rr = r
  PROVE  Blocked(Tail(f), pp, rr, c, q, d)
<1> DEFINE h == Head(f)
           t == Tail(f)
<1>1. /\ 1 \in DOMAIN f /\ h = f[1]
      /\ \A k \in DOMAIN f : k = 1 \/ (k - 1 \in DOMAIN t /\ t[k - 1] = f[k])
  OBVIOUS
<1>2. /\ \A k \in DOMAIN f : f[k].due \in 0 .. FrameDelay
      /\ h.time \in {0, PauseTime}
  BY <1>1, FrameFacts
<1>3. /\ FrameDelay \in Nat /\ PauseTime \in Nat /\ RecheckDelay \in Nat
      /\ RecheckDelay + FrameDelay < PauseTime
  BY DelayFacts
<1> HIDE DEF h, t
<1>4. c >= 0 BY DEF Blocked
<1>5. CASE q \in h.classes
  <2>1. h.time = PauseTime /\ PauseTime > 0 BY <1>2, <1>3, <1>5 DEF h
  <2>2. pp /\ rr = PauseTime BY <1>5, <2>1 DEF PauseTimer, h
  <2>3. PauseTime > c + FrameDelay BY <1>3
  <2> QED BY <1>4, <2>2, <2>3 DEF Blocked, t
<1>6. CASE q \notin h.classes
  <2>1. (p => pp) /\ rr = r BY <1>6 DEF h
  <2>2. CASE p /\ r > c + FrameDelay BY <1>4, <2>1, <2>2 DEF Blocked
  <2>3. ASSUME NEW k, Arriving(f, q, k),
               (p /\ r > f[k].due) \/ f[k].due + DataDelay <= d
        PROVE  Blocked(t, pp, rr, c, q, d)
    <3>1. k \in DOMAIN f /\ k # 1 BY <1>1, <1>6, <2>3 DEF Arriving
    <3>2. k - 1 \in DOMAIN t /\ t[k - 1] = f[k] BY <1>1, <3>1
    <3>3. Arriving(t, q, k - 1) BY <2>3, <3>2 DEF Arriving
    <3> QED BY <1>4, <2>1, <2>3, <3>2, <3>3 DEF Blocked
  <2> QED BY <2>2, <2>3 DEF Blocked, t
<1> QED BY <1>5, <1>6

\* A pause that blocks does not end.
LEMMA BlockedFinish ==
  ASSUME NEW f \in Seq(PfcFrame), NEW p \in BOOLEAN, NEW c \in Int, NEW q,
         NEW d \in Int, Blocked(f, p, 0, c, q, d)
  PROVE  Blocked(f, FALSE, Off, c, q, d)
<1>1. FrameDelay \in Nat BY PfcAssumption
<1>2. \A k \in DOMAIN f : f[k].due \in 0 .. FrameDelay BY FrameFacts
<1>3. c >= 0 /\ ~(0 > c + FrameDelay) BY <1>1 DEF Blocked
<1>4. \A k \in DOMAIN f : ~(0 > f[k].due) BY <1>1, <1>2
<1> QED BY <1>3, <1>4 DEF Blocked, Arriving

\* Frames and timers run on together.
LEMMA BlockedTick ==
  ASSUME NEW f \in Seq(PfcFrame), FramesInOrder(f),
         f # <<>> => Head(f).due > 0
  PROVE  /\ FramesInOrder(Travelled(f))
         /\ \A p \in BOOLEAN, r \in Int, c \in Int, q \in Queues, d \in Int :
              Blocked(f, p, r, c, q, d) /\ c # 0 =>
                Blocked(Travelled(f), p, Elapsed(r), Elapsed(c), q, d - 1)
<1> DEFINE t == Travelled(f)
           n == Len(f)
<1>1. /\ n \in Nat /\ DOMAIN f = 1 .. n /\ (f # <<>> <=> 1 \in 1 .. n)
      /\ \A k \in 1 .. n : /\ f[k] \in PfcFrame /\ f[k].due \in 0 .. FrameDelay
      /\ FrameDelay \in Nat /\ DataDelay \in Nat
  BY FrameFacts, PfcAssumption
<1>2. \A k \in 1 .. n : f[k].due > 0
  <2> TAKE k \in 1 .. n
  <2>1. 1 \in 1 .. n BY <1>1
  <2>2. f[1].due > 0 BY <1>1, <2>1
  <2>3. k = 1 \/ 1 < k BY <1>1
  <2>4. 1 < k => f[1].due <= f[k].due BY <1>1, <2>1 DEF FramesInOrder
  <2> QED BY <1>1, <2>1, <2>2, <2>3, <2>4
<1>3. /\ DOMAIN t = 1 .. n
      /\ \A k \in 1 .. n : /\ t[k].classes = f[k].classes /\ t[k].time = f[k].time
                           /\ t[k].due = f[k].due - 1
  <2>1. \A k \in 1 .. n : Elapsed(f[k].due) = f[k].due - 1
    BY <1>2 DEF Elapsed
  <2>2. t = [k \in 1 .. n |-> [f[k] EXCEPT !.due = Elapsed(@)]]
    BY <1>1 DEF Travelled
  <2> HIDE DEF t
  <2>3. \A k \in 1 .. n : /\ t[k].classes = f[k].classes /\ t[k].time = f[k].time
                          /\ t[k].due = Elapsed(f[k].due)
    BY <1>1, <2>2 DEF PfcFrame
  <2> QED BY <2>1, <2>2, <2>3
<1> HIDE DEF t, n
<1>4. FramesInOrder(t)
  <2>1. ASSUME NEW j \in 1 .. n, NEW k \in 1 .. n, j < k
        PROVE  t[j].due <= t[k].due
    <3>1. f[j].due <= f[k].due BY <1>1, <2>1 DEF FramesInOrder
    <3>2. /\ f[j].due \in 0 .. FrameDelay /\ f[k].due \in 0 .. FrameDelay
          /\ t[j].due = f[j].due - 1 /\ t[k].due = f[k].due - 1
      BY <1>1, <1>3
    <3> QED BY <1>1, <3>1, <3>2
  <2> QED BY <1>3, <2>1 DEF FramesInOrder
<1>5. ASSUME NEW p \in BOOLEAN, NEW r \in Int, NEW c \in Int, NEW q, NEW d \in Int,
             Blocked(f, p, r, c, q, d), c # 0
      PROVE  Blocked(t, p, Elapsed(r), Elapsed(c), q, d - 1)
  <2>1. c > 0 /\ Elapsed(c) = c - 1 /\ Elapsed(c) >= 0
    BY <1>5 DEF Blocked, Elapsed
  <2>2. CASE p /\ r > c + FrameDelay
    <3>1. Elapsed(r) = r - 1 /\ Elapsed(r) > Elapsed(c) + FrameDelay
      BY <1>1, <2>1, <2>2 DEF Elapsed
    <3> QED BY <2>1, <2>2, <3>1 DEF Blocked
  <2>3. ASSUME NEW k, Arriving(f, q, k),
               (p /\ r > f[k].due) \/ f[k].due + DataDelay <= d
        PROVE  Blocked(t, p, Elapsed(r), Elapsed(c), q, d - 1)
    <3>1. /\ k \in 1 .. n /\ f[k].due \in 0 .. FrameDelay /\ f[k].due > 0
          /\ t[k].due = f[k].due - 1
      BY <1>1, <1>2, <1>3, <2>3 DEF Arriving
    <3>2. Arriving(t, q, k) BY <1>1, <1>3, <2>3, <3>1 DEF Arriving
    <3> DEFINE x == f[k].due
               y == t[k].due
    <3>3. x \in Nat /\ x > 0 /\ y = x - 1 BY <1>1, <3>1
    <3>4. (p /\ r > x) \/ x + DataDelay <= d BY <2>3
    <3> HIDE DEF x, y
    <3>5. r > x => Elapsed(r) > y BY <3>3 DEF Elapsed
    <3>6. x + DataDelay <= d => y + DataDelay <= d - 1 BY <1>1, <3>3
    <3>7. (p /\ Elapsed(r) > y) \/ y + DataDelay <= d - 1 BY <3>4, <3>5, <3>6
    <3> QED BY <2>1, <3>2, <3>7 DEF Blocked, y
  <2> QED BY <1>5, <2>2, <2>3 DEF Blocked
<1> QED BY <1>4, <1>5 DEF t

---------------------------------------------------------------------------
(* A class over its limit is contained.                                    *)

\* Whatever is still to come has room: a check is about to pause the class,
\* or it cannot send for as long as it is over its limit.
Contained(i, q) ==
  \/ /\ Checking(i, q)
     /\ Room(wire[i], sent[i], usedIngressPG[i][q], q, DataDelay + FrameDelay)
  \/ \E o \in Ports, d \in Int :
       /\ Blocked(frames[i], paused[i][q], resumeEvt[i][q],
                  recheckEvt[o][i][q], q, d)
       /\ Room(wire[i], sent[i], usedIngressPG[i][q], q, d)

LinksInOrder ==
  \A i \in Ports : InOrder(wire[i], sent[i]) /\ FramesInOrder(frames[i])

OverIsContained ==
  \A i \in Ports, q \in Queues : Over(i, q) => Contained(i, q)

OverInv == FlowInv /\ LinksInOrder /\ OverIsContained

LEMMA FlowFacts ==
  ASSUME FlowInv, NEW i \in Ports
  PROVE  /\ wire[i] \in Seq(WirePacket) /\ sent[i] \in BOOLEAN
         /\ frames[i] \in Seq(PfcFrame)
         /\ \A q \in Queues :
              /\ paused[i][q] \in BOOLEAN /\ resumeEvt[i][q] \in Int
              /\ usedIngressPG[i][q] \in Nat
              /\ \A o \in Ports : /\ recheckEvt[o][i][q] \in Int
                                  /\ recheckEvt[o][i][q] <= RecheckDelay
<1>1. wire[i] \in Seq(WirePacket) /\ sent[i] \in BOOLEAN /\ frames[i] \in Seq(PfcFrame)
  BY DEF FlowInv, FlowTypes
<1>2. ASSUME NEW q \in Queues
      PROVE  /\ paused[i][q] \in BOOLEAN /\ resumeEvt[i][q] \in Int
             /\ usedIngressPG[i][q] \in Nat
             /\ \A o \in Ports : /\ recheckEvt[o][i][q] \in Int
                                 /\ recheckEvt[o][i][q] <= RecheckDelay
  <2>1. q \in Classes BY DEF Classes
  <2>2. paused[i][q] \in BOOLEAN /\ resumeEvt[i][q] \in Off .. PauseTime
    BY <2>1 DEF FlowInv, FlowTypes
  <2>3. \A o \in Ports : recheckEvt[o][i][q] \in Off .. PauseTime \div 2
    BY DEF FlowInv, FlowTypes
  <2>4. RecheckDelay \in Nat /\ RecheckDelay = PauseTime \div 2 BY RecheckInTime
  <2>5. usedIngressPG[i][q] \in Nat BY CountersAreNumbers DEF FlowInv
  <2> QED BY <2>2, <2>3, <2>4, <2>5 DEF Off
<1> QED BY <1>1, <1>2

\* Packets that leave the switch make room.
LEMMA RoomLess ==
  ASSUME NEW w \in Seq(WirePacket), NEW s \in BOOLEAN, NEW pg \in Nat,
         NEW b \in Nat, b <= pg, NEW q, NEW d \in Int, Room(w, s, pg, q, d)
  PROVE  Room(w, s, b, q, d)
<1>1. Earliest(w, s) \in Nat BY WireFacts
<1> DEFINE u == d + 1 - Earliest(w, s)
<1>2. u \in Int /\ u <= u BY <1>1
<1>3. Fits(pg, u) /\ pg <= MostHeld /\ MostHeld \in Nat BY MostHeldType DEF Room
<1> HIDE DEF u
<1>4. Fits(b, u) BY <1>2, <1>3, FitsLess
<1>5. b <= MostHeld BY <1>3
<1> QED BY <1>4, <1>5 DEF Room, u

\* The packet that crosses the limit: what is on the wire has room.
LEMMA RoomFresh ==
  ASSUME NEW w \in Seq(WirePacket), NEW s \in BOOLEAN, Earliest(w, s) >= 1,
         NEW pg \in Nat, pg <= PgSharedLimit + MaxSize, NEW q
  PROVE  Room(w, s, pg, q, DataDelay + FrameDelay)
<1> DEFINE e == Earliest(w, s)
           d == DataDelay + FrameDelay
<1>1. /\ e \in Nat /\ d \in Nat /\ DataDelay <= d
      /\ \A k \in DOMAIN w : w[k].due \in 0 .. DataDelay
      /\ DataDelay \in Nat
  BY WireFacts
<1>2. e >= 1 OBVIOUS
<1>3. pg <= MostHeld BY MostHeldType, ConstantFacts
<1>4. \A k \in DOMAIN w : w[k].due <= d BY <1>1
<1>5. d + 1 - e \in Int /\ d + 1 - e <= d BY <1>1, <1>2
<1>6. Fits(pg, d + 1 - e) BY <1>5, FitsFresh
<1> QED BY <1>3, <1>4, <1>6 DEF Room

\* What is admitted is added, and nothing wraps.
LEMMA AdmitAdds ==
  ASSUME MmuInv, NEW in \in Ports, NEW q \in Queues, NEW size \in Sizes,
         UpdateIngressAdmission(in, q, size)
  PROVE  /\ usedTotal' = usedTotal + size
         /\ usedIngressPG' = [usedIngressPG EXCEPT ![in][q] = @ + size]
<1>1. /\ usedTotal \in 0 .. MaxBuffer
      /\ usedIngressPG \in [Ports -> [Queues -> 0 .. MaxBuffer]]
  BY IngressBounds DEF MmuInv
<1>2. /\ size \in Nat /\ size <= MaxSize /\ MaxSize \in Nat /\ MaxBuffer \in Nat
      /\ Word \in Nat /\ MaxBuffer + MaxSize < Word
  <2>1. /\ size \in Nat /\ size <= MaxSize /\ MaxSize \in Nat /\ MaxBuffer \in Nat
        /\ Word \in Nat /\ Cell \in Nat /\ AllErrors \in Nat
        /\ MaxBuffer + Cell + 2 * MaxSize + AllErrors < Word
    BY ConstantFacts
  <2> QED BY <2>1
<1>3. Add(usedTotal, size) = usedTotal + size BY <1>1, <1>2, AddSmall
<1>4. Add(usedIngressPG[in][q], size) = usedIngressPG[in][q] + size
  <2>1. usedIngressPG[in][q] \in 0 .. MaxBuffer BY <1>1
  <2> QED BY <1>2, <2>1, AddSmall
<1> QED BY <1>3, <1>4 DEF UpdateIngressAdmission

LEMMA ContainedSend ==
  ASSUME FramesInTime, OverInv, NEW in \in Ports, Send(in)
  PROVE  LinksInOrder' /\ OverIsContained'
<1> DEFINE p == Head(wire[in])
<1>1. /\ p \in WirePacket /\ event = Idle
      /\ event' = [step |-> "transmit", in |-> in, out |-> p.out, q |-> p.q]
      /\ UNCHANGED <<dynamicth, frames, recheckEvt, paused, resumeEvt, sent>>
      /\ Admit(in, p.out, p.q, p.size) \/ UNCHANGED mmuVars
      /\ wire[in] # <<>> /\ p.due = 0
      /\ wire' = [wire EXCEPT ![in] = Tail(@)]
  BY TypesSend DEF Send, OverInv, FlowInv
<1>2. p.q \in Queues /\ p.size \in Sizes BY <1>1 DEF WirePacket
<1>3. /\ wire[in] \in Seq(WirePacket) /\ sent[in] \in BOOLEAN
      /\ InOrder(wire[in], sent[in])
  BY FlowFacts DEF OverInv, LinksInOrder
<1>4. /\ wire'[in] = Tail(wire[in])
      /\ \A i \in Ports : i # in => wire'[i] = wire[i]
  BY <1>1 DEF OverInv, FlowInv, FlowTypes
<1>5. /\ InOrder(Tail(wire[in]), sent[in])
      /\ \A pg \in Nat, b \in Nat, q \in Queues, d \in Int :
           /\ Room(wire[in], sent[in], pg, q, d) /\ b <= pg
                => Room(Tail(wire[in]), sent[in], b, q, d)
           /\ Room(wire[in], sent[in], pg, q, d) /\ p.q = q
                => /\ pg + p.size <= MostHeld
                   /\ Room(Tail(wire[in]), sent[in], pg + p.size, q, d)
      /\ Earliest(Tail(wire[in]), sent[in]) >= 1
  BY <1>1, <1>3, WirePop
<1> HIDE DEF p
<1>6. LinksInOrder' BY <1>1, <1>4, <1>5 DEF OverInv, LinksInOrder
<1>7. \A i \in Ports, q \in Queues :
        /\ usedIngressPG[i][q] \in Nat
        /\ i # in \/ q # p.q => usedIngressPG'[i][q] = usedIngressPG[i][q]
        /\ i = in /\ q = p.q =>
             \/ usedIngressPG'[i][q] = usedIngressPG[i][q]
             \/ usedIngressPG'[i][q] = usedIngressPG[i][q] + p.size
  <2>1. usedIngressPG \in [Ports -> [Queues -> 0 .. MaxBuffer]]
    BY IngressBounds DEF OverInv, FlowInv, MmuInv
  <2>2. \/ UNCHANGED usedIngressPG
        \/ usedIngressPG' = [usedIngressPG EXCEPT ![in][p.q] = @ + p.size]
    BY <1>1, <1>2, AdmitAdds DEF Admit, mmuVars, ingressVars, OverInv, FlowInv
  <2> QED BY <2>1, <2>2
<1>8. ASSUME NEW i \in Ports, NEW q \in Queues, Over(i, q)'
      PROVE  Contained(i, q)'
  <2>1. UNCHANGED <<frames[i], paused[i][q], resumeEvt[i][q], sent[i]>>
    BY <1>1
  <2>2. \A o \in Ports : recheckEvt'[o][i][q] = recheckEvt[o][i][q] BY <1>1
  <2> DEFINE pg == usedIngressPG[i][q]
             B(o, d) == Blocked(frames[i], paused[i][q], resumeEvt[i][q],
                                recheckEvt[o][i][q], q, d)
  <2>3. Over(i, q) => \E o \in Ports, d \in Int :
                        B(o, d) /\ Room(wire[i], sent[i], pg, q, d)
    <3>1. ~Checking(i, q) BY <1>1 DEF Checking, Idle
    <3> QED BY <3>1 DEF OverInv, OverIsContained, Contained
  <2>4. ASSUME NEW o \in Ports, NEW d \in Int, B(o, d),
               Room(wire'[i], sent[i], usedIngressPG'[i][q], q, d)
        PROVE  Contained(i, q)'
    BY <2>1, <2>2, <2>4 DEF Contained
  <2>5. pg \in Nat BY <1>7
  <2> HIDE DEF B
  <2>6. CASE usedIngressPG'[i][q] = pg
    <3>1. Over(i, q) BY <1>1, <1>8, <2>6 DEF Over
    <3>2. PICK o \in Ports, d \in Int : B(o, d) /\ Room(wire[i], sent[i], pg, q, d)
      BY <2>3, <3>1
    <3> HIDE DEF pg
    <3>3. CASE i # in BY <1>4, <2>4, <2>6, <3>2, <3>3
    <3>4. CASE i = in
      <4>1. Room(wire'[i], sent[i], pg, q, d) BY <1>4, <1>5, <2>5, <3>2, <3>4
      <4> QED BY <2>4, <2>6, <3>2, <4>1
    <3> QED BY <3>3, <3>4
  <2>7. CASE usedIngressPG'[i][q] # pg
    <3>1. i = in /\ q = p.q /\ usedIngressPG'[i][q] = pg + p.size
      BY <1>7, <2>7
    <3>2. CASE Over(i, q)
      <4>1. PICK o \in Ports, d \in Int : B(o, d) /\ Room(wire[i], sent[i], pg, q, d)
        BY <2>3, <3>2
      <4> HIDE DEF pg
      <4>2. Room(wire'[i], sent[i], pg + p.size, q, d)
        BY <1>4, <1>5, <2>5, <3>1, <4>1
      <4> QED BY <2>4, <3>1, <4>1, <4>2
    <3>3. CASE ~Over(i, q)
      <4>1. ~(pg > PgSharedLimit) /\ PgSharedLimit \in Nat
        BY <1>1, <1>8, <3>3, MostHeldType DEF Over
      <4>2. p.size \in Nat /\ p.size <= MaxSize /\ MaxSize \in Nat
        BY <1>2, ConstantFacts
      <4> HIDE DEF pg
      <4>3. pg + p.size \in Nat /\ pg + p.size <= PgSharedLimit + MaxSize
        BY <2>5, <4>1, <4>2
      <4>4. Tail(wire[in]) \in Seq(WirePacket) BY <1>1, <1>3
      <4>5. Room(Tail(wire[in]), sent[in], pg + p.size, q, DataDelay + FrameDelay)
        BY <1>3, <1>5, <4>3, <4>4, RoomFresh
      <4>6. Checking(i, q)' BY <1>1, <3>1 DEF Checking
      <4> QED BY <1>4, <2>1, <3>1, <4>5, <4>6 DEF Contained
    <3> QED BY <3>2, <3>3
  <2> QED BY <2>6, <2>7
<1> QED BY <1>6, <1>8 DEF OverIsContained

\* Transmitting, or nothing, changes only what the groups hold.
LEMMA ContainedLess ==
  ASSUME OverInv,
         UNCHANGED <<dynamicth, frames, recheckEvt, paused, resumeEvt, wire, sent>>,
         \A i \in Ports, q \in Queues :
           /\ usedIngressPG'[i][q] \in Nat
           /\ usedIngressPG'[i][q] <= usedIngressPG[i][q],
         \A i \in Ports, q \in Queues : Checking(i, q) => Checking(i, q)'
  PROVE  LinksInOrder' /\ OverIsContained'
<1>1. LinksInOrder' BY DEF OverInv, LinksInOrder
<1>2. ASSUME NEW i \in Ports, NEW q \in Queues, Over(i, q)'
      PROVE  Contained(i, q)'
  <2> DEFINE pg == usedIngressPG[i][q]
             b == usedIngressPG'[i][q]
  <2>1. /\ wire[i] \in Seq(WirePacket) /\ sent[i] \in BOOLEAN
        /\ pg \in Nat /\ b \in Nat /\ b <= pg
        /\ DataDelay + FrameDelay \in Int
    BY FlowFacts, PfcAssumption DEF OverInv
  <2>2. PgSharedLimit \in Nat BY PfcAssumption
  <2>3. Over(i, q) BY <1>2, <2>1, <2>2 DEF Over
  <2>4. Contained(i, q) BY <2>3 DEF OverInv, OverIsContained
  <2>5. \A d \in Int : Room(wire[i], sent[i], pg, q, d)
                         => Room(wire[i], sent[i], b, q, d)
    BY <2>1, RoomLess
  <2> QED BY <2>1, <2>4, <2>5 DEF Contained
<1> QED BY <1>1, <1>2 DEF OverIsContained

\* A check of a group over its limit pauses it again.
LEMMA ContainedCheck ==
  ASSUME FramesInTime, OverInv, FlowTypes', NEW out \in Ports, NEW in \in Ports,
         NEW q \in Queues, NEW left, CheckQueueFull(out, in, q, left),
         UNCHANGED <<mmuVars, dynamicth, paused, resumeEvt, wire, sent>>,
         \A i \in Ports, r \in Queues :
           (i # in \/ r # q) /\ Checking(i, r) => Checking(i, r)'
  PROVE  LinksInOrder' /\ OverIsContained'
<1>1. /\ \A i \in Ports :
           /\ \A k \in DOMAIN frames[i] : /\ k \in DOMAIN frames'[i]
                                          /\ frames'[i][k] = frames[i][k]
           /\ \A k \in DOMAIN frames'[i] :
                k \in DOMAIN frames[i] \/ frames'[i][k].due = FrameDelay
      /\ \A o, i \in Ports, r \in Queues :
           i # in \/ r # q => recheckEvt'[o][i][r] = recheckEvt[o][i][r]
  BY CheckKeeps DEF OverInv, FlowInv
<1>2. UNCHANGED usedIngressPG BY DEF mmuVars, ingressVars
<1>3. LinksInOrder'
  <2>1. ASSUME NEW i \in Ports, NEW j \in DOMAIN frames'[i],
               NEW k \in DOMAIN frames'[i], j < k
        PROVE  frames'[i][j].due <= frames'[i][k].due
    <3>1. frames[i] \in Seq(PfcFrame) /\ frames'[i] \in Seq(PfcFrame)
      BY DEF OverInv, FlowInv, FlowTypes
    <3>2. /\ Len(frames[i]) \in Nat /\ DOMAIN frames[i] = 1 .. Len(frames[i])
          /\ Len(frames'[i]) \in Nat /\ DOMAIN frames'[i] = 1 .. Len(frames'[i])
          /\ frames'[i][j].due \in 0 .. FrameDelay
      BY <3>1, FrameFacts
    <3>3. CASE k \in DOMAIN frames[i]
      <4>1. j \in DOMAIN frames[i] BY <2>1, <3>2, <3>3
      <4>2. frames[i][j].due <= frames[i][k].due
        BY <2>1, <3>3, <4>1 DEF OverInv, LinksInOrder, FramesInOrder
      <4> QED BY <1>1, <3>3, <4>1, <4>2
    <3>4. CASE frames'[i][k].due = FrameDelay
      BY <3>2, <3>4, PfcAssumption
    <3> QED BY <1>1, <3>3, <3>4
  <2> QED BY <2>1 DEF OverInv, LinksInOrder, FramesInOrder
<1>4. ASSUME NEW i \in Ports, NEW r \in Queues, Over(i, r)'
      PROVE  Contained(i, r)'
  <2>1. Over(i, r) BY <1>2, <1>4 DEF Over
  <2>2. Contained(i, r) BY <2>1 DEF OverInv, OverIsContained
  <2>3. /\ paused[i][r] \in BOOLEAN /\ resumeEvt[i][r] \in Int
        /\ \A o \in Ports : recheckEvt[o][i][r] \in Int
        /\ DataDelay + FrameDelay \in Int
    BY FlowFacts, PfcAssumption DEF OverInv
  <2> DEFINE R(d) == Room(wire[i], sent[i], usedIngressPG[i][r], r, d)
             B(f, c, d) == Blocked(f, paused[i][r], resumeEvt[i][r], c, r, d)
  <2>4. ASSUME NEW o \in Ports, NEW d \in Int, R(d),
               B(frames'[i], recheckEvt'[o][i][r], d)
        PROVE  Contained(i, r)'
    BY <1>2, <2>4 DEF Contained
  <2>5. \/ Checking(i, r) /\ R(DataDelay + FrameDelay)
        \/ \E o \in Ports, d \in Int : B(frames[i], recheckEvt[o][i][r], d) /\ R(d)
    BY <2>2 DEF Contained
  <2>6. \A k \in DOMAIN frames[i] : /\ k \in DOMAIN frames'[i]
                                    /\ frames'[i][k] = frames[i][k]
    BY <1>1
  <2>7. CASE i = in /\ r = q
    <3>1. recheckEvt'[out][i][r] \in Int /\ recheckEvt'[out][i][r] >= 0
      <4>1. recheckEvt'[out][i][r] >= 0
        BY <2>1, <2>7, CheckPauses DEF OverInv, FlowInv
      <4>2. recheckEvt'[out][i][r] \in Off .. PauseTime \div 2
        BY DEF FlowTypes
      <4> QED BY <4>1, <4>2, RecheckInTime DEF Off
    <3>2. PICK k \in DOMAIN frames'[i] :
            /\ r \in frames'[i][k].classes /\ frames'[i][k].time > 0
            /\ frames'[i][k].due = FrameDelay
      BY <2>1, <2>7, CheckPauses DEF OverInv, FlowInv
    <3>3. Arriving(frames'[i], r, k) BY <3>2 DEF Arriving
    <3>4. CASE R(DataDelay + FrameDelay)
      <4>1. FrameDelay + DataDelay <= DataDelay + FrameDelay
        BY PfcAssumption
      <4>2. B(frames'[i], recheckEvt'[out][i][r], DataDelay + FrameDelay)
        BY <3>1, <3>2, <3>3, <4>1 DEF Blocked
      <4> QED BY <2>3, <2>4, <3>4, <4>2
    <3>5. ASSUME NEW o \in Ports, NEW d \in Int, R(d),
                 B(frames[i], recheckEvt[o][i][r], d)
          PROVE  Contained(i, r)'
      <4>1. B(frames'[i], recheckEvt'[out][i][r], d)
        BY <2>3, <2>6, <3>1, <3>2, <3>3, <3>5, BlockedAnew
      <4> QED BY <2>4, <3>5, <4>1
    <3> QED BY <2>5, <3>4, <3>5
  <2>8. CASE i # in \/ r # q
    <3>1. Checking(i, r) => Checking(i, r)' BY <2>8
    <3>2. CASE Checking(i, r) /\ R(DataDelay + FrameDelay)
      BY <1>2, <3>1, <3>2 DEF Contained
    <3>3. ASSUME NEW o \in Ports, NEW d \in Int, R(d),
                 B(frames[i], recheckEvt[o][i][r], d)
          PROVE  Contained(i, r)'
      <4>1. recheckEvt'[o][i][r] = recheckEvt[o][i][r] BY <1>1, <2>8
      <4>2. B(frames'[i], recheckEvt[o][i][r], d)
        BY <2>6, <3>3, BlockedLonger
      <4> QED BY <2>4, <3>3, <4>1, <4>2
    <3> QED BY <2>5, <3>2, <3>3
  <2> QED BY <2>7, <2>8
<1> QED BY <1>3, <1>4 DEF OverIsContained

\* Frames and pauses of one port change: what holds for the others holds on.
LEMMA ContainedAt ==
  ASSUME OverInv, NEW in \in Ports,
         UNCHANGED <<usedIngressPG, dynamicth, recheckEvt, event, wire, sent>>,
         \A i \in Ports, c \in Classes :
           i # in => /\ frames'[i] = frames[i] /\ paused'[i][c] = paused[i][c]
                     /\ resumeEvt'[i][c] = resumeEvt[i][c],
         FramesInOrder(frames'[in]),
         \A q \in Queues, c \in Int, d \in Int :
           /\ Blocked(frames[in], paused[in][q], resumeEvt[in][q], c, q, d)
           /\ c <= RecheckDelay
           => Blocked(frames'[in], paused'[in][q], resumeEvt'[in][q], c, q, d)
  PROVE  LinksInOrder' /\ OverIsContained'
<1>1. 0 \in Classes BY DEF Classes
<1>2. LinksInOrder' BY <1>1 DEF OverInv, LinksInOrder
<1>3. ASSUME NEW i \in Ports, NEW q \in Queues, Over(i, q)'
      PROVE  Contained(i, q)'
  <2>1. Over(i, q) BY <1>3 DEF Over
  <2>2. Contained(i, q) BY <2>1 DEF OverInv, OverIsContained
  <2>3. \A o \in Ports : /\ recheckEvt[o][i][q] \in Int
                         /\ recheckEvt[o][i][q] <= RecheckDelay
    BY FlowFacts DEF OverInv
  <2>4. q \in Classes BY DEF Classes
  <2>5. \A o \in Ports, d \in Int :
          Blocked(frames[i], paused[i][q], resumeEvt[i][q],
                  recheckEvt[o][i][q], q, d)
          => Blocked(frames'[i], paused'[i][q], resumeEvt'[i][q],
                     recheckEvt[o][i][q], q, d)
    <3>1. CASE i = in BY <2>3, <3>1
    <3>2. CASE i # in BY <2>4, <3>2
    <3> QED BY <3>1, <3>2
  <2> QED BY <2>2, <2>5 DEF Contained, Checking
<1> QED BY <1>2, <1>3 DEF OverIsContained

LEMMA ContainedReceive ==
  ASSUME FramesInTime, OverInv, NEW in \in Ports, ReceiveFrame(in)
  PROVE  LinksInOrder' /\ OverIsContained'
<1> DEFINE f == Head(frames[in])
           s == frames[in]
           t == Tail(frames[in])
<1>1. s \in Seq(PfcFrame) /\ s # <<>>
  BY DEF OverInv, FlowInv, FlowTypes, ReceiveFrame
<1>2. /\ f \in PfcFrame /\ f = s[1] /\ 1 \in DOMAIN s
      /\ \A k \in DOMAIN t : k \in Int /\ k + 1 \in DOMAIN s /\ t[k] = s[k + 1]
  BY <1>1
<1>3. /\ paused' = [paused EXCEPT ![in] =
           [c \in Classes |-> IF c \in f.classes THEN f.time > 0 ELSE @[c]]]
      /\ resumeEvt' = [resumeEvt EXCEPT ![in] =
           [c \in Classes |-> IF c \in f.classes THEN PauseTimer(@[c], f.time)
                                                 ELSE @[c]]]
      /\ frames' = [frames EXCEPT ![in] = Tail(@)]
      /\ UNCHANGED <<usedIngressPG, dynamicth, recheckEvt, event, wire, sent>>
  BY DEF ReceiveFrame, mmuVars, ingressVars
<1>4. /\ frames'[in] = t
      /\ \A i \in Ports : i # in => /\ frames'[i] = frames[i]
                                    /\ paused'[i] = paused[i]
                                    /\ resumeEvt'[i] = resumeEvt[i]
  BY <1>3 DEF OverInv, FlowInv, FlowTypes
<1>5. \A c \in Classes :
        /\ paused'[in][c] = IF c \in f.classes THEN f.time > 0 ELSE paused[in][c]
        /\ resumeEvt'[in][c] = IF c \in f.classes
                               THEN PauseTimer(resumeEvt[in][c], f.time)
                               ELSE resumeEvt[in][c]
  BY <1>3 DEF OverInv, FlowInv, FlowTypes
<1>6. f.time = 0 => f.classes = {0}
  <2>1. \A k \in DOMAIN s : s[k].time = 0 => s[k].classes = {0}
    BY DEF OverInv, FlowInv, ResumesNone
  <2> HIDE DEF f, s
  <2> QED BY <1>2, <2>1
<1>7. FramesInOrder(frames'[in])
  <2>1. \A j, k \in DOMAIN s : j < k => s[j].due <= s[k].due
    BY DEF OverInv, LinksInOrder, FramesInOrder
  <2> HIDE DEF s, t
  <2>2. ASSUME NEW j \in DOMAIN t, NEW k \in DOMAIN t, j < k
        PROVE  t[j].due <= t[k].due
    <3>1. /\ j + 1 \in DOMAIN s /\ k + 1 \in DOMAIN s /\ j + 1 < k + 1
          /\ t[j] = s[j + 1] /\ t[k] = s[k + 1]
      BY <1>2, <2>2
    <3> QED BY <2>1, <3>1
  <2> QED BY <1>4, <2>2 DEF FramesInOrder
<1>8. ASSUME NEW q \in Queues, NEW c \in Int, NEW d \in Int,
             Blocked(s, paused[in][q], resumeEvt[in][q], c, q, d),
             c <= RecheckDelay
      PROVE  Blocked(t, paused'[in][q], resumeEvt'[in][q], c, q, d)
  <2>1. q \in Classes /\ q # 0 BY PfcAssumption DEF Classes
  <2>2. paused[in][q] \in BOOLEAN /\ resumeEvt[in][q] \in Int
    BY FlowFacts DEF OverInv
  <2>3. resumeEvt'[in][q] \in Int
    <3>1. f.time \in Int BY <1>2, PfcAssumption DEF PfcFrame
    <3> HIDE DEF f
    <3>2. PauseTimer(resumeEvt[in][q], f.time) \in Int
      BY <3>1 DEF PauseTimer, Off
    <3> QED BY <1>5, <2>1, <2>2, <3>2
  <2> DEFINE r == resumeEvt[in][q]
             p == paused[in][q]
             rr == resumeEvt'[in][q]
             pp == paused'[in][q]
  <2>4. q \in f.classes => (f.time > 0 => pp) /\ rr = PauseTimer(r, f.time)
    BY <1>5, <2>1
  <2>5. q \notin f.classes => (p => pp) /\ rr = r BY <1>5, <2>1
  <2> HIDE DEF p, r, pp, rr
  <2> QED BY <1>1, <1>6, <1>8, <2>1, <2>2, <2>3, <2>4, <2>5, BlockedReceive
        DEF p, r, pp, rr
<1>9. \A i \in Ports, c \in Classes :
        i # in => /\ frames'[i] = frames[i] /\ paused'[i][c] = paused[i][c]
                  /\ resumeEvt'[i][c] = resumeEvt[i][c]
  BY <1>4
<1>10. UNCHANGED <<usedIngressPG, dynamicth, recheckEvt, event, wire, sent>>
  BY <1>3
<1>11. \A q \in Queues, c \in Int, d \in Int :
         /\ Blocked(frames[in], paused[in][q], resumeEvt[in][q], c, q, d)
         /\ c <= RecheckDelay
         => Blocked(frames'[in], paused'[in][q], resumeEvt'[in][q], c, q, d)
  BY <1>4, <1>8
<1> HIDE DEF f, s, t
<1> QED BY <1>7, <1>9, <1>10, <1>11, ContainedAt

LEMMA ContainedFinish ==
  ASSUME OverInv, NEW in \in Ports, NEW c \in Classes, PauseFinish(in, c)
  PROVE  LinksInOrder' /\ OverIsContained'
<1>1. /\ resumeEvt[in][c] = 0
      /\ paused' = [paused EXCEPT ![in][c] = FALSE]
      /\ resumeEvt' = [resumeEvt EXCEPT ![in][c] = Off]
      /\ UNCHANGED <<usedIngressPG, dynamicth, recheckEvt, event, wire, sent, frames>>
  BY DEF PauseFinish, switchVars, mmuVars, ingressVars
<1>2. \A i \in Ports, q \in Classes :
        IF i = in /\ q = c THEN ~paused'[i][q] /\ resumeEvt'[i][q] = Off
        ELSE /\ paused'[i][q] = paused[i][q]
             /\ resumeEvt'[i][q] = resumeEvt[i][q]
  BY <1>1 DEF OverInv, FlowInv, FlowTypes
<1>3. FramesInOrder(frames'[in]) BY <1>1 DEF OverInv, LinksInOrder
<1>4. ASSUME NEW q \in Queues, NEW k \in Int, NEW d \in Int,
             Blocked(frames[in], paused[in][q], resumeEvt[in][q], k, q, d)
      PROVE  Blocked(frames'[in], paused'[in][q], resumeEvt'[in][q], k, q, d)
  <2>1. q \in Classes BY DEF Classes
  <2>2. CASE q = c
    <3>1. frames[in] \in Seq(PfcFrame) /\ paused[in][q] \in BOOLEAN
      BY FlowFacts DEF OverInv
    <3>2. Blocked(frames[in], FALSE, Off, k, q, d)
      BY <1>1, <1>4, <2>2, <3>1, BlockedFinish
    <3>3. paused'[in][q] = FALSE /\ resumeEvt'[in][q] = Off
      <4>1. paused' \in [Ports -> [Classes -> BOOLEAN]]
        BY <1>1 DEF OverInv, FlowInv, FlowTypes
      <4> QED BY <1>2, <2>1, <2>2, <4>1
    <3> QED BY <1>1, <3>2, <3>3
  <2>3. CASE q # c BY <1>1, <1>2, <1>4, <2>1, <2>3
  <2> QED BY <2>2, <2>3
<1>5. \A i \in Ports, q \in Classes :
        i # in => /\ frames'[i] = frames[i] /\ paused'[i][q] = paused[i][q]
                  /\ resumeEvt'[i][q] = resumeEvt[i][q]
  BY <1>1, <1>2
<1>6. UNCHANGED <<usedIngressPG, dynamicth, recheckEvt, event, wire, sent>>
  BY <1>1
<1> QED BY <1>3, <1>4, <1>5, <1>6, ContainedAt

LEMMA ContainedTick ==
  ASSUME OverInv, Tick
  PROVE  LinksInOrder' /\ OverIsContained'
<1>1. /\ NothingDue /\ event = Idle
      /\ wire' = [i \in Ports |-> Travelled(wire[i])]
      /\ frames' = [i \in Ports |-> Travelled(frames[i])]
      /\ resumeEvt' =
           [i \in Ports |-> [c \in Classes |-> Elapsed(resumeEvt[i][c])]]
      /\ recheckEvt' = [o \in Ports |-> [i \in Ports |-> [q \in Queues |->
                          Elapsed(recheckEvt[o][i][q])]]]
      /\ sent' = [i \in Ports |-> FALSE]
      /\ UNCHANGED <<usedIngressPG, dynamicth, paused>>
  BY DEF Tick, mmuVars, ingressVars
<1>2. ASSUME NEW i \in Ports
      PROVE  /\ InOrder(wire'[i], FALSE)
             /\ \A pg \in Nat, q \in Queues, d \in Int :
                  Room(wire[i], sent[i], pg, q, d)
                    => Room(wire'[i], FALSE, pg, q, d - 1)
             /\ FramesInOrder(frames'[i])
             /\ \A p \in BOOLEAN, r \in Int, c \in Int, q \in Queues, d \in Int :
                  Blocked(frames[i], p, r, c, q, d) /\ c # 0 =>
                    Blocked(frames'[i], p, Elapsed(r), Elapsed(c), q, d - 1)
  <2>1. /\ wire[i] \in Seq(WirePacket) /\ sent[i] \in BOOLEAN
        /\ frames[i] \in Seq(PfcFrame)
        /\ InOrder(wire[i], sent[i]) /\ FramesInOrder(frames[i])
    BY FlowFacts DEF OverInv, LinksInOrder
  <2>2. /\ wire[i] # <<>> => Head(wire[i]).due > 0
        /\ frames[i] # <<>> => Head(frames[i]).due > 0
    BY <1>1 DEF NothingDue
  <2>3. wire'[i] = Travelled(wire[i]) /\ frames'[i] = Travelled(frames[i])
    BY <1>1
  <2>4. /\ InOrder(Travelled(wire[i]), FALSE)
        /\ \A pg \in Nat, q \in Queues, d \in Int :
             Room(wire[i], sent[i], pg, q, d)
               => Room(Travelled(wire[i]), FALSE, pg, q, d - 1)
    BY <2>1, <2>2, WireTick
  <2>5. /\ FramesInOrder(Travelled(frames[i]))
        /\ \A p \in BOOLEAN, r \in Int, c \in Int, q \in Queues, d \in Int :
             Blocked(frames[i], p, r, c, q, d) /\ c # 0 =>
               Blocked(Travelled(frames[i]), p, Elapsed(r), Elapsed(c), q, d - 1)
    BY <2>1, <2>2, BlockedTick
  <2> QED BY <2>3, <2>4, <2>5
<1>3. \A i \in Ports : sent'[i] = FALSE BY <1>1
<1>4. LinksInOrder' BY <1>2, <1>3 DEF LinksInOrder
<1>5. ASSUME NEW i \in Ports, NEW q \in Queues, Over(i, q)'
      PROVE  Contained(i, q)'
  <2>1. Over(i, q) BY <1>1, <1>5 DEF Over
  <2>2. ~Checking(i, q) BY <1>1 DEF Checking, Idle
  <2>3. PICK o \in Ports, d \in Int :
          /\ Blocked(frames[i], paused[i][q], resumeEvt[i][q],
                     recheckEvt[o][i][q], q, d)
          /\ Room(wire[i], sent[i], usedIngressPG[i][q], q, d)
    BY <2>1, <2>2 DEF OverInv, OverIsContained, Contained
  <2>4. /\ paused[i][q] \in BOOLEAN /\ resumeEvt[i][q] \in Int
        /\ usedIngressPG[i][q] \in Nat /\ recheckEvt[o][i][q] \in Int
    BY FlowFacts DEF OverInv
  <2>5. recheckEvt[o][i][q] # 0 BY <1>1 DEF NothingDue
  <2>6. q \in Classes BY DEF Classes
  <2>7. /\ resumeEvt'[i][q] = Elapsed(resumeEvt[i][q])
        /\ recheckEvt'[o][i][q] = Elapsed(recheckEvt[o][i][q])
        /\ paused'[i][q] = paused[i][q]
        /\ usedIngressPG'[i][q] = usedIngressPG[i][q]
    BY <1>1, <2>6
  <2>8. Blocked(frames'[i], paused[i][q], Elapsed(resumeEvt[i][q]),
                Elapsed(recheckEvt[o][i][q]), q, d - 1)
    <3> DEFINE p == paused[i][q]
               r == resumeEvt[i][q]
               c == recheckEvt[o][i][q]
               f == frames[i]
    <3>1. /\ p \in BOOLEAN /\ r \in Int /\ c \in Int /\ c # 0
          /\ Blocked(f, p, r, c, q, d)
      BY <2>3, <2>4, <2>5
    <3>2. \A pp \in BOOLEAN, rr \in Int, cc \in Int, k \in Queues, e \in Int :
            Blocked(f, pp, rr, cc, k, e) /\ cc # 0 =>
              Blocked(frames'[i], pp, Elapsed(rr), Elapsed(cc), k, e - 1)
      BY <1>2
    <3> HIDE DEF p, r, c, f
    <3>3. Blocked(frames'[i], p, Elapsed(r), Elapsed(c), q, d - 1)
      BY <3>1, <3>2
    <3> QED BY <3>3 DEF p, r, c
  <2>9. Room(wire'[i], FALSE, usedIngressPG[i][q], q, d - 1)
    BY <1>2, <2>3, <2>4
  <2>10. d - 1 \in Int OBVIOUS
  <2> QED BY <1>3, <2>7, <2>8, <2>9, <2>10 DEF Contained
<1> QED BY <1>4, <1>5 DEF OverIsContained

\* A peer sends only what is not paused: it arrives before the class is over
\* its limit for so long that the frame should have come.
LEMMA ContainedPeerSend ==
  ASSUME OverInv, NEW in \in Ports, NEW out \in Ports, NEW q \in Queues,
         NEW size \in Sizes, PeerSend(in, out, q, size)
  PROVE  LinksInOrder' /\ OverIsContained'
<1> DEFINE p == [out |-> out, q |-> q, size |-> size, due |-> DataDelay]
<1>1. /\ event = Idle /\ ~sent[in] /\ ~paused[in][q]
      /\ sent' = [sent EXCEPT ![in] = TRUE]
      /\ wire' = [wire EXCEPT ![in] = Append(@, p)]
      /\ UNCHANGED <<usedIngressPG, dynamicth, frames, recheckEvt, paused,
                     resumeEvt>>
  BY DEF PeerSend, switchVars, mmuVars, ingressVars
<1>2. p \in WirePacket /\ p.due = DataDelay /\ p.q = q
  BY PfcAssumption DEF WirePacket
<1> HIDE DEF p
<1>3. /\ wire'[in] = Append(wire[in], p) /\ sent'[in] = TRUE
      /\ sent[in] = FALSE
      /\ \A i \in Ports : i # in => wire'[i] = wire[i] /\ sent'[i] = sent[i]
  BY <1>1 DEF OverInv, FlowInv, FlowTypes
<1>4. wire[in] \in Seq(WirePacket) /\ InOrder(wire[in], FALSE)
  BY <1>3, FlowFacts DEF OverInv, LinksInOrder
<1>5. /\ InOrder(wire'[in], TRUE)
      /\ \A pg \in Nat, r \in Queues, d \in Int :
           Room(wire[in], FALSE, pg, r, d) /\ (q = r => DataDelay <= d)
             => Room(wire'[in], TRUE, pg, r, d)
  <2>1. /\ InOrder(Append(wire[in], p), TRUE)
        /\ \A pg \in Nat, r \in Queues, d \in Int :
             Room(wire[in], FALSE, pg, r, d) /\ (p.q = r => DataDelay <= d)
               => Room(Append(wire[in], p), TRUE, pg, r, d)
    BY <1>2, <1>4, WireAppend
  <2> QED BY <1>2, <1>3, <2>1
<1>6. LinksInOrder' BY <1>1, <1>3, <1>5 DEF OverInv, LinksInOrder
<1>7. ASSUME NEW i \in Ports, NEW r \in Queues, Over(i, r)'
      PROVE  Contained(i, r)'
  <2>1. Over(i, r) BY <1>1, <1>7 DEF Over
  <2>2. ~Checking(i, r) BY <1>1 DEF Checking, Idle
  <2>3. PICK o \in Ports, d \in Int :
          /\ Blocked(frames[i], paused[i][r], resumeEvt[i][r],
                     recheckEvt[o][i][r], r, d)
          /\ Room(wire[i], sent[i], usedIngressPG[i][r], r, d)
    BY <2>1, <2>2 DEF OverInv, OverIsContained, Contained
  <2>4. Room(wire'[i], sent'[i], usedIngressPG[i][r], r, d)
    <3>1. CASE i # in BY <1>3, <2>3, <3>1
    <3>2. CASE i = in
      <4>1. q = r => DataDelay <= d
        <5>1. SUFFICES ASSUME q = r PROVE DataDelay <= d OBVIOUS
        <5>2. PICK k : Arriving(frames[i], r, k) /\ frames[i][k].due + DataDelay <= d
          BY <1>1, <2>3, <3>2, <5>1 DEF Blocked
        <5>3. frames[i][k].due \in 0 .. FrameDelay /\ DataDelay \in Nat
          BY <5>2, FlowFacts, FrameFacts, PfcAssumption DEF OverInv, Arriving
        <5> QED BY <5>2, <5>3
      <4>2. usedIngressPG[i][r] \in Nat BY FlowFacts DEF OverInv
      <4> QED BY <1>3, <1>5, <2>3, <3>2, <4>1, <4>2
    <3> QED BY <3>1, <3>2
  <2> QED BY <1>1, <2>3, <2>4 DEF Contained
<1> QED BY <1>6, <1>7 DEF OverIsContained

LEMMA OverInit == Init => OverInv
<1>1. SUFFICES ASSUME Init PROVE OverInv OBVIOUS
<1>2. FlowInv BY <1>1, FlowInit
<1>3. DOMAIN <<>> = {} OBVIOUS
<1>4. LinksInOrder BY <1>1, <1>3 DEF Init, LinksInOrder, InOrder, FramesInOrder
<1>5. OverIsContained
  <2>1. \A i \in Ports, q \in Queues : usedIngressPG[i][q] = 0
    BY <1>1 DEF Init, BufferInit
  <2>2. \A i \in Ports, q \in Queues : ~(usedIngressPG[i][q] > PgSharedLimit)
    BY <2>1, PfcAssumption
  <2> QED BY <2>2 DEF OverIsContained, Over
<1> QED BY <1>2, <1>4, <1>5 DEF OverInv

LEMMA OverStep ==
  ASSUME FramesInTime, OverInv, [Next]_vars
  PROVE  OverInv'
<1>1. FlowInv /\ FlowInv' /\ FlowTypes'
  BY FlowStep DEF OverInv, FlowInv
<1> DEFINE G == LinksInOrder' /\ OverIsContained'
<1>2. SendChecks => G
  <2>1. SUFFICES ASSUME SendChecks PROVE G OBVIOUS
  <2>2. event \in Sending BY <1>1, <2>1, TypesChecks DEF FlowInv
  <2>3. event.out \in Ports /\ event.in \in Ports /\ event.q \in Queues
    BY <2>2 DEF Sending
  <2>4. /\ CheckQueueFull(event.out, event.in, event.q,
                          recheckEvt[event.out][event.in][event.q])
        /\ UNCHANGED <<mmuVars, dynamicth, paused, resumeEvt, wire, sent>>
    BY <2>1 DEF SendChecks, peerVars
  <2>5. \A i \in Ports, r \in Queues :
          (i # event.in \/ r # event.q) /\ Checking(i, r) => Checking(i, r)'
    BY DEF Checking
  <2> QED BY <1>1, <2>3, <2>4, <2>5, ContainedCheck
<1>3. Tick => G BY ContainedTick
<1>4. ASSUME NEW in \in Ports,
             \/ Send(in) \/ ReceiveFrame(in)
             \/ \E c \in Classes : PauseFinish(in, c)
      PROVE  G
  BY <1>4, ContainedSend, ContainedReceive, ContainedFinish
<1>5. ASSUME NEW out \in Ports, NEW q \in Queues,
             DequeueAndTransmit(out, q) \/ UNCHANGED mmuVars,
             UNCHANGED <<dynamicth, frames, recheckEvt, paused, resumeEvt, wire,
                         sent>>,
             \A i \in Ports, r \in Queues : Checking(i, r) => Checking(i, r)'
      PROVE  G
  BY <1>1, <1>5, ServeLess, ContainedLess DEF FlowInv
<1>6. ASSUME NEW out \in Ports, NEW q \in Queues, Transmit(out, q)
      PROVE  G
  <2>1. /\ DequeueAndTransmit(out, q)
        /\ UNCHANGED <<dynamicth, frames, recheckEvt, paused, resumeEvt, wire,
                       sent, event>>
    BY <1>6 DEF Transmit, switchVars, peerVars
  <2>2. \A i \in Ports, r \in Queues : Checking(i, r) => Checking(i, r)'
    BY <2>1 DEF Checking
  <2> QED BY <1>5, <2>1, <2>2
<1>7. ASSUME NEW out \in Ports, NEW q \in Queues, NEW ok,
             SendTransmits(out, q, ok)
      PROVE  G
  <2>1. /\ DequeueAndTransmit(out, q) \/ UNCHANGED mmuVars
        /\ UNCHANGED <<dynamicth, frames, recheckEvt, paused, resumeEvt, wire,
                       sent>>
    BY <1>7 DEF SendTransmits, peerVars
  <2>2. event' \in Sending /\ event'.in = event.in /\ event'.q = event.q
    BY <1>1, <1>7, TypesTransmits DEF FlowInv
  <2>3. event'.step # "none" BY <2>2 DEF Sending
  <2>4. \A i \in Ports, r \in Queues : Checking(i, r) => Checking(i, r)'
    BY <2>2, <2>3 DEF Checking
  <2> QED BY <1>5, <2>1, <2>4
<1>8. ASSUME NEW out \in Ports, NEW in \in Ports, NEW q \in Queues,
             Recheck(out, in, q)
      PROVE  G
  <2>1. /\ CheckQueueFull(out, in, q, Off)
        /\ UNCHANGED <<mmuVars, dynamicth, event, paused, resumeEvt, wire, sent>>
    BY <1>8 DEF Recheck, peerVars
  <2>2. \A i \in Ports, r \in Queues : Checking(i, r) => Checking(i, r)'
    BY <2>1 DEF Checking
  <2> QED BY <1>1, <2>1, <2>2, ContainedCheck
<1>9. ASSUME NEW in \in Sources, NEW out \in Destinations, NEW q \in Queues,
             NEW size \in Sizes, PeerSend(in, out, q, size)
      PROVE  G
  <2>1. in \in Ports /\ out \in Ports BY PfcAssumption
  <2> QED BY <1>9, <2>1, ContainedPeerSend
<1>10. UNCHANGED vars => G
  <2>1. SUFFICES ASSUME UNCHANGED vars PROVE G OBVIOUS
  <2>2. UNCHANGED <<mmuVars, dynamicth, frames, recheckEvt, paused, resumeEvt,
                    wire, sent, event>>
    BY <2>1 DEF vars, switchVars, peerVars
  <2>3. \A i \in Ports, q \in Queues :
          /\ usedIngressPG'[i][q] \in Nat
          /\ usedIngressPG'[i][q] <= usedIngressPG[i][q]
    BY <1>1, <2>2, CountersAreNumbers DEF FlowInv, mmuVars, ingressVars
  <2>4. \A i \in Ports, r \in Queues : Checking(i, r) => Checking(i, r)'
    BY <2>2 DEF Checking
  <2> QED BY <2>2, <2>3, <2>4, ContainedLess
<1> HIDE DEF G
<1>11. ASSUME NEW out \in Ports, NEW q \in Queues,
              \/ Serve(out, q) \/ SendTransmits(out, q, FALSE)
              \/ \E in \in Ports : Recheck(out, in, q)
       PROVE  G
  BY <1>6, <1>7, <1>8, <1>11 DEF Serve
<1>12. G BY <1>2, <1>3, <1>4, <1>9, <1>10, <1>11 DEF Next
<1> QED BY <1>1, <1>12 DEF OverInv, G

\* What the invariant says of a group: it is within its limit, or what it
\* holds is bounded.
LEMMA HeldAtMost ==
  ASSUME OverInv, ~dynamicth, NEW i \in Ports, NEW q \in Queues \ Exempt
  PROVE  usedIngressPG[i][q] \in Nat /\ usedIngressPG[i][q] <= MostHeld
<1>1. usedIngressPG[i][q] \in Nat BY FlowFacts DEF OverInv
<1>2. CASE Over(i, q) BY <1>1, <1>2 DEF OverInv, OverIsContained, Contained, Room
<1>3. CASE ~Over(i, q)
  <2>1. ~(usedIngressPG[i][q] > PgSharedLimit) BY <1>3 DEF Over
  <2> QED BY <1>1, <2>1, MostHeldType, ConstantFacts
<1> QED BY <1>2, <1>3

\* With static thresholds no class under flow control exceeds its limit by
\* more than the packet that crosses it and what arrives until a frame has
\* reached the peer, for any ports, thresholds, delays and packets, and
\* however often its pause is renewed (broadcom-node.cc:289,
\* qbb-net-device.cc:1111).
THEOREM OverrunIsBounded == ASSUME FramesInTime PROVE Spec => []OverrunBounded
<1>1. Init => OverInv BY OverInit
<1>2. OverInv /\ [Next]_vars => OverInv' BY OverStep
<1>3. OverInv => OverrunBounded
  <2>1. SUFFICES ASSUME OverInv, NEW i \in Ports, NEW q \in Queues \ Exempt,
                        ~dynamicth
                 PROVE  \E s \in Sizes : usedIngressPG[i][q]
                          <= PgSharedLimit + (DataDelay + FrameDelay + 1) * s
    BY DEF OverrunBounded
  <2>2. usedIngressPG[i][q] <= MostHeld BY <2>1, HeldAtMost
  <2> QED BY <2>2, ConstantFacts DEF MostHeld
<1> QED BY <1>1, <1>2, <1>3, PTL DEF Spec

---------------------------------------------------------------------------
(* No packet is lost.                                                      *)

\* The buffer as the sum over the priority groups.
PoolInv == usedTotal = Total(usedIngressPG, Ports, Queues)

LEMMA GroupsAreAmounts ==
  ASSUME MmuInv
  PROVE  usedIngressPG \in Amounts
<1>1. usedIngressPG \in [Ports -> [Queues -> 0 .. MaxBuffer]]
  BY IngressBounds DEF MmuInv
<1>2. 0 .. MaxBuffer \subseteq Nat OBVIOUS
<1> HIDE DEF Amounts
<1>3. \A i \in Ports : usedIngressPG[i] \in [Queues -> Nat] BY <1>1, <1>2
<1> QED BY <1>1, <1>3 DEF Amounts

LEMMA PoolStep ==
  ASSUME MmuInv, PoolInv, [BufferNext]_mmuVars
  PROVE  PoolInv'
<1> DEFINE a == usedIngressPG
<1>1. a \in Amounts /\ \A i \in Ports, q \in Queues : a[i][q] \in Nat
  BY GroupsAreAmounts DEF Amounts
<1>2. usedTotal = Total(a, Ports, Queues) /\ Total(a, Ports, Queues) \in Nat
  BY <1>1, CellsType DEF PoolInv
<1>3. ASSUME NEW in \in Ports, NEW q \in Queues, NEW v \in Nat,
             usedIngressPG' = [a EXCEPT ![in][q] = v],
             usedTotal' = usedTotal + (v - a[in][q])
      PROVE  PoolInv'
  <2> HIDE DEF a
  <2> DEFINE P == Ports
             Q == Queues
  <2>0. a \in Amounts /\ P \subseteq Ports /\ Q \subseteq Queues BY <1>1
  <2> HIDE DEF P, Q
  <2>1. Total([a EXCEPT ![in][q] = v], P, Q) =
          IF in \in P /\ q \in Q THEN Total(a, P, Q) + (v - a[in][q])
          ELSE Total(a, P, Q)
    BY <2>0, TotalChange
  <2> USE DEF P, Q
  <2> QED BY <1>2, <1>3, <2>1 DEF PoolInv
<1>4. ASSUME NEW out \in Ports, NEW q \in Queues, NEW in \in Ports,
             NEW size \in Sizes, Admit(in, out, q, size)
      PROVE  PoolInv'
  <2> DEFINE v == a[in][q] + size
  <2>1. /\ usedTotal' = usedTotal + size
        /\ usedIngressPG' = [a EXCEPT ![in][q] = v]
    BY <1>4, AdmitAdds DEF Admit
  <2>2. v \in Nat /\ v - a[in][q] = size
    <3>1. size \in Nat /\ a[in][q] \in Nat BY <1>1, ConstantFacts
    <3> HIDE DEF a
    <3> QED BY <3>1
  <2> HIDE DEF v, a
  <2> QED BY <1>3, <2>1, <2>2 DEF a
<1>5. ASSUME NEW out \in Ports, NEW q \in Queues, DequeueAndTransmit(out, q)
      PROVE  PoolInv'
  <2>1. PICK in \in Ports, size \in Nat :
          /\ size <= a[in][q] /\ usedTotal' = usedTotal - size
          /\ usedIngressPG' = [a EXCEPT ![in][q] = @ - size]
    BY <1>5, MmuTransmit
  <2> DEFINE v == a[in][q] - size
  <2>2. usedIngressPG' = [a EXCEPT ![in][q] = v] BY <2>1
  <2>3. v \in Nat /\ usedTotal' = usedTotal + (v - a[in][q])
    <3>1. a[in][q] \in Nat /\ usedTotal \in Nat BY <1>1, <1>2
    <3> HIDE DEF a
    <3> QED BY <2>1, <3>1
  <2> HIDE DEF v, a
  <2> QED BY <1>3, <2>2, <2>3 DEF a
<1>6. CASE UNCHANGED mmuVars BY <1>6 DEF PoolInv, mmuVars, ingressVars
<1> QED BY <1>4, <1>5, <1>6 DEF BufferNext

\* Every class is under flow control, the headroom of a group is not less than
\* what it may hold, and the buffer has that for each group (and, for the
\* errors of the egress counters, a packet more).
EnoughRoom ==
  /\ Queues \cap Exempt = {}
  /\ MostHeld <= HeadroomLimit
  /\ Cardinality(Ports \X Queues) * (MostHeld + MaxSize) <= MaxBuffer

\* The packet that comes in has room in its group.
LEMMA SentFits ==
  ASSUME OverInv, ~dynamicth, NEW in \in Ports, event = Idle,
         wire[in] # <<>>, Head(wire[in]).due = 0,
         Head(wire[in]).q \in Queues \ Exempt, Head(wire[in]).size \in Sizes
  PROVE  usedIngressPG[in][Head(wire[in]).q] + Head(wire[in]).size <= MostHeld
<1> DEFINE p == Head(wire[in])
           pg == usedIngressPG[in][p.q]
<1>1. pg \in Nat BY FlowFacts DEF OverInv
<1>2. /\ wire[in] \in Seq(WirePacket) /\ sent[in] \in BOOLEAN
      /\ InOrder(wire[in], sent[in])
  BY FlowFacts DEF OverInv, LinksInOrder
<1>3. CASE Over(in, p.q)
  <2>1. ~Checking(in, p.q) BY DEF Checking, Idle
  <2>2. PICK d \in Int : Room(wire[in], sent[in], pg, p.q, d)
    BY <1>3, <2>1 DEF OverInv, OverIsContained, Contained
  <2>3. \A b \in Nat, q \in Queues, d2 \in Int :
          Room(wire[in], sent[in], b, q, d2) /\ p.q = q => b + p.size <= MostHeld
    BY <1>2, WirePop
  <2> HIDE DEF pg, p
  <2>4. pg + p.size <= MostHeld BY <1>1, <2>2, <2>3 DEF p
  <2> QED BY <2>4 DEF pg, p
<1>4. CASE ~Over(in, p.q)
  <2>1. ~(pg > PgSharedLimit) BY <1>4 DEF Over
  <2>2. p.size \in Nat /\ p.size <= MaxSize /\ MaxSize \in Nat
    BY ConstantFacts
  <2> HIDE DEF pg, p
  <2>3. pg + p.size <= MostHeld BY <1>1, <2>1, <2>2, MostHeldType
  <2> QED BY <2>3 DEF pg, p
<1> QED BY <1>3, <1>4

\* So has the whole buffer.
LEMMA SentAdmitted ==
  ASSUME EnoughRoom, OverInv, PoolInv, ~dynamicth, NEW in \in Ports,
         NEW out \in Ports, NEW q \in Queues, NEW size \in Sizes,
         usedIngressPG[in][q] + size <= MostHeld
  PROVE  CheckIngressAdmission(in, q, size) /\ CheckEgressAdmission(out, q, size)
<1> DEFINE a == usedIngressPG
           v == a[in][q] + size
           b == [a EXCEPT ![in][q] = v]
           zero == [i \in Ports |-> [r \in Queues |-> 0]]
           n == Cardinality(Ports \X Queues)
<1>1. MmuInv /\ IngressInv /\ EgressInv BY DEF OverInv, FlowInv, MmuInv
<1>2. a \in Amounts /\ a[in][q] \in Nat BY <1>1, GroupsAreAmounts DEF Amounts
<1>3. /\ size \in Nat /\ size <= MaxSize /\ MaxSize \in Nat /\ MaxBuffer \in Nat
      /\ Word \in Nat /\ AllErrors \in Nat /\ MaxBuffer + MaxSize < Word
  <2>1. /\ size \in Nat /\ size <= MaxSize /\ MaxSize \in Nat /\ MaxBuffer \in Nat
        /\ Word \in Nat /\ Cell \in Nat /\ AllErrors \in Nat
        /\ MaxBuffer + Cell + 2 * MaxSize + AllErrors < Word
    BY ConstantFacts
  <2> QED BY <2>1
<1>4. MostHeld \in Nat BY MostHeldType
<1>5. \A i \in Ports, r \in Queues : a[i][r] <= MostHeld
  BY HeldAtMost DEF EnoughRoom
<1>6. v \in Nat /\ v - a[in][q] = size
  <2> HIDE DEF a
  <2> QED BY <1>2, <1>3
<1>7. v <= MostHeld OBVIOUS
<1> HIDE DEF a, v
<1>8. b \in Amounts /\ zero \in Amounts BY <1>2, <1>6 DEF Amounts
<1>9. \A i \in Ports, r \in Queues : b[i][r] <= zero[i][r] + MostHeld
  <2> TAKE i \in Ports, r \in Queues
  <2>1. b[i][r] = IF i = in /\ r = q THEN v ELSE a[i][r] BY <1>2 DEF Amounts
  <2>2. b[i][r] <= MostHeld BY <1>5, <1>7, <2>1
  <2>3. zero[i][r] + MostHeld = MostHeld BY <1>4
  <2> QED BY <2>2, <2>3
<1>10. Total(b, Ports, Queues) = usedTotal + size
  <2> DEFINE P == Ports
             Q == Queues
  <2>1. P \subseteq Ports /\ Q \subseteq Queues OBVIOUS
  <2> HIDE DEF P, Q
  <2>2. Total([a EXCEPT ![in][q] = v], P, Q) =
          IF in \in P /\ q \in Q THEN Total(a, P, Q) + (v - a[in][q])
          ELSE Total(a, P, Q)
    BY <1>2, <1>6, <2>1, TotalChange
  <2> USE DEF P, Q
  <2>3. usedTotal = Total(a, Ports, Queues) BY DEF PoolInv, a
  <2> QED BY <1>6, <2>2, <2>3
<1>11. Total(b, Ports, Queues) <= n * MostHeld
  <2> DEFINE P == Ports
             Q == Queues
  <2>1. P \subseteq Ports /\ Q \subseteq Queues OBVIOUS
  <2>2. \A i \in Ports, r \in Queues : zero[i][r] = 0 OBVIOUS
  <2> HIDE DEF P, Q, b, zero, n
  <2>3. Total(b, P, Q) <= Total(zero, Ports, Queues) + n * MostHeld
    BY <1>4, <1>8, <1>9, <2>1, TotalError DEF n
  <2>4. Total(zero, P, Q) = 0 BY <1>8, <2>1, <2>2, TotalNone
  <2>5. n * MostHeld \in Int
    <3>1. IsFiniteSet(Ports \X Queues) BY FS_Product, MmuAssumption
    <3>2. n \in Nat BY <3>1, FS_CardinalityType DEF n
    <3> QED BY <1>4, <3>2
  <2> USE DEF P, Q
  <2> DEFINE x == n * MostHeld
  <2>6. Total(b, Ports, Queues) <= 0 + x /\ x \in Int BY <2>3, <2>4, <2>5
  <2> HIDE DEF x
  <2>7. Total(b, Ports, Queues) <= x BY <2>6
  <2> QED BY <2>7 DEF x
<1> HIDE DEF b, zero
<1>12. usedTotal \in Nat /\ usedTotal + size + AllErrors <= MaxBuffer
  <2>1. usedTotal \in Nat
    <3>1. usedTotal \in 0 .. MaxBuffer BY <1>1, IngressBounds
    <3> QED BY <3>1
  <2>2. IsFiniteSet(Ports \X Queues) BY FS_Product, MmuAssumption
  <2>3. n \in Nat BY <2>2, FS_CardinalityType
  <2> DEFINE M == MostHeld
             m == MaxSize
  <2>4. usedTotal + size <= n * M BY <1>10, <1>11
  <2>5. n * (M + m) <= MaxBuffer BY DEF EnoughRoom
  <2>6. AllErrors = n * m BY DEF AllErrors
  <2>7. M \in Nat /\ m \in Nat BY <1>3, <1>4
  <2> HIDE DEF n, M, m
  <2>8. n * (M + m) = n * M + n * m /\ n * M \in Nat /\ n * m \in Nat
    BY <2>3, <2>7
  <2>9. usedTotal + size + AllErrors <= MaxBuffer
    BY <1>3, <2>1, <2>4, <2>5, <2>6, <2>8
  <2> QED BY <2>1, <2>9
<1>13. CheckIngressAdmission(in, q, size)
  <2>1. usedTotal + size <= MaxBuffer BY <1>3, <1>12
  <2>2. Add(usedTotal, size) = usedTotal + size
    BY <1>3, <1>12, <2>1, AddSmall
  <2> DEFINE h == headroom[in][q]
  <2>3. h \in Nat /\ h <= MaxBuffer /\ h <= a[in][q]
    <3>1. headroom \in [Ports -> [Queues -> 0 .. MaxBuffer]]
      BY <1>1, IngressBounds
    <3>2. h \in 0 .. MaxBuffer BY <3>1
    <3>3. h <= a[in][q] BY <1>1 DEF IngressInv, HeadroomWithinPG, a
    <3> QED BY <3>2, <3>3
  <2> HIDE DEF h
  <2>4. Add(h, size) = h + size BY <1>3, <2>3, AddSmall
  <2>5. h + size <= HeadroomLimit
    <3>1. HeadroomLimit \in Nat /\ MostHeld <= HeadroomLimit
      BY MmuAssumption DEF EnoughRoom
    <3>2. a[in][q] + size <= MostHeld BY <1>7 DEF v
    <3> QED BY <1>2, <1>3, <1>4, <2>3, <3>1, <3>2
  <2> QED BY <2>1, <2>2, <2>4, <2>5 DEF CheckIngressAdmission, h
<1>14. CheckEgressAdmission(out, q, size)
  <2> DEFINE x == Total(qShared, {out}, Queues)
             y == qShared[out][q]
             held == HeldOf(queue, Ports)
  <2>1. /\ held \in Amounts /\ qShared \in Amounts
        /\ Total(held, Ports, Queues) = usedTotal
        /\ usedEgressPort[out] = x
    BY <1>1, HeldType DEF IngressInv, EgressInv, EgressCounts, IngressCounts, Stored
  <2>2. \A o \in Ports, r \in Queues : qShared[o][r] <= held[o][r] + MaxSize
    <3> TAKE o \in Ports, r \in Queues
    <3>1. Split(Egress(o, r), held[o][r]) BY <1>1 DEF EgressInv
    <3> HIDE DEF held
    <3>2. qShared[o][r] < held[o][r] + MaxSize BY <3>1 DEF Split, Egress
    <3>3. qShared[o][r] \in Nat /\ held[o][r] \in Nat BY <2>1 DEF Amounts
    <3> QED BY <1>3, <3>2, <3>3
  <2> DEFINE P == {out}
             Q == Queues
  <2>3. P \subseteq Ports /\ Q \subseteq Queues /\ out \in P /\ q \in Q OBVIOUS
  <2> HIDE DEF P, Q, held
  <2>4. /\ Total(qShared, P, Q) <=
             Total(held, Ports, Queues) + Cardinality(Ports \X Queues) * MaxSize
        /\ qShared[out][q] <= Total(qShared, P, Q)
        /\ Total(qShared, P, Q) \in Nat
    BY <1>3, <2>1, <2>2, <2>3, TotalError, TotalTerm, CellsType
  <2>5. /\ x <= usedTotal + AllErrors /\ x \in Nat /\ y <= x /\ y \in Nat
    BY <2>1, <2>4 DEF AllErrors, P, Q, Amounts
  <2> HIDE DEF x, y
  <2>6. x + size <= MaxBuffer /\ y + size <= MaxBuffer
    BY <1>3, <1>12, <2>5
  <2>7. Add(x, size) = x + size BY <1>3, <2>5, <2>6, AddSmall
  <2>8. Add(y, size) = y + size BY <1>3, <2>5, <2>6, AddSmall
  <2> QED BY <2>1, <2>6, <2>7, <2>8 DEF CheckEgressAdmission, x, y
<1> QED BY <1>13, <1>14

LossInv == OverInv /\ PoolInv /\ NoLoss

LEMMA LossStep ==
  ASSUME FramesInTime, EnoughRoom, LossInv, [Next]_vars
  PROVE  LossInv'
<1>1. OverInv' BY OverStep DEF LossInv
<1>2. FlowInv /\ MmuInv /\ FlowTypes BY DEF LossInv, OverInv, FlowInv
<1>3. PoolInv' BY <1>2, SwitchStep, PoolStep DEF LossInv
<1> DEFINE G == UNCHANGED <<dynamicth, lost>>
<1>4. ASSUME NEW in \in Ports, Send(in) PROVE NoLoss'
  <2> DEFINE p == Head(wire[in])
  <2>1. p \in WirePacket BY <1>2, <1>4, TypesSend
  <2>2. p.out \in Ports /\ p.q \in Queues /\ p.size \in Sizes
    BY <2>1 DEF WirePacket
  <2>3. p.q \in Queues \ Exempt BY <2>2 DEF EnoughRoom
  <2>4. /\ event = Idle /\ wire[in] # <<>> /\ p.due = 0
        /\ dynamicth' = dynamicth
        /\ \/ lost' = lost
           \/ \/ ~CheckIngressAdmission(in, p.q, p.size)
              \/ ~CheckEgressAdmission(p.out, p.q, p.size)
    BY <1>4 DEF Send
  <2>5. ~dynamicth => usedIngressPG[in][p.q] + p.size <= MostHeld
    BY <2>2, <2>3, <2>4, SentFits DEF LossInv
  <2> HIDE DEF p
  <2>6. ~dynamicth => /\ CheckIngressAdmission(in, p.q, p.size)
                      /\ CheckEgressAdmission(p.out, p.q, p.size)
    BY <2>2, <2>5, SentAdmitted DEF LossInv
  <2> QED BY <2>4, <2>6 DEF LossInv, NoLoss
<1>5. SendChecks \/ Tick => G BY DEF SendChecks, Tick
<1>6. ASSUME NEW in, NEW c, ReceiveFrame(in) \/ PauseFinish(in, c) PROVE G
  BY <1>6 DEF ReceiveFrame, PauseFinish, switchVars
<1>7. ASSUME NEW out, NEW q, NEW ok, NEW in,
             \/ Transmit(out, q) \/ SendTransmits(out, q, ok)
             \/ Recheck(out, in, q)
      PROVE  G
  BY <1>7 DEF Transmit, SendTransmits, Recheck, switchVars
<1>8. ASSUME NEW in, NEW out, NEW q, NEW size, PeerSend(in, out, q, size)
      PROVE  G
  BY <1>8 DEF PeerSend, switchVars
<1>9. UNCHANGED vars => G BY DEF vars, switchVars
<1>10. G => NoLoss' BY DEF LossInv, NoLoss
<1> HIDE DEF G
<1>11. NoLoss'
  BY <1>4, <1>5, <1>6, <1>7, <1>8, <1>9, <1>10 DEF Next, Serve
<1> QED BY <1>1, <1>3, <1>11 DEF LossInv

\* With static thresholds and buffers for what every group may hold, no packet
\* of a class under flow control is dropped, whatever the other groups take
\* (broadcom-node.cc:132, qbb-net-device.cc:1111).
THEOREM NothingLost == ASSUME FramesInTime, EnoughRoom PROVE Spec => []NoLoss
<1>1. Init => LossInv
  <2>1. SUFFICES ASSUME Init PROVE LossInv OBVIOUS
  <2>2. OverInv /\ NoLoss BY <2>1, OverInit DEF Init, NoLoss
  <2>3. /\ usedTotal = 0
        /\ \A i \in Ports, q \in Queues : usedIngressPG[i][q] = 0
    BY <2>1 DEF Init, BufferInit
  <2>4. usedIngressPG \in Amounts
    BY <2>2, GroupsAreAmounts DEF OverInv, FlowInv
  <2> DEFINE P == Ports
             Q == Queues
  <2>5. P \subseteq Ports /\ Q \subseteq Queues OBVIOUS
  <2> HIDE DEF P, Q
  <2>6. Total(usedIngressPG, P, Q) = 0 BY <2>3, <2>4, <2>5, TotalNone
  <2> QED BY <2>2, <2>3, <2>6 DEF LossInv, PoolInv, P, Q
<1>2. LossInv /\ [Next]_vars => LossInv' BY LossStep
<1>3. LossInv => NoLoss BY DEF LossInv
<1> QED BY <1>1, <1>2, <1>3, PTL DEF Spec
=============================================================================
