----------------------------- MODULE NumberFacts -----------------------------
(***************************************************************************)
(* Facts about numbers the proofs share: products, quotients and           *)
(* remainders (a window cut into segments, a rate that is halved or cut by *)
(* a share, an unsigned difference), the least number of a set, and sums   *)
(* (the bytes of a queue, the counters of a switch).  The theorems on      *)
(* induction take an operator; here, induction is the least bad number, or *)
(* a smallest bad set.                                                     *)
(***************************************************************************)
EXTENDS Integers, Sequences, Functions, FiniteSetTheorems, TLAPS

\* Multiplication by a positive number keeps the order.
LEMMA MulMono ==
  ASSUME NEW a \in Int, NEW b \in Int, NEW u \in Nat \ {0}
  PROVE  (a <= b => a * u <= b * u) /\ (a * u < b * u => a < b)
OBVIOUS

\* A quotient and its remainder.
LEMMA DivBounds ==
  ASSUME NEW a \in Nat, NEW u \in Nat \ {0}
  PROVE  a \div u \in Nat /\ (a \div u) * u <= a /\ a < (a \div u) * u + u
OBVIOUS

\* The largest whole number of units below a is the quotient.
LEMMA DivLargest ==
  ASSUME NEW a \in Nat, NEW u \in Nat \ {0}, NEW k \in Int, k * u <= a
  PROVE  k <= a \div u
<1> DEFINE q == a \div u
<1>1. q \in Nat /\ a < q * u + u BY DivBounds
<1> HIDE DEF q
<1>2. (q + 1) * u = q * u + u BY <1>1
<1>3. k * u < (q + 1) * u BY <1>1, <1>2
<1>4. k < q + 1 BY <1>1, <1>3, MulMono
<1>5. k <= q BY <1>1, <1>4
<1> QED BY <1>5 DEF q

\* A number within one word of zero, taken modulo the word.
LEMMA ModNear ==
  ASSUME NEW x \in Int, NEW w \in Nat, x < w, -w < x
  PROVE  x % w = IF x < 0 THEN x + w ELSE x
<1> DEFINE q == x \div w
           r == x % w
<1>1. w \in Nat \ {0} OBVIOUS
<1>2. q \in Int /\ r \in 0 .. w - 1 /\ x = q * w + r BY <1>1
<1> HIDE DEF q, r
<1>3. q >= 1 => 1 * w <= q * w BY <1>1, <1>2, MulMono
<1>4. q <= -2 => q * w <= (-2) * w BY <1>1, <1>2, MulMono
<1>5. q = 0 \/ q = -1
  <2>1. q < 1 BY <1>1, <1>2, <1>3
  <2>2. q > -2 BY <1>1, <1>2, <1>4
  <2> QED BY <1>2, <2>1, <2>2
<1>6. r = IF x < 0 THEN x + w ELSE x BY <1>1, <1>2, <1>5
<1> QED BY <1>6 DEF r

\* A remainder is a natural number.
LEMMA ModNat ==
  ASSUME NEW x \in Int, NEW w \in Nat \ {0}
  PROVE  x % w \in Nat /\ x % w < w
OBVIOUS

\* A quotient is at most what its divisor times makes the dividend.
LEMMA DivSmallest ==
  ASSUME NEW a \in Nat, NEW u \in Nat \ {0}, NEW k \in Nat, a <= k * u
  PROVE  a \div u <= k
<1> DEFINE q == a \div u
<1>1. q \in Nat /\ q * u <= a BY DivBounds
<1> HIDE DEF q
<1>2. q * u < (k + 1) * u
  <2>1. (k + 1) * u = k * u + u /\ k * u \in Nat /\ q * u \in Nat BY <1>1
  <2> QED BY <1>1, <2>1
<1>3. q < k + 1 BY <1>1, <1>2, MulMono
<1> QED BY <1>1, <1>3 DEF q

\* A place on a round of n, at most one round ahead.
LEMMA ModRound ==
  ASSUME NEW x \in Nat, NEW n \in Nat \ {0}, x < n + n
  PROVE  x % n = IF x < n THEN x ELSE x - n
<1> DEFINE q == x \div n
           r == x % n
<1>1. q \in Int /\ r \in 0 .. n - 1 /\ x = q * n + r OBVIOUS
<1> HIDE DEF q, r
<1>2. q >= 2 => 2 * n <= q * n BY <1>1, MulMono
<1>3. q <= -1 => q * n <= (-1) * n BY <1>1, MulMono
<1>4. q = 0 \/ q = 1
  <2>1. q < 2 BY <1>1, <1>2
  <2>2. q > -1 BY <1>1, <1>3
  <2> QED BY <1>1, <2>1, <2>2
<1>5. r = IF x < n THEN x ELSE x - n BY <1>1, <1>4
<1> QED BY <1>5 DEF r

---------------------------------------------------------------------------
(* Least elements.                                                         *)

\* Every set of natural numbers has a least one: induction, without an operator.
LEMMA NatLeast ==
  ASSUME NEW T, T \subseteq Nat, T # {}
  PROVE  \E m \in T : \A k \in T : m <= k
<1>1. PICK m \in T : \A k \in T : ~(<<k, m>> \in OpToRel(<, Nat))
  BY NatLessThanWellFounded, WFMin
<1>2. m \in Nat /\ \A k \in T : k \in Nat OBVIOUS
<1>3. \A k \in T : ~(k < m) BY <1>1, <1>2 DEF OpToRel
<1>4. \A k \in T : m <= k BY <1>2, <1>3
<1> QED BY <1>4

\* Induction over finite sets: among the subsets that are bad, one has no bad
\* subset of its own.
LEMMA FiniteMinimal ==
  ASSUME NEW S, IsFiniteSet(S), NEW T, T \subseteq SUBSET S, T # {}
  PROVE  \E m \in T : \A s \in T : s \subseteq m => s = m
<1> DEFINE N == {Cardinality(s) : s \in T}
<1>1. \A s \in T : IsFiniteSet(s) /\ Cardinality(s) \in Nat
  BY FS_Subset, FS_CardinalityType
<1>2. N \subseteq Nat /\ N # {} BY <1>1
<1>3. PICK n \in N : \A k \in N : n <= k BY <1>2, NatLeast
<1>4. PICK m \in T : n = Cardinality(m) BY <1>3
<1>5. ASSUME NEW s \in T, s \subseteq m PROVE s = m
  <2>1. Cardinality(s) \in Nat /\ Cardinality(m) \in Nat BY <1>1
  <2>2. Cardinality(m) <= Cardinality(s) BY <1>3, <1>4
  <2>3. Cardinality(s) <= Cardinality(m) BY <1>1, <1>5, FS_Subset
  <2>4. Cardinality(s) = Cardinality(m) BY <2>1, <2>2, <2>3
  <2> QED BY <1>1, <1>5, <2>4, FS_Subset
<1> QED BY <1>5

---------------------------------------------------------------------------
(* Sums over a finite set, whatever order the terms are added in.          *)

\* The term that is added first.
Pick(s) == CHOOSE x \in s : TRUE

\* g adds up the terms of fun over each subset of S.
IsIter(g, fun, S) ==
  g = [s \in SUBSET S |->
         IF s = {} THEN 0 ELSE fun[Pick(s)] + g[s \ {Pick(s)}]]

\* The community modules' sum is the value of such a function.
LEMMA SumUnfold ==
  ASSUME NEW fun, NEW S
  PROVE  SumFunctionOnSet(fun, S) = (CHOOSE g : IsIter(g, fun, S))[S]
BY DEF SumFunctionOnSet, FoldFunctionOnSet, MapThenFoldSet, IsIter, Pick

\* The term that is added first is one of the set.
LEMMA PickIn ==
  ASSUME NEW s, s # {}
  PROVE  Pick(s) \in s
BY DEF Pick

\* Two such functions agree where both are defined.
LEMMA IterUnique ==
  ASSUME NEW fun, NEW S, NEW T, IsFiniteSet(S), NEW g, NEW h,
         IsIter(g, fun, S), IsIter(h, fun, T), NEW s, s \subseteq S, s \subseteq T
  PROVE  g[s] = h[s]
<1> DEFINE Bad == {t \in SUBSET s : g[t] # h[t]}
<1>1. SUFFICES ASSUME Bad # {} PROVE FALSE OBVIOUS
<1>2. IsFiniteSet(s) BY FS_Subset
<1>3. PICK m \in Bad : \A t \in Bad : t \subseteq m => t = m
  <2>1. Bad \subseteq SUBSET s OBVIOUS
  <2> HIDE DEF Bad
  <2> QED BY <1>1, <1>2, <2>1, FiniteMinimal
<1>4. m \subseteq s /\ g[m] # h[m] BY <1>3
<1>5. /\ g[m] = IF m = {} THEN 0 ELSE fun[Pick(m)] + g[m \ {Pick(m)}]
      /\ h[m] = IF m = {} THEN 0 ELSE fun[Pick(m)] + h[m \ {Pick(m)}]
  <2>1. m \in SUBSET S /\ m \in SUBSET T BY <1>4
  <2> QED BY <2>1 DEF IsIter
<1>6. m # {} BY <1>4, <1>5
<1>7. g[m \ {Pick(m)}] # h[m \ {Pick(m)}] BY <1>4, <1>5, <1>6
<1>8. m \ {Pick(m)} \in Bad BY <1>4, <1>7
<1>9. m \ {Pick(m)} = m BY <1>3, <1>8
<1> QED BY <1>6, <1>9, PickIn

\* There is such a function on every finite set.
LEMMA IterExists ==
  ASSUME NEW fun, NEW S, IsFiniteSet(S)
  PROVE  \E g : IsIter(g, fun, S)
<1> DEFINE Bad == {t \in SUBSET S : ~\E g : IsIter(g, fun, t)}
<1>1. SUFFICES ASSUME Bad # {} PROVE FALSE OBVIOUS
<1>2. PICK m \in Bad : \A t \in Bad : t \subseteq m => t = m
  <2>1. Bad \subseteq SUBSET S OBVIOUS
  <2> HIDE DEF Bad
  <2> QED BY <1>1, <2>1, FiniteMinimal
<1> DEFINE of(t) == (CHOOSE g : IsIter(g, fun, t))
           value(t) == of(t)[t]
           step(t) == IF t = {} THEN 0 ELSE fun[Pick(t)] + value(t \ {Pick(t)})
           new == [t \in SUBSET m |-> IF t = m THEN step(m) ELSE value(t)]
<1>3. \A t \in SUBSET m : t # m => IsIter(of(t), fun, t)
  <2> TAKE t \in SUBSET m
  <2> HAVE t # m
  <2>1. t \in SUBSET S /\ t \notin Bad BY <1>2
  <2>2. \E g : IsIter(g, fun, t) BY <2>1
  <2> QED BY <2>2
<1>4. \A t \in SUBSET m : t # m => value(t) = step(t)
  <2> TAKE t \in SUBSET m
  <2> HAVE t # m
  <2>1. IsIter(of(t), fun, t) BY <1>3
  <2>2. value(t) = IF t = {} THEN 0 ELSE fun[Pick(t)] + of(t)[t \ {Pick(t)}]
    <3> HIDE DEF of
    <3> QED BY <2>1 DEF IsIter
  <2>3. t # {} => of(t)[t \ {Pick(t)}] = value(t \ {Pick(t)})
    <3>1. SUFFICES ASSUME t # {} PROVE of(t)[t \ {Pick(t)}] = value(t \ {Pick(t)})
      OBVIOUS
    <3> DEFINE u == t \ {Pick(t)}
    <3>2. Pick(t) \in t BY <3>1, PickIn
    <3>3. u \in SUBSET m /\ u # m /\ u \subseteq t BY <3>2
    <3>4. IsIter(of(u), fun, u) BY <1>3, <3>3
    <3>5. IsFiniteSet(t)
      <4>1. t \in SUBSET S BY <1>2
      <4> QED BY <4>1, FS_Subset
    <3> HIDE DEF of, u
    <3>6. of(t)[u] = of(u)[u] BY <2>1, <3>3, <3>4, <3>5, IterUnique
    <3> QED BY <3>6 DEF u
  <2> HIDE DEF of, value
  <2> QED BY <2>2, <2>3
<1>5. IsIter(new, fun, m)
  <2> DEFINE body(t) == IF t = {} THEN 0 ELSE fun[Pick(t)] + new[t \ {Pick(t)}]
  <2>1. ASSUME NEW t \in SUBSET m PROVE new[t] = body(t)
    <3>1. new[t] = step(t)
      <4> HIDE DEF value, step
      <4> QED BY <1>4
    <3>2. t # {} => new[t \ {Pick(t)}] = value(t \ {Pick(t)})
      <4>1. SUFFICES ASSUME t # {} PROVE new[t \ {Pick(t)}] = value(t \ {Pick(t)})
        OBVIOUS
      <4>2. t \ {Pick(t)} \in SUBSET m /\ t \ {Pick(t)} # m BY <4>1, PickIn
      <4> HIDE DEF value, step
      <4> QED BY <4>2
    <3> HIDE DEF new, value
    <3> QED BY <3>1, <3>2
  <2>2. new = [t \in SUBSET m |-> new[t]] OBVIOUS
  <2> HIDE DEF new
  <2>3. new = [t \in SUBSET m |-> body(t)] BY <2>1, <2>2
  <2> QED BY <2>3 DEF IsIter
<1>6. m \in Bad BY <1>2
<1> HIDE DEF new
<1> QED BY <1>5, <1>6

\* The recursion of the community modules' sum.
LEMMA SumByPick ==
  ASSUME NEW fun, NEW S, IsFiniteSet(S)
  PROVE  SumFunctionOnSet(fun, S) =
           IF S = {} THEN 0
           ELSE fun[Pick(S)] + SumFunctionOnSet(fun, S \ {Pick(S)})
<1> DEFINE of(t) == (CHOOSE g : IsIter(g, fun, t))
           u == S \ {Pick(S)}
<1>1. IsIter(of(S), fun, S) BY IterExists
<1>2. IsFiniteSet(u) BY FS_Subset
<1>3. IsIter(of(u), fun, u) BY <1>2, IterExists
<1>4. SumFunctionOnSet(fun, S) = of(S)[S] /\ SumFunctionOnSet(fun, u) = of(u)[u]
  BY SumUnfold
<1> HIDE DEF of
<1>5. of(S)[S] = IF S = {} THEN 0 ELSE fun[Pick(S)] + of(S)[S \ {Pick(S)}]
  BY <1>1 DEF IsIter
<1>6. u \subseteq S OBVIOUS
<1>7. of(S)[u] = of(u)[u]
  <2> HIDE DEF u
  <2> QED BY <1>1, <1>3, <1>6, IterUnique
<1> QED BY <1>4, <1>5, <1>7

\* A sum of nothing.
LEMMA SumEmpty ==
  ASSUME NEW fun
  PROVE  SumFunctionOnSet(fun, {}) = 0
BY FS_EmptySet, SumByPick

\* A sum is a sum over all but one element, and that element.
LEMMA SumTakeOut ==
  ASSUME NEW S, IsFiniteSet(S), NEW fun, \A x \in S : fun[x] \in Int
  PROVE  /\ SumFunctionOnSet(fun, S) \in Int
         /\ \A x \in S :
              SumFunctionOnSet(fun, S) = fun[x] + SumFunctionOnSet(fun, S \ {x})
<1> DEFINE sum(t) == SumFunctionOnSet(fun, t)
           Good(t) == /\ sum(t) \in Int
                      /\ \A x \in t : sum(t) = fun[x] + sum(t \ {x})
           Bad == {t \in SUBSET S : ~Good(t)}
<1>1. SUFFICES ASSUME Bad # {} PROVE FALSE
  <2>1. S \in SUBSET S /\ S \notin Bad BY <1>1
  <2>2. Good(S) BY <2>1
  <2> QED BY <2>2
<1>2. PICK m \in Bad : \A t \in Bad : t \subseteq m => t = m
  <2>1. Bad \subseteq SUBSET S OBVIOUS
  <2> HIDE DEF Bad
  <2> QED BY <1>1, <2>1, FiniteMinimal
<1>3. m \in SUBSET S /\ ~Good(m) BY <1>2
<1> HIDE DEF sum
<1>4. \A t \in SUBSET m : t # m => Good(t)
  <2> HIDE DEF Good
  <2> QED BY <1>2, <1>3
<1> DEFINE c == Pick(m)
<1>5. IsFiniteSet(m) BY <1>3, FS_Subset
<1>6. sum(m) = IF m = {} THEN 0 ELSE fun[c] + sum(m \ {c})
  BY <1>5, SumByPick DEF sum
<1>7. m # {} BY <1>3, <1>6
<1>8. c \in m BY <1>7, PickIn
<1> HIDE DEF c
<1>9. sum(m) = fun[c] + sum(m \ {c}) BY <1>6, <1>7
<1>10. sum(m \ {c}) \in Int /\ fun[c] \in Int
  <2>1. m \ {c} \in SUBSET m /\ m \ {c} # m BY <1>8
  <2> QED BY <1>3, <1>4, <1>8, <2>1
<1>11. sum(m) \in Int BY <1>9, <1>10
<1>12. ASSUME NEW x \in m PROVE sum(m) = fun[x] + sum(m \ {x})
  <2>1. CASE x = c BY <1>9, <2>1
  <2>2. CASE x # c
    <3> DEFINE A == m \ {c}
               B == m \ {x}
               C == (m \ {c}) \ {x}
    <3>1. A \in SUBSET m /\ A # m /\ x \in A BY <1>8, <2>2
    <3>2. B \in SUBSET m /\ B # m /\ c \in B BY <1>8, <2>2
    <3>3. A \ {x} = C /\ B \ {c} = C OBVIOUS
    <3>4. C \in SUBSET m /\ C # m BY <1>8
    <3> HIDE DEF A, B, C
    <3>5. sum(A) = fun[x] + sum(C)
      <4>1. Good(A) BY <1>4, <3>1
      <4> QED BY <3>1, <3>3, <4>1
    <3>6. sum(B) = fun[c] + sum(C)
      <4>1. Good(B) BY <1>4, <3>2
      <4> QED BY <3>2, <3>3, <4>1
    <3>7. sum(C) \in Int BY <1>4, <3>4
    <3>8. fun[x] \in Int BY <1>3
    <3>9. sum(m) = fun[c] + sum(A) BY <1>9 DEF A
    <3>10. sum(m) = fun[x] + sum(B)
      <4> HIDE DEF Good
      <4> QED BY <1>10, <3>5, <3>6, <3>7, <3>8, <3>9
    <3> QED BY <3>10 DEF B
  <2> QED BY <2>1, <2>2
<1> QED BY <1>3, <1>11, <1>12

\* The same, with a name for the set that is left.
LEMMA SumInsert ==
  ASSUME NEW S, IsFiniteSet(S), NEW fun, \A y \in S : fun[y] \in Int,
         NEW x \in S, NEW T, T = S \ {x}
  PROVE  SumFunctionOnSet(fun, S) = fun[x] + SumFunctionOnSet(fun, T)
BY SumTakeOut

\* A sum depends on the terms only.
LEMMA SumSame ==
  ASSUME NEW S, IsFiniteSet(S), NEW f, NEW g, \A x \in S : f[x] = g[x],
         \A x \in S : f[x] \in Int
  PROVE  SumFunctionOnSet(f, S) = SumFunctionOnSet(g, S)
<1> DEFINE Bad == {t \in SUBSET S :
                     SumFunctionOnSet(f, t) # SumFunctionOnSet(g, t)}
<1>1. SUFFICES ASSUME Bad # {} PROVE FALSE OBVIOUS
<1>2. PICK m \in Bad : \A t \in Bad : t \subseteq m => t = m
  <2>1. Bad \subseteq SUBSET S OBVIOUS
  <2> HIDE DEF Bad
  <2> QED BY <1>1, <2>1, FiniteMinimal
<1>3. m \in SUBSET S /\ IsFiniteSet(m) BY FS_Subset
<1>4. m # {} BY <1>2, SumEmpty
<1>5. PICK x \in m : TRUE BY <1>4
<1>6. m \ {x} \notin Bad BY <1>2, <1>5
<1>7. SumFunctionOnSet(f, m \ {x}) = SumFunctionOnSet(g, m \ {x})
  BY <1>3, <1>6
<1>8. SumFunctionOnSet(f, m) = f[x] + SumFunctionOnSet(f, m \ {x})
  BY <1>3, <1>5, SumTakeOut
<1>9. SumFunctionOnSet(g, m) = g[x] + SumFunctionOnSet(g, m \ {x})
  BY <1>3, <1>5, SumTakeOut
<1>10. f[x] = g[x] BY <1>3, <1>5
<1> QED BY <1>2, <1>7, <1>8, <1>9, <1>10

\* A sum of natural numbers is one, and none of its terms is greater.
LEMMA SumNat ==
  ASSUME NEW S, IsFiniteSet(S), NEW f, \A x \in S : f[x] \in Nat
  PROVE  /\ SumFunctionOnSet(f, S) \in Nat
         /\ \A x \in S : f[x] <= SumFunctionOnSet(f, S)
<1> DEFINE Bad == {t \in SUBSET S : SumFunctionOnSet(f, t) \notin Nat}
<1>1. \A x \in S : f[x] \in Int OBVIOUS
<1>2. Bad = {}
  <2>1. SUFFICES ASSUME Bad # {} PROVE FALSE OBVIOUS
  <2>2. PICK m \in Bad : \A t \in Bad : t \subseteq m => t = m
    <3>1. Bad \subseteq SUBSET S OBVIOUS
    <3> HIDE DEF Bad
    <3> QED BY <2>1, <3>1, FiniteMinimal
  <2>3. m \in SUBSET S /\ IsFiniteSet(m) BY FS_Subset
  <2>4. m # {}
    <3>1. SumFunctionOnSet(f, {}) = 0 BY SumEmpty
    <3>2. SumFunctionOnSet(f, m) \notin Nat BY <2>2
    <3> QED BY <3>1, <3>2
  <2>5. PICK x \in m : TRUE BY <2>4
  <2>6. m \ {x} \notin Bad BY <2>2, <2>5
  <2>7. SumFunctionOnSet(f, m \ {x}) \in Nat BY <2>3, <2>6
  <2>8. SumFunctionOnSet(f, m) = f[x] + SumFunctionOnSet(f, m \ {x})
    BY <1>1, <2>3, <2>5, SumTakeOut
  <2>9. f[x] \in Nat BY <2>3, <2>5
  <2>10. SumFunctionOnSet(f, m) \in Nat BY <2>7, <2>8, <2>9
  <2> QED BY <2>2, <2>10
<1>3. ASSUME NEW t \in SUBSET S PROVE SumFunctionOnSet(f, t) \in Nat BY <1>2
<1>4. ASSUME NEW x \in S PROVE f[x] <= SumFunctionOnSet(f, S)
  <2>1. SumFunctionOnSet(f, S) = f[x] + SumFunctionOnSet(f, S \ {x})
    BY <1>1, SumTakeOut
  <2>2. SumFunctionOnSet(f, S \ {x}) \in Nat BY <1>3
  <2>3. f[x] \in Nat OBVIOUS
  <2> QED BY <2>1, <2>2, <2>3
<1> QED BY <1>3, <1>4

\* A sum of zeros is zero.
LEMMA SumZero ==
  ASSUME NEW S, IsFiniteSet(S), NEW f, \A x \in S : f[x] = 0
  PROVE  SumFunctionOnSet(f, S) = 0
<1> DEFINE Bad == {t \in SUBSET S : SumFunctionOnSet(f, t) # 0}
<1>1. SUFFICES ASSUME Bad # {} PROVE FALSE OBVIOUS
<1>2. PICK m \in Bad : \A t \in Bad : t \subseteq m => t = m
  <2>1. Bad \subseteq SUBSET S OBVIOUS
  <2> HIDE DEF Bad
  <2> QED BY <1>1, <2>1, FiniteMinimal
<1>3. m \in SUBSET S /\ IsFiniteSet(m) BY FS_Subset
<1>4. m # {} BY <1>2, SumEmpty
<1>5. PICK x \in m : TRUE BY <1>4
<1>6. m \ {x} \notin Bad BY <1>2, <1>5
<1>7. SumFunctionOnSet(f, m \ {x}) = 0 BY <1>3, <1>6
<1>8. \A y \in m : f[y] \in Int /\ f[y] = 0 BY <1>3
<1>9. SumFunctionOnSet(f, m) = f[x] + SumFunctionOnSet(f, m \ {x})
  BY <1>3, <1>5, <1>8, SumTakeOut
<1> QED BY <1>2, <1>5, <1>7, <1>8, <1>9

\* Changing one term changes the sum as much.
LEMMA SumChange ==
  ASSUME NEW S, IsFiniteSet(S), NEW f, NEW g, NEW x \in S,
         \A y \in S : f[y] \in Int, g[x] \in Int,
         \A y \in S : y # x => g[y] = f[y]
  PROVE  SumFunctionOnSet(g, S) = SumFunctionOnSet(f, S) + (g[x] - f[x])
<1>1. \A y \in S : g[y] \in Int OBVIOUS
<1>2. SumFunctionOnSet(f, S) = f[x] + SumFunctionOnSet(f, S \ {x})
  BY SumTakeOut
<1>3. SumFunctionOnSet(g, S) = g[x] + SumFunctionOnSet(g, S \ {x})
  BY <1>1, SumTakeOut
<1>4. IsFiniteSet(S \ {x}) BY FS_Subset
<1>5. SumFunctionOnSet(g, S \ {x}) = SumFunctionOnSet(f, S \ {x})
  BY <1>4, SumSame
<1>6. SumFunctionOnSet(f, S \ {x}) \in Int BY <1>4, SumTakeOut
<1>7. f[x] \in Int OBVIOUS
<1> QED BY <1>2, <1>3, <1>5, <1>6, <1>7

\* Fewer terms, a smaller sum.
LEMMA SumSubset ==
  ASSUME NEW S, IsFiniteSet(S), NEW T, T \subseteq S,
         NEW g, \A x \in S : g[x] \in Nat
  PROVE  SumFunctionOnSet(g, T) <= SumFunctionOnSet(g, S)
<1> DEFINE sum(t) == SumFunctionOnSet(g, t)
           Bad == {t \in SUBSET S : ~(sum(S \ t) <= sum(S))}
<1>1. ASSUME NEW t \in SUBSET S
      PROVE  IsFiniteSet(t) /\ sum(t) \in Nat /\ \A x \in t : g[x] \in Int
  BY FS_Subset, SumNat
<1>2. Bad = {}
  <2>1. SUFFICES ASSUME Bad # {} PROVE FALSE OBVIOUS
  <2>2. PICK m \in Bad : \A t \in Bad : t \subseteq m => t = m
    <3>1. Bad \subseteq SUBSET S OBVIOUS
    <3> HIDE DEF Bad
    <3> QED BY <2>1, <3>1, FiniteMinimal
  <2>3. m \in SUBSET S /\ ~(sum(S \ m) <= sum(S)) BY <2>2
  <2>4. m # {}
    <3>1. S \ {} = S /\ sum(S) \in Nat BY <1>1
    <3> QED BY <2>3, <3>1
  <2>5. PICK x \in m : TRUE BY <2>4
  <2>6. m \ {x} \in SUBSET S /\ m \ {x} \notin Bad BY <2>2, <2>3, <2>5
  <2>7. sum(S \ (m \ {x})) <= sum(S) BY <2>6
  <2> DEFINE A == S \ (m \ {x})
             B == S \ m
  <2>8. A \in SUBSET S /\ B \in SUBSET S /\ x \in A /\ B = A \ {x} BY <2>3, <2>5
  <2> HIDE DEF A, B, sum
  <2>9. IsFiniteSet(A) /\ (\A y \in A : g[y] \in Int) /\ g[x] \in Nat
    BY <1>1, <2>3, <2>5, <2>8
  <2>10. sum(A) = g[x] + sum(B) BY <2>8, <2>9, SumInsert DEF sum
  <2>11. sum(A) \in Nat /\ sum(B) \in Nat /\ sum(S) \in Nat BY <1>1, <2>8
  <2>12. sum(A) <= sum(S) BY <2>7 DEF A
  <2>13. sum(B) <= sum(S) BY <2>9, <2>10, <2>11, <2>12
  <2> QED BY <2>3, <2>13 DEF B
<1>3. S \ T \in SUBSET S /\ S \ (S \ T) = T OBVIOUS
<1>4. S \ T \notin Bad BY <1>2
<1> HIDE DEF sum
<1>5. sum(S \ (S \ T)) <= sum(S) BY <1>3, <1>4
<1> QED BY <1>3, <1>5 DEF sum

\* Terms that are not greater, but for an error each.
LEMMA SumError ==
  ASSUME NEW S, IsFiniteSet(S), NEW m \in Nat, NEW f, NEW g,
         \A x \in S : f[x] \in Nat /\ g[x] \in Nat /\ f[x] <= g[x] + m
  PROVE  SumFunctionOnSet(f, S) <= SumFunctionOnSet(g, S) + Cardinality(S) * m
<1> DEFINE F(t) == SumFunctionOnSet(f, t)
           G(t) == SumFunctionOnSet(g, t)
           Bad == {t \in SUBSET S : ~(F(t) <= G(t) + Cardinality(t) * m)}
<1>1. SUFFICES ASSUME Bad # {} PROVE FALSE OBVIOUS
<1>2. PICK t \in Bad : \A u \in Bad : u \subseteq t => u = t
  <2>1. Bad \subseteq SUBSET S OBVIOUS
  <2> HIDE DEF Bad
  <2> QED BY <1>1, <2>1, FiniteMinimal
<1>3. t \in SUBSET S /\ ~(F(t) <= G(t) + Cardinality(t) * m) BY <1>2
<1>4. t # {}
  <2>1. F({}) = 0 /\ G({}) = 0 /\ Cardinality({}) = 0 BY SumEmpty, FS_EmptySet
  <2> QED BY <1>3, <2>1
<1>5. PICK x \in t : TRUE BY <1>4
<1> DEFINE u == t \ {x}
<1>6. u \in SUBSET S /\ u = t \ {x} /\ u \notin Bad BY <1>2, <1>3, <1>5
<1>7. F(u) <= G(u) + Cardinality(u) * m BY <1>6
<1>8. \A y \in t : f[y] \in Int /\ g[y] \in Int BY <1>3
<1>9. IsFiniteSet(t) BY <1>3, FS_Subset
<1>10. F(t) = f[x] + F(u) /\ G(t) = g[x] + G(u)
  BY <1>5, <1>6, <1>8, <1>9, SumInsert
<1>11. F(u) \in Int /\ G(u) \in Int
  <2>1. IsFiniteSet(u) BY <1>9, FS_Subset
  <2>2. \A y \in u : f[y] \in Int /\ g[y] \in Int BY <1>8
  <2> HIDE DEF u
  <2> QED BY <2>1, <2>2, SumTakeOut
<1>12. Cardinality(u) = Cardinality(t) - 1 /\ Cardinality(t) \in Nat
  BY <1>5, <1>9, FS_RemoveElement, FS_CardinalityType
<1> DEFINE c == Cardinality(u)
           d == Cardinality(t)
<1>13. f[x] \in Nat /\ g[x] \in Nat /\ f[x] <= g[x] + m BY <1>3, <1>5
<1>14. c = d - 1 /\ d \in Nat BY <1>12
<1> HIDE DEF u, c, d, F, G, Bad
<1>15. d = c + 1 /\ c \in Int BY <1>14
<1>16. d * m = c * m + m /\ c * m \in Int BY <1>15
<1>17. F(u) <= G(u) + c * m BY <1>7 DEF c
<1>18. f[x] + F(u) <= g[x] + G(u) + (c * m + m)
  <2> DEFINE p == c * m
  <2> HIDE DEF p
  <2>1. p \in Int /\ F(u) <= G(u) + p BY <1>16, <1>17 DEF p
  <2>2. f[x] + F(u) <= g[x] + G(u) + (p + m) BY <1>11, <1>13, <2>1
  <2> QED BY <2>2 DEF p
<1>19. F(t) <= G(t) + d * m BY <1>10, <1>16, <1>18
<1> QED BY <1>3, <1>19 DEF d

\* The sums of two functions whose terms are at distance one.
LEMMA SumShift ==
  ASSUME NEW n \in Nat, NEW f, NEW g, \A k \in 1 .. n : g[k] = f[k + 1],
         \A k \in 1 .. n : g[k] \in Int
  PROVE  SumFunctionOnSet(f, 2 .. n + 1) = SumFunctionOnSet(g, 1 .. n)
<1> DEFINE Bad == {j \in 0 .. n : SumFunctionOnSet(f, 2 .. j + 1)
                                    # SumFunctionOnSet(g, 1 .. j)}
<1>1. SUFFICES ASSUME Bad # {} PROVE FALSE OBVIOUS
<1>2. PICK m \in Bad : \A j \in Bad : m <= j
  <2>1. Bad \subseteq Nat OBVIOUS
  <2> HIDE DEF Bad
  <2> QED BY <1>1, <2>1, NatLeast
<1>3. m \in 0 .. n /\ SumFunctionOnSet(f, 2 .. m + 1)
                       # SumFunctionOnSet(g, 1 .. m)
  BY <1>2
<1>4. m # 0
  <2>1. 2 .. 0 + 1 = {} /\ 1 .. 0 = {} OBVIOUS
  <2> QED BY <1>3, <2>1, SumEmpty
<1>5. m - 1 \in 0 .. n /\ m - 1 \notin Bad BY <1>2, <1>3, <1>4
<1>6. SumFunctionOnSet(f, 2 .. m - 1 + 1) = SumFunctionOnSet(g, 1 .. m - 1)
  BY <1>5
<1>7. m - 1 + 1 = m /\ m \in 1 .. m /\ m + 1 \in 2 .. m + 1 BY <1>3, <1>4
<1>8. (2 .. m + 1) \ {m + 1} = 2 .. m /\ (1 .. m) \ {m} = 1 .. m - 1
  BY <1>3, <1>4
<1>9. IsFiniteSet(2 .. m + 1) /\ IsFiniteSet(1 .. m)
  BY <1>3, FS_Interval
<1>10. \A k \in 1 .. m : g[k] \in Int BY <1>3
<1>11. \A k \in 2 .. m + 1 : f[k] \in Int
  <2> TAKE k \in 2 .. m + 1
  <2>1. k - 1 \in 1 .. n /\ k = (k - 1) + 1 BY <1>3
  <2>2. g[k - 1] = f[(k - 1) + 1] BY <2>1
  <2> QED BY <2>1, <2>2
<1>12. SumFunctionOnSet(f, 2 .. m + 1) = f[m + 1] + SumFunctionOnSet(f, 2 .. m)
  <2> DEFINE I == 2 .. m + 1
             J == 2 .. m
  <2>1. J = I \ {m + 1} /\ m + 1 \in I /\ IsFiniteSet(I) BY <1>7, <1>8, <1>9
  <2>2. \A k \in I : f[k] \in Int BY <1>11
  <2> HIDE DEF I, J
  <2>3. SumFunctionOnSet(f, I) = f[m + 1] + SumFunctionOnSet(f, J)
    BY <2>1, <2>2, SumInsert
  <2> QED BY <2>3 DEF I, J
<1>13. SumFunctionOnSet(g, 1 .. m) = g[m] + SumFunctionOnSet(g, 1 .. m - 1)
  BY <1>7, <1>8, <1>9, <1>10, SumInsert
<1>14. g[m] = f[m + 1] BY <1>3, <1>4
<1> QED BY <1>3, <1>6, <1>7, <1>12, <1>13, <1>14

---------------------------------------------------------------------------
(* Sums of sequences.                                                      *)

\* A sum over a sequence, and a bound on its terms.
LEMMA SumSeqType ==
  ASSUME NEW s \in Seq(Nat)
  PROVE  SumFunction(s) \in Nat /\ \A k \in 1 .. Len(s) : s[k] <= SumFunction(s)
<1>1. DOMAIN s = 1 .. Len(s) /\ IsFiniteSet(1 .. Len(s)) BY FS_Interval
<1>2. \A k \in 1 .. Len(s) : s[k] \in Nat OBVIOUS
<1> QED BY <1>1, <1>2, SumNat DEF SumFunction

\* The sum over the empty sequence.
LEMMA SumOfEmpty ==
  SumFunction(<<>>) = 0
<1>1. DOMAIN <<>> = {} OBVIOUS
<1> QED BY <1>1, SumEmpty DEF SumFunction

\* What is appended is added.
LEMMA SumAppend ==
  ASSUME NEW s \in Seq(Nat), NEW x \in Nat
  PROVE  SumFunction(Append(s, x)) = SumFunction(s) + x
<1> DEFINE n == Len(s)
           t == Append(s, x)
           I == 1 .. n
           J == 1 .. n + 1
<1>1. n \in Nat /\ DOMAIN s = I OBVIOUS
<1>2. /\ DOMAIN t = J /\ t[n + 1] = x
      /\ \A k \in I : t[k] = s[k] /\ s[k] \in Nat
  OBVIOUS
<1>3. IsFiniteSet(I) /\ IsFiniteSet(J) BY <1>1, FS_Interval
<1>4. n + 1 \in J /\ I = J \ {n + 1} BY <1>1
<1> HIDE DEF n, t, I, J
<1>5. \A k \in J : t[k] \in Int BY <1>2, <1>4
<1>6. SumFunctionOnSet(t, J) = t[n + 1] + SumFunctionOnSet(t, I)
  BY <1>3, <1>4, <1>5, SumInsert
<1>7. SumFunctionOnSet(s, I) \in Nat BY <1>2, <1>3, SumNat
<1>8. SumFunctionOnSet(t, I) = SumFunctionOnSet(s, I)
  <2>1. \A k \in I : t[k] \in Int BY <1>2
  <2> QED BY <1>2, <1>3, <2>1, SumSame
<1>9. SumFunction(t) = x + SumFunction(s)
  BY <1>1, <1>2, <1>6, <1>8 DEF SumFunction
<1>10. SumFunction(s) \in Nat BY <1>1, <1>7 DEF SumFunction
<1> QED BY <1>9, <1>10 DEF t

\* What is taken off the head is subtracted.
LEMMA SumTail ==
  ASSUME NEW s \in Seq(Nat), s # <<>>
  PROVE  /\ Head(s) \in Nat /\ SumFunction(Tail(s)) \in Nat
         /\ SumFunction(s) = Head(s) + SumFunction(Tail(s))
<1> DEFINE n == Len(s) - 1
           t == Tail(s)
           I == 1 .. n
           J == 1 .. n + 1
           K == 2 .. n + 1
<1>1. /\ n \in Nat /\ DOMAIN s = J /\ DOMAIN t = I
      /\ Head(s) = s[1] /\ \A k \in J : s[k] \in Nat
      /\ \A k \in 1 .. n : t[k] = s[k + 1]
  OBVIOUS
<1>2. \A k \in 1 .. n : k + 1 \in J BY <1>1
<1>3. 1 \in J /\ K = J \ {1} BY <1>1
<1>4. IsFiniteSet(J) /\ IsFiniteSet(I) BY <1>1, FS_Interval
<1> HIDE DEF n, t, J
<1>5. \A k \in 1 .. n : t[k] \in Nat BY <1>1, <1>2
<1>6. SumFunctionOnSet(s, K) = SumFunctionOnSet(t, I)
  <2>1. \A k \in 1 .. n : t[k] \in Int BY <1>5
  <2> QED BY <1>1, <2>1, SumShift
<1> HIDE DEF I, K
<1>7. SumFunctionOnSet(s, J) = s[1] + SumFunctionOnSet(s, K)
  <2>1. \A k \in J : s[k] \in Int BY <1>1
  <2> QED BY <1>3, <1>4, <2>1, SumInsert
<1>8. SumFunctionOnSet(t, I) \in Nat
  <2>1. \A k \in I : t[k] \in Nat BY <1>5 DEF I
  <2> QED BY <1>4, <2>1, SumNat
<1> QED BY <1>1, <1>3, <1>6, <1>7, <1>8 DEF SumFunction, t
=============================================================================
