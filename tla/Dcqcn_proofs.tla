----------------------------- MODULE Dcqcn_proofs -----------------------------
(***************************************************************************)
(* Proofs about the reaction point of DCQCN, for any rates, steps and      *)
(* thresholds: the bounds of the rate, the stages, and that only a         *)
(* congestion notification takes rate away.                                *)
(***************************************************************************)
EXTENDS Dcqcn, NumberFacts, TLAPS

IndInv == RateInBounds /\ StageMatches

\* The whole numbers that the arithmetic is about.
LEMMA Numbers ==
  ASSUME TypeOK
  PROVE  /\ Bps \in Nat /\ MinRate \in Nat /\ MinRate <= Bps /\ MinRate % 2 = 0
         /\ Rai \in Nat /\ Rhai \in Nat /\ Threshold \in Nat /\ Threshold > 0
         /\ Word \in Nat \ {0}
         /\ rate \in Nat /\ target \in Nat /\ byteStage \in Nat
         /\ timeStage \in Nat /\ stage \in 0 .. 3
BY DcqcnAssumption DEF TypeOK

\* The target never falls below the rate.
LEMMA NewTargetAbove ==
  ASSUME RateInBounds, NEW b \in Nat, NEW t \in Nat, NEW increase \in Nat
  PROVE  NewTarget(b, t, increase) \in Nat /\ NewTarget(b, t, increase) >= rate
<1>1. rate \in Nat /\ target \in Nat /\ rate <= target
  BY Numbers DEF RateInBounds
<1>2. CASE (b = 1 \/ t = 1) /\ target > 10 * rate
  <2>1. NewTarget(b, t, increase) = target \div 8 BY <1>2 DEF NewTarget
  <2>2. target \div 8 \in Nat BY <1>1
  <2>3. target \div 8 >= rate BY <1>1, <1>2
  <2> QED BY <2>1, <2>2, <2>3
<1>3. CASE ~((b = 1 \/ t = 1) /\ target > 10 * rate)
  BY <1>1, <1>3 DEF NewTarget
<1> QED BY <1>2, <1>3

\* The mean of the rate and a larger target, each half rounded down.
LEMMA MeanBounds ==
  ASSUME NEW r \in Nat, NEW t \in Nat, r <= t, NEW m \in Nat, m % 2 = 0, m <= r
  PROVE  /\ r \div 2 + t \div 2 \in Nat
         /\ m <= r \div 2 + t \div 2
         /\ r \div 2 + t \div 2 <= t
         /\ r - 1 <= r \div 2 + t \div 2
OBVIOUS

\* Events raise the rate or leave it, but for the rounding.
LEMMA AdjustKeeps ==
  ASSUME RateInBounds, NEW b \in Nat, NEW t \in Nat, NEW increase \in Nat,
         AdjustRates(b, t, increase)
  PROVE  /\ rate' \in Nat /\ target' \in Nat
         /\ MinRate <= rate' /\ rate' <= Bps /\ rate' <= target'
         /\ rate - 1 <= rate'
<1>1. /\ rate \in Nat /\ MinRate \in Nat /\ MinRate % 2 = 0 /\ Bps \in Nat
      /\ MinRate <= rate /\ rate <= Bps /\ MinRate <= Bps
  BY Numbers DEF RateInBounds
<1>2. target' \in Nat /\ target' >= rate BY NewTargetAbove DEF AdjustRates
<1> DEFINE mean == rate \div 2 + target' \div 2
<1>3. /\ mean \in Nat /\ MinRate <= mean /\ mean <= target' /\ rate - 1 <= mean
  BY <1>1, <1>2, MeanBounds
<1>4. rate' = Smaller(Bps, mean) BY DEF AdjustRates
<1> HIDE DEF mean
<1> QED BY <1>1, <1>2, <1>3, <1>4 DEF Smaller

\* What an event that raises the rate does.
Raises(b, t) ==
  /\ rate' \in Nat /\ target' \in Nat
  /\ MinRate <= rate' /\ rate' <= Bps /\ rate' <= target' /\ rate - 1 <= rate'
  /\ byteStage' = b /\ timeStage' = t

\* Fast recovery.
LEMMA RecoverRaises ==
  ASSUME RateInBounds, NEW b \in Nat, NEW t \in Nat, FastRecovery(b, t)
  PROVE  Raises(b, t) /\ stage' = 1
<1>1. AdjustRates(b, t, 0) /\ stage' = 1 BY DEF FastRecovery
<1> QED BY <1>1, AdjustKeeps DEF Raises, AdjustRates

\* Active increase.
LEMMA ActiveRaises ==
  ASSUME RateInBounds, NEW b \in Nat, NEW t \in Nat, ActiveIncrease(b, t)
  PROVE  Raises(b, t) /\ stage' = 2
<1>1. AdjustRates(b, t, Rai) /\ stage' = 2 BY DEF ActiveIncrease
<1>2. Rai \in Nat BY Numbers DEF RateInBounds
<1> QED BY <1>1, <1>2, AdjustKeeps DEF Raises, AdjustRates

\* Hyper increase: the unsigned factor is a natural number.
LEMMA HyperRaises ==
  ASSUME RateInBounds, NEW b \in Nat, NEW t \in Nat, HyperIncrease(b, t)
  PROVE  Raises(b, t) /\ stage' = 3
<1> DEFINE f == (Smaller(b, t) + 1 - Threshold) % Word
<1>1. Rhai \in Nat /\ Word \in Nat \ {0} /\ Threshold \in Nat
  BY Numbers DEF RateInBounds
<1>2. f \in Nat
  <2>1. Smaller(b, t) + 1 - Threshold \in Int BY <1>1 DEF Smaller
  <2> QED BY <1>1, <2>1, ModNat
<1>3. AdjustRates(b, t, Rhai * f) /\ stage' = 3 BY DEF HyperIncrease
<1> HIDE DEF f
<1>4. Rhai * f \in Nat BY <1>1, <1>2
<1> QED BY <1>3, <1>4, AdjustKeeps DEF Raises, AdjustRates

\* The stage that ActiveSelect takes matches the counters it looks at.
LEMMA SelectRaises ==
  ASSUME RateInBounds, NEW b \in Nat, NEW t \in Nat, ActiveSelect(b, t)
  PROVE  /\ Raises(b, t)
         /\ \/ stage' = 2 /\ (b < Threshold \/ t < Threshold)
            \/ stage' = 3 /\ b >= Threshold /\ t >= Threshold
<1>1. Threshold \in Nat BY Numbers DEF RateInBounds
<1>2. CASE b < Threshold \/ t < Threshold
  BY <1>2, ActiveRaises DEF ActiveSelect
<1>3. CASE ~(b < Threshold \/ t < Threshold)
  BY <1>1, <1>3, HyperRaises DEF ActiveSelect
<1> QED BY <1>2, <1>3

---------------------------------------------------------------------------
\* The invariant after an event.
LEMMA RaiseInv ==
  ASSUME IndInv, NEW b \in 0 .. MaxStage, NEW t \in 0 .. MaxStage, Raises(b, t),
         stage' \in 0 .. 3, txBytes' \in 0 .. Bc, rptimer' \in BOOLEAN,
         UNCHANGED <<clamp, alpha, resume, cnps>>,
         stage' = 0 => b = 0 /\ t = 0,
         stage' = 1 => b < Threshold /\ t < Threshold,
         stage' = 2 => b >= Threshold \/ t >= Threshold,
         stage' = 3 => b >= Threshold /\ t >= Threshold
  PROVE  IndInv'
<1>1. TypeOK' BY DEF IndInv, RateInBounds, TypeOK, Raises
<1>2. RateInBounds' BY <1>1 DEF RateInBounds, Raises
<1>3. StageMatches' BY DEF StageMatches, Raises
<1> QED BY <1>2, <1>3 DEF IndInv

\* A packet that is not the last before a byte event.
LEMMA QuietInv ==
  ASSUME IndInv, txBytes' \in 0 .. Bc,
         UNCHANGED <<clamp, rate, target, alpha, byteStage, timeStage, stage,
                     rptimer, resume, cnps>>
  PROVE  IndInv'
<1>1. TypeOK' BY DEF IndInv, RateInBounds, TypeOK
<1> QED BY <1>1 DEF IndInv, RateInBounds, StageMatches

\* A byte event: in stage 2 the other counter decides nothing, and need not.
LEMMA ByteEventInv ==
  ASSUME IndInv, ByteEvent(byteStage + 1),
         UNCHANGED <<clamp, alpha, rptimer, resume, cnps>>
  PROVE  IndInv' /\ rate - 1 <= rate'
<1> DEFINE b == byteStage + 1
<1>1. RateInBounds /\ TypeOK BY DEF IndInv, RateInBounds
<1>2. /\ byteStage \in Nat /\ b \in 0 .. MaxStage /\ b \in Nat
      /\ timeStage \in 0 .. MaxStage /\ timeStage \in Nat
      /\ Threshold \in Nat /\ rptimer' \in BOOLEAN
  BY <1>1, DcqcnAssumption DEF TypeOK, ByteEvent
<1>3. txBytes' \in 0 .. Bc
  <2>1. Bc \in Nat /\ Bc \div 2 \in 0 .. Bc BY DcqcnAssumption
  <2>2. txBytes' = IF stage = 3 THEN Bc \div 2 ELSE Bc BY DEF ByteEvent
  <2> QED BY <2>1, <2>2
<1>4. CASE stage = 1 /\ b < Threshold
  <2>1. FastRecovery(b, timeStage) BY <1>4 DEF ByteEvent
  <2>2. timeStage < Threshold BY <1>4 DEF IndInv, StageMatches
  <2> HIDE DEF b
  <2>3. Raises(b, timeStage) /\ stage' = 1
    BY <1>1, <1>2, <2>1, RecoverRaises
  <2>4. IndInv' BY <1>2, <1>3, <1>4, <2>2, <2>3, RaiseInv
  <2> QED BY <2>3, <2>4 DEF Raises
<1>5. CASE stage = 1 /\ ~(b < Threshold)
  <2>1. ActiveSelect(b, timeStage) BY <1>5 DEF ByteEvent
  <2> HIDE DEF b
  <2>2. /\ Raises(b, timeStage)
        /\ \/ stage' = 2 /\ (b < Threshold \/ timeStage < Threshold)
           \/ stage' = 3 /\ b >= Threshold /\ timeStage >= Threshold
    BY <1>1, <1>2, <2>1, SelectRaises
  <2>3. IndInv' BY <1>2, <1>3, <1>5, <2>2, RaiseInv
  <2> QED BY <2>2, <2>3 DEF Raises
<1>6. CASE stage = 2
  <2>1. ActiveIncrease(b, timeStage) BY <1>6 DEF ByteEvent
  <2>2. b >= Threshold \/ timeStage >= Threshold
    BY <1>2, <1>6 DEF IndInv, StageMatches
  <2> HIDE DEF b
  <2>3. Raises(b, timeStage) /\ stage' = 2 BY <1>1, <1>2, <2>1, ActiveRaises
  <2>4. IndInv' BY <1>2, <1>3, <2>2, <2>3, RaiseInv
  <2> QED BY <2>3, <2>4 DEF Raises
<1>7. CASE stage = 3
  <2>1. HyperIncrease(b, timeStage) BY <1>7 DEF ByteEvent
  <2>2. b >= Threshold /\ timeStage >= Threshold
    BY <1>2, <1>7 DEF IndInv, StageMatches
  <2> HIDE DEF b
  <2>3. Raises(b, timeStage) /\ stage' = 3 BY <1>1, <1>2, <2>1, HyperRaises
  <2>4. IndInv' BY <1>2, <1>3, <2>2, <2>3, RaiseInv
  <2> QED BY <2>3, <2>4 DEF Raises
<1> QED BY <1>4, <1>5, <1>6, <1>7 DEF ByteEvent

LEMMA TransmitInv ==
  ASSUME IndInv, Transmit
  PROVE  IndInv' /\ rate - 1 <= rate'
<1>1. TypeOK BY DEF IndInv, RateInBounds
<1>2. UNCHANGED <<clamp, alpha, rptimer, resume, cnps>> BY DEF Transmit
<1>3. CASE /\ stage = 0 /\ txBytes' = Bc
           /\ UNCHANGED <<rate, target, byteStage, timeStage, stage>>
  <2>1. txBytes' \in 0 .. Bc BY <1>3, DcqcnAssumption
  <2>2. rate - 1 <= rate' BY <1>1, <1>3, Numbers
  <2> QED BY <1>2, <1>3, <2>1, <2>2, QuietInv
<1>4. CASE /\ stage > 0 /\ txBytes > 0 /\ txBytes' = txBytes - 1
           /\ UNCHANGED <<rate, target, byteStage, timeStage, stage>>
  <2>1. txBytes' \in 0 .. Bc BY <1>1, <1>4, DcqcnAssumption DEF TypeOK
  <2>2. rate - 1 <= rate' BY <1>1, <1>4, Numbers
  <2> QED BY <1>2, <1>4, <2>1, <2>2, QuietInv
<1>5. CASE stage > 0 /\ txBytes = 0 /\ ByteEvent(byteStage + 1)
  BY <1>2, <1>5, ByteEventInv
<1> QED BY <1>3, <1>4, <1>5 DEF Transmit

LEMMA TimerEventInv ==
  ASSUME IndInv, TimerEvent
  PROVE  IndInv' /\ rate - 1 <= rate'
<1> DEFINE t == timeStage + 1
<1>1. RateInBounds /\ TypeOK BY DEF IndInv, RateInBounds
<1>2. /\ timeStage \in Nat /\ t \in 0 .. MaxStage /\ t \in Nat
      /\ byteStage \in 0 .. MaxStage /\ byteStage \in Nat
      /\ Threshold \in Nat /\ txBytes' \in 0 .. Bc
      /\ UNCHANGED <<clamp, alpha, resume, cnps>>
  BY <1>1, DcqcnAssumption DEF TypeOK, TimerEvent
<1>3. rptimer' \in BOOLEAN BY DEF TimerEvent, Rearmed
<1>4. CASE stage = 1 /\ t < Threshold /\ FastRecovery(byteStage, t)
  <2>1. byteStage < Threshold BY <1>4 DEF IndInv, StageMatches
  <2> HIDE DEF t
  <2>2. Raises(byteStage, t) /\ stage' = 1 BY <1>1, <1>2, <1>4, RecoverRaises
  <2>3. IndInv' BY <1>2, <1>3, <1>4, <2>1, <2>2, RaiseInv
  <2> QED BY <2>2, <2>3 DEF Raises
<1>5. CASE \/ stage = 1 /\ t >= Threshold /\ ActiveSelect(byteStage, t)
           \/ stage = 2 /\ ActiveSelect(byteStage, t)
  <2>1. byteStage >= Threshold \/ t >= Threshold
    BY <1>2, <1>5 DEF IndInv, StageMatches
  <2> HIDE DEF t
  <2>2. /\ Raises(byteStage, t)
        /\ \/ stage' = 2 /\ (byteStage < Threshold \/ t < Threshold)
           \/ stage' = 3 /\ byteStage >= Threshold /\ t >= Threshold
    BY <1>1, <1>2, <1>5, SelectRaises
  <2>3. IndInv' BY <1>2, <1>3, <2>1, <2>2, RaiseInv
  <2> QED BY <2>2, <2>3 DEF Raises
<1>6. CASE stage = 3 /\ HyperIncrease(byteStage, t)
  <2>1. byteStage >= Threshold /\ t >= Threshold
    BY <1>2, <1>6 DEF IndInv, StageMatches
  <2> HIDE DEF t
  <2>2. Raises(byteStage, t) /\ stage' = 3 BY <1>1, <1>2, <1>6, HyperRaises
  <2>3. IndInv' BY <1>2, <1>3, <2>1, <2>2, RaiseInv
  <2> QED BY <2>2, <2>3 DEF Raises
<1> QED BY <1>4, <1>5, <1>6 DEF TimerEvent

\* One part of G less, and a whole of alpha more.
LEMMA AlphaFacts ==
  ASSUME NEW a \in 0 .. AlphaUnit
  PROVE  /\ ((G - 1) * a) \div G \in 0 .. AlphaUnit
         /\ Raised(a) \in 0 .. AlphaUnit
<1>1. G \in Nat \ {0} /\ AlphaUnit \in Nat /\ a \in Nat /\ a <= AlphaUnit
      /\ G - 1 \in Nat
  BY DcqcnAssumption
<1> DEFINE p == (G - 1) * a
           u == (G - 1) * AlphaUnit
<1>2. p \in Nat /\ u \in Nat BY <1>1
<1>3. p <= u
  <2>1. CASE G - 1 = 0 BY <1>1, <2>1
  <2>2. CASE G - 1 # 0
    <3>1. a * (G - 1) <= AlphaUnit * (G - 1) BY <1>1, <2>2, MulMono
    <3> QED BY <1>1, <3>1
  <2> QED BY <2>1, <2>2
<1>4. u + AlphaUnit = AlphaUnit * G BY <1>1
<1>5. Raised(a) = (p + AlphaUnit) \div G BY DEF Raised
<1> HIDE DEF p, u
<1>6. p + AlphaUnit <= AlphaUnit * G /\ p <= AlphaUnit * G
      /\ p + AlphaUnit \in Nat
  BY <1>1, <1>2, <1>3, <1>4
<1>7. p \div G \in Nat /\ p \div G <= AlphaUnit
  BY <1>1, <1>2, <1>6, DivSmallest, DivBounds
<1>8. (p + AlphaUnit) \div G \in Nat /\ (p + AlphaUnit) \div G <= AlphaUnit
  BY <1>1, <1>2, <1>6, DivSmallest, DivBounds
<1> QED BY <1>1, <1>5, <1>7, <1>8 DEF p

\* A cut takes at most half of the rate, and stops at the minimal rate.
LEMMA CutFacts ==
  ASSUME RateInBounds, NEW a \in 0 .. AlphaUnit
  PROVE  Cut(a) \in Nat /\ MinRate <= Cut(a) /\ Cut(a) <= rate
<1>1. /\ rate \in Nat /\ MinRate \in Nat /\ MinRate <= rate
      /\ AlphaUnit \in Nat \ {0} /\ a \in Nat /\ a <= AlphaUnit
  BY Numbers, DcqcnAssumption DEF RateInBounds
<1> DEFINE d == 2 * AlphaUnit
           s == d - a
           p == rate * s
<1>2. d \in Nat \ {0} /\ s \in Nat /\ s <= d BY <1>1
<1>3. Cut(a) = Larger(MinRate, p \div d) BY DEF Cut
<1> HIDE DEF d, s
<1>4. p \in Nat BY <1>1, <1>2
<1>5. p <= rate * d
  <2>1. CASE rate = 0 BY <1>1, <1>2, <2>1
  <2>2. CASE rate # 0
    <3>1. s * rate <= d * rate BY <1>1, <1>2, <2>2, MulMono
    <3> QED BY <1>1, <1>2, <3>1
  <2> QED BY <2>1, <2>2
<1> HIDE DEF p
<1>6. p \div d \in Nat /\ p \div d <= rate
  BY <1>1, <1>2, <1>4, <1>5, DivSmallest, DivBounds
<1> QED BY <1>1, <1>3, <1>6 DEF Larger

LEMMA ResumeInv == IndInv /\ ResumeAlpha => IndInv' /\ rate - 1 <= rate'
<1> SUFFICES ASSUME IndInv, ResumeAlpha PROVE IndInv' /\ rate - 1 <= rate'
  OBVIOUS
<1>1. TypeOK BY DEF IndInv, RateInBounds
<1>2. alpha' \in 0 .. AlphaUnit BY <1>1, AlphaFacts DEF TypeOK, ResumeAlpha
<1>3. UNCHANGED <<clamp, rate, target, txBytes, byteStage, timeStage, stage,
                  rptimer, resume, cnps>>
  BY DEF ResumeAlpha
<1>4. TypeOK' BY <1>1, <1>2, <1>3 DEF TypeOK
<1>5. rate - 1 <= rate' BY <1>1, <1>3, Numbers
<1> QED BY <1>3, <1>4, <1>5 DEF IndInv, RateInBounds, StageMatches

LEMMA CnmInv == IndInv /\ CnmReceived => IndInv' /\ cnps' > cnps
<1> SUFFICES ASSUME IndInv, CnmReceived PROVE IndInv' /\ cnps' > cnps
  OBVIOUS
<1>1. RateInBounds /\ TypeOK BY DEF IndInv, RateInBounds
<1>2. /\ clamp' = clamp /\ byteStage' = 0 /\ timeStage' = 0 /\ stage' = 1
      /\ rptimer' \in BOOLEAN /\ resume' \in BOOLEAN
  BY DEF CnmReceived
<1>3. cnps' \in 0 .. MaxCnps /\ cnps' > cnps
  BY <1>1, DcqcnAssumption DEF CnmReceived, TypeOK
<1>4. alpha' \in 0 .. AlphaUnit
  <2>1. alpha' = Raised(alpha) BY DEF CnmReceived
  <2> QED BY <1>1, <2>1, AlphaFacts DEF TypeOK
<1>5. rate' \in Nat /\ MinRate <= rate' /\ rate' <= rate
  <2>1. rate' = Cut(alpha') BY DEF CnmReceived
  <2> QED BY <1>1, <1>4, <2>1, CutFacts
<1>6. /\ rate \in Nat /\ target \in Nat /\ rate <= target /\ rate <= Bps
      /\ Bps \in Nat /\ MinRate \in Nat /\ Threshold \in Nat /\ Threshold > 0
      /\ MaxStage \in Nat /\ Bc \in Nat /\ txBytes \in 0 .. Bc
  BY <1>1, Numbers, DcqcnAssumption DEF RateInBounds, TypeOK
<1>7. target' \in Nat /\ rate <= target' /\ txBytes' \in 0 .. Bc
  <2>1. CASE Clamps
    <3>1. target' = rate /\ txBytes' = Bc BY <2>1 DEF CnmReceived
    <3> QED BY <1>6, <3>1
  <2>2. CASE ~Clamps
    <3>1. target' = target /\ txBytes' = txBytes BY <2>2 DEF CnmReceived
    <3> QED BY <1>6, <3>1
  <2> QED BY <2>1, <2>2
<1>8. TypeOK'
  <2>1. /\ byteStage' \in 0 .. MaxStage /\ timeStage' \in 0 .. MaxStage
        /\ stage' \in 0 .. 3
    BY <1>2, <1>6
  <2> QED BY <1>1, <1>2, <1>3, <1>4, <1>5, <1>7, <2>1 DEF TypeOK
<1>9. RateInBounds' BY <1>5, <1>6, <1>7, <1>8 DEF RateInBounds
<1>10. StageMatches' BY <1>2, <1>6 DEF StageMatches
<1> QED BY <1>3, <1>9, <1>10 DEF IndInv

LEMMA InitInv == Init => IndInv
<1> SUFFICES ASSUME Init PROVE IndInv OBVIOUS
<1>1. /\ clamp \in {"never", "afterTime", "always"}
      /\ rate = Bps /\ target = Bps /\ alpha = AlphaUnit \div 2
      /\ txBytes = Bc /\ byteStage = 0 /\ timeStage = 0 /\ stage = 0
      /\ rptimer \in BOOLEAN /\ resume \in BOOLEAN /\ cnps = 0
  BY DEF Init
<1>2. AlphaUnit \div 2 \in 0 .. AlphaUnit BY DcqcnAssumption
<1>3. TypeOK BY <1>1, <1>2, DcqcnAssumption DEF TypeOK
<1>4. RateInBounds BY <1>1, <1>3, DcqcnAssumption DEF RateInBounds
<1>5. StageMatches BY <1>1 DEF StageMatches
<1> QED BY <1>4, <1>5 DEF IndInv

\* Every step keeps the invariant, and all but a notification the rate.
LEMMA StepInv ==
  ASSUME IndInv, [Next]_vars
  PROVE  IndInv' /\ (rate - 1 <= rate' \/ cnps' > cnps)
<1>1. CASE Transmit BY <1>1, TransmitInv
<1>2. CASE TimerEvent BY <1>2, TimerEventInv
<1>3. CASE ResumeAlpha BY <1>3, ResumeInv
<1>4. CASE CnmReceived BY <1>4, CnmInv
<1>5. CASE UNCHANGED vars
  <2>1. UNCHANGED <<clamp, rate, target, alpha, txBytes, byteStage, timeStage,
                    stage, rptimer, resume, cnps>>
    BY <1>5 DEF vars
  <2>2. TypeOK /\ txBytes' \in 0 .. Bc
    BY <2>1 DEF IndInv, RateInBounds, TypeOK
  <2>3. rate - 1 <= rate' BY <2>1, <2>2, Numbers
  <2> QED BY <2>1, <2>2, <2>3, QuietInv
<1> QED BY <1>1, <1>2, <1>3, <1>4, <1>5 DEF Next

LEMMA Invariance == Spec => []IndInv
<1>1. IndInv /\ [Next]_vars => IndInv' BY StepInv
<1> QED BY <1>1, InitInv, PTL DEF Spec

---------------------------------------------------------------------------
\* For any rates the rate of a flow stays between the minimal rate and that of
\* the link, below its target (qbb-net-device.cc:1519-1573).
THEOREM BoundsHold == Spec => []RateInBounds
<1>1. IndInv => RateInBounds BY DEF IndInv
<1> QED BY <1>1, Invariance, PTL

\* For any threshold the stage is the one the counters call for
\* (qbb-net-device.cc:1418-1517).
THEOREM StagesMatch == Spec => []StageMatches
<1>1. IndInv => StageMatches BY DEF IndInv
<1> QED BY <1>1, Invariance, PTL

\* No event but a notification cuts the rate (qbb-net-device.cc:1519-1573).
THEOREM CnpsCut == Spec => OnlyCnpCuts
<1>1. IndInv /\ [Next]_vars => [rate' < rate - 1 => cnps' > cnps]_vars
  <2> SUFFICES ASSUME IndInv, [Next]_vars
               PROVE  rate' < rate - 1 => cnps' > cnps
    OBVIOUS
  <2>1. rate - 1 <= rate' \/ cnps' > cnps BY StepInv
  <2>2. rate \in Nat /\ rate' \in Nat
    BY StepInv DEF IndInv, RateInBounds, TypeOK
  <2> QED BY <2>1, <2>2
<1> QED BY <1>1, Invariance, PTL DEF Spec, OnlyCnpCuts
===============================================================================
