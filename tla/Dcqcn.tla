------------------------------- MODULE Dcqcn -------------------------------
(***************************************************************************)
(* The reaction point of DCQCN in a NIC of the simulator, for one flow     *)
(* (qbb-net-device.cc): a congestion notification (CNP) cuts the rate and  *)
(* starts fast recovery (stage 1); counted bytes and a timer then raise it *)
(* towards the target rate, after Threshold events of one kind the target  *)
(* too (stage 2, active increase), after Threshold of both in larger steps *)
(* (stage 3, hyper increase).  Stage 0: no CNP so far.                     *)
(*                                                                         *)
(* Rates are whole numbers, and halves are rounded down as DataRate does.  *)
(* alpha is a multiple of 1/AlphaUnit.  Bytes are counted in packets.      *)
(***************************************************************************)
EXTENDS Integers

CONSTANTS
  Bps,        \* m_bps: the rate of the link
  MinRate,    \* m_minRate
  Rai, Rhai,  \* m_rai, m_rhai: steps of active and hyper increase
  Threshold,  \* m_rpgThreshold
  Bc,         \* m_bc: packets between two byte events
  AlphaUnit,  \* alpha = 1 is AlphaUnit
  G,          \* m_g is 1/G
  Word,       \* 2^32: the stage counters are unsigned
  MaxStage,   \* bound: byte and timer events since a CNP
  MaxTarget,  \* bound: target rate
  MaxCnps     \* bound: CNPs received

ASSUME DcqcnAssumption ==
  /\ Bps \in Nat /\ MinRate \in Nat \ {0} /\ MinRate <= Bps
  /\ MinRate % 2 = 0
  /\ Rai \in Nat /\ Rhai \in Nat /\ Threshold \in Nat \ {0}
  /\ Bc \in Nat \ {0} /\ AlphaUnit \in Nat \ {0} /\ G \in Nat \ {0}
  /\ MaxStage \in Nat /\ MaxTarget \in Nat /\ MaxCnps \in Nat
  /\ Word \in Nat /\ Word > MaxStage + Threshold + 1

VARIABLES
  clamp,     \* "never", "afterTime" or "always": m_EcnClampTgtRate...
  rate,      \* m_rate, m_rateAll
  target,    \* m_targetRate
  alpha,     \* m_alpha
  txBytes,   \* m_txBytes: packets until the next byte event
  byteStage, \* m_rpByteStage
  timeStage, \* m_rpTimeStage
  stage,     \* m_rpStage
  rptimer,   \* is m_rptimer running?
  resume,    \* is m_resumeAlpha running?
  cnps       \* CNPs received so far

vars == <<clamp, rate, target, alpha, txBytes, byteStage, timeStage, stage,
          rptimer, resume, cnps>>

Smaller(a, b) == IF a < b THEN a ELSE b
Larger(a, b)  == IF a < b THEN b ELSE a

Init ==
  /\ clamp \in {"never", "afterTime", "always"}
  /\ rate = Bps /\ target = Bps
  /\ alpha = AlphaUnit \div 2
  /\ txBytes = Bc /\ byteStage = 0 /\ timeStage = 0 /\ stage = 0
  /\ rptimer = FALSE /\ resume = FALSE /\ cnps = 0

---------------------------------------------------------------------------
\* Mutant of NewTarget: a target far above the rate is not waited for.
NewTargetEighth(b, t, increase) ==
  IF b = 1 \/ t = 1 THEN target \div 8 ELSE target + increase

\* A target far above the rate is brought down by the first events.
NewTarget(b, t, increase) ==
  IF (b = 1 \/ t = 1) /\ target > 10 * rate
  THEN target \div 8 ELSE target + increase

\* AdjustRates, when the stage counters are b and t.
AdjustRates(b, t, increase) ==
  /\ NewTarget(b, t, increase) <= MaxTarget
  /\ byteStage' = b /\ timeStage' = t
  /\ target' = NewTarget(b, t, increase)
  /\ rate' = Smaller(Bps, rate \div 2 + target' \div 2)

FastRecovery(b, t) == stage' = 1 /\ AdjustRates(b, t, 0)

ActiveIncrease(b, t) == stage' = 2 /\ AdjustRates(b, t, Rai)

HyperIncrease(b, t) ==
  /\ stage' = 3
  /\ AdjustRates(b, t, Rhai * ((Smaller(b, t) + 1 - Threshold) % Word))

\* Mutant of ActiveSelect: one counter is enough for the hyper increase.
ActiveSelectEither(b, t) ==
  IF b < Threshold /\ t < Threshold
  THEN ActiveIncrease(b, t) ELSE HyperIncrease(b, t)

ActiveSelect(b, t) ==
  IF b < Threshold \/ t < Threshold
  THEN ActiveIncrease(b, t) ELSE HyperIncrease(b, t)

\* A byte event.  In stage 2 it does not look at the other counter.
ByteEvent(b) ==
  /\ b <= MaxStage
  /\ \/ /\ stage = 1
        /\ IF b < Threshold THEN FastRecovery(b, timeStage)
           ELSE ActiveSelect(b, timeStage)
     \/ stage = 2 /\ ActiveIncrease(b, timeStage)
     \/ stage = 3 /\ HyperIncrease(b, timeStage)
  /\ txBytes' = IF stage = 3 THEN Bc \div 2 ELSE Bc

\* A packet of the flow leaves the NIC.
Transmit ==
  /\ \/ /\ stage = 0 /\ txBytes' = Bc
        /\ UNCHANGED <<rate, target, byteStage, timeStage, stage>>
     \/ /\ stage > 0 /\ txBytes > 0 /\ txBytes' = txBytes - 1
        /\ UNCHANGED <<rate, target, byteStage, timeStage, stage>>
     \/ stage > 0 /\ txBytes = 0 /\ ByteEvent(byteStage + 1)
  /\ UNCHANGED <<clamp, alpha, rptimer, resume, cnps>>

\* Mutant of Rearmed: the timer is started again in fast recovery only.
RearmedOnce == stage = 1

\* The timer is started again by every timer event.
Rearmed == TRUE

\* The timer m_rptimer ends.
TimerEvent ==
  LET t == timeStage + 1 IN
  /\ rptimer /\ t <= MaxStage
  /\ \/ stage = 1 /\ t < Threshold /\ FastRecovery(byteStage, t)
     \/ stage = 1 /\ t >= Threshold /\ ActiveSelect(byteStage, t)
     \/ stage = 2 /\ ActiveSelect(byteStage, t)
     \/ stage = 3 /\ HyperIncrease(byteStage, t)
  /\ rptimer' = Rearmed
  /\ UNCHANGED <<clamp, alpha, txBytes, resume, cnps>>

ResumeAlpha ==
  /\ resume
  /\ alpha' = ((G - 1) * alpha) \div G
  /\ UNCHANGED <<clamp, rate, target, txBytes, byteStage, timeStage, stage,
                 rptimer, resume, cnps>>

\* A CNP makes the rate the target: always, or only after an event.
Clamps ==
  \/ clamp = "always"
  \/ byteStage # 0
  \/ clamp = "afterTime" /\ timeStage # 0

\* Mutant of Raised: the past is not discounted.
RaisedOnly(a) == (G * a + AlphaUnit) \div G

\* alpha after a CNP.
Raised(a) == ((G - 1) * a + AlphaUnit) \div G

\* Mutant of Cut: no minimal rate.
CutDeep(a) == (rate * (2 * AlphaUnit - a)) \div (2 * AlphaUnit)

Cut(a) == Larger(MinRate, (rate * (2 * AlphaUnit - a)) \div (2 * AlphaUnit))

\* rpr_cnm_received.
CnmReceived ==
  /\ cnps < MaxCnps /\ cnps' = cnps + 1
  /\ IF Clamps THEN target' = rate /\ txBytes' = Bc
     ELSE UNCHANGED <<target, txBytes>>
  /\ byteStage' = 0 /\ timeStage' = 0
  /\ alpha' = Raised(alpha)
  /\ rate' = Cut(alpha')
  /\ stage' = 1 /\ rptimer' = TRUE /\ resume' = TRUE
  /\ UNCHANGED clamp

Next == Transmit \/ TimerEvent \/ ResumeAlpha \/ CnmReceived

Spec == Init /\ [][Next]_vars /\ WF_vars(TimerEvent)

---------------------------------------------------------------------------
TypeOK ==
  /\ clamp \in {"never", "afterTime", "always"}
  /\ rate \in Nat /\ target \in Nat /\ alpha \in 0 .. AlphaUnit
  /\ txBytes \in 0 .. Bc /\ byteStage \in 0 .. MaxStage
  /\ timeStage \in 0 .. MaxStage /\ stage \in 0 .. 3
  /\ rptimer \in BOOLEAN /\ resume \in BOOLEAN /\ cnps \in 0 .. MaxCnps

\* Every variable has its type, so that alpha stays a share of the rate.  The
\* rate stays between the minimal rate and that of the link, and never goes
\* beyond its target, though a CNP without a byte event before it keeps a target
\* that an earlier congestion left, and the target itself has no bound
\* (qbb-net-device.cc:1519-1536, 1538-1573).
RateInBounds ==
  /\ TypeOK
  /\ MinRate <= rate /\ rate <= Bps
  /\ rate <= target

\* The stage is the one its counters call for, so that the unsigned factor of
\* the hyper increase does not wrap; in stage 2 a byte event stays there until a
\* timer event looks at both counters (qbb-net-device.cc:1418-1432, 1500-1517).
StageMatches ==
  /\ stage = 0 => byteStage = 0 /\ timeStage = 0
  /\ stage = 1 => byteStage < Threshold /\ timeStage < Threshold
  /\ stage = 2 => byteStage >= Threshold \/ timeStage >= Threshold
  /\ stage = 3 => byteStage >= Threshold /\ timeStage >= Threshold

\* Only a CNP takes rate away from a flow; a raise that is rounded may lose one
\* unit (qbb-net-device.cc:1527, data-rate.cc:294).
OnlyCnpCuts ==
  [][rate' < rate - 1 => cnps' > cnps]_vars

\* A flow whose rate was cut comes back to the rate of the link by its timer
\* alone when no more CNPs come (qbb-net-device.cc:1434-1448, 1465-1497).
Recovers ==
  rate < Bps ~> rate = Bps
===========================================================================
