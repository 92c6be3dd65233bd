----------------------------- MODULE TargetDelay -----------------------------
(***************************************************************************)
(* The target delay of a receiving node (node.cc, timely-receiver.cc),     *)
(* shared by all its flows.  A packet that is marked, because the queue it *)
(* left last had room, raises the target, up to Run times in a row; a      *)
(* timer, which runs from the beginning and which every change of the      *)
(* target starts again, lowers it.                                         *)
(***************************************************************************)
EXTENDS Integers

CONSTANTS
  Floor,      \* 20 * sequelize_time_per_packet
  Ceiling,    \* lqq_max_target
  Start,      \* lqq_target at the beginning
  Increase,   \* step of IncreaseEvent_f
  Decrease,   \* step of DecreaseEvent_f
  Run         \* marked packets in a row that raise the target

ASSUME TargetAssumption ==
  /\ Floor \in Nat /\ Ceiling \in Nat /\ Start \in Floor .. Ceiling
  /\ Increase \in Nat /\ Decrease \in 1 .. Floor /\ Run \in Nat

VARIABLES
  target,        \* lqq_target
  conMark,       \* con_mark
  decreaseEvent, \* is decreaseEvent running?
  late,          \* is it later than 10 s?
  base           \* history: the target when con_mark was 0 last

targetVars == <<target, conMark, decreaseEvent, late, base>>

\* Node::Construct schedules the first DecreaseEvent_f.
TargetInit ==
  /\ target = Start /\ conMark = 0 /\ decreaseEvent = TRUE /\ late = FALSE
  /\ base = Start

---------------------------------------------------------------------------
\* Mutant of ResetEvent: a running timer is canceled and not started again.
ResetCancels == decreaseEvent' = (~decreaseEvent /\ ~late)

\* resetEvent_f: no timer runs after 10 s.
ResetEvent == decreaseEvent' = ~late

\* Mutant of Raised: no upper bound.
RaisedOver == target + Increase

Raised == IF target + Increase < Ceiling THEN target + Increase ELSE Ceiling

IncreaseEvent == target' = Raised /\ ResetEvent

Lowered == IF target - Decrease < Floor THEN Floor ELSE target - Decrease

DecreaseEvent ==
  /\ decreaseEvent
  /\ target' = Lowered
  /\ ResetEvent
  /\ UNCHANGED <<conMark, late, base>>

\* Mutant of Marks: a full run starts another one.
MarksForgotten == IF conMark + 1 <= Run THEN conMark + 1 ELSE 0

\* con_mark after a marked packet.
Marks == IF conMark + 1 <= Run THEN conMark + 1 ELSE Run + 1

\* HandleRead: a packet of any flow that needs an acknowledgement.
PacketRead(marked) ==
  /\ IF marked
     THEN /\ conMark' = Marks
          /\ IF conMark + 1 <= Run THEN IncreaseEvent
             ELSE UNCHANGED <<target, decreaseEvent>>
          /\ UNCHANGED base
     ELSE /\ conMark' = 0
          /\ base' = target
          /\ UNCHANGED <<target, decreaseEvent>>
  /\ UNCHANGED late

TenSeconds ==
  /\ ~late /\ late' = TRUE
  /\ UNCHANGED <<target, conMark, decreaseEvent, base>>

TargetNext ==
  \/ \E marked \in BOOLEAN : PacketRead(marked)
  \/ DecreaseEvent
  \/ TenSeconds

TargetSpec ==
  TargetInit /\ [][TargetNext]_targetVars /\ WF_targetVars(DecreaseEvent)

---------------------------------------------------------------------------
TargetTypeOK ==
  /\ target \in Floor .. Ceiling /\ conMark \in 0 .. Run + 1
  /\ decreaseEvent \in BOOLEAN /\ late \in BOOLEAN
  /\ base \in Floor .. Ceiling

\* Marked packets that follow each other raise the target by at most Run steps,
\* whichever flows they belong to and however the timer comes in between: a
\* queue that empties does not make the node forget the congestion at once
\* (timely-receiver.cc:237-255).
RiseBounded ==
  target <= base + Run * Increase

\* Until 10 s the target comes down to its floor again and again, or is raised
\* again and again: the timer that the node starts with is never lost, though
\* every raise cancels it (node.cc:193-196, 483-507).
Decays ==
  []~late =>
    []<>(target = Floor) \/ []<><<target' > target>>_targetVars
==============================================================================
