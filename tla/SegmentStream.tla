--------------------------- MODULE SegmentStream ---------------------------
(***************************************************************************)
(* What the RSwift client promises for each flow: segments are posted in   *)
(* order, at most Limit of them are unacknowledged at any time, each is    *)
(* acknowledged once, and in the end all of them are.                      *)
(***************************************************************************)
EXTENDS Integers

CONSTANTS Flows, Iters, Limit

VARIABLES posted, acked   \* per flow, how many

Init == posted = [f \in Flows |-> 0] /\ acked = [f \in Flows |-> 0]

Post(f) ==
  /\ posted[f] < Iters
  /\ posted[f] - acked[f] < Limit
  /\ posted' = [posted EXCEPT ![f] = @ + 1]
  /\ UNCHANGED acked

Ack(f) ==
  /\ acked[f] < posted[f]
  /\ acked' = [acked EXCEPT ![f] = @ + 1]
  /\ UNCHANGED posted

Next == \E f \in Flows : Post(f) \/ Ack(f)

vars == <<posted, acked>>
Spec == Init /\ [][Next]_vars

FairSpec == Spec /\ \A f \in Flows : WF_vars(Post(f)) /\ WF_vars(Ack(f))
============================================================================
