-------------------------- MODULE MCRSwiftClient --------------------------
(* RSwiftClient for TLC: the flows are interchangeable.                    *)
EXTENDS RSwiftClient, TLC

FlowSymmetry == Permutations(Flows)
===========================================================================
