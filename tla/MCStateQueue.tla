---------------------------- MODULE MCStateQueue ----------------------------
(* Constants for checking StateQueue with TLC. *)
EXTENDS StateQueue, TLC

CONSTANTS a, b, t1, t2

NoParent == [sm \in {} |-> sm]
ParentA == [sm \in {b} |-> a]
=============================================================================
