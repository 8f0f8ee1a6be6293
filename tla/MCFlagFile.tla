----------------------------- MODULE MCFlagFile -----------------------------
(* Constants for checking FlagFile with TLC. *)
EXTENDS FlagFile

CONSTANTS p1, p2, p3, i1, i2, i3, i4
=============================================================================
