--------------------------- MODULE MCMountRequest ---------------------------
(* Constants for checking MountRequest with TLC. *)
EXTENDS MountRequest

CONSTANTS k, d, e, f1, f2, t1, t2
=============================================================================
