---------------------------- MODULE MCMountsList ----------------------------
(* Constants for checking MountsList with TLC. The paths are alike.        *)
EXTENDS MountsList, TLC

CONSTANTS p1, p2

Paths == Permutations(Path)
=============================================================================
