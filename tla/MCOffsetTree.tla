---------------------------- MODULE MCOffsetTree ----------------------------
(***************************************************************************)
(* A host that exports "/", "/a", "/a-b" and "/a/z", in this order for     *)
(* strcmp(); the key sorts after them.                                     *)
(***************************************************************************)
EXTENDS OffsetTree

CONSTANTS sl, a, ab, az, key, reader

MCAbove == [o \in {sl, a, ab, az} |-> IF o = az THEN {a} ELSE {}]
MCByLength == <<sl, a, ab, az>>
MCByName == <<sl, a, ab, az, key>>
MCLists == {{}, {ab, az}, {a, az}, {sl, a, ab}}
=============================================================================
