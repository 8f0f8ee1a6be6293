------------------------------ MODULE MCMaster ------------------------------
(* Small instances of Master for TLC. *)
EXTENDS Master
CONSTANTS home, direct, amdpath, m1, m2, a1, a2, null

L(p, m) == [path |-> p, map |-> m]
C(n, ls, a) == [nss |-> n, lines |-> ls, amd |-> a]
Amd(a) == C(<<"files">>, <<<<>>>>, a)
MCConfiguration ==
    { C(<<"ldap">>, <<<<L(home, m2), L(home, null)>>>>, None),
      C(<<"nis", "nisplus">>, <<<<L(home, null), L(home, m1)>>, <<L(home, m1)>>>>, None),
      C(<<"sss">>, <<<<L(direct, m1), L(direct, m2)>>>>, None) }
MCAmd == { Amd(a1), Amd(a2), C(<<"files">>, <<<<L(home, m1)>>>>, None) }
=============================================================================
