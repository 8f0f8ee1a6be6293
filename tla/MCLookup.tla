------------------------------ MODULE MCLookup ------------------------------
(***************************************************************************)
(* Instances of Lookup: each kind of source alone, pairs of sources named  *)
(* in /etc/nsswitch.conf with and without actions, a multi map, and some   *)
(* of these with two keys asked for at once.                               *)
(***************************************************************************)
EXTENDS Lookup

CONSTANTS k1, k2, v1, v2, star, null, none

\* k1 shares the wildcard's chain.
Buckets == [k \in {k1, k2, star} |-> IF k = k2 THEN 2 ELSE 1]

\* Two keys are about the wildcard: the map begins with nothing else.
MCFirstMaps ==
    {[k \in {k1, star} |-> IF k = star THEN b ELSE a] :
        a \in {v1, none}, b \in {v2, none}}
    \cup {[k \in {k1, k2, star} |-> IF k = star THEN b ELSE none] : b \in {v2, none}}

Continue == <<>>
Stop(status, negated) == [s \in {status} |-> [action |-> "return", negated |-> negated]]
GoOn == [s \in {"SUCCESS"} |-> [action |-> "continue", negated |-> FALSE]]

Mod(kind, action, plus) == [kind |-> kind, action |-> action, plus |-> plus]
Conf(mode, ghost, max, mods) ==
    [mode |-> mode, ghost |-> ghost, max |-> max, mods |-> mods, keys |-> {k1}]
Two(c) == [c EXCEPT !.keys = {k1, k2}]

Alone(kind, ghost, max) == Conf("type", ghost, max, <<Mod(kind, Continue, FALSE)>>)

SingleConfigs ==
    {Alone(t, TRUE, 3) : t \in {"yp", "nisplus", "ldap", "sss", "hosts"}}
    \cup {Alone(t, FALSE, 3) : t \in {"file", "nisplus", "ldap", "sss", "hosts",
                                      "hesiod", "userhome", "dir"}}
    \cup {Alone("file", TRUE, 4), Alone("program", FALSE, 4)}

PairConfigs ==
    {Conf("nss", TRUE, 2, <<Mod("file", Stop("NOTFOUND", FALSE), TRUE),
                            Mod("ldap", Continue, FALSE)>>),
     Conf("nss", FALSE, 2, <<Mod("nisplus", Continue, FALSE), Mod("yp", Continue, FALSE)>>),
     Conf("nss", FALSE, 3, <<Mod("ldap", Stop("SUCCESS", TRUE), FALSE),
                             Mod("file", GoOn, FALSE)>>),
     Conf("multi", TRUE, 2, <<Mod("file", Continue, FALSE), Mod("yp", Continue, FALSE)>>)}

TwoKeyConfigs == {Two(Alone("yp", FALSE, 3))}

AllConfigs == SingleConfigs \cup PairConfigs \cup TwoKeyConfigs
=============================================================================
