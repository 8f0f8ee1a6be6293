----------------------------- MODULE MCMountNfs -----------------------------
(* Small instances of MountNfs for TLC. *)
EXTENDS MountNfs

Addr(s, r) == [srv |-> s, rel |-> r]
Name(w, as) == [name |-> "known", weight |-> w, addrs |-> as]
Lo == <<"net", "subnet">>
Far == <<"none", "none">>
V(vs, ps) == vs \X ps
All == V({2, 3, 4}, {"tcp", "udp"})

\* Locations: two servers at one distance with two addresses further off; one
\* server; this machine or a server; a server unknown, addresses unusable.
Pair == << Name(0, <<Addr("s3", Far), Addr("s4", Far)>>),
           Name(0, <<Addr("s1", Lo)>>), Name(1, <<Addr("s2", <<"net", "none">>)>>) >>
Single == << Name(0, <<Addr("s1", Lo)>>) >>
Odd == << [name |-> "none", weight |-> 0, addrs |-> <<>>], [name |-> "unknown", weight |-> 0, addrs |-> <<>>],
          Name(0, <<Addr("s1", <<"unusable", "unusable">>), Addr("s2", Far)>>) >>
Subnets == << Name(2, <<Addr("s1", <<"subnet", "none">>)>>), Name(0, <<Addr("s2", <<"net">>)>>) >>

MCLocations == <<Pair, Single, Odd, Subnets>>
Sup(a, b, c) == [s \in Servers |-> CASE s = "s1" -> a [] s = "s2" -> b [] s = "lh" -> All [] OTHER -> c]
MCSupport == << Sup(All, All, All), Sup(V({4}, {"tcp"}), V({3}, {"tcp"}), All),
                Sup(V({3, 4}, {"tcp"}), V({3}, {"tcp", "udp"}), V({4}, {"tcp"})),
                Sup(V({2}, {"tcp"}), V({2, 3}, {"udp"}), All) >>
S(c, h) == [conf |-> c, health |-> h]
Up == [s \in Servers |-> "up"]
Base == [lock |-> FALSE, mtab |-> FALSE, verbose |-> FALSE, wait |-> FALSE, ghost |-> FALSE, there |-> {},
         type |-> "indirect", kind |-> "nfs", target |-> "plain", name |-> "known", nobind |-> FALSE,
         hostname |-> FALSE, string |-> TRUE, weightonly |-> FALSE, vers |-> {3, 4}, protos |-> {"tcp", "udp"},
         location |-> 2, support |-> 1,
         users |-> {"A"}, fickle |-> {}]

\* The choice of a server.
Choosing ==
    {S([Base EXCEPT !.location = 1, !.support = s, !.hostname = n, !.fickle = {"s1", "s3"}],
       [Up EXCEPT !["s1"] = h1, !["s2"] = h2, !["s3"] = h3]) :
        n \in BOOLEAN, s \in 1..3,
        h1 \in {"up", "unreach", "timeout"}, h2 \in {"up", "error"}, h3 \in {"up", "timeout"}}
    \cup
    {S([Base EXCEPT !.location = l, !.weightonly = w, !.protos = p, !.wait = ~w, !.vers = v, !.fickle = {"s1"}], Up) :
        l \in 2..4, w \in BOOLEAN, p \in {{"tcp"}, {"udp"}}, v \in {{4}, {2, 3}, {3, 4}}}
    \cup
    {S([Base EXCEPT !.location = l, !.support = 4, !.vers = {2, 3}], Up) : l \in {1, 4}}

\* The processes: with and without the lock, whatever B is bound to; the
\* programs and options of the mount modules.
Spawning ==
    {[Base EXCEPT !.lock = lk, !.mtab = TRUE, !.wait = ~lk, !.target = "autofs", !.type = d, !.users = {"B", "C"},
                  !.ghost = d = "indirect", !.there = {"B"}] :
        lk \in BOOLEAN, d \in {"indirect", "direct"}}
    \cup
    {[Base EXCEPT !.mtab = TRUE, !.wait = w, !.target = "A", !.users = {"B"}] : w \in BOOLEAN}
    \cup
    {[Base EXCEPT !.lock = lk, !.target = "A", !.users = {"A", "B"}, !.fickle = {"s1"}] : lk \in BOOLEAN}
    \cup
    {[Base EXCEPT !.kind = k, !.verbose = v, !.mtab = TRUE, !.ghost = v] :
        k \in {"ext2", "changer", "generic", "nfs"}, v \in BOOLEAN}
    \cup
    {[Base EXCEPT !.users = {"B"}, !.mtab = TRUE, !.name = n, !.nobind = b, !.fickle = {"lh"}] :
        n \in {"known", "none"}, b \in BOOLEAN}
MCScenario == Choosing \cup {S(c, Up) : c \in Spawning}
=============================================================================
