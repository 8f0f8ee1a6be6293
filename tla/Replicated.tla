----------------------------- MODULE Replicated -----------------------------
(***************************************************************************)
(* The choice among the servers of a location: modules/replicated.c.  A    *)
(* host is an entry of the list with its proximity, weight, cost and the   *)
(* NFS versions it has answered for.  Addresses are abstracted to what     *)
(* they are to the interfaces of the machine, and what a server answers to *)
(* a probe of a version over a protocol is given: the answers stand for    *)
(* the RPC library.                                                        *)
(***************************************************************************)
EXTENDS Integers, Sequences, SequencesExt, FiniteSets, FiniteSetsExt

CONSTANTS None

PROXIMITY_LOCAL == 1
PROXIMITY_SUBNET == 2
PROXIMITY_NET == 4
PROXIMITY_OTHER == 8
PROXIMITY_UNSUPPORTED == 16

\* get_proximity(): rel[i] is what the address is to interface i.  The address
\* of an interface is local; otherwise the first interface on whose subnet or
\* network it is decides, when there is a usable one.
get_proximity(rel) ==
    LET near == {i \in DOMAIN rel : rel[i] \in {"subnet", "net"}}
    IN IF "self" \in ToSet(rel) THEN PROXIMITY_LOCAL
       ELSE IF ToSet(rel) \subseteq {"unusable"} THEN PROXIMITY_UNSUPPORTED
       ELSE IF near = {} THEN PROXIMITY_OTHER
       ELSE IF rel[Min(near)] = "subnet" THEN PROXIMITY_SUBNET ELSE PROXIMITY_NET

new_host(srv, ent, prox, weight, rr) ==
    [srv |-> srv, ent |-> ent, prox |-> prox, weight |-> weight, rr |-> rr, cost |-> 0, vers |-> {}]
Local(h) == h.prox = PROXIMITY_LOCAL

\* add_host(): before the hosts that are not closer, among equals by cost.
add_hostLast(list, h) == Append(list, h)    \* at the end of the list
add_host(list, h) ==
    LET closer == {i \in DOMAIN list : list[i].prox < h.prox}
        cheaper == {i \in DOMAIN list : h.cost # 0 /\ list[i].prox = h.prox /\ list[i].cost < h.cost}
        run == {i \in cheaper : \A j \in Cardinality(closer) + 1..i : j \in cheaper}
    IN InsertAt(list, Cardinality(closer) + Cardinality(run) + 1, h)

\* add_new_host(): an unsupported address is passed over; when the weight alone
\* counts all hosts are at the same distance, but for this machine.
add_new_host(list, ent, weight, addr, rr, opt) ==
    LET prx == get_proximity(addr.rel)
    IN IF prx = PROXIMITY_UNSUPPORTED THEN list
       ELSE add_host(list, new_host(addr.srv, ent,
                                    IF prx # PROXIMITY_LOCAL /\ opt.weightonly THEN PROXIMITY_SUBNET ELSE prx, weight, rr))

\* add_host_addrs(): every address of the name.
add_host_addrs(list, ent, entry, opt) ==
    LET added[i \in 0..Len(entry.addrs)] ==
            IF i = 0 THEN list
            ELSE add_new_host(added[i - 1], ent, entry.weight, entry.addrs[i], Len(entry.addrs) > 1, opt)
    IN added[Len(entry.addrs)]

\* add_local_path(): ":/path", a host without a name.
add_local_path(list) == add_host(list, new_host(None, 0, PROXIMITY_LOCAL, 0, FALSE))

\* parse_location(): the entries in turn; one whose name is not found is left out.
parse_location(location, opt) ==
    LET add(list, i) ==
            IF location[i].name = "none" THEN add_local_path(list)
            ELSE IF location[i].name = "unknown" THEN list
            ELSE add_host_addrs(list, i, location[i], opt)
        parsed[i \in 0..Len(location)] == IF i = 0 THEN <<>> ELSE add(parsed[i - 1], i)
    IN parsed[Len(location)]
-----------------------------------------------------------------------------
\* The cost of a reply, allowing for user bias.
Cost(h, opt, time) ==
    LET base == IF opt.weightonly THEN 1 ELSE time
    IN IF h.weight = 0 THEN base ELSE base * (h.weight + 1)

\* get_nfs_info() for one protocol: version 4, then 3, then 2, of those asked
\* for.  Without a port the portmapper is asked first, except for version 4
\* alone; a version not registered there ends the probe, version 4 excepted.
get_nfs_info(ans, vers, proto) ==
    LET portmap == vers # {4}
        order == <<4, 3, 2>>
        start == [stop |-> FALSE, err |-> "none", ok |-> {}]
        step(s, v) ==
            LET a == ans[<<v, proto>>]
            IN IF s.stop \/ v \notin vers THEN s
               ELSE IF a \in {"unreach", "timeout"} THEN [s EXCEPT !.stop = TRUE, !.err = a]
               ELSE IF a = "ok" THEN [s EXCEPT !.ok = @ \cup {v}]
               ELSE IF a = "noport" /\ portmap /\ v # 4 THEN [s EXCEPT !.stop = TRUE]
               ELSE s
        after[i \in 0..3] == IF i = 0 THEN start ELSE step(after[i - 1], order[i])
    IN after[3]

\* get_vers_and_cost(): a host that cannot be reached over TCP is not tried over
\* UDP.
get_vers_and_cost(h, ans, opt, time) ==
    LET info(p) == IF p \in opt.protos THEN get_nfs_info(ans, opt.vers, p)
                   ELSE [stop |-> FALSE, err |-> "none", ok |-> {}]
        good(p) == IF info(p).err = "none" THEN {<<v, p>> : v \in info(p).ok} ELSE {}
        supported == good("tcp") \cup good("udp")
    IN IF info("tcp").err # "none" \/ supported = {} THEN [status |-> FALSE, host |-> h]
       ELSE [status |-> TRUE, host |-> [h EXCEPT !.vers = supported, !.cost = Cost(h, opt, time)]]

\* get_supported_ver_and_cost(): anything but an unreachable host or a missing
\* port counts, a ping that fails too, and then as one that took no time.
get_supported_ver_and_cost(h, ans, sel, opt, time) ==
    LET a == ans[sel]
    IN IF a = "unreach" \/ (a = "noport" /\ sel[1] # 4) THEN [status |-> FALSE, host |-> h]
       ELSE [status |-> TRUE,
             host |-> [h EXCEPT !.vers = {sel}, !.cost = Cost(h, opt, IF a = "ok" THEN time ELSE 0)]]

\* prune_host_list(): the version that most of the closest servers support, the
\* first of this order when there are several.
Preference == << <<4, "tcp">>, <<3, "tcp">>, <<2, "tcp">>, <<4, "udp">>, <<3, "udp">>, <<2, "udp">> >>
Supporters(near, vp) == Cardinality({i \in DOMAIN near : vp \in near[i].vers})
SelectedFew(near) == Preference[CHOOSE i \in 1..6 : \* takes any that is supported
    Supporters(near, Preference[i]) > 0 /\ \A j \in 1..i - 1 : Supporters(near, Preference[j]) = 0]
Selected(near) ==
    Preference[CHOOSE i \in 1..6 :
        /\ \A j \in 1..6 : Supporters(near, Preference[j]) <= Supporters(near, Preference[i])
        /\ \A j \in 1..i - 1 : Supporters(near, Preference[j]) < Supporters(near, Preference[i])]
=============================================================================
