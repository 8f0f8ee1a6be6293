------------------------------ MODULE MountNfs ------------------------------
(***************************************************************************)
(* From a location to a mounted file system: the mount modules             *)
(* (mount_nfs.c with mount_bind.c; mount_ext2.c, mount_generic.c and       *)
(* mount_changer.c), the choice of a server (replicated.c, whose operators *)
(* are in Replicated) and the processes that call mount(8) and umount(8)   *)
(* (spawn.c).  Three threads of the daemon work on three paths: "A" has a  *)
(* location with several servers or a device, "B" is on this machine, a    *)
(* bind mount of A or of another directory, "C" is mounted and expires.    *)
(***************************************************************************)
EXTENDS Replicated

CONSTANTS
    Locations,      \* locations, each a sequence of entries
    Support,        \* what each server may support
    Scenario,       \* how the daemon is built and configured, how the servers are
                    \* at the start and which may change, which paths are asked
                    \* for or expire
    Servers,        \* addresses of servers, "lh" being this machine
    MTAB_LOCK_RETRIES,
    MaxTime, MaxChange   \* bounds: time a reply takes, changes of servers

Request == {"A", "B"}
Path == Request \cup {"C"}
VP == (2..4) \X {"tcp", "udp"}      \* versions over protocols
Health == {"up", "timeout", "unreach", "error"}

\* An entry of a location: a name, its addresses and what each is to the
\* interfaces of this machine.
Address == [srv : Servers, rel : Seq({"self", "subnet", "net", "none", "unusable"})]
LocationEntry == [name : {"known", "unknown", "none"}, weight : Nat, addrs : Seq(Address)]
Conf == [lock : BOOLEAN, mtab : BOOLEAN, verbose : BOOLEAN, wait : BOOLEAN, ghost : BOOLEAN,
         there : SUBSET Path, type : {"indirect", "direct"},
         kind : {"nfs", "ext2", "changer", "generic"}, target : {"plain", "A", "autofs"},
         name : {"known", "none"}, nobind : BOOLEAN, hostname : BOOLEAN, string : BOOLEAN,
         weightonly : BOOLEAN, vers : SUBSET (2..4), protos : SUBSET {"tcp", "udp"},
         location : DOMAIN Locations, support : DOMAIN Support,
         users : SUBSET Path, fickle : SUBSET Servers]

\* None is nobody's name, some version is asked for, and the servers of the
\* locations are known.
ASSUME MountNfsAssumption ==
    /\ None \notin Servers \cup Path \cup VP /\ "lh" \in Servers
    /\ MTAB_LOCK_RETRIES \in Nat \ {0} /\ MaxTime \in Nat
    /\ \A l \in DOMAIN Locations : Locations[l] \in Seq(LocationEntry)
    /\ \A s \in DOMAIN Support : Support[s] \in [Servers -> SUBSET VP]
    /\ \A x \in Scenario : /\ x.conf \in Conf /\ x.conf.vers # {} /\ x.conf.protos # {}
                            /\ x.health \in [Servers -> Health]

VARIABLES
    conf,       \* how the daemon is built and configured, the location of A
    health,     \* "up", or how the probes of a server fail
    changes,    \* how often servers have changed
    unsteady,   \* history: servers that changed since the request for A began
    req,        \* the requests: where they are, the hosts they work on
    exp,        \* the expire of C
    sp,         \* the call of spawn_mount(), spawn_bind_mount() or spawn_umount()
    child,      \* the process it has forked
    mutex,      \* who holds spawn_mutex
    mnt,        \* how many file systems are mounted on a path
    mtab, dir,  \* paths in /etc/mtab, paths that exist
    mounted,    \* paths in the list of mounted mounts
    hurt        \* history: where a directory could not be made, a fork failed or
                \* a child was killed

srvVars == <<health, changes, unsteady>>
fsVars == <<mnt, mtab, dir, mounted>>
spVars == <<sp, child, mutex, hurt>>
vars == <<conf, srvVars, req, exp, spVars, fsVars>>

Supports(s) == Support[conf.support][s]
NoReq == [pc |-> "idle", hosts |-> <<>>, first |-> 0, i |-> 0, new |-> <<>>, prev |-> 0,
          sel |-> None, existed |-> FALSE, ret |-> "none"]
NoSpawn == [pc |-> "idle", prog |-> "none", left |-> 0, fake |-> FALSE, ret |-> "none"]
Call(prog) == [pc |-> "lock", prog |-> prog, left |-> MTAB_LOCK_RETRIES, fake |-> FALSE, ret |-> "none"]
Exits == {"ok", "notupdated", "fail", "term"}
Active(p) == req[p].pc \notin {"idle", "done"}

\* What the RPC calls make of a server: the connection is refused, the
\* portmapper does not answer or does not know the version, the ping fails.
create_client(s) == IF health[s] = "unreach" THEN "unreach" ELSE "ok"
rpc_portmap_getport(s, vp) ==
    IF health[s] = "timeout" THEN "timeout" ELSE IF vp \in Supports(s) THEN "ok" ELSE "noport"
rpc_ping_proto(s) == IF health[s] = "error" THEN "error" ELSE "ok"
Answers(s) == [vp \in VP |-> IF create_client(s) # "ok" THEN create_client(s)
                             ELSE IF rpc_portmap_getport(s, vp) # "ok" THEN rpc_portmap_getport(s, vp)
                             ELSE rpc_ping_proto(s)]
Srv(h) == IF h.srv = None THEN "lh" ELSE h.srv
Asked == conf.vers \X conf.protos
Location(p) == IF p = "A" THEN Locations[conf.location]
               ELSE << [name |-> conf.name, weight |-> 0, addrs |-> <<[srv |-> "lh", rel |-> <<"self">>]>>] >>

\* What the server, or the device, makes of a mount of host h.  By its name any
\* address of the server will do.
Serves(p, h) ==
    LET addrs == IF h.ent = 0 \/ (h.rr /\ ~conf.hostname) THEN {Srv(h)}
                 ELSE {a.srv : a \in ToSet(Location(p)[h.ent].addrs)}
    IN \E s \in addrs : health[s] = "up" /\ Asked \cap Supports(s) # {}
-----------------------------------------------------------------------------
\* mount_mount() is called for a path.  A device has no servers to choose from.
Device == conf.kind # "nfs"
Parsed(p) == IF p = "A" /\ Device THEN << new_host(None, 0, PROXIMITY_OTHER, 0, FALSE) >>
             ELSE parse_location(Location(p), conf)
Begin(p) == [NoReq EXCEPT !.pc = IF p = "A" /\ Device THEN "mkdir" ELSE "prune",
                          !.hosts = Parsed(p)]
mount_mount(p) ==
    /\ p \in conf.users /\ req[p].pc = "idle"
    /\ req' = [req EXCEPT ![p] = Begin(p)]
    /\ unsteady' = IF p = "A" THEN {} ELSE unsteady
    /\ UNCHANGED <<conf, health, changes, exp, spVars, fsVars>>

\* prune_host_list() probes nothing when there are only local hosts, nor for a
\* single host unless mount.nfs leaves the probing to the kernel and no
\* MOUNT_WAIT is set.
Others(hosts) == {i \in DOMAIN hosts : ~Local(hosts[i])}
Unprobed(hosts) ==
    \/ Others(hosts) = {}
    \/ ~(conf.string /\ ~conf.wait) /\ Max(Others(hosts)) = Min(Others(hosts))

Goto(p, pc) == req' = [req EXCEPT ![p].pc = pc]

\* A single host is first probed for version 4 alone, when that is the default.
V4Probe(hosts) == Len(hosts) = 1 /\ conf.vers = {3, 4} /\ "udp" \notin conf.protos
V4Ok(h) == get_vers_and_cost(h, Answers(h.srv), [conf EXCEPT !.vers = {4}, !.protos = {"tcp"}], 1).status
prune_host_list(p) ==
    LET hosts == req[p].hosts
    IN /\ req[p].pc = "prune"
       /\ IF Unprobed(hosts) \/ (V4Probe(hosts) /\ V4Ok(hosts[1])) THEN Goto(p, "mkdir")
          ELSE req' = [req EXCEPT ![p].pc = "near", ![p].first = Min(Others(hosts)),
                                  ![p].i = Min(Others(hosts))]
       /\ UNCHANGED <<conf, srvVars, exp, spVars, fsVars>>

\* The closest hosts are probed, and when the first of them fails the next one
\* says which are the closest.
Proximity(r) == r.hosts[r.first].prox
IsNear(r) == r.i <= Len(r.hosts) /\ r.hosts[r.i].prox = Proximity(r)
FailedNearStop(r) ==     \* gives up when the first one fails
    IF r.i = r.first THEN [r EXCEPT !.hosts = SubSeq(@, 1, r.i - 1)] ELSE [r EXCEPT !.hosts = RemoveAt(@, r.i)]
FailedNear(r) == [r EXCEPT !.hosts = RemoveAt(@, r.i)]
ProbeNear(p) ==
    LET r == req[p]
    IN /\ r.pc = "near" /\ r.first <= Len(r.hosts) /\ IsNear(r)
       /\ \E t \in 1..MaxTime :
            LET probe == get_vers_and_cost(r.hosts[r.i], Answers(r.hosts[r.i].srv), conf, t)
            IN req' = [req EXCEPT ![p] =
                    IF probe.status THEN [r EXCEPT !.hosts[r.i] = probe.host, !.i = @ + 1]
                    ELSE FailedNear(r)]
       /\ UNCHANGED <<conf, srvVars, exp, spVars, fsVars>>

\* Local hosts and those with the selected version go to the new list.
Chosen(hosts, sel) ==
    LET taken == [i \in DOMAIN hosts |-> [hosts[i] EXCEPT !.vers = {sel}]]
        keep(i) == Local(hosts[i]) \/ sel \in hosts[i].vers
        new[i \in 0..Len(hosts)] ==
            IF i = 0 THEN <<>> ELSE IF keep(i) THEN add_host(new[i - 1], taken[i]) ELSE new[i - 1]
    IN new[Len(hosts)]
Select(p) ==
    LET r == req[p]
        sel == Selected(SubSeq(r.hosts, r.first, r.i - 1))
    IN /\ r.pc = "near" /\ (r.first > Len(r.hosts) \/ ~IsNear(r))
       /\ IF r.first > Len(r.hosts) THEN Goto(p, "mkdir")
          ELSE req' = [req EXCEPT ![p] = [r EXCEPT !.pc = "far", !.sel = sel,
                                                   !.new = Chosen(SubSeq(r.hosts, 1, r.i - 1), sel)]]
       /\ UNCHANGED <<conf, srvVars, exp, spVars, fsVars>>

\* The rest of the list, one address of a host when its name is used to mount.
ProbeFar(p) ==
    LET r == req[p]
        h == r.hosts[r.i]
    IN /\ r.pc = "far"
       /\ \E t \in 1..MaxTime :
            LET probe == get_supported_ver_and_cost(h, Answers(h.srv), r.sel, conf, t)
            IN req' = [req EXCEPT ![p] =
                    IF r.i > Len(r.hosts) THEN [r EXCEPT !.pc = "mkdir", !.hosts = r.new, !.new = <<>>, !.i = 0]
                    ELSE IF ~(conf.hostname /\ r.prev = h.ent) /\ probe.status
                         THEN [r EXCEPT !.i = @ + 1, !.new = add_host(@, probe.host), !.prev = h.ent]
                    ELSE [r EXCEPT !.i = @ + 1]]
       /\ UNCHANGED <<conf, srvVars, exp, spVars, fsVars>>
-----------------------------------------------------------------------------
\* The failure exit: the directory goes, unless it was there and is to stay.
Kept(p) == conf.ghost /\ req[p].existed
RmdirPath(p) == dir' = IF conf.type = "indirect" /\ ~Kept(p) /\ mnt[p] = 0 THEN dir \ {p} ELSE dir
Ended(p, ret) == req' = [req EXCEPT ![p].pc = "done", ![p].ret = ret]

Mkdir(p) ==
    /\ req[p].pc = "mkdir"
    /\ IF req[p].hosts = <<>> THEN Ended(p, "fail") /\ UNCHANGED <<dir, hurt>>
       ELSE \/ p \notin dir /\ Ended(p, "fail") /\ UNCHANGED dir /\ hurt' = hurt \cup {<<p, "mkdir">>}
            \/ /\ dir' = dir \cup {p} /\ UNCHANGED hurt
               /\ req' = [req EXCEPT ![p].existed = p \in dir, ![p].i = 1,
                            ![p].pc = IF p = "A" /\ conf.kind \in {"ext2", "changer"} THEN "check" ELSE "try"]
    /\ UNCHANGED <<conf, srvVars, exp, sp, child, mutex, mnt, mtab, mounted>>

\* fsck, or the change of the disc.  A refusal leaves the directory.
fsck(p) == conf.kind = "ext2" /\ (Goto(p, "try") \/ Ended(p, "fail"))
swapCD(p) == conf.kind = "changer" /\ (Goto(p, "try") \/ Ended(p, "fail"))
Check(p) ==
    /\ req[p].pc = "check"
    /\ fsck(p) \/ swapCD(p)
    /\ UNCHANGED <<conf, srvVars, exp, spVars, fsVars>>

\* The hosts in turn: a bind mount for a local one, else an NFS mount.
Spawn(p, prog) == sp' = [sp EXCEPT ![p] = Call(prog)] /\ Goto(p, "wait")
NextHost(p) == req' = [req EXCEPT ![p].pc = "try", ![p].i = @ + 1]
\* rpc_ping(): a version asked for answers, version 4 over TCP only.
rpc_ping(h) ==
    \E vp \in Asked \cup (conf.vers \cap {4}) \X {"tcp"} : vp # <<4, "udp">> /\ Answers(Srv(h))[vp] = "ok"
Try(p) ==
    LET r == req[p]
        h == r.hosts[r.i]
    IN /\ r.pc = "try"
       /\ IF r.i > Len(r.hosts) THEN Ended(p, "fail") /\ RmdirPath(p) /\ UNCHANGED sp
          ELSE /\ UNCHANGED dir
               /\ IF Local(h) /\ ~conf.nobind THEN Spawn(p, "bind")
                  ELSE IF Local(h) /\ ~rpc_ping(h) THEN NextHost(p) /\ UNCHANGED sp
                  ELSE Spawn(p, "mount")
       /\ UNCHANGED <<conf, srvVars, exp, child, mutex, hurt, mnt, mtab, mounted>>

\* What mount_bind.c returns: a direct mount loses MNT_FORCE_FAIL.
BindRet(ret) == IF conf.type = "direct" /\ ret = "force" THEN "fail" ELSE ret
\* The call has returned.  A local server is asked with rpc_ping() before NFS
\* is tried for a bind mount that failed.
Returned(p) ==
    LET r == req[p]
        h == r.hosts[r.i]
        bind == sp[p].prog = "bind"
        ret == IF bind THEN BindRet(sp[p].ret) ELSE sp[p].ret
    IN /\ r.pc = "wait" /\ sp[p].pc = "returned"
       /\ \/ ret = "ok" /\ Ended(p, "ok") /\ sp' = [sp EXCEPT ![p] = NoSpawn] /\ UNCHANGED dir
          \/ bind /\ ret = "force" /\ Ended(p, "fail") /\ RmdirPath(p) /\ sp' = [sp EXCEPT ![p] = NoSpawn]
          \/ /\ bind /\ ret \notin {"ok", "force"} /\ h.srv # None /\ rpc_ping(h)
             /\ Spawn(p, "mount") /\ UNCHANGED dir
          \/ /\ ret # "ok" /\ ~(bind /\ ret = "force")
             /\ bind => h.srv = None \/ ~rpc_ping(h)
             /\ NextHost(p)
             /\ sp' = [sp EXCEPT ![p] = NoSpawn] /\ UNCHANGED dir
       /\ UNCHANGED <<conf, srvVars, exp, child, mutex, hurt, mnt, mtab, mounted>>
-----------------------------------------------------------------------------
\* do_spawn(): the lock, when mount locking is built in, then the fork.
UseLock == conf.lock
UseOpenLocked(p) == sp[p].prog # "umount"      \* validates the location under the lock
UseOpen(p) == ~conf.lock /\ sp[p].prog # "umount"
Fork(p) ==
    /\ sp[p].pc = "lock" /\ (UseLock => mutex = None)
    /\ \/ /\ child' = [child EXCEPT ![p] = "start"] /\ sp' = [sp EXCEPT ![p].pc = "run"]
          /\ mutex' = IF UseLock THEN p ELSE mutex
          /\ UNCHANGED hurt
       \/ /\ sp' = [sp EXCEPT ![p].pc = "returned", ![p].ret = "fail"]
          /\ hurt' = hurt \cup {<<p, IF sp[p].left < MTAB_LOCK_RETRIES THEN "refork" ELSE "fork">>}
          /\ UNCHANGED <<child, mutex>>
    /\ UNCHANGED <<conf, srvVars, req, exp, fsVars>>

\* The child opens a local location, which mounts it when it is an automount;
\* the mount of something bound to an autofs mount is refused.
Trigger(p) == p = "B" /\ UseOpen(p) /\ sp[p].prog = "bind" /\ conf.target # "plain"
ChildOpen(p) ==
    /\ child[p] = "start"
    /\ child' = [child EXCEPT ![p] = IF Trigger(p) THEN "open" ELSE "exec"]
    /\ IF Trigger(p) /\ conf.target = "A" /\ mnt["A"] = 0 /\ ~Active("A")
       THEN req' = [req EXCEPT !["A"] = Begin("A")] /\ unsteady' = {}
       ELSE UNCHANGED <<req, unsteady>>
    /\ UNCHANGED <<conf, health, changes, exp, sp, mutex, hurt, fsVars>>
ChildOpened(p) ==
    /\ child[p] = "open" /\ ~Active("A")
    /\ child' = [child EXCEPT ![p] = IF conf.target = "autofs" THEN "fail" ELSE "exec"]
    /\ UNCHANGED <<conf, srvVars, req, exp, sp, mutex, hurt, fsVars>>

\* mount(8) and umount(8).  With -f mount changes the mtab only.  On a path with
\* a mount another may be refused, as the same one is.
ChildExec(p) ==
    LET prog == sp[p].prog
        h == req[p].hosts[req[p].i]
        may == CASE prog = "umount" -> mnt[p] > 0
                 [] prog = "bind" -> TRUE
                 [] p = "A" /\ Device -> TRUE
                 [] OTHER -> Serves(p, h)
        mayFail == prog = "umount" => ~exp.lazy \/ mnt[p] = 0
        must == prog = "mount" /\ ~(p = "A" /\ Device) /\ may /\ mnt[p] = 0
    IN /\ child[p] = "exec"
       /\ \/ sp[p].fake /\ child' = [child EXCEPT ![p] = "made"] /\ mnt' = mnt
          \/ /\ ~sp[p].fake /\ may /\ child' = [child EXCEPT ![p] = "made"]
             /\ mnt' = [mnt EXCEPT ![p] = IF prog = "umount" THEN @ - 1 ELSE @ + 1]
          \/ ~sp[p].fake /\ mayFail /\ ~must /\ child' = [child EXCEPT ![p] = "fail"] /\ mnt' = mnt
       /\ UNCHANGED <<conf, srvVars, req, exp, sp, mutex, hurt, mtab, dir, mounted>>
ChildMtab(p) ==
    /\ child[p] = "made"
    /\ \/ /\ child' = [child EXCEPT ![p] = "ok"]
          /\ mtab' = IF ~conf.mtab THEN mtab ELSE IF sp[p].prog = "umount" THEN mtab \ {p} ELSE mtab \cup {p}
       \/ conf.mtab /\ child' = [child EXCEPT ![p] = "notupdated"] /\ UNCHANGED mtab
    /\ UNCHANGED <<conf, srvVars, req, exp, sp, mutex, hurt, mnt, dir, mounted>>

\* timed_read() has waited for too long, UMOUNT_WAIT being always set.
TimedOut(p) ==
    /\ sp[p].pc = "run" /\ child[p] \notin Exits
    /\ conf.wait \/ sp[p].prog = "umount"
    /\ child' = [child EXCEPT ![p] = "term"]
    /\ hurt' = hurt \cup {<<p, "kill">>}
    /\ UNCHANGED <<conf, srvVars, req, exp, sp, mutex, fsVars>>

\* waitpid() and what is made of the status: a mount that is not in the mtab is
\* made again with -f, and in the end is taken off.
MtabRetry(p, fake) ==
    IF child[p] # "notupdated" THEN
         sp' = [sp EXCEPT ![p].pc = "returned", ![p].ret = child[p]] /\ mnt' = mnt
    ELSE IF sp[p].left > 1 THEN
         sp' = [sp EXCEPT ![p].pc = "lock", ![p].left = @ - 1, ![p].fake = fake] /\ mnt' = mnt
    ELSE /\ sp' = [sp EXCEPT ![p].pc = "returned", ![p].ret = "force"]
         /\ mnt' = [mnt EXCEPT ![p] = Max({0, @ - 1})]
\* spawn_mount() has no place for the -f when it passes -v.
AddFakeNever == FALSE         \* mounts it again
AddFake == ~conf.verbose
spawn_mount(p) == MtabRetry(p, AddFake)
spawn_bind_mount(p) == MtabRetry(p, TRUE)
spawn_umount(p) ==
    /\ sp' = [sp EXCEPT ![p] =
                IF child[p] = "notupdated" /\ sp[p].left > 1
                THEN [sp[p] EXCEPT !.pc = "lock", !.left = @ - 1]
                ELSE [sp[p] EXCEPT !.pc = "returned",
                                   !.ret = IF child[p] = "notupdated" \/ sp[p].left < MTAB_LOCK_RETRIES
                                           THEN "ok" ELSE child[p]]]
    /\ mnt' = mnt
Reap(p) ==
    /\ sp[p].pc = "run" /\ child[p] \in Exits
    /\ child' = [child EXCEPT ![p] = "none"]
    /\ mutex' = IF UseLock THEN None ELSE mutex
    /\ \/ sp[p].prog = "umount" /\ spawn_umount(p)
       \/ sp[p].prog = "bind" /\ spawn_bind_mount(p)
       \/ sp[p].prog = "mount" /\ spawn_mount(p)
    /\ UNCHANGED <<conf, srvVars, req, exp, hurt, mtab, dir, mounted>>
-----------------------------------------------------------------------------
\* umount_ent() for C, "-l" when the shutdown is forced.  Its result is what the
\* mount table says.
UmountStart ==
    /\ "C" \in conf.users /\ exp.pc = "idle"
    /\ \E l \in BOOLEAN : exp' = [exp EXCEPT !.pc = "wait", !.lazy = l]
    /\ sp' = [sp EXCEPT !["C"] = Call("umount")]
    /\ UNCHANGED <<conf, srvVars, req, child, mutex, hurt, fsVars>>
StillMounted == mnt["C"] > 0
umount_ent ==
    /\ exp.pc = "wait" /\ sp["C"].pc = "returned"
    /\ exp' = [exp EXCEPT !.pc = "done", !.ret = IF StillMounted THEN "fail" ELSE "ok"]
    /\ sp' = [sp EXCEPT !["C"] = NoSpawn]
    /\ mounted' = IF StillMounted THEN mounted ELSE mounted \ {"C"}
    /\ UNCHANGED <<conf, srvVars, req, child, mutex, hurt, mnt, mtab, dir>>

\* A server goes down or comes up.
ServerChange(s) ==
    /\ s \in conf.fickle /\ changes < MaxChange /\ changes' = changes + 1
    /\ \E x \in {"up", "timeout", "unreach"} \ {health[s]} : health' = [health EXCEPT ![s] = x]
    /\ unsteady' = unsteady \cup {s}
    /\ UNCHANGED <<conf, req, exp, spVars, fsVars>>
-----------------------------------------------------------------------------
Init ==
    /\ \E x \in Scenario : conf = x.conf /\ health = x.health
    /\ changes = 0 /\ unsteady = {}
    /\ req = [p \in Request |-> NoReq]
    /\ exp = [pc |-> "idle", lazy |-> FALSE, ret |-> "none"]
    /\ sp = [p \in Path |-> NoSpawn]
    /\ child = [p \in Path |-> "none"]
    /\ mutex = None /\ hurt = {}
    /\ mnt = [p \in Path |-> IF p = "C" THEN 1 ELSE 0]
    /\ mtab = IF conf.mtab THEN {"C"} ELSE {}
    /\ dir = conf.there \cup {"C"}
    /\ mounted = {"C"}

\* The thread that works on a path and the process it waits for.
Thread(p) ==
    \/ /\ p \in Request
       /\ \/ prune_host_list(p) \/ ProbeNear(p) \/ Select(p) \/ ProbeFar(p)
          \/ Mkdir(p) \/ Check(p) \/ Try(p) \/ Returned(p)
    \/ p = "C" /\ umount_ent
    \/ Fork(p) \/ ChildOpen(p) \/ ChildOpened(p) \/ ChildExec(p) \/ ChildMtab(p)
    \/ Reap(p)
Next ==
    \/ \E p \in Request : mount_mount(p)
    \/ UmountStart
    \/ \E p \in Path : Thread(p) \/ TimedOut(p)
    \/ \E s \in Servers : ServerChange(s)

\* Threads go on, programs end, and a mutex goes to every thread that waits.
Fairness == \A p \in Path : WF_vars(Thread(p)) /\ SF_vars(Fork(p))
Spec == Init /\ [][Next]_vars /\ Fairness
-----------------------------------------------------------------------------
HostRecord == [srv : Servers \cup {None}, ent : Nat,
               prox : {PROXIMITY_LOCAL, PROXIMITY_SUBNET, PROXIMITY_NET, PROXIMITY_OTHER},
               weight : Nat, rr : BOOLEAN, cost : Nat, vers : SUBSET VP]
RequestRecord == [pc : {"idle", "prune", "near", "far", "mkdir", "check", "try", "wait", "done"},
                  hosts : Seq(HostRecord), first : Nat, i : Nat, new : Seq(HostRecord), prev : Nat,
                  sel : VP \cup {None}, existed : BOOLEAN, ret : {"none", "ok", "fail"}]
SpawnRecord == [pc : {"idle", "lock", "run", "returned"}, prog : {"none", "bind", "mount", "umount"},
                left : Nat, fake : BOOLEAN, ret : {"none", "ok", "fail", "term", "force"}]
TypeOK ==
    /\ conf \in Conf /\ conf.vers # {} /\ conf.protos # {}
    /\ health \in [Servers -> Health] /\ changes \in Nat /\ unsteady \subseteq Servers
    /\ req \in [Request -> RequestRecord]
    /\ exp \in [pc : {"idle", "wait", "done"}, lazy : BOOLEAN, ret : {"none", "ok", "fail"}]
    /\ sp \in [Path -> SpawnRecord]
    /\ child \in [Path -> {"none", "start", "open", "exec", "made"} \cup Exits]
    /\ mutex \in Path \cup {None}
    /\ mnt \in [Path -> Nat]
    /\ mtab \subseteq Path /\ dir \subseteq Path /\ mounted \subseteq Path

\* The hosts of A that are not local, as the location gives them.
Hosts == {h \in ToSet(parse_location(Locations[conf.location], conf)) : ~Local(h)}
Steady(h) == h.srv \notin unsteady /\ health[h.srv] = "up"
Trying == req["A"].pc = "wait" /\ ~Device
Tried == {req["A"].hosts[j] : j \in 1..req["A"].i}

\* replicated.c: a server is tried only after every closer one that has been up
\* all the time and has the version selected, whatever the others did while
\* they were probed.
ClosestFirst ==
    Trying /\ req["A"].sel # None =>
        \A h \in Hosts :
            Steady(h) /\ h.prox < req["A"].hosts[req["A"].i].prox /\ req["A"].sel \in Supports(h.srv)
                => \E g \in Tried : g.srv = h.srv \/ (conf.hostname /\ g.ent = h.ent)

\* The versions a probe of a server that is up finds: version 2 only if 3 is not
\* asked for or is there too, since a version that is not registered ends the
\* probe (get_nfs_info).
Found(s) == {vp \in Asked \cap Supports(s) :
                vp[1] = 2 /\ 3 \in conf.vers => <<3, vp[2]>> \in Supports(s)}

\* The hosts that a probe finds, and the closest of them.
Responding == {h \in Hosts : Steady(h) /\ Found(h.srv) # {}}
Closest == {h \in Responding : \A g \in Responding : h.prox <= g.prox}
Supporting(vp) == {h \in Closest : vp \in Found(h.srv)}

\* prune_host_list(): with nothing changing, as many of the closest servers that
\* answer are kept as are found to support any one version.
KeptOf(hosts) == {j \in DOMAIN hosts : \E h \in Closest : h.srv = hosts[j].srv}
MajorityKept ==
    Trying /\ req["A"].sel # None /\ unsteady = {} =>
        \A vp \in Asked : Cardinality(Supporting(vp)) <= Cardinality(KeptOf(req["A"].hosts))

\* mount_nfs.c: the request does not fail as long as some server is up all the
\* time and supports everything that is asked for, unless a process was killed
\* or could not be forked, the directory not made or the mtab not updated.
Available ==
    req["A"].pc = "done" /\ req["A"].ret = "fail" /\ ~Device /\ ~conf.mtab
            /\ (\A x \in hurt : x[1] # "A")
        => ~\E h \in Hosts : Steady(h) /\ Asked \subseteq Supports(h.srv)

\* What is not known of a mount: a process killed between the mount and the mtab
\* leaves it, and so do a retry that cannot be forked and the retry of a verbose
\* mount, which lacks -f.
Untouched(p) == hurt \cap {<<p, "kill">>, <<p, "refork">>} = {} /\ ~(conf.verbose /\ conf.mtab)
RequestTrue(p) ==
    req[p].pc = "done" /\ Untouched(p) =>
        /\ mnt[p] = IF req[p].ret = "ok" THEN 1 ELSE 0
        /\ req[p].ret = "ok" /\ conf.mtab => p \in mtab
UmountTrue ==
    exp.pc = "done" => (("C" \in mounted) <=> (mnt["C"] > 0)) /\ (exp.ret = "ok" <=> mnt["C"] = 0)
\* spawn.c and the mount modules: a request that succeeds has made one mount,
\* which the mtab shows, and one that fails has left none; a umount is off the
\* list of mounted mounts if and only if it is gone, whatever umount(8) reported
\* and however often it was run.
MountTruth == (\A p \in Request : RequestTrue(p)) /\ UmountTrue

\* Every request ends, a bind mount of an automount too: the child that opens
\* the automount does not hold the lock that its mount needs.
Ends == \A p \in Request : Active(p) ~> ~Active(p)
-----------------------------------------------------------------------------
(***************************************************************************)
(* The inductive invariants behind the safety properties.                  *)
(***************************************************************************)
\* A call of spawn.c belongs to the request or the umount that waits for it, and
\* has a child as long as it runs; who was killed is known.
Waiting(p) == IF p = "C" THEN exp.pc = "wait" ELSE req[p].pc = "wait"
Programs(p) == IF p = "C" THEN {"umount"} ELSE {"bind", "mount"}
CallShape(p) ==
    /\ IF Waiting(p) THEN sp[p].pc # "idle" /\ sp[p].prog \in Programs(p) ELSE sp[p] = NoSpawn
    /\ child[p] = "none" <=> sp[p].pc # "run"
    /\ sp[p].left <= MTAB_LOCK_RETRIES
    /\ child[p] = "open" => Trigger(p)
    /\ child[p] = "term" \/ sp[p].ret = "term" => <<p, "kill">> \in hurt
SpawnShape == (\A p \in Path : CallShape(p)) /\ (exp.pc # "done" => "C" \in mounted)

\* Whether the call has mounted its file system by now: a retry, with -f, comes
\* after a mount.
Made(p) ==
    \/ sp[p].pc = "lock" /\ sp[p].fake
    \/ sp[p].pc = "run" /\ child[p] \in {"start", "open", "exec"} /\ sp[p].fake
    \/ sp[p].pc = "run" /\ child[p] \in {"made", "ok", "notupdated"}
    \/ sp[p].pc = "returned" /\ sp[p].ret = "ok"
Counted(p) ==
    Untouched(p) =>
        /\ req[p].pc # "done" => mnt[p] = IF Made(p) THEN 1 ELSE 0
        /\ sp[p].pc \in {"lock", "run"} => (sp[p].fake <=> sp[p].left < MTAB_LOCK_RETRIES)
        /\ sp[p].pc = "run" /\ Trigger(p) /\ conf.target = "autofs" =>
             ~sp[p].fake /\ child[p] \in {"start", "open", "fail", "term"}
        /\ sp[p].pc = "lock" /\ Trigger(p) /\ conf.target = "autofs" => ~sp[p].fake
        /\ child[p] = "fail" => ~sp[p].fake
        /\ child[p] = "notupdated" \/ sp[p].ret = "force" => conf.mtab
        /\ (child[p] = "ok" \/ (sp[p].pc = "returned" /\ sp[p].ret = "ok")) /\ conf.mtab => p \in mtab
MountCount == \A p \in Request : Counted(p)

\* The places in the list of hosts while they are probed.
Cursor(r) ==
    /\ r.pc = "near" => r.first \in 1..r.i /\ r.i <= Len(r.hosts) + 1
    /\ r.pc = "far" => r.i # 0 /\ r.sel \in VP
Cursors == \A p \in Request : Cursor(req[p])

TruthInv == TypeOK /\ Cursors /\ SpawnShape /\ MountCount /\ MountTruth

\* The closer hosts come first.
Sorted(hosts) == \A i, j \in DOMAIN hosts : i < j => hosts[i].prox <= hosts[j].prox

\* g is host h after its probe; g will do for h, or another address of its name.
SameHost(g, h) ==
    g.srv = h.srv /\ g.ent = h.ent /\ g.prox = h.prox /\ g.weight = h.weight /\ g.rr = h.rr
StandsFor(g, h) ==
    ~Local(g) /\ g.prox <= h.prox /\ g.ent = h.ent /\ (g.srv = h.srv \/ conf.hostname)
OfLocation(hosts) == \A j \in DOMAIN hosts : \E h \in ToSet(Parsed("A")) : SameHost(hosts[j], h)

\* Before and while the closest hosts are probed: those that have answered come
\* before those to be probed, all at one distance, and a host that a probe
\* would find has not been lost.
Pruning(r) == r.pc = "prune" => r.hosts = Parsed("A") /\ r.prev = 0 /\ r.sel = None
ProbedNear(r) ==
    r.pc = "near" =>
        /\ r.prev = 0 /\ r.sel = None /\ Sorted(r.hosts) /\ OfLocation(r.hosts)
        /\ \A j \in DOMAIN r.hosts : Local(r.hosts[j]) <=> j < r.first
        /\ \A j \in r.first..(r.i - 1) :
             /\ r.hosts[j].prox = Proximity(r)
             /\ r.hosts[j].vers = Found(r.hosts[j].srv) /\ r.hosts[j].vers # {}
             /\ r.hosts[j].srv \notin unsteady => health[r.hosts[j].srv] = "up"
        /\ \A j \in r.i..Len(r.hosts) : r.hosts[j] \in ToSet(Parsed("A"))
        /\ \A h \in Responding : \/ \E j \in r.first..(r.i - 1) : SameHost(r.hosts[j], h)
                                 \/ \E j \in r.i..Len(r.hosts) : r.hosts[j] = h

\* While the other hosts are probed for the version selected: the hosts in the
\* new list are not further away than those to be probed, and one that is up
\* and has the version is in the new list or to be probed.
Wanted == {h \in Hosts : Steady(h) /\ (IF req["A"].sel = None THEN Found(h.srv) # {}
                                                             ELSE req["A"].sel \in Supports(h.srv))}
ProbedFar(r) ==
    r.pc = "far" =>
        /\ r.sel \in Asked
        /\ Sorted(r.new) /\ OfLocation(r.new) /\ Sorted(r.hosts)
        /\ \A j \in r.i..Len(r.hosts) :
             /\ r.hosts[j] \in ToSet(Parsed("A")) /\ ~Local(r.hosts[j])
             /\ \A g \in ToSet(r.new) : g.prox <= r.hosts[j].prox
        /\ r.prev # 0 => \E g \in ToSet(r.new) : g.ent = r.prev /\ ~Local(g)
        /\ \A h \in Wanted : \/ \E g \in ToSet(r.new) : StandsFor(g, h)
                             \/ \E j \in r.i..Len(r.hosts) : r.hosts[j] = h

\* While the hosts are tried in turn: one of them stands for each that is up and
\* has the version.
TryingHosts(r) ==
    r.pc \in {"mkdir", "try", "wait"} =>
        /\ Sorted(r.hosts) /\ OfLocation(r.hosts) /\ r.sel \in Asked \cup {None}
        /\ \A h \in Wanted : \E g \in ToSet(r.hosts) : StandsFor(g, h)
        /\ r.pc \in {"try", "wait"} => r.i \in Nat \ {0}
        /\ r.pc = "wait" => r.i <= Len(r.hosts) /\ (sp["A"].prog = "bind" => Local(r.hosts[r.i]))
ListInv == ~Device => LET r == req["A"] IN Pruning(r) /\ ProbedNear(r) /\ ProbedFar(r) /\ TryingHosts(r)

\* Where nothing is in its way, a server that is up and has all that is asked
\* for has not been tried in vain.
Serving == {h \in Hosts : Steady(h) /\ Asked \subseteq Supports(h.srv)}
NotTriedInVain ==
    ~Device /\ ~conf.mtab /\ (\A x \in hurt : x[1] # "A") => LET r == req["A"] IN
        /\ r.pc \in {"try", "wait"} =>
             \A h \in Serving : \E j \in r.i..Len(r.hosts) : StandsFor(r.hosts[j], h)
        /\ r.pc = "wait" => \A h \in Serving : StandsFor(r.hosts[r.i], h) =>
             child["A"] # "fail" /\ (sp["A"].pc = "returned" => sp["A"].ret = "ok")
        /\ r.pc = "done" /\ r.ret = "fail" => Serving = {}

\* MajorityKept, from the choice of the version on.
KeptSoFar ==
    ~Device /\ unsteady = {} /\ req["A"].sel # None => LET r == req["A"] IN
        /\ r.pc = "far" => \A vp \in Asked : Cardinality(Supporting(vp)) <= Cardinality(KeptOf(r.new))
        /\ r.pc \in {"mkdir", "try", "wait"} =>
             \A vp \in Asked : Cardinality(Supporting(vp)) <= Cardinality(KeptOf(r.hosts))

ServerInv == TruthInv /\ ListInv /\ NotTriedInVain /\ KeptSoFar
=============================================================================
