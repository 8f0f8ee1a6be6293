------------------------------- MODULE Lookup -------------------------------
(***************************************************************************)
(* Looking up keys of an indirect mount: lookup_nss_mount() and the mount  *)
(* entry points of the lookup modules, running in one thread per request,  *)
(* and beside them the thread that reads the map again, prunes the cache   *)
(* and makes the browse directories.  One step is what a thread does under *)
(* one hold of the cache lock or one question to the map's server.  The    *)
(* sources of the mount point share one cache.  A key is a plain name in a *)
(* map of Sun format; multi-mounts, amd maps and the re-connect at start   *)
(* up (MOUNT_FLAG_REMOUNT) are left out.                                   *)
(***************************************************************************)
EXTENDS Cache

CONSTANTS
    Key,            \* the names asked for
    Value,          \* what a map may hold for a key
    None,           \* the map has nothing
    Configs,        \* the sources a mount point may have
    FirstMaps,      \* what a map may hold at the start
    NegTimeout,     \* ap->negative_timeout
    PosTimeout,     \* ap->positive_timeout
    RunFreq         \* ap->exp_runfreq

VARIABLES
    conf,       \* the sources and the names asked for, one of Configs; conf.max
                \* bounds events
    now,        \* monotonic_time(), in seconds
    map,        \* what each source's map holds
    mtime,      \* when it last changed
    up,         \* the source's server answers, or its file can be read
    events,     \* how much has happened so far
    cache,      \* source->mc
    stale,      \* source->stale, 0 for the map the instances belong to
    last,       \* ctxt->last_read of a file map, ctxt->order of a NIS map
    begun,      \* history: when the last complete read of a map began
    task,       \* ST_READMAP is queued
    mounted,    \* the keys that are mounted
    dirs,       \* the browse directories
    req,        \* the requests, one thread for each key
    rd          \* the thread that reads the map again

world == <<conf, map, mtime, up, events>>
vars == <<world, now, cache, stale, last, begun, task, mounted, dirs, req, rd>>

Keys == conf.keys \cup {Wild}
Mods == DOMAIN conf.mods
KindOf(n) == conf.mods[n].kind

\* The map source a module works for: all modules of a multi map share one.
Src(n) == IF conf.mode = "multi" THEN 1 ELSE n

\* The map source of the master map entry; nsswitch sources are instances.
Map == IF conf.mode = "nss" THEN 0 ELSE 1

Kind(k) == KindOf(req[k].n)
S(k) == Src(req[k].n)
To(k, pc) == req' = [req EXCEPT ![k].pc = pc]

\* The thread of k is at pc, with a lookup module of one of the kinds.
At(k, pc, kinds) == req[k].pc = pc /\ Kind(k) \in kinds

\* What the step of a request leaves alone.
Quiet == UNCHANGED <<world, now, last, begun, task, mounted, dirs, rd>>

SetStale(s, yes) == stale' = [stale EXCEPT ![s] = @ \/ yes]

Idle == [pc |-> "idle", n |-> 1, got |-> None, wgot |-> None, age |-> 0,
         ret |-> "OK", val |-> None, res |-> "UNKNOWN", calm |-> FALSE]

\* The module returns, or has a value to mount; its own variables are gone.
Local(k, pc, val) ==
    [Idle EXCEPT !.pc = pc, !.n = req[k].n, !.val = val, !.calm = req[k].calm]
Return(k, res) ==
    req' = [req EXCEPT ![k] = [Local(k, "ret", @.val) EXCEPT !.res = res]]
ReturnOther(k, res) ==      \* not what the map has: a failed mount, an included map
    req' = [req EXCEPT ![k] = [Local(k, "ret", @.val) EXCEPT !.res = res,
                                                            !.calm = FALSE]]
Mount(k, val) == req' = [req EXCEPT ![k] = Local(k, "parse", val)]
-----------------------------------------------------------------------------
\* What is outside: the clock, the maps and their servers, umounts.
Tick ==
    /\ events < conf.max /\ events' = events + 1
    /\ now' = now + 1
    /\ UNCHANGED <<conf, map, mtime, up, cache, stale, last, begun, task, mounted, dirs, req, rd>>

\* Requests that a change or a read of the map comes across are not calm.
Disturb == req' = [k \in Key |-> [req[k] EXCEPT !.calm = FALSE]]

MapChanges(n, k, v) ==
    /\ events < conf.max /\ map[n][k] # v
    /\ map' = [map EXCEPT ![n][k] = v]
    /\ mtime' = [mtime EXCEPT ![n] = now]
    /\ events' = events + 1
    /\ Disturb
    /\ UNCHANGED <<conf, up, now, cache, stale, last, begun, task, mounted, dirs, rd>>

ServerChanges(n) ==
    /\ events < conf.max
    /\ up' = [up EXCEPT ![n] = ~@]
    /\ events' = events + 1
    /\ Disturb
    /\ UNCHANGED <<conf, map, mtime, now, cache, stale, last, begun, task, mounted, dirs, rd>>

Umount(k) ==
    /\ k \in mounted
    /\ mounted' = mounted \ {k}
    /\ UNCHANGED <<world, now, cache, stale, last, begun, task, dirs, req, rd>>

Outside ==
    \/ Tick
    \/ \E n \in Mods, k \in Keys, v \in Value \cup {None} : MapChanges(n, k, v)
    \/ \E n \in Mods : ServerChanges(n)
    \/ \E k \in Key : Umount(k)
-----------------------------------------------------------------------------
\* A source that succeeds does not end the search.
check_nss_resultGoesOn(action, result) ==
    IF result \in DOMAIN action /\ action[result].action = "return" THEN 0 ELSE -1

\* What the code does with a result of a source, from its actions in
\* /etc/nsswitch.conf: 1 and 0 end the search, -1 goes on.
check_nss_result(action, result) ==
    LET ends == IF result = "SUCCESS" THEN 1 ELSE 0
        acts == DOMAIN action
    IN IF \E s \in acts : /\ action[s].negated /\ s # result
                          /\ action[s].action = "return" THEN ends
       ELSE IF result = "SUCCESS"
            THEN IF /\ result \in acts
                    /\ action[result].action = "continue" THEN -1 ELSE 1
       ELSE IF /\ result \in acts \ {"UNKNOWN"}
               /\ action[result].action = "return" THEN 0
       ELSE -1

\* The entry point of a module; userhome and dir ask no cache.
Entry(n) == IF KindOf(n) \in {"userhome", "dir"} THEN "check" ELSE "neg"

\* A request of the kernel for a key that is not mounted.  It is calm when no
\* request that a change of the map came across is still at work.
Begin(k) ==
    /\ k \in conf.keys /\ req[k].pc = "idle" /\ k \notin mounted /\ ~rd.first
    /\ events < conf.max /\ events' = events + 1
    /\ req' = [req EXCEPT ![k] = [Idle EXCEPT !.pc = Entry(1),
                 !.calm = /\ ~Negative(cache, k, now) /\ rd.pc = "idle"
                          /\ \A j \in Key : req[j].pc = "idle" \/ req[j].calm]]
    /\ UNCHANGED <<conf, map, mtime, up, now, last, begun, task, mounted, dirs, rd, cache, stale>>

\* lookup_source_mapent() and the first half of cache_lookup_negative().
NegativeCheck(k) ==
    /\ req[k].pc = "neg"
    /\ LET me == cache_lookup_distinct(cache, k)
       IN IF Negative(cache, k, now) THEN Return(k, "NOTFOUND")
          ELSE To(k, IF Found(me) /\ Deref(cache, me).mapent = Null
                     THEN "negw" ELSE "check")
    /\ Quiet /\ UNCHANGED <<cache, stale>>

NegativeRetry(k) ==
    /\ req[k].pc = "negw"
    /\ cache' = RetryNegative(cache, k)
    /\ To(k, "check")
    /\ Quiet /\ UNCHANGED stale

\* The question to the map's server for the key, and for the wildcard.
Ask(k, next, down) ==
    /\ req' = [req EXCEPT ![k].age = now,
                          ![k].got = map[req[k].n][k],
                          ![k].pc = IF up[req[k].n] THEN next ELSE down]
    /\ Quiet /\ UNCHANGED <<cache, stale>>

AskWild(k, next, down) ==
    /\ req' = [req EXCEPT ![k].age = now,
                          ![k].wgot = map[req[k].n][Wild],
                          ![k].pc = IF up[req[k].n] THEN next ELSE down]
    /\ Quiet /\ UNCHANGED <<cache, stale>>

\* The cache has the value.  An answer is ignored when the key has an entry
\* of the same second; a request that meets this is not calm.
Kept(c, source, key, value) ==
    \E i \in Places(c, key) : /\ c[Hash[key]][i].source = source
                              /\ c[Hash[key]][i].mapent = value

\* The answer goes into the cache.
Apply(k, key, value, next) ==
    LET r == IF value \in Value
             THEN cache_update(cache, S(k), key, value, req[k].age)
             ELSE [ret |-> "MISSING", c |-> cache]
    IN /\ cache' = r.c
       /\ req' = [req EXCEPT ![k].pc = next, ![k].ret = r.ret,
                     ![k].calm = @ /\ (value = None \/ Kept(r.c, S(k), key, value))]

\* A key the map does not have any more keeps an entry without a value.
Forget(c, me) ==
    Replace(c, me, [Deref(c, me) EXCEPT !.mapent = Null, !.status = 0])
-----------------------------------------------------------------------------
\* Steps that the modules for servers with a map of keys have in common.

\* The key: an answer goes into the cache and is looked for there; a key that
\* is missing, or a server that is, has more steps.
ApplyKey(k, missing) ==
    /\ Apply(k, k, req[k].got,
             IF req[k].got \in Value THEN "match" ELSE missing)
    /\ Quiet /\ UNCHANGED stale

\* The entry of the key is left alone.
MissingKeyStays(k, marks) ==
    /\ To(k, "wone")
    /\ Quiet /\ UNCHANGED <<cache, stale>>

\* Not found in the map but found in the cache.
MissingKey(k, marks) ==
    LET me == cache_lookup_distinct(cache, k)
        gone == /\ Found(me) /\ Deref(cache, me).source = S(k)
                /\ Deref(cache, me).mapent # Null
    IN /\ cache' = IF gone THEN Forget(cache, me) ELSE cache
       /\ SetStale(S(k), marks /\ gone)
       /\ To(k, "wone")
       /\ Quiet

ApplyWild(k) ==
    /\ req[k].pc = "wapply"
    /\ Apply(k, Wild, req[k].wgot, "wgone")
    /\ Quiet /\ UNCHANGED stale

\* The cached wildcard is dropped when the answer says it is missing; isMissing
\* and isFound are the tests of the code on the result of lookup_wild().
WildGone(k, isMissing, isFound, marks) ==
    LET me == cache_lookup_distinct(cache, Wild)
        gone == /\ Found(me) /\ Deref(cache, me).source = S(k)
                /\ isMissing
    IN /\ cache' = IF gone THEN cache_delete(cache, Wild) ELSE cache
       /\ SetStale(S(k), marks /\ (gone \/ (~Found(me) /\ isFound)))
       /\ IF isFound THEN To(k, "match") ELSE Return(k, "NOTFOUND")
       /\ Quiet

\* The server is down: an entry of this source in the cache is used.
ServerDown(k) ==
    LET me == cache_lookup(cache, k)
    IN /\ req[k].pc = "down"
       /\ IF Found(me) /\ Deref(cache, me).source = S(k) THEN To(k, "match")
          ELSE Return(k, "UNAVAIL")
       /\ Quiet /\ UNCHANGED <<cache, stale>>

\* The outcome of the search of the cache: a value to mount, or a result.
Matched(k, a, empty) ==
    IF ~a.found THEN Return(k, "NOTFOUND")
    ELSE IF a.e.mapent = Null \/ a.e.source # S(k) THEN Return(k, empty)
    ELSE Mount(k, a.e.mapent)

\* match_cached_key() and, for a stale entry, the next one or the wildcard,
\* whose match is added to the cache with the age of the wildcard.
MatchServed(k) ==
    LET m == match_cached_key(cache, S(k), k, now)
        wild == Answer(m.c, cache_lookup_distinct(m.c, Wild))
        a == IF m.a.found /\ m.a.e.mapent = Null THEN wild ELSE m.a
    IN /\ Matched(k, a, "TRYAGAIN")
       /\ cache' = IF a.found /\ a.e.mapent # Null /\ a.e.key = Wild
                   THEN cache_update(m.c, S(k), k, a.e.mapent, a.e.age).c
                   ELSE m.c
       /\ Quiet /\ UNCHANGED stale

\* parse_mount(), external: it mounts the value, or fails to.
ParseMount(k) ==
    /\ req[k].pc = "parse"
    /\ \/ /\ req[k].val # Null
          /\ Return(k, "SUCCESS")
          /\ mounted' = mounted \cup {k}
       \/ /\ IF Kind(k) = "hesiod" THEN ReturnOther(k, "UNAVAIL") ELSE To(k, "fail")
          /\ UNCHANGED mounted
    /\ UNCHANGED <<world, now, last, begun, task, dirs, rd, cache, stale>>

\* The mount failed: cache_update_negative().
MountFailed(k) ==
    /\ req[k].pc = "fail"
    /\ cache' = cache_update_negative(cache, S(k), k, now, now + NegTimeout)
    /\ ReturnOther(k, "TRYAGAIN")
    /\ Quiet /\ UNCHANGED stale
-----------------------------------------------------------------------------
\* lookup_file: the map is searched when the file changed since it was read.
map_update_needed(k) ==
    LET n == req[k].n
        newer == mtime[n] > last[n]
    IN /\ SetStale(S(k), up[n] /\ newer)
       /\ To(k, IF up[n] /\ (newer \/ conf.mode = "multi" \/ conf.mods[n].plus)
                THEN "one" ELSE "match")
       /\ Quiet /\ UNCHANGED cache

\* lookup_one(): a line with an included map before the key may answer.
FileLookupOne(k) ==
    \/ Ask(k, "apply", "nofile")
    \/ /\ conf.mods[req[k].n].plus /\ up[req[k].n]
       /\ ReturnOther(k, "SUCCESS")
       /\ mounted' = mounted \cup {k}
       /\ UNCHANGED <<world, now, last, begun, task, dirs, rd, cache, stale>>

FileGone(k) ==
    /\ Return(k, "NOTFOUND")
    /\ Quiet /\ UNCHANGED <<cache, stale>>

FileMatch(k) ==
    LET m == match_cached_key(cache, S(k), k, now)
    IN /\ Matched(k, m.a, "TRYAGAIN")
       /\ cache' = m.c
       /\ Quiet /\ UNCHANGED stale

FileCheckIndirect(k) ==
    \/ At(k, "apply", {"file"}) /\ ApplyKey(k, "missing")
    \/ At(k, "missing", {"file"}) /\ MissingKey(k, FALSE)
    \/ At(k, "wone", {"file"}) /\ AskWild(k, "wapply", "nofile")
    \/ /\ At(k, "wgone", {"file"})
       /\ WildGone(k, req[k].ret = "MISSING", req[k].ret # "MISSING", FALSE)

FileMount(k) ==
    \/ At(k, "check", {"file"}) /\ map_update_needed(k)
    \/ At(k, "one", {"file"}) /\ FileLookupOne(k)
    \/ At(k, "nofile", {"file"}) /\ FileGone(k)
    \/ FileCheckIndirect(k)
    \/ At(k, "match", {"file"}) /\ FileMatch(k)
-----------------------------------------------------------------------------
\* lookup_yp and lookup_nisplus.  The result of lookup_wild() is tested with
\* `&', also when it is the negated number of an error: the low bits of -e.
ErrorNumber == {2, 10}      \* YPERR_RPC and YPERR_YPBIND
Bit(e, b) == (-e) % (2 * b) >= b

\* get_map_order(): 0 when the server does not answer.
YpCheckOrder(k) ==
    LET n == req[k].n
        newer == up[n] /\ mtime[n] > last[n]
    IN /\ SetStale(S(k), newer)
       /\ last' = IF newer THEN [last EXCEPT ![n] = mtime[n]] ELSE last
       /\ To(k, "one")
       /\ UNCHANGED <<world, now, cache, begun, task, mounted, dirs, rd>>

YpLookupOne(k) == Ask(k, "apply", "down")
YpLookupWild(k) == AskWild(k, "wapply", "werror")

YpWildError(k) ==
    \E e \in ErrorNumber :
        WildGone(k, Bit(e, 8), Bit(e, 1) \/ Bit(e, 2), TRUE)

YpCheckIndirect(k) ==
    \/ At(k, "check", {"yp"}) /\ YpCheckOrder(k)
    \/ At(k, "apply", {"yp"}) /\ ApplyKey(k, "missing")
    \/ At(k, "down", {"yp"}) /\ ServerDown(k)
    \/ At(k, "missing", {"yp"}) /\ MissingKey(k, TRUE)
    \/ At(k, "werror", {"yp"}) /\ YpWildError(k)
    \/ /\ At(k, "wgone", {"yp"})
       /\ WildGone(k, req[k].ret = "MISSING", req[k].ret # "MISSING", TRUE)

YpMount(k) ==
    \/ YpCheckIndirect(k)
    \/ At(k, "one", {"yp"}) /\ YpLookupOne(k)
    \/ At(k, "wone", {"yp"}) /\ YpLookupWild(k)
    \/ At(k, "match", {"yp"}) /\ MatchServed(k)

\* The first entry of a source, in the order the cache is enumerated, is
\* older than the expire frequency.
ReadLongAgo(c, s) ==
    LET At1(b) == {i \in DOMAIN c[b] : c[b][i].source = s}
        used == {b \in Bucket : At1(b) # {}}
        e == c[Lowest(used)][Lowest(At1(Lowest(used)))]
    IN used = {} \/ now - e.age > RunFreq

NisplusLookupOne(k) == Ask(k, "apply", "down")
NisplusLookupWild(k) == AskWild(k, "wapply", "werror")

NisplusApply(k) ==
    /\ Apply(k, k, req[k].got, "missing")
    /\ Quiet /\ UNCHANGED stale

NisplusCheckIndirect(k) ==
    \/ At(k, "apply", {"nisplus"}) /\ NisplusApply(k)
    \/ At(k, "down", {"nisplus"}) /\ ServerDown(k)
    \/ /\ At(k, "missing", {"nisplus"})
       /\ IF req[k].ret = "MISSING" THEN MissingKey(k, TRUE)
          ELSE /\ SetStale(S(k), req[k].ret = "UPDATED" /\ ReadLongAgo(cache, S(k)))
               /\ To(k, "match")
               /\ Quiet /\ UNCHANGED cache
    \/ At(k, "werror", {"nisplus"}) /\ YpWildError(k)
    \/ /\ At(k, "wgone", {"nisplus"})
       /\ WildGone(k, req[k].ret = "MISSING", req[k].ret # "MISSING", TRUE)

NisplusMount(k) ==
    \/ NisplusCheckIndirect(k)
    \/ At(k, "check", {"nisplus"}) /\ NisplusLookupOne(k)
    \/ At(k, "wone", {"nisplus"}) /\ NisplusLookupWild(k)
    \/ At(k, "match", {"nisplus"}) /\ MatchServed(k)
-----------------------------------------------------------------------------
\* lookup_ldap: one question brings the key and the wildcard.  An answer with
\* neither ends lookup_one() before what is gone is dropped; a search that
\* fails once connected says that the key is not found.
LdapLookupOne(k) ==
    LET n == req[k].n
    IN /\ \/ req' = [req EXCEPT
                    ![k].age = now, ![k].ret = "MISSING",
                    ![k].got = map[n][k], ![k].wgot = map[n][Wild],
                    ![k].pc = IF ~up[n] THEN "down"
                              ELSE IF {map[n][k], map[n][Wild]} = {None} THEN "lwild"
                              ELSE "wapply"]
          \/ ~up[n] /\ Return(k, "NOTFOUND")
       /\ Quiet /\ UNCHANGED <<cache, stale>>

\* The wildcard of the answer is in the cache by now, next comes the key.
LdapApply(k) ==
    /\ Apply(k, k, req[k].got, "lgone")
    /\ Quiet /\ UNCHANGED stale

\* The end of lookup_one(): what the answer did not have is dropped.
LdapDropGone(k) ==
    LET we == cache_lookup_distinct(cache, Wild)
        wgone == /\ Found(we) /\ Deref(cache, we).source = S(k)
                 /\ req[k].wgot = None
        c == IF wgone THEN cache_delete(cache, Wild) ELSE cache
        me == cache_lookup_distinct(c, k)
        gone == /\ req[k].ret = "MISSING" /\ Found(me)
                /\ Deref(c, me).source = S(k) /\ Deref(c, me).mapent # Null
    IN /\ cache' = IF gone THEN Forget(c, me) ELSE c
       /\ SetStale(S(k), wgone \/ gone \/ (~Found(we) /\ req[k].wgot # None))
       /\ To(k, "lwild")
       /\ Quiet

LdapCheckIndirect(k) ==
    LET we == cache_lookup_distinct(cache, Wild)
    IN \/ At(k, "down", {"ldap"}) /\ ServerDown(k)
       \/ /\ At(k, "lwild", {"ldap"})
          /\ SetStale(S(k), req[k].ret = "UPDATED" /\ ReadLongAgo(cache, S(k)))
          /\ IF /\ req[k].ret = "MISSING"
                /\ ~Found(we) \/ Deref(cache, we).source # S(k)
             THEN Return(k, "NOTFOUND") ELSE To(k, "match")
          /\ Quiet /\ UNCHANGED cache

LdapMount(k) ==
    \/ LdapCheckIndirect(k)
    \/ At(k, "check", {"ldap"}) /\ LdapLookupOne(k)
    \/ At(k, "wgone", {"ldap"}) /\ LdapApply(k)
    \/ At(k, "lgone", {"ldap"}) /\ LdapDropGone(k)
    \/ At(k, "match", {"ldap"}) /\ MatchServed(k)
-----------------------------------------------------------------------------
\* lookup_sss.  A refused connection is NSS_STATUS_UNKNOWN, which the check
\* passes on as success.
SssLookupOne(k) ==
    \/ Ask(k, IF map[req[k].n][k] # None THEN "apply" ELSE "wone", "down")
    \/ ~up[req[k].n] /\ Ask(k, "match", "match")

SssLookupWild(k) ==
    AskWild(k, IF map[req[k].n][Wild] # None THEN "wset" ELSE "wgone", "down")

SssApply(k, key, value) ==
    LET r == cache_update(cache, S(k), key, value, req[k].age)
    IN /\ cache' = r.c
       /\ SetStale(S(k), r.ret = "UPDATED")
       /\ req' = [req EXCEPT ![k].pc = "match",
                     ![k].calm = @ /\ Kept(r.c, S(k), key, value)]
       /\ Quiet

SssMissing(k) ==
    LET we == cache_lookup_distinct(cache, Wild)
        wgone == Found(we) /\ Deref(cache, we).source = S(k)
        c == IF wgone THEN cache_delete(cache, Wild) ELSE cache
        me == cache_lookup_distinct(c, k)
        gone == /\ Found(me) /\ Deref(c, me).source = S(k)
                /\ Deref(c, me).mapent # Null
    IN /\ cache' = IF gone THEN Forget(c, me) ELSE c
       /\ SetStale(S(k), wgone \/ gone)
       /\ Return(k, "NOTFOUND")
       /\ Quiet

SssCheckIndirect(k) ==
    \/ At(k, "apply", {"sss"}) /\ SssApply(k, k, req[k].got)
    \/ At(k, "wset", {"sss"}) /\ SssApply(k, Wild, req[k].wgot)
    \/ At(k, "wgone", {"sss"}) /\ SssMissing(k)
    \/ At(k, "down", {"sss"}) /\ ServerDown(k)

\* An entry without a value gives way to the next of the source or the
\* wildcard, whose match is added to the cache with the wildcard's age.
SssMatch(k) ==
    LET first == cache_lookup(cache, k)
        next == SameSource(cache, <<first[1], first[2] + 1>>, S(k))
        me == IF ~Found(first) \/ Deref(cache, first).mapent # Null THEN first
              ELSE IF Found(next) THEN next
              ELSE cache_lookup_distinct(cache, Wild)
        a == Answer(cache, me)
    IN /\ Matched(k, [a EXCEPT !.found = TRUE], "TRYAGAIN")
       /\ cache' = IF a.found /\ a.e.mapent # Null /\ a.e.key = Wild
                   THEN cache_update(cache, S(k), k, a.e.mapent, a.e.age).c
                   ELSE cache
       /\ Quiet /\ UNCHANGED stale

SssMount(k) ==
    \/ At(k, "check", {"sss"}) /\ SssLookupOne(k)
    \/ At(k, "wone", {"sss"}) /\ SssLookupWild(k)
    \/ SssCheckIndirect(k)
    \/ At(k, "match", {"sss"}) /\ SssMatch(k)
-----------------------------------------------------------------------------
\* lookup_program: an entry younger than the negative timeout is mounted as it
\* is, also one without a value; an older one is deleted and asked for again.
ProgramCached(k) ==
    LET me == cache_lookup_distinct(cache, k)
        e == Deref(cache, me)
    IN /\ IF ~Found(me) THEN To(k, "one")
          ELSE IF e.age + NegTimeout > now THEN Mount(k, e.mapent)
          ELSE To(k, "pdel")
       /\ Quiet /\ UNCHANGED <<cache, stale>>

\* The map program is run; what it prints is the value.
ProgramLookupOne(k) == Ask(k, "apply", "fail")

ProgramMatchKey(k) ==
    /\ cache' = IF req[k].got = None THEN cache
                ELSE cache_update(cache, S(k), k, req[k].got, now).c
    /\ IF req[k].got = None THEN To(k, "fail") ELSE Mount(k, req[k].got)
    /\ Quiet /\ UNCHANGED stale

ProgramMount(k) ==
    \/ At(k, "check", {"program"}) /\ ProgramCached(k)
    \/ /\ At(k, "pdel", {"program"})
       /\ cache' = cache_delete(cache, k)
       /\ To(k, "one")
       /\ Quiet /\ UNCHANGED stale
    \/ At(k, "one", {"program"}) /\ ProgramLookupOne(k)
    \/ At(k, "apply", {"program"}) /\ ProgramMatchKey(k)

\* lookup_hosts: the exports of the host are the value.
GetExports(k) == Ask(k, "apply", "noexports")

HostsMount(k) ==
    \/ At(k, "check", {"hosts"}) /\ GetExports(k)
    \/ /\ \/ At(k, "noexports", {"hosts"})
          \/ At(k, "apply", {"hosts"}) /\ req[k].got = None
       /\ Return(k, "UNAVAIL")
       /\ Quiet /\ UNCHANGED <<cache, stale>>
    \/ /\ At(k, "apply", {"hosts"}) /\ req[k].got # None
       /\ cache' = cache_update(cache, S(k), k, req[k].got, req[k].age).c
       /\ Mount(k, req[k].got)
       /\ Quiet /\ UNCHANGED stale

\* lookup_hesiod: what the cache has is mounted when the key is missing.
HesiodLookupOne(k) == Ask(k, "apply", "noserver")

HesiodMount(k) ==
    LET m == match_cached_key(cache, S(k), k, now)
    IN \/ At(k, "check", {"hesiod"}) /\ HesiodLookupOne(k)
       \/ /\ At(k, "noserver", {"hesiod"})
          /\ Return(k, "UNAVAIL")
          /\ Quiet /\ UNCHANGED <<cache, stale>>
       \/ /\ At(k, "apply", {"hesiod"})
          /\ Apply(k, k, req[k].got, "match")
          /\ Quiet /\ UNCHANGED stale
       \/ /\ At(k, "match", {"hesiod"})
          /\ Matched(k, m.a, "UNAVAIL")
          /\ cache' = m.c
          /\ Quiet /\ UNCHANGED stale

\* lookup_userhome: a symbolic link to the home directory of the user.
UserhomeMount(k) ==
    \/ At(k, "check", {"userhome"}) /\ Ask(k, "apply", "nouser")
    \/ /\ \/ At(k, "nouser", {"userhome"})
          \/ At(k, "apply", {"userhome"}) /\ req[k].got = None
       /\ Return(k, "NOTFOUND")
       /\ Quiet /\ UNCHANGED <<cache, stale>>
    \/ /\ At(k, "apply", {"userhome"}) /\ req[k].got # None
       /\ cache' = cache_update(cache, S(k), k, Null, now).c
       /\ \/ /\ req' = [req EXCEPT ![k] = [Local(k, "ret", @.got) EXCEPT
                                            !.res = "SUCCESS"]]
             /\ mounted' = mounted \cup {k}
          \/ ReturnOther(k, "UNAVAIL") /\ UNCHANGED mounted
       /\ UNCHANGED <<world, now, last, begun, task, dirs, rd, stale>>

\* lookup_dir holds master maps only.
DirMount(k) ==
    /\ At(k, "check", {"dir"})
    /\ Return(k, "UNKNOWN")
    /\ Quiet /\ UNCHANGED <<cache, stale>>
-----------------------------------------------------------------------------
\* lookup_nss_mount(): the next source, or the end with the result; for a
\* multi map lookup_multi: the next module, or NOTFOUND.
lookup_nss_mount(k) ==
    LET r == req[k]
        more == r.n < Len(conf.mods)
        stop == CASE conf.mode = "type" -> TRUE
                  [] conf.mode = "multi" -> r.res = "SUCCESS"
                  [] conf.mode = "nss" ->
                       /\ r.res # "UNKNOWN"
                       /\ check_nss_result(conf.mods[r.n].action, r.res) >= 0
    IN /\ r.pc = "ret"
       /\ req' = [req EXCEPT
                   ![k].pc = IF stop \/ ~more THEN "end" ELSE Entry(r.n + 1),
                   ![k].n = IF stop \/ ~more THEN @ ELSE @ + 1,
                   ![k].res = IF conf.mode = "multi" /\ ~stop /\ ~more
                              THEN "NOTFOUND" ELSE @]
       /\ Quiet /\ UNCHANGED <<cache, stale>>

\* send_map_update_request(); the request ends when the key was found.
send_map_update_request(k) ==
    LET old == \E s \in DOMAIN stale : stale[s]
    IN /\ req[k].pc = "end"
       /\ stale' = [stale EXCEPT ![Map] = @ \/ old]
       /\ task' = (task \/ old)
       /\ req' = [req EXCEPT ![k] = IF @.res \in {"NOTFOUND", "UNAVAIL"}
                                    THEN [Idle EXCEPT !.pc = "unc"] ELSE Idle]
       /\ UNCHANGED <<world, now, last, begun, mounted, dirs, rd, cache>>

\* update_negative_cache(): a key no source has is recorded under the map.
update_negative_cache(k) ==
    /\ \/ /\ req[k].pc = "unc"
          /\ req' = [req EXCEPT ![k] = IF Found(cache_lookup_distinct(cache, k))
                                       THEN Idle ELSE [@ EXCEPT !.pc = "uncw"]]
          /\ UNCHANGED cache
       \/ /\ req[k].pc = "uncw"
          /\ cache' = cache_update_negative(cache, Map, k, now, now + NegTimeout)
          /\ req' = [req EXCEPT ![k] = Idle]
    /\ Quiet /\ UNCHANGED stale

Request(k) ==
    \/ NegativeCheck(k) \/ NegativeRetry(k) \/ ApplyWild(k)
    \/ FileMount(k) \/ YpMount(k) \/ NisplusMount(k) \/ LdapMount(k)
    \/ SssMount(k) \/ ProgramMount(k) \/ HostsMount(k) \/ HesiodMount(k)
    \/ UserhomeMount(k) \/ DirMount(k)
    \/ ParseMount(k) \/ MountFailed(k)
    \/ lookup_nss_mount(k) \/ send_map_update_request(k)
    \/ update_negative_cache(k)
-----------------------------------------------------------------------------
\* The thread that reads the map again: do_readmap().
NotReading(first) ==
    [pc |-> "idle", n |-> 1, todo |-> {}, age |-> 0, res |-> "SUCCESS",
     some |-> FALSE, key |-> Wild, kept |-> TRUE, first |-> first]

ReadQuiet == UNCHANGED <<world, now, mounted, req>>

\* A signal asks for a new read.
Hup ==
    /\ ~task /\ events < conf.max
    /\ task' = TRUE
    /\ events' = events + 1
    /\ stale' = [stale EXCEPT ![Map] = TRUE]
    /\ UNCHANGED <<conf, map, mtime, up, now, cache, last, begun, mounted, dirs, req, rd>>

ReadStart ==
    /\ rd.pc = "idle" /\ task
    /\ task' = FALSE
    /\ rd' = IF stale[Map] THEN [rd EXCEPT !.pc = "read", !.age = now]
             ELSE NotReading(rd.first)
    /\ Disturb
    /\ UNCHANGED <<world, now, mounted, cache, stale, last, begun, dirs>>

\* What lookup_read_map() of each module may return before it has read an
\* entry, or "keys" when it reads the map; "noinit" is a file map that cannot
\* be opened, which fails in lookup_reinit() already.  Servers are asked only
\* for maps that are browsed.
FileReadMap(n) == {IF up[n] THEN "keys" ELSE "noinit"}
YpReadMap(n) ==
    IF ~conf.ghost THEN {"SUCCESS"} ELSE IF up[n] THEN {"keys"} ELSE {"UNAVAIL", "NOTFOUND"}
NisplusReadMap(n) ==
    IF ~conf.ghost THEN {"SUCCESS"} ELSE IF up[n] THEN {"keys"} ELSE {"UNAVAIL", "NOTFOUND"}
LdapReadMap(n) ==
    IF ~conf.ghost THEN {"SUCCESS"} ELSE {IF up[n] THEN "keys" ELSE "UNAVAIL"}
SssReadMap(n) ==
    IF ~conf.ghost THEN {"SUCCESS"} ELSE IF up[n] THEN {"keys"} ELSE {"UNAVAIL", "UNKNOWN"}
HostsReadMap(n) == {IF conf.ghost THEN "keys" ELSE "SUCCESS"}

read_map(n) ==
    CASE KindOf(n) = "file" -> FileReadMap(n)
      [] KindOf(n) = "yp" -> YpReadMap(n)
      [] KindOf(n) = "nisplus" -> NisplusReadMap(n)
      [] KindOf(n) = "ldap" -> LdapReadMap(n)
      [] KindOf(n) = "sss" -> SssReadMap(n)
      [] KindOf(n) = "hosts" -> HostsReadMap(n)
      [] OTHER -> {"UNKNOWN"}

\* lookup_reinit(): a new context has not read the file, or has the order of
\* the NIS map as it is now.
reinit(n) == IF KindOf(n) = "yp" /\ up[n] THEN mtime[n] ELSE 0

\* do_read_map() up to the first entry.
do_read_map(r) ==
    LET n == rd.n
    IN /\ rd.pc = "read"
       /\ r \in read_map(n)
       /\ last' = IF r = "noinit" THEN last ELSE [last EXCEPT ![n] = reinit(n)]
       /\ stale' = IF conf.mode = "nss" /\ r # "noinit"
                   THEN [stale EXCEPT ![n] = stale[Map]] ELSE stale
       /\ rd' = [rd EXCEPT !.pc = IF r = "keys" THEN "keys" ELSE "res",
                           !.todo = IF r = "keys" THEN Keys ELSE {}, !.res = r]
       /\ ReadQuiet /\ UNCHANGED <<cache, begun, dirs, task>>

\* The server may go away while the map is read; nis_list() brings all of it.
Broken(n) == ~up[n] /\ KindOf(n) # "nisplus"

\* One entry of the map; the names of hosts have no value yet.  An entry that
\* is ignored, see Kept, makes the read incomplete.
ReadEntry(k) ==
    LET v == map[rd.n][k]
        w == IF KindOf(rd.n) = "hosts" THEN Null ELSE v
        skip == v = None \/ (k = Wild /\ w = Null)
        c == IF skip THEN cache ELSE cache_update(cache, Src(rd.n), k, w, rd.age).c
    IN /\ rd.pc = "keys" /\ k \in rd.todo /\ ~Broken(rd.n)
       /\ cache' = c
       /\ rd' = [rd EXCEPT !.todo = @ \ {k},
                           !.kept = @ /\ (skip \/ Kept(c, Src(rd.n), k, w))]
       /\ ReadQuiet /\ UNCHANGED <<stale, last, begun, dirs, task>>

\* The end of lookup_read_map(), or of the server.
ReadKeysEnd ==
    LET whole == rd.todo = {}
    IN /\ rd.pc = "keys" /\ (whole \/ Broken(rd.n))
       /\ last' = IF KindOf(rd.n) = "file" THEN [last EXCEPT ![rd.n] = now] ELSE last
       /\ begun' = IF whole /\ rd.kept THEN [begun EXCEPT ![rd.n] = rd.age] ELSE begun
       /\ \E r \in IF whole \/ KindOf(rd.n) \in {"file", "hosts"} THEN {"SUCCESS"}
                   ELSE {"UNAVAIL", "NOTFOUND"} :
            rd' = [rd EXCEPT !.pc = "res", !.todo = {}, !.res = r]
       /\ ReadQuiet /\ UNCHANGED <<cache, stale, dirs, task>>

\* What do_read_map() makes of the result for an indirect mount.
ReadStatus(r) == IF r \in {"UNKNOWN", "UNAVAIL"} THEN "SUCCESS"
                 ELSE IF r = "noinit" THEN "NOTFOUND" ELSE r

\* A module of a multi map counts as read unless LKP_FAIL, that is 1, is in
\* its result: UNAVAIL is 2.
MultiRead(r) == r \in {"SUCCESS", "UNAVAIL"}

\* lookup_nss_read_map(): the next source, or the end.
lookup_nss_read_map ==
    LET n == rd.n
        st == ReadStatus(rd.res)
        some == rd.some \/ IF conf.mode = "multi" THEN MultiRead(rd.res)
                           ELSE st = "SUCCESS"
        more == n < Len(conf.mods)
        stop == /\ conf.mode = "nss"
                /\ check_nss_result(conf.mods[n].action,
                       IF st = "SUCCESS" THEN "TRYAGAIN" ELSE st) >= 0
        end == ~more \/ stop
        failed == IF conf.mode = "multi" THEN end /\ ~some
                  ELSE rd.res \notin {"SUCCESS", "noinit"}
        good == some \/ (conf.mode = "nss" /\ ~stop)
    IN /\ rd.pc = "res"
       /\ stale' = [stale EXCEPT ![Src(n)] = @ /\ ~failed]
       /\ rd' = IF ~end THEN [rd EXCEPT !.pc = "read", !.n = n + 1, !.some = some]
                ELSE IF ~good THEN NotReading(FALSE)
                ELSE [rd EXCEPT !.pc = "prune",
                        !.todo = IF \E s \in DOMAIN stale : stale'[s]
                                 THEN conf.keys ELSE {}]
       /\ ReadQuiet /\ UNCHANGED <<cache, last, begun, dirs, task>>
-----------------------------------------------------------------------------
\* lookup_prune_one_cache(), one key at a time.
OldLater(e) == e.age + 1 < rd.age      \* off by one
Old(e) == /\ e.age < rd.age
          /\ conf.ghost \/ rd.age - (e.age + PosTimeout) >= 0

\* Under the read lock: entries that were read may be mounted again at once;
\* when there is an old one the first of the key loses its value, and all of
\* them go unless the key is mounted.
PruneScan(k) ==
    LET old == {i \in Places(cache, k) : Old(cache[Hash[k]][i])}
        seen == IF old # {} /\ k \notin mounted
                THEN {i \in Places(cache, k) : i < Lowest(old)} ELSE Places(cache, k)
        Visit(i, e) ==
            [e EXCEPT
              !.status = IF /\ i \in seen /\ e.age >= rd.age
                            /\ e.mapent # Null \/ Places(cache, Wild) # {}
                         THEN 0 ELSE @,
              !.mapent = IF old # {} /\ i = Lowest(Places(cache, k))
                         THEN Null ELSE @]
    IN /\ rd.pc = "prune" /\ k \in rd.todo
       /\ cache' = [cache EXCEPT ![Hash[k]] = [i \in DOMAIN @ |->
                       IF i \in Places(cache, k) THEN Visit(i, @[i]) ELSE @[i]]]
       /\ rd' = [rd EXCEPT
                   !.todo = @ \ {k},
                   !.key = IF old # {} /\ k \notin mounted THEN k ELSE @,
                   !.pc = IF old # {} /\ k \notin mounted THEN "delete" ELSE @]
       /\ ReadQuiet /\ UNCHANGED <<stale, last, begun, dirs, task>>

\* Under the write lock, taken after the read lock was dropped.
PruneDelete ==
    LET k == rd.key
        gone == Places(cache, k) # {}
    IN /\ rd.pc = "delete"
       /\ cache' = cache_delete(cache, k)
       /\ dirs' = IF conf.ghost /\ gone /\ k \notin mounted THEN dirs \ {k} ELSE dirs
       /\ rd' = [rd EXCEPT !.pc = "prune", !.key = Wild]
       /\ ReadQuiet /\ UNCHANGED <<stale, last, begun, task>>

\* lookup_prune_cache() ends.
PruneEnd ==
    /\ rd.pc = "prune" /\ rd.todo = {}
    /\ stale' = [s \in DOMAIN stale |-> FALSE]
    /\ rd' = [rd EXCEPT !.pc = "ghost"]
    /\ ReadQuiet /\ UNCHANGED <<cache, last, begun, dirs, task>>

\* lookup_ghost(): a directory for every key that has a value.
lookup_ghost ==
    /\ rd.pc = "ghost"
    /\ dirs' = IF ~conf.ghost THEN dirs
               ELSE dirs \cup {k \in Key : \E i \in Places(cache, k) :
                                              cache[Hash[k]][i].mapent # Null}
    /\ rd' = NotReading(FALSE)
    /\ ReadQuiet /\ UNCHANGED <<cache, stale, last, begun, task>>

Reader ==
    \/ ReadStart
    \/ \E r \in read_map(rd.n) : do_read_map(r)
    \/ \E k \in Keys : ReadEntry(k)
    \/ ReadKeysEnd \/ lookup_nss_read_map
    \/ \E k \in Key : PruneScan(k)
    \/ PruneDelete \/ PruneEnd \/ lookup_ghost
-----------------------------------------------------------------------------
Init ==
    /\ conf \in Configs
    /\ now = 2 /\ events = 0
    /\ map \in [Mods -> {m \in FirstMaps : DOMAIN m = Keys}]
    /\ mtime = [n \in Mods |-> 1]
    /\ up = [n \in Mods |-> TRUE]
    /\ cache = [b \in Bucket |-> <<>>]
    /\ stale = [s \in 0..Len(conf.mods) |-> s = Map]
    /\ last = [n \in Mods |-> 0]
    /\ begun = [n \in Mods |-> 0]
    /\ task = TRUE
    /\ mounted = {} /\ dirs = {}
    /\ req = [k \in Key |-> Idle]
    /\ rd = NotReading(TRUE)

Next ==
    \/ Outside \/ Hup \/ Reader
    \/ \E k \in Key : Begin(k) \/ Request(k)

Spec ==
    /\ Init /\ [][Next]_vars
    /\ WF_vars(Reader)
    /\ \A k \in Key : WF_vars(Request(k))
-----------------------------------------------------------------------------
\* Values that are replaced in place keep to their kinds and ages to the past.
TypeOK ==
    /\ now \in 2..conf.max + 2
    /\ events \in 0..conf.max
    /\ mounted \subseteq Key /\ dirs \subseteq Key
    /\ \A b \in Bucket : \A i \in DOMAIN cache[b] :
         /\ Hash[cache[b][i].key] = b
         /\ cache[b][i].mapent \in Value \cup {Null}
         /\ cache[b][i].age \in 2..now

\* What a map has for a key, by its own entry or by the wildcard.
WildKinds == {"file", "yp", "nisplus", "ldap", "sss"}
InMap(n, k) ==
    IF map[n][k] = None /\ KindOf(n) \in WildKinds THEN map[n][Wild] ELSE map[n][k]

\* The map must answer for the key.  (Of the wildcards of several sources the
\* code looks at the first in the cache only, whosever it is.)
Answers(n, k) ==
    /\ up[n] /\ KindOf(n) # "dir" /\ InMap(n, k) # None
    /\ map[n][k] # None \/ Len(conf.mods) = 1

\* A change of a file map is seen when the file is newer than its last read, or
\* was read since.
ChangeSeen(n) ==
    KindOf(n) # "file" \/ mtime[n] > last[n] \/ mtime[n] < begun[n]

\* The end of a request that nothing disturbed: see calm.
CalmEnd(k) == req[k].pc = "end" /\ req[k].calm /\ ChangeSeen(req[k].n)

\* lookup_mount(): a request that no change, no other read of the map and no
\* failed mount came across mounts what its map has now for the key, whatever
\* was in the cache before: old values, negative entries, wildcard matches and
\* entries of other sources.  (lookup_sss leaves an old entry of a key that
\* only the wildcard matches; a program is not run again within the timeout.)
LookupFinds ==
    \A k \in Key : CalmEnd(k) =>
        LET n == req[k].n
            old == \/ KindOf(n) = "sss" /\ map[n][k] = None
                   \/ KindOf(n) = "program"
        IN Answers(n, k) => req[k].res = "SUCCESS" /\ (old \/ req[k].val = InMap(n, k))

\* The cache has a wildcard that the map has not.
StrayWildcard(n) == map[n][Wild] = None /\ Places(cache, Wild) # {}

NotMounted(k) ==
    LET n == req[k].n
    IN up[n] /\ InMap(n, k) = None => req[k].res # "SUCCESS"

\* check_map_indirect(): such a request does not mount a key that has left the
\* map, from its cached entry or from a cached wildcard.  (A wildcard that a
\* file or ldap map no longer has may be left in the cache; hesiod mounts what
\* the cache has and a program is not run again within the timeout.)
LookupForgets ==
    \A k \in Key :
        /\ CalmEnd(k) /\ Kind(k) \notin {"hesiod", "program"}
        /\ ~(Kind(k) \in {"file", "ldap"} /\ StrayWildcard(req[k].n))
        => NotMounted(k)

\* lookup_nss_mount(): a source is passed over only when it does not have the
\* key, or is down, or its action says so.
SourceOrder ==
    \A k \in Key : CalmEnd(k) =>
        \A m \in 1..req[k].n - 1 :
            Answers(m, k) /\ ChangeSeen(m) =>
                /\ conf.mode = "nss"
                /\ "SUCCESS" \in DOMAIN conf.mods[m].action
=============================================================================
