------------------------------- MODULE Cache -------------------------------
(***************************************************************************)
(* The map entry cache of lib/cache.c as operators on a cache value.  A    *)
(* cache is a function from hash buckets to chains; a chain is a sequence  *)
(* of entries, first the head.  A `struct mapent *' is a pair of the key   *)
(* it was found under and its position in the chain of that key, position  *)
(* 0 being NULL.  The entries are those of an indirect map: none is part   *)
(* of a multi-mount and none has a key that begins with a slash.  Memory   *)
(* allocation does not fail, so cache_add() does not.                      *)
(***************************************************************************)
EXTENDS Integers, Sequences, FiniteSets

CONSTANTS
    Wild,       \* the key "*"
    Null,       \* a NULL mapent
    Hash        \* the bucket of each key

Bucket == {Hash[k] : k \in DOMAIN Hash}

\* A cache entry; stack holds the map entries that negative ones cover.
NewEntry(key, source, mapent, age) ==
    [key |-> key, source |-> source, mapent |-> mapent, age |-> age,
     status |-> 0, stack |-> <<>>]

Lowest(S) == CHOOSE x \in S : \A y \in S : x <= y

\* The positions of the entries of a key.
Places(c, key) == {i \in DOMAIN c[Hash[key]] : c[Hash[key]][i].key = key}

\* The entry a pointer leads to, and the cache with that entry replaced.
Deref(c, me) == c[Hash[me[1]]][me[2]]
Replace(c, me, entry) == [c EXCEPT ![Hash[me[1]]][me[2]] = entry]

\* The pointer to the first of some positions of a key, or NULL.
Pointer(key, S) == <<key, IF S = {} THEN 0 ELSE Lowest(S)>>
Found(me) == me[2] # 0

cache_lookup_distinct(c, key) == Pointer(key, Places(c, key))

cache_lookup_key_next(c, me) ==
    Pointer(me[1], {i \in Places(c, me[1]) : i > me[2]})

cache_lookup(c, key) ==
    IF Places(c, key) # {} THEN cache_lookup_distinct(c, key)
    ELSE cache_lookup_distinct(c, Wild)

\* The first entry from me on, under the same key, that belongs to source.
SameSource(c, me, source) ==
    Pointer(me[1], {i \in Places(c, me[1]) : /\ i >= me[2]
                                             /\ c[Hash[me[1]]][i].source = source})

\* A key that has entries gets its new one after the last of them, and what
\* followed that one in the chain is cut off; any other goes to the head.
cache_add(c, source, key, mapent, age) ==
    LET chain == c[Hash[key]]
        new == <<NewEntry(key, source, mapent, age)>>
        last == CHOOSE i \in Places(c, key) : \A j \in Places(c, key) : j <= i
    IN [c EXCEPT ![Hash[key]] =
            IF Places(c, key) = {} THEN new \o chain
            ELSE SubSeq(chain, 1, last) \o new]

\* [ret, c]: the result and the cache afterwards.
cache_update(c, source, key, mapent, age) ==
    LET first == cache_lookup(c, key)
        me == IF Found(first) THEN SameSource(c, first, source) ELSE first
        e == Deref(c, me)
    IN IF \/ ~Found(me)
          \/ me[1] = Wild /\ key # Wild
       THEN [ret |-> "UPDATED", c |-> cache_add(c, source, key, mapent, age)]
       ELSE IF e.age = age THEN [ret |-> "OK", c |-> c]
       ELSE [ret |-> IF mapent # Null /\ mapent # e.mapent
                     THEN "UPDATED" ELSE "OK",
             c |-> Replace(c, me, [e EXCEPT !.mapent = mapent, !.age = age])]

\* Covers the map entry of me with a NULL one.
cache_push_mapent(c, me) ==
    LET e == Deref(c, me)
    IN IF e.mapent = Null THEN [ret |-> "FAIL", c |-> c]
       ELSE [ret |-> "OK",
             c |-> Replace(c, me, [e EXCEPT
                     !.stack = <<[mapent |-> e.mapent, age |-> e.age]>> \o @,
                     !.mapent = Null])]

cache_pop_mapent(c, me) ==
    LET e == Deref(c, me)
    IN IF e.stack = <<>> THEN [ret |-> "FAIL", c |-> c]
       ELSE [ret |-> "OK",
             c |-> Replace(c, me, [e EXCEPT
                     !.mapent = IF Head(e.stack).age < e.age THEN @
                                ELSE Head(e.stack).mapent,
                     !.stack = Tail(@)])]

cache_delete(c, key) ==
    [c EXCEPT ![Hash[key]] = SelectSeq(@, LAMBDA e : e.key # key)]

\* Records that the key failed, until the time given.
cache_update_negative(c, source, key, age, until) ==
    LET me == cache_lookup_distinct(c, key)
        r == IF Found(me) THEN cache_push_mapent(c, me)
             ELSE cache_update(c, source, key, Null, age)
        neg == cache_lookup_distinct(r.c, key)
    IN IF key = Wild \/ r.ret = "FAIL" THEN c
       ELSE Replace(r.c, neg, [Deref(r.c, neg) EXCEPT !.status = until])

\* The key failed lately: cache_lookup_negative() under the read lock.
Negative(c, key, now) ==
    LET me == cache_lookup_distinct(c, key)
    IN Found(me) /\ Deref(c, me).status >= now

\* The rest of cache_lookup_negative(), under the write lock.
RetryNegative(c, key) ==
    LET me == cache_lookup_distinct(c, key)
        r == cache_pop_mapent(c, me)
    IN IF ~Found(me) \/ Deref(c, me).mapent # Null THEN c
       ELSE IF r.ret = "FAIL" THEN cache_delete(c, key) ELSE r.c

\* An answer of a search of the cache: the entry found, if there is one.
Answer(c, me) ==
    IF Found(me) THEN [found |-> TRUE, e |-> Deref(c, me)]
    ELSE [found |-> FALSE, e |-> NewEntry(Wild, 0, Null, 0)]

\* match_cached_key() for maps in Sun format: the answer, and the cache, to
\* which the match of a wildcard is added.
match_cached_key(c, source, key, age) ==
    LET first == cache_lookup(c, key)
        stale == /\ Found(first)
                 /\ \/ Deref(c, first).mapent = Null
                    \/ Deref(c, first).source # source
        next == SameSource(c, <<first[1], first[2] + 1>>, source)
        wild == cache_lookup_distinct(c, Wild)
        me == IF ~stale THEN first
              ELSE IF Found(next) THEN next
              ELSE IF Found(wild) /\ Deref(c, wild).source = source THEN wild
              ELSE <<Wild, 0>>
        a == Answer(c, me)
    IN [a |-> a,
        c |-> IF a.found /\ a.e.key = Wild
              THEN cache_update(c, source, key, a.e.mapent, age).c ELSE c]
=============================================================================
