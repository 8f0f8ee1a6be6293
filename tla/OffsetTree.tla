----------------------------- MODULE OffsetTree -----------------------------
(***************************************************************************)
(* A multi-mount of the hosts map: one key of an indirect mount whose      *)
(* entry is a list of offsets, the exports of the host.  The offsets are   *)
(* entries of the map entry cache linked into a binary tree; each has an   *)
(* autofs trigger mounted on it when the mount it is nested in is there.   *)
(* Threads mount the key and the offsets that are walked on, expire them,  *)
(* and a thread that reads the map again changes the list under them.  One *)
(* step is what a thread does under one hold of the cache lock.  Expires   *)
(* and map reads of a mount point exclude each other, see StateQueue.      *)
(* Directories, and descriptors of triggers (see MountRequest), are left   *)
(* out, and the list that get_exports() makes has no syntax errors.        *)
(***************************************************************************)
EXTENDS Integers, Sequences, SequencesExt

CONSTANTS
    Offset,         \* the paths that may be offsets
    Slash,          \* the root offset "/", if there is one
    Above,          \* the offsets above each offset
    ByLength,       \* the offsets, shortest first, as get_exports() lists them
    ByName,         \* the offsets and the key in the order of strcmp()
    Lists,          \* the lists of exports the host may have
    Root, Reader,   \* the key's entry, and the thread that reads the map
    MaxClock        \* bounds the requests for the key and the map reads

VARIABLES
    clock,      \* monotonic_time(), one second for each request or read
    root,       \* the key's entry: its age, and whether mm_root is set
    off,        \* the offsets' entries, of age 0 when there is none
    tree,       \* the offsets below each node of the binary tree
    work,       \* the offsets on the list of a parse_mount()
    trig,       \* the offsets with a trigger that can be walked on
    covered,    \* the triggers under another one, mounted later above them
    real,       \* what is mounted: the root offset and offsets
    remount,    \* MOUNT_FLAG_REMOUNT
    th,         \* the threads: for the key, for the offsets, the reader
    failed,     \* history: offsets whose trigger could not be changed
    raced,      \* history: the key was requested and the map read at once
    late,       \* history: an offset was added above one that was in the tree
    crashed     \* the daemon has gone

cacheVars == <<root, off, tree, work>>
vars == <<clock, cacheVars, trig, covered, real, remount, th, failed, raced, late, crashed>>

Node == Offset \cup {Root}
Thread == Node \cup {Reader}
NoEntry == [age |-> 0, valid |-> FALSE, parent |-> Root]
Idle == [pc |-> "idle", age |-> 0, todo |-> {}]

\* The cache lock is held for reading between the mount and its triggers.
NotRead == \A x \in Thread : th[x].pc # "triggers"

Rank == [n \in Node |-> CHOOSE i \in DOMAIN ByName : ByName[i] = n]

ASSUME NamesAssumption ==
    /\ Root # Reader /\ Root \notin Offset /\ Reader \notin Offset
    /\ Lists \subseteq SUBSET Offset /\ MaxClock \in Nat

ASSUME OrderAssumption ==
    /\ ByLength \in Seq(Offset) /\ ToSet(ByLength) = Offset /\ IsInjective(ByLength)
    /\ ByName \in Seq(Node) /\ ToSet(ByName) = Node /\ IsInjective(ByName)

\* A path sorts after the ones above it, and those are nested in each other; the
\* root offset, with its trailing slash, is above none.
ASSUME AboveAssumption ==
    /\ Above \in [Offset -> SUBSET (Offset \ {Slash})]
    /\ \A o \in Offset : \A p, q \in Above[o] :
         /\ Rank[p] < Rank[o] /\ Above[p] \subseteq Above[o]
         /\ p = q \/ p \in Above[q] \/ q \in Above[p]
-----------------------------------------------------------------------------
\* The search from the root for o comes to n: o is on the side of every node
\* above n that n is on.
OnPath(tr, o, n) ==
    /\ n \in tr[Root] \cup {Root}
    /\ \A m \in Node : n \in tr[m] => (Rank[o] < Rank[m] <=> Rank[n] < Rank[m])

\* An offset is added once, below the nodes the search comes to.
tree_add_node(tr, o) ==
    IF o \in tr[Root] THEN tr
    ELSE [n \in Node |-> IF OnPath(tr, o, n) THEN tr[n] \cup {o} ELSE tr[n]]

\* The nearest offset above that has an entry in the cache.
cache_get_offset_parent(es, o) ==
    LET ps == {p \in Above[o] : es[p].age # 0}
    IN IF ps = {} THEN Root ELSE CHOOSE p \in ps : \A q \in ps : q = p \/ q \in Above[p]

\* tree_mapent_add_node() for the offsets of a list, shortest first.
tree_mapent_add_nodes(list) ==
    LET add[i \in 0..Len(ByLength)] ==
            IF i = 0 THEN tree
            ELSE IF ByLength[i] \in list THEN tree_add_node(add[i - 1], ByLength[i])
            ELSE add[i - 1]
    IN /\ tree' = add[Len(ByLength)]
       /\ off' = [o \in Offset |->
                    IF o \in list
                    THEN [off[o] EXCEPT !.parent = cache_get_offset_parent(off, o)]
                    ELSE off[o]]

\* The part of the subtree below base: the nodes below it in the tree whose
\* parent it is; the root offset is handled by itself.
Part(base) == {o \in tree[base] \ {Slash} : off[o].parent = base}

\* tree_mapent_traverse_subtree(): the work on each of them, in order.
tree_mapent_traverse_subtree(base, visit(_)) ==
    FlattenSeq([i \in DOMAIN ByName |->
                  IF ByName[i] \in Part(base) THEN visit(ByName[i]) ELSE <<>>])
-----------------------------------------------------------------------------
\* What a walk of the tree changes: a record of the variables, and whether a
\* strict walk was stopped by a failure.  out is what happens to each offset;
\* at most one of a walk fails.
AllOk == [o \in Offset |-> "ok"]
Outcomes(S) == {AllOk} \cup {[AllOk EXCEPT ![o] = r] : o \in S \cap Offset, r \in {"fail", "other"}}
Now == [off |-> off, trig |-> trig, covered |-> covered, real |-> real,
        failed |-> failed, stop |-> FALSE]
Apply(s) ==
    /\ off' = s.off /\ trig' = s.trig /\ covered' = s.covered
    /\ real' = s.real /\ failed' = s.failed

Under(S, o) == {x \in S \cap Offset : o \in Above[x]}

\* umount_autofs_offset(): the trigger goes and what it covered is seen again.
umount_autofs_offset(s, o) ==
    IF o \notin s.trig THEN [s EXCEPT !.real = @ \ {o}]
    ELSE [s EXCEPT !.real = @ \ {o}, !.trig = (@ \ {o}) \cup Under(s.covered, o),
                   !.covered = @ \ Under(@, o), !.failed = @ \ {o}]

\* tree_mapent_umount_offset(), its own subtree being done: a mount that is
\* busy makes the offset invalid; a trigger is busy when it is walked on, and
\* when "other" is its outcome.
tree_mapent_umount_offset(s, o, out) ==
    LET busy == Under(s.trig, o) # {}
    IN IF s.stop THEN [s EXCEPT !.failed = @ \cup ({o} \cap s.trig)]
       ELSE IF o \in s.real /\ (busy \/ out[o] = "fail")
       THEN [s EXCEPT !.stop = TRUE, !.off[o].valid = FALSE, !.failed = @ \cup {o}]
       ELSE IF o \in s.trig /\ (busy \/ th[o].pc # "idle" \/ out[o] = "other")
       THEN [s EXCEPT !.stop = TRUE, !.real = @ \ {o}, !.failed = @ \cup {o}]
       ELSE umount_autofs_offset(s, o)

\* The offsets of a subtree in the order they are umounted.
UmountOrder(base) ==
    LET u[n \in Node] == tree_mapent_traverse_subtree(n, LAMBDA o : u[o] \o <<o>>)
    IN u[base]

UmountSeq(s, seq, out) ==
    LET after[i \in 0..Len(seq)] ==
            IF i = 0 THEN s ELSE tree_mapent_umount_offset(after[i - 1], seq[i], out)
    IN after[Len(seq)]

tree_mapent_umount_offsets(base, out) == UmountSeq(Now, UmountOrder(base), out)

\* try_remount(), or is_mounted(): the trigger is there and is used again.
try_remount(s, o) == [s EXCEPT !.failed = @ \ {o}]

\* mount_autofs_offset(): "other" is a mount the NFS client has made there.
mount_autofs_offset(s, o, out) ==
    IF o \in s.trig THEN try_remount(s, o)
    ELSE IF out[o] = "other" /\ s.off[o].parent \in s.real
    THEN [s EXCEPT !.off[o].valid = FALSE]
    ELSE IF out[o] # "ok" THEN [s EXCEPT !.failed = @ \cup {o}]
    ELSE [s EXCEPT !.trig = (@ \ Under(@, o)) \cup {o},
                   !.covered = @ \cup Under(s.trig, o), !.failed = @ \ {o}]

tree_mapent_mount_offsets_work(s, o, out) ==
    IF ~s.off[o].valid THEN s
    ELSE IF s.off[o].age # root.age
    THEN [UmountSeq(s, UmountOrder(o) \o <<o>>, out) EXCEPT !.stop = FALSE]
    ELSE mount_autofs_offset(s, o, out)

\* The offsets that are visited, below one that is mounted too when the map is
\* read again.
MountOrderFlat(base, deep) ==           \* never below
    tree_mapent_traverse_subtree(base, LAMBDA o : <<o>>)
MountOrderAll(base, deep) ==            \* whatever they are nested in
    FlattenSeq([i \in DOMAIN ByName |->
                  IF ByName[i] \in tree[base] \ {Slash} THEN <<ByName[i]>> ELSE <<>>])
MountOrder(base, deep) ==
    LET into(o) == deep /\ o \in real /\ off[o].valid /\ off[o].age = root.age
        v[n \in Node] == tree_mapent_traverse_subtree(n,
                           LAMBDA o : <<o>> \o IF into(o) THEN v[o] ELSE <<>>)
    IN v[base]

tree_mapent_mount_offsets(s, base, deep, out) ==
    LET seq == MountOrder(base, deep)
        after[i \in 0..Len(seq)] ==
            IF i = 0 THEN [s EXCEPT !.stop = FALSE]
            ELSE tree_mapent_mount_offsets_work(after[i - 1], seq[i], out)
    IN after[Len(seq)]
-----------------------------------------------------------------------------
\* A walk on the key when nothing is mounted there: lookup_mount() of
\* lookup_hosts asks for the exports and puts them into the key's entry.
RootRequest ==
    /\ th[Root].pc = "idle" /\ clock < MaxClock
    /\ trig = {} /\ real = {}
    /\ \A o \in Offset : th[o].pc = "idle"
    /\ clock' = clock + 1
    /\ th' = [th EXCEPT ![Root] = [@ EXCEPT !.pc = "list", !.age = clock']]
    /\ raced' = (raced \/ th[Reader].pc # "idle")
    /\ UNCHANGED <<cacheVars, trig, covered, real, remount, failed, late, crashed>>

get_exports(list) ==
    /\ th[Root].pc = "list"
    /\ th' = [th EXCEPT ![Root] = IF list = {} THEN Idle
                                  ELSE [@ EXCEPT !.pc = "update", !.todo = list]]
    /\ UNCHANGED <<clock, cacheVars, trig, covered, real, remount, failed, raced, late, crashed>>

RootUpdate ==
    /\ th[Root].pc = "update" /\ NotRead
    /\ root' = [root EXCEPT !.age = th[Root].age]
    /\ th' = [th EXCEPT ![Root].pc = "parse"]
    /\ UNCHANGED <<clock, off, tree, work, trig, covered, real, remount, failed, raced, late, crashed>>

\* update_hosts_mounts(): the same for a key that is a multi-mount.
update_hosts_mounts(list) ==
    /\ th[Reader].pc = "idle" /\ clock < MaxClock
    /\ root.mm /\ list # {} /\ NotRead
    /\ clock' = clock + 1
    /\ root' = [root EXCEPT !.age = clock']
    /\ remount' = TRUE
    /\ th' = [th EXCEPT ![Reader] = [Idle EXCEPT !.pc = "parse", !.todo = list]]
    /\ raced' = (raced \/ th[Root].pc # "idle")
    /\ UNCHANGED <<off, tree, work, trig, covered, real, failed, late, crashed>>

UpdateEnd ==
    /\ th[Reader].pc = "end"
    /\ remount' = FALSE
    /\ th' = [th EXCEPT ![Reader] = Idle]
    /\ UNCHANGED <<clock, cacheVars, trig, covered, real, failed, raced, late, crashed>>

\* parse_mount() of a multi-mount, by the key's thread or the reader: it makes
\* sure that the entry is a root, ...
ParseRoot(w) ==
    /\ th[w].pc = "parse"
    /\ root' = [root EXCEPT !.mm = TRUE]
    /\ tree' = IF root.mm THEN tree ELSE [tree EXCEPT ![Root] = {}]
    /\ th' = [th EXCEPT ![w].pc = "offsets", ![w].age = root.age]
    /\ UNCHANGED <<clock, off, work, trig, covered, real, remount, failed, raced, late, crashed>>

\* ... brings the entry of each offset up to date and lists it, unless it is on
\* a list already, ...
First(S) == ByLength[CHOOSE i \in DOMAIN ByLength :
                       ByLength[i] \in S /\ \A j \in 1..(i - 1) : ByLength[j] \notin S]

update_offset_entry(w, o) ==
    /\ off' = [off EXCEPT ![o].age = th[w].age, ![o].valid = TRUE]
    /\ work' = IF \E x \in DOMAIN work : o \in work[x] THEN work
               ELSE [work EXCEPT ![w] = @ \cup {o}]
    /\ th' = [th EXCEPT ![w].todo = @ \ {o}]
    /\ late' = (late \/ (off[o].age = 0 /\ \E q \in tree[Root] : o \in Above[q]))

ParseOffset(w) ==
    /\ th[w].pc = "offsets" /\ th[w].todo # {} /\ NotRead
    /\ update_offset_entry(w, First(th[w].todo))
    /\ UNCHANGED <<clock, root, tree, trig, covered, real, remount, failed, raced, crashed>>

\* ... adds what is on its list to the tree, ...
ParseTree(w) ==
    /\ th[w].pc = "offsets" /\ th[w].todo = {} /\ NotRead
    /\ tree_mapent_add_nodes(work[w])
    /\ work' = [work EXCEPT ![w] = {}]
    /\ th' = [th EXCEPT ![w].pc = "base"]
    /\ UNCHANGED <<clock, root, trig, covered, real, remount, failed, raced, late, crashed>>

\* sun_mount(): with MOUNT_FLAG_REMOUNT the mount modules do nothing.
sun_mount(n) == real' = real \/ (~remount /\ real' = real \cup {n})

\* ... and mount_subtree() mounts the root offset and the triggers.
MountRootOffset(w) ==
    /\ th[w].pc = "base"
    /\ IF Slash \in Offset /\ off[Slash].age = root.age
       THEN sun_mount(Root) ELSE UNCHANGED real
    /\ th' = [th EXCEPT ![w].pc = "triggers"]
    /\ UNCHANGED <<clock, cacheVars, trig, covered, remount, failed, raced, late, crashed>>

\* A walk on a trigger with nothing mounted on it or below it.
OffsetRequest(o) ==
    /\ o \in trig \ real /\ Under(trig \cup real, o) = {}
    /\ th[o].pc = "idle" /\ th[Root].pc = "idle"
    /\ off[o].age # 0
    /\ th' = IF off[o].valid THEN [th EXCEPT ![o].pc = "base"] ELSE th
    /\ crashed' = ~off[o].valid    \* strlen(me->mapent)
    /\ UNCHANGED <<clock, cacheVars, trig, covered, real, remount, failed, raced, late>>

\* mount_subtree() of a nesting point: it goes on when the mount failed.
MountOffset(o) ==
    /\ th[o].pc = "base"
    /\ sun_mount(o)
    /\ th' = [th EXCEPT ![o].pc = "triggers"]
    /\ UNCHANGED <<clock, cacheVars, trig, covered, remount, failed, raced, late, crashed>>

MountTriggers(x) ==
    /\ th[x].pc = "triggers"
    /\ \E out \in Outcomes(Offset) :
         Apply(tree_mapent_mount_offsets(Now, IF x = Reader THEN Root ELSE x, remount, out))
    /\ th' = [th EXCEPT ![x] = IF x = Reader THEN [@ EXCEPT !.pc = "end"] ELSE Idle]
    /\ UNCHANGED <<clock, root, tree, work, remount, raced, late, crashed>>
-----------------------------------------------------------------------------
\* The triggers that an expire has taken away and not put back.
Bare(s) == [s EXCEPT !.failed = @ \cup (trig \ s.trig)]

\* umount_subtree_mounts() for an offset that is not in use.
ExpireOffset(o) ==
    /\ o \in real /\ \A x \in Under(Offset, o) \cup {o} : th[x].pc = "idle"
    /\ th[Reader].pc = "idle" /\ th[Root].pc = "idle"
    /\ \E out \in Outcomes(trig \cup real) :
         LET s == tree_mapent_umount_offsets(o, out)
         IN IF s.stop \/ out[o] = "fail" \/ Under(s.trig, o) # {} THEN Apply(Bare(s))
            ELSE Apply([s EXCEPT !.real = @ \ {o}])
    /\ UNCHANGED <<clock, root, tree, work, remount, th, raced, late, crashed>>

\* The entries of the tree go, all but its root's.
tree_mapent_delete_offsets(s) ==
    LET gone == tree[Root]
    IN [s EXCEPT !.off = [o \in Offset |-> IF o \in gone THEN NoEntry ELSE @[o]],
                 !.failed = @ \ gone]

DeletedAnyway(s) == FALSE                   \* also when an umount failed
Kept(s) == s.stop

\* For the key: the triggers, the root offset, and then the entries.
ExpireRoot ==
    /\ trig \cup real # {} /\ \A x \in Thread : th[x].pc = "idle"
    /\ \E out \in Outcomes(trig \cup real), busy \in BOOLEAN :
         LET s == tree_mapent_umount_offsets(Root, out)
             full == Root \in real /\ (busy \/ s.trig # {})
         IN IF Kept(s) THEN Apply(Bare(s)) /\ UNCHANGED <<root, tree, raced>>
            ELSE IF full
            THEN /\ \E again \in Outcomes(Offset) :
                      Apply(tree_mapent_mount_offsets(s, Root, FALSE, again))
                 /\ UNCHANGED <<root, tree, raced>>
            ELSE /\ root' = [root EXCEPT !.mm = FALSE]
                 /\ tree' = [n \in Node |-> {}]
                 /\ raced' = FALSE
                 /\ Apply(tree_mapent_delete_offsets([s EXCEPT !.real = @ \ {Root}]))
    /\ UNCHANGED <<clock, work, remount, th, late, crashed>>
-----------------------------------------------------------------------------
Init ==
    /\ clock = 0
    /\ root = [age |-> 0, mm |-> FALSE]
    /\ off = [o \in Offset |-> NoEntry]
    /\ tree = [n \in Node |-> {}]
    /\ work = [w \in {Root, Reader} |-> {}]
    /\ trig = {} /\ covered = {} /\ real = {} /\ failed = {}
    /\ remount = FALSE /\ raced = FALSE /\ late = FALSE /\ crashed = FALSE
    /\ th = [x \in Thread |-> Idle]

Parse(w) ==
    \/ ParseRoot(w) \/ ParseOffset(w) \/ ParseTree(w)
    \/ MountRootOffset(w) \/ MountTriggers(w)

Next ==
    /\ ~crashed
    /\ \/ RootRequest \/ RootUpdate
       \/ \E list \in Lists : get_exports(list) \/ update_hosts_mounts(list) \/ UpdateEnd
       \/ Parse(Root) \/ Parse(Reader)
       \/ \E o \in Offset :
            OffsetRequest(o) \/ MountOffset(o) \/ MountTriggers(o) \/ ExpireOffset(o)
       \/ ExpireRoot

Spec == Init /\ [][Next]_vars
-----------------------------------------------------------------------------
TypeOK ==
    /\ clock \in 0..MaxClock
    /\ root \in [age : 0..MaxClock, mm : BOOLEAN]
    /\ off \in [Offset -> [age : 0..MaxClock, valid : BOOLEAN, parent : Node]]
    /\ tree \in [Node -> SUBSET Offset]
    /\ work \in [{Root, Reader} -> SUBSET Offset]
    /\ trig \subseteq Offset /\ covered \subseteq Offset /\ failed \subseteq Offset
    /\ real \subseteq Node
    /\ th \in [Thread -> [pc : {"idle", "list", "update", "parse", "offsets", "base",
                                "triggers", "end"},
                         age : 0..MaxClock, todo : SUBSET Offset]]
    /\ {remount, raced, late, crashed} \subseteq BOOLEAN

\* umount_subtree_mounts(): every trigger that is mounted has its entry in the
\* cache and is reached by the walk that umounts the multi-mount, whatever was
\* added to the list and taken from it, and whatever umounts failed; "the
\* offset cache entry must remain so expires can continue to attempt to umount
\* it", lib/mounts.c:1928.  It is not so once an export that another one is
\* nested in is added after that one.
NoOrphan ==
    late \/ \A o \in trig \cup covered : off[o].age # 0 /\ o \in ToSet(UmountOrder(Root))

\* tree_mapent_traverse_subtree(): a trigger is nested in a trigger, so that
\* none is mounted on a directory that a mount above it will cover, or left
\* inside a mount that is umounted.
Nested == late \/ \A o \in trig : off[o].parent \in trig \cup {Root}

Quiet == ~raced /\ ~late /\ \A x \in Thread : th[x].pc = "idle"

\* A walk of the tree from the key comes to the node.
Walked ==
    LET walked[n \in Node] ==
            \/ n = Root
            \/ /\ n \in real /\ off[n].valid /\ off[n].age = root.age
               /\ n \in Part(off[n].parent) /\ walked[off[n].parent]
    IN {n \in Node : walked[n]}

\* tree_mapent_mount_offsets(): between requests each offset that a walk comes
\* to has its trigger and a "Stale offset, no longer present in the mapent",
\* lib/mounts.c:1995, has none, unless it could not be mounted or umounted, or
\* an expire failed half way.
Complete ==
    Quiet => \A n \in Walked : \A o \in Part(n) :
               off[o].valid => IF off[o].age = root.age THEN o \in trig \cup failed
                               ELSE o \in trig => o \in failed
=============================================================================
