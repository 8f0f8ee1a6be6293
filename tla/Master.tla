------------------------------- MODULE Master -------------------------------
(***************************************************************************)
(* The master map: the list of mount points with their map sources, the    *)
(* thread that reads the map at the start and again for SIGHUP, the signal *)
(* handler that joins the threads of mount points that have ended, and the *)
(* requests that walk the sources of a mount point meanwhile.  What the    *)
(* state machine makes of its tasks is reduced to the outcome, StateQueue  *)
(* has the detail; so are map entries (Lookup) and submounts (MountsList). *)
(* master_mutex is held by the reader from ReadMaster to its end, and for  *)
(* one step by the others.                                                 *)
(***************************************************************************)
EXTENDS Integers, Sequences, SequencesExt, FiniteSets

CONSTANTS
    Path, Direct,       \* the mount points, and which of them is "/-"
    Source,             \* maps
    AmdPath,            \* the path of the mount section in the configuration
    AmdSource,          \* maps of format amd
    NullMap,            \* the map of a line that disables a mount point
    Configuration,      \* what a read may find: the name services of nsswitch.conf,
                        \* the lines of the map in each, the map of the amd
                        \* mount section or None
    Entry,              \* master_mapent structures, a bound on them
    None,
    MaxAge, MaxSignal, MaxUsers     \* bounds: clock, signals sent, requests at a time

Service == {"files", "nis", "nisplus", "ldap", "sss"}
Line == [path : Path, map : Source \cup {NullMap}]

\* None is nothing a map names, and of a name service there is one map.
ASSUME MasterAssumption ==
    /\ None \notin Entry /\ None \notin Path /\ None \notin Source /\ NullMap \notin Source
    /\ AmdPath \in Path
    /\ \A c \in Configuration :
         /\ c.nss \in Seq(Service) /\ c.lines \in [DOMAIN c.nss -> Seq(Line)]
         /\ c.amd \in Source \cup {None}

VARIABLES
    reader,     \* the thread that reads the master map
    list,       \* master->mounts
    completed,  \* master->completed
    ent,        \* the entries
    users,      \* the source a request is using, under the source read lock
    pend,       \* signals sent to the process that are pending
    tpend,      \* a SIGTERM of a mount point's thread is pending
    handler,    \* where signal_handler() is
    notify,     \* a do_notify_state() thread is under way
    reading,    \* master->reading
    clock, sent,
    asked       \* history: the daemon has been sent SIGTERM

sigVars == <<pend, tpend, handler, notify, sent>>
vars == <<reader, list, completed, ent, users, sigVars, reading, clock, asked>>

NoReader == [pc |-> "idle", age |-> 0, readall |-> FALSE, fail |-> FALSE, fresh |-> TRUE,
             again |-> FALSE, lines |-> <<>>, amd |-> None, i |-> 0, todo |-> <<>>,
             removed |-> {}, failed |-> {}]
Freed == [path |-> None, age |-> 0, st |-> "init", maps |-> <<>>, tasks |-> {}]

MutexFree == reader.pc \notin {"lines", "failed", "mount"}
Exited == handler = "exited"
Used(e) == users[e] # None

\* master_find_mapent(): the entry of the list with that path.
master_find_mapent(es, ls, p) ==
    LET found == {e \in ToSet(ls) : es[e].path = p}
    IN IF found = {} THEN None ELSE CHOOSE e \in found : TRUE
NewEntry == CHOOSE e \in Entry : ent[e].path = None
Room == \E e \in Entry : ent[e].path = None
-----------------------------------------------------------------------------
\* What lookup_read_master() of each module returns, and how much of the map it
\* has parsed by then.
FileReadMaster == {<<"success", "all">>, <<"notfound", "none">>, <<"unknown", "none">>}
YpReadMaster == {<<"success", "all">>, <<"notfound", "some">>, <<"notfound", "none">>,
                 <<"unavail", "none">>}
NisplusReadMaster == {<<"success", "all">>, <<"notfound", "none">>, <<"unavail", "none">>}
LdapReadMaster == {<<"success", "all">>, <<"notfound", "none">>, <<"unavail", "none">>}
SssReadMaster == {<<"success", "all">>, <<"unavail", "some">>, <<"unavail", "none">>,
                  <<"notfound", "none">>}
read_master_map(service) ==
    CASE service = "files" -> FileReadMaster
      [] service = "nis" -> YpReadMaster
      [] service = "nisplus" -> NisplusReadMaster
      [] service = "ldap" -> LdapReadMaster
      [] service = "sss" -> SssReadMaster

Parsed(r, lines) ==
    CASE r[2] = "all" -> lines
      [] r[2] = "some" -> SubSeq(lines, 1, Len(lines) - 1)
      [] r[2] = "none" -> <<>>

\* lookup_nss_read_master(): the services up to the first that has the map; rs
\* is what each answers.  One that is not available makes the read a failure.
lookup_nss_read_master(rs, lines) ==
    LET n == Len(rs)
        hit == {i \in 1..n : rs[i][1] = "success"}
        last == IF hit = {} THEN n ELSE CHOOSE i \in hit : \A j \in hit : i <= j
    IN [lines |-> FlattenSeq([i \in 1..last |-> Parsed(rs[i], lines[i])]),
        fail |-> \E i \in 1..last : rs[i][1] = "unavail"]

\* The line of the null map entry for a path among the first n lines: the cache
\* of null entries keeps the last.
NullLine(n, p) ==
    LET found == {i \in 1..n : reader.lines[i] = [path |-> p, map |-> NullMap]}
    IN IF found = {} THEN 0 ELSE CHOOSE i \in found : \A j \in found : j <= i
-----------------------------------------------------------------------------
\* master_add_map_source(): a source that is there is made current again.
master_add_map_source(e, map, age, line) ==
    IF \E i \in DOMAIN e.maps : e.maps[i].src = map
    THEN [i \in DOMAIN e.maps |-> IF e.maps[i].src = map
                                  THEN [e.maps[i] EXCEPT !.age = age, !.line = line] ELSE e.maps[i]]
    ELSE Append(e.maps, [src |-> map, age |-> age, line |-> line, keys |-> FALSE])

AddMapent(p, map, line) ==
    LET e == NewEntry
        new == [Freed EXCEPT !.path = p, !.age = reader.age]
    IN /\ Room
       /\ list' = Append(list, e)
       /\ ent' = [ent EXCEPT ![e] =
                   [new EXCEPT !.maps = master_add_map_source(new, map, reader.age, line)]]

\* master_parse_entry(): a line of the map.
master_parse_entry(i) ==
    LET l == reader.lines[i]
        e == master_find_mapent(ent, list, l.path)
    IN IF l.map = NullMap \/ NullLine(i - 1, l.path) # 0 THEN UNCHANGED <<list, ent>>
       ELSE IF e = None THEN AddMapent(l.path, l.map, i)
       ELSE IF ent[e].age = reader.age /\ l.path \notin Direct THEN UNCHANGED <<list, ent>>
       ELSE /\ ~Used(e)
            /\ ent' = [ent EXCEPT ![e].age = reader.age,
                         ![e].maps = master_add_map_source(ent[e], l.map, reader.age, i)]
            /\ UNCHANGED list

\* master_update_amd_mount_section_mount(): the old source is freed without the
\* source lock.
master_update_amd(e, map) ==
    LET old == ent[e].maps[1]
        new == [src |-> map, age |-> reader.age, line |-> 0, keys |-> FALSE]
    IN ent' = [ent EXCEPT ![e].age = reader.age,
                 ![e].maps = IF old.src = map THEN <<[old EXCEPT !.line = 0]>> \o Tail(@)
                             ELSE <<new>>]

\* master_partial_match_amd_mapent(): is an entry there, and of format amd.  Paths
\* are taken to be equal or unrelated.
master_partial_match_amd_mapent(e) ==
    IF e = None THEN 0
    ELSE IF ent[e].maps # <<>> /\ ent[e].maps[1].src \in AmdSource THEN 1 ELSE -1

\* master_add_amd_mount_section_mounts()
master_add_amd ==
    LET e == master_find_mapent(ent, list, AmdPath)
        match == master_partial_match_amd_mapent(e)
    IN CASE reader.amd = None \/ match = -1 -> UNCHANGED <<list, ent>>
         [] reader.amd # None /\ match = 0 -> AddMapent(AmdPath, reader.amd, 0)
         [] reader.amd # None /\ match = 1 -> master_update_amd(e, reader.amd) /\ UNCHANGED list
-----------------------------------------------------------------------------
\* check_update_map_sources(): a source no longer in the master map goes when
\* its entries have.
KeptSources(e) ==
    LET kept[i \in 0..Len(e.maps)] ==
            IF i = 0 THEN <<>>
            ELSE IF e.maps[i].age < e.age /\ ~e.maps[i].keys THEN kept[i - 1]
            ELSE Append(kept[i - 1], e.maps[i])
    IN kept[Len(e.maps)]
check_update_map_sourcesUnlocked(e) ==   \* without the source lock
    LET old(s) == s.age < ent[e].age
        kept == KeptSources(ent[e])
    IN /\ ent' = [ent EXCEPT ![e].maps = kept,
            ![e].tasks = IF reader.readall \/ \E i \in DOMAIN kept : old(kept[i])
                         THEN @ \cup {"readmap"} ELSE @]
       /\ UNCHANGED list
check_update_map_sources(e) ==
    LET old(s) == s.age < ent[e].age
        kept == KeptSources(ent[e])
    IN /\ ~Used(e)
       /\ ent' = [ent EXCEPT ![e].maps = kept,
            ![e].tasks = IF reader.readall \/ \E i \in DOMAIN kept : old(kept[i])
                         THEN @ \cup {"readmap"} ELSE @]
       /\ UNCHANGED list

Drop(e) ==
    /\ list' = RemoveFirst(list, e)
    /\ ent' = [ent EXCEPT ![e] = Freed]

\* Whether the null entry of a path comes before the entry: by the line of the
\* entry's first source.
NulledFirst(e) ==
    LET n == NullLine(Len(reader.lines), ent[e].path)
    IN n # 0 /\ ent[e].maps[1].line >= n

GoneLate(e) == ent[e].age < reader.age - 1      \* off by one
Gone(e) == ent[e].age < reader.age

\* master_do_mount() and handle_mounts(): the thread of the mount point starts, or
\* fails to mount the autofs file system.  Entries the map read of the start
\* caches come with the lookups below.
master_do_mount(e, fails) ==
    IF fails THEN Drop(e) ELSE ent' = [ent EXCEPT ![e].st = "ready"] /\ UNCHANGED list

\* master_mount_mounts() for one entry.
Removed(e) == Gone(e) \/ (NulledFirst(e) /\ ent[e].st # "init")
master_mount_mount(e, fails) ==
    IF Removed(e)
    THEN ent' = [ent EXCEPT ![e].tasks = @ \cup {"shutdown"}] /\ UNCHANGED list
    ELSE IF NulledFirst(e) THEN Drop(e)
    ELSE IF ent[e].st # "init" THEN check_update_map_sources(e)
    ELSE master_do_mount(e, fails)
-----------------------------------------------------------------------------
\* master_read_master(): wait_for_lookups_and_lock(), and the services.
ReadMaster ==
    /\ reader.pc = "lock"
    /\ \A e \in ToSet(list) : ~Used(e)
    /\ \E c \in Configuration :
         \E rs \in [DOMAIN c.nss -> UNION {read_master_map(s) : s \in ToSet(c.nss)}] :
           /\ \A i \in DOMAIN c.nss : rs[i] \in read_master_map(c.nss[i])
           /\ LET r == lookup_nss_read_master(rs, c.lines)
              IN reader' = [reader EXCEPT !.pc = "lines", !.i = 1, !.lines = r.lines,
                                          !.amd = c.amd, !.fail = r.fail]
    /\ UNCHANGED <<list, completed, ent, users, sigVars, reading, clock, asked>>

ParseLine ==
    /\ reader.pc = "lines" /\ reader.i <= Len(reader.lines)
    /\ master_parse_entry(reader.i)
    /\ reader' = [reader EXCEPT !.i = @ + 1]
    /\ UNCHANGED <<completed, users, sigVars, reading, clock, asked>>

ParseAmd ==
    /\ reader.pc = "lines" /\ reader.i > Len(reader.lines)
    /\ master_add_amd
    /\ reader' = [reader EXCEPT !.pc = IF reader.fail /\ ~reader.readall THEN "failed" ELSE "mount",
                                !.todo = list']
    /\ UNCHANGED <<completed, users, sigVars, reading, clock, asked>>

\* do_master_read_master(): at the start a failed read is tried again from an
\* empty list, until the wait is over, and then what there is is mounted.
ReadFailed ==
    /\ reader.pc = "failed"
    /\ \/ /\ list' = <<>>
          /\ ent' = [e \in Entry |-> IF e \in ToSet(list) THEN Freed ELSE ent[e]]
          /\ reader' = [NoReader EXCEPT !.pc = "lock", !.age = clock, !.again = TRUE]
       \/ /\ reader.again
          /\ reader' = [reader EXCEPT !.pc = "mount", !.readall = TRUE]
          /\ UNCHANGED <<list, ent>>
    /\ UNCHANGED <<completed, users, sigVars, reading, clock, asked>>

master_mount_mounts ==
    /\ reader.pc = "mount" /\ reader.todo # <<>>
    /\ \E fails \in BOOLEAN :
         /\ master_mount_mount(Head(reader.todo), fails)
         /\ reader' = [reader EXCEPT !.todo = Tail(@),
                !.removed = @ \cup {e \in {Head(reader.todo)} : Removed(e)},
                !.failed = @ \cup {ent[e].path : e \in {Head(reader.todo)} \ ToSet(list')}]
    /\ UNCHANGED <<completed, users, sigVars, reading, clock, asked>>

ReadEnd ==
    /\ reader.pc = "mount" /\ reader.todo = <<>>
    /\ reader' = NoReader
    /\ reading' = FALSE
    /\ handler' = IF handler = "start" THEN "wait" ELSE handler
    /\ UNCHANGED <<list, completed, ent, users, pend, tpend, notify, sent, clock, asked>>

Reader == ReadMaster \/ ParseLine \/ ParseAmd \/ ReadFailed
          \/ master_mount_mounts \/ ReadEnd
-----------------------------------------------------------------------------
\* A request walks the sources under the source read lock, and uses one.
LookupStart(e) ==
    /\ e \in ToSet(list) /\ ent[e].st = "ready"
    /\ Cardinality({f \in Entry : Used(f)}) < MaxUsers
    /\ \E i \in DOMAIN ent[e].maps : users' = [users EXCEPT ![e] = ent[e].maps[i].src]
    /\ UNCHANGED <<reader, list, completed, ent, sigVars, reading, clock, asked>>

LookupEnd(e) ==
    /\ users[e] # None
    /\ \E cached \in BOOLEAN :
         LET used(s) == IF s.src = users[e] THEN [s EXCEPT !.keys = @ \/ cached] ELSE s
         IN ent' = [ent EXCEPT ![e].maps = [i \in DOMAIN @ |-> used(@[i])]]
    /\ users' = [users EXCEPT ![e] = None]
    /\ UNCHANGED <<reader, list, completed, sigVars, reading, clock, asked>>

\* do_readmap(): sources that are no longer valid are not read but pruned.  The
\* task stands for the stale flag of the sources.
ReadMap(e) ==
    /\ "readmap" \in ent[e].tasks /\ ent[e].st = "ready"
    /\ \E ok, keys \in BOOLEAN :
         LET read(s) == [s EXCEPT !.keys = keys /\ s.age = ent[e].age]
         IN ent' = [ent EXCEPT ![e].tasks = @ \ {"readmap"},
                      ![e].maps = IF ok THEN [i \in DOMAIN @ |-> read(@[i])] ELSE @]
    /\ UNCHANGED <<reader, list, completed, users, sigVars, reading, clock, asked>>

\* The shutdown task: every mount expires, or the mount point is busy.
Shutdown(e) ==
    /\ "shutdown" \in ent[e].tasks /\ ent[e].st = "ready"
    /\ \E busy \in BOOLEAN :
         ent' = [ent EXCEPT ![e].tasks = @ \ {"shutdown"},
                            ![e].st = IF busy THEN "ready" ELSE "shutdown"]
    /\ UNCHANGED <<reader, list, completed, users, sigVars, reading, clock, asked>>

\* handle_mounts_cleanup(): the entry is handed to the signal handler to join.
handle_mounts_cleanupLate(e) ==      \* looks at the list after adding to it
    /\ list' = RemoveFirst(list, e)
    /\ completed' = completed \cup {e}
    /\ tpend' = (tpend \/ completed' = {})
    /\ ent' = [ent EXCEPT ![e].st = "gone", ![e].tasks = {}]
handle_mounts_cleanup(e) ==
    /\ tpend' = (tpend \/ completed = {})
    /\ list' = RemoveFirst(list, e)
    /\ completed' = completed \cup {e}
    /\ ent' = [ent EXCEPT ![e].st = "gone", ![e].tasks = {}]

handle_mounts_exit(e) ==
    /\ ent[e].st = "shutdown" /\ MutexFree /\ ~Used(e)
    /\ \/ handle_mounts_cleanup(e)
       \/ /\ ent[e].path \notin Direct      \* still busy
          /\ ent' = [ent EXCEPT ![e].st = "ready", ![e].tasks = {}]
          /\ UNCHANGED <<list, completed, tpend>>
    /\ UNCHANGED <<reader, users, pend, handler, notify, sent, reading, clock, asked>>
-----------------------------------------------------------------------------
\* Signals are blocked until the map has been read: one that comes before is
\* there when signal_handler() starts.
SendTerm ==
    /\ ~asked /\ sent < MaxSignal /\ handler # "start"
    /\ pend' = pend \cup {"TERM"} /\ asked' = TRUE /\ sent' = sent + 1
    /\ UNCHANGED <<reader, list, completed, ent, users, tpend, handler, notify, reading, clock>>

SendHup ==
    /\ "HUP" \notin pend /\ sent < MaxSignal /\ handler # "start"
    /\ pend' = pend \cup {"HUP"} /\ sent' = sent + 1
    /\ UNCHANGED <<reader, list, completed, ent, users, tpend, handler, notify, reading, clock, asked>>

-----------------------------------------------------------------------------
\* signal_handler(): sigwait() takes a pending signal.
Sigwait(sig, pc) ==
    /\ handler = "wait"
    /\ handler' = pc
    /\ \/ sig \in pend /\ pend' = pend \ {sig} /\ UNCHANGED tpend
       \/ sig = "TERM" /\ tpend /\ tpend' = FALSE /\ UNCHANGED pend
    /\ UNCHANGED <<reader, list, completed, ent, users, notify, sent, reading, clock, asked>>
TakeTerm == Sigwait("TERM", "term")
TakeHup == Sigwait("HUP", "hup")

\* master_done(): joins the threads that have ended and frees their entries.
master_done ==
    /\ ent' = [e \in Entry |-> IF e \in completed THEN Freed ELSE ent[e]]
    /\ completed' = {}

\* do_signals(): starts the thread that notifies the mount points.
do_signals == notify' = TRUE

HandleTermAlways ==         \* does not look for completed threads
    /\ handler = "term" /\ MutexFree
    /\ handler' = (IF list = <<>> THEN "exited" ELSE "wait")
    /\ IF list = <<>> THEN UNCHANGED notify ELSE do_signals
    /\ IF completed = {} THEN UNCHANGED <<ent, completed>> ELSE master_done
    /\ UNCHANGED <<reader, list, users, pend, tpend, sent, reading, clock, asked>>
HandleTerm ==
    /\ handler = "term" /\ MutexFree
    /\ handler' = (IF list = <<>> THEN "exited" ELSE "wait")
    /\ IF completed = {}
       THEN /\ IF list = <<>> THEN UNCHANGED notify ELSE do_signals
            /\ UNCHANGED <<ent, completed>>
       ELSE master_done /\ UNCHANGED notify
    /\ UNCHANGED <<reader, list, users, pend, tpend, sent, reading, clock, asked>>

\* do_hup_signal(): starts the thread that reads the map, unless one is.
HandleHup ==
    /\ handler = "hup" /\ MutexFree
    /\ handler' = "wait"
    /\ reading' = TRUE
    /\ IF reading THEN UNCHANGED <<reader, clock>>
       ELSE \E now \in {clock, clock + 1} \cap 1..MaxAge :
              /\ clock' = now
              /\ reader' = [NoReader EXCEPT !.pc = "lock", !.age = now, !.readall = TRUE,
                               !.fresh = now > clock]
    /\ UNCHANGED <<list, completed, ent, users, pend, tpend, notify, sent, asked>>

\* master_notify_state_change(), in the thread of do_notify_state().
NotifyStateChange ==
    /\ notify /\ MutexFree
    /\ notify' = FALSE
    /\ ent' = [e \in Entry |-> IF e \in ToSet(list) /\ ent[e].st = "ready"
                               THEN [ent[e] EXCEPT !.tasks = @ \cup {"shutdown"}] ELSE ent[e]]
    /\ UNCHANGED <<reader, list, completed, users, pend, tpend, handler, sent, reading, clock, asked>>
-----------------------------------------------------------------------------
Init ==
    /\ clock = 1
    /\ reader = [NoReader EXCEPT !.pc = "lock", !.age = clock]
    /\ list = <<>> /\ completed = {}
    /\ ent = [e \in Entry |-> Freed]
    /\ users = [e \in Entry |-> None]
    /\ pend = {} /\ tpend = FALSE /\ handler = "start" /\ notify = FALSE /\ sent = 0
    /\ reading = FALSE /\ asked = FALSE

Handler == TakeTerm \/ TakeHup \/ HandleTerm \/ HandleHup

\* main() ends with signal_handler(): nothing is left to run.
Next ==
    /\ ~Exited
    /\ \/ Reader \/ Handler \/ NotifyStateChange \/ SendTerm \/ SendHup
       \/ \E e \in Entry : LookupStart(e) \/ LookupEnd(e) \/ ReadMap(e) \/ Shutdown(e)
                           \/ handle_mounts_exit(e)

\* Threads that are not blocked run on and the lookup of a key ends; between two
\* lookups the reader gets the source lock it waits for, sooner or later.
Spec == /\ Init /\ [][Next]_vars
        /\ SF_vars(~Exited /\ Reader) /\ WF_vars(~Exited /\ Handler)
        /\ \A e \in Entry : WF_vars(~Exited /\ LookupEnd(e))
-----------------------------------------------------------------------------
SourceRecord == [src : Source, age : Nat, line : Nat, keys : BOOLEAN]
EntryRecord == [path : Path \cup {None}, age : Nat, st : {"init", "ready", "shutdown", "gone"},
                maps : Seq(SourceRecord), tasks : SUBSET {"readmap", "shutdown"}]
ReaderRecord == [pc : {"idle", "lock", "lines", "failed", "mount"}, age : Nat,
                 readall : BOOLEAN, fail : BOOLEAN, fresh : BOOLEAN, again : BOOLEAN,
                 lines : Seq(Line), amd : Source \cup {None}, i : Nat, todo : Seq(Entry),
                 removed : SUBSET Entry, failed : SUBSET (Path \cup {None})]

TypeOK ==
    /\ reader \in ReaderRecord /\ ent \in [Entry -> EntryRecord]
    /\ list \in Seq(Entry) /\ completed \subseteq Entry
    /\ users \in [Entry -> Source \cup {None}]
    /\ pend \subseteq {"TERM", "HUP"}
    /\ handler \in {"start", "wait", "term", "hup", "exited"}
    /\ tpend \in BOOLEAN /\ notify \in BOOLEAN /\ reading \in BOOLEAN /\ asked \in BOOLEAN
    /\ clock \in Nat \ {0}

\* A thread that has completed is never forgotten: as long as an entry waits to
\* be joined a SIGTERM is pending or being handled, whichever of the threads
\* decided to send none because the list was not empty (automount.c, pending).
Signalled == completed # {} => tpend \/ "TERM" \in pend \/ handler \in {"term", "exited"}

\* The signal that joins a thread is not taken for an order to shut down: the
\* mount points are told to only if the daemon has been sent SIGTERM itself
\* (signal_handler, the completed list decides what a SIGTERM is for).
NotTakenForTerm == notify => asked

\* The paths of the map that was read, and the maps each is to have: an entry
\* before which no null entry comes, the first of them for an indirect mount.
Effective(p) == {i \in DOMAIN reader.lines :
                    /\ reader.lines[i].path = p /\ reader.lines[i].map # NullMap
                    /\ NullLine(i - 1, p) = 0}
Wanted == {p \in Path : Effective(p) # {}}
          \cup (IF reader.amd = None THEN {} ELSE {AmdPath})
WantedMaps(p) ==
    {reader.lines[i].map : i \in {j \in Effective(p) : p \in Direct \/ \A k \in Effective(p) : j <= k}}

\* A first source left from an older map, whose line is compared with the line
\* of a null entry, and the mount section of amd, are left out below.
OldFirst(e) == ent[e].maps = <<>> \/ ent[e].maps[1].age < ent[e].age
Exempt(e) == OldFirst(e) \/ ent[e].path = AmdPath
AtEnd == reader.pc = "mount" /\ reader.todo = <<>> /\ reader.fresh

\* When a read of the master map is through, whatever was mounted before, every
\* path in it has an entry that was started, or could not be; of the others
\* exactly those no longer in the map, or nulled, have been told to shut down
\* (master_mount_mounts); and the sources that count for lookups, those of the
\* age of the entry, are the maps the lines name (master_add_map_source).
MatchesMap == AtEnd =>
    /\ \A p \in Wanted \ (reader.failed \cup {AmdPath}) :
         \E e \in ToSet(list) : ent[e].path = p /\ ent[e].st # "init"
    /\ \A e \in ToSet(list) : Exempt(e) \/ ((e \in reader.removed) = (ent[e].path \notin Wanted))
    /\ \A e \in ToSet(list) : ent[e].path \in Wanted \ {AmdPath} =>
         {ent[e].maps[i].src : i \in {j \in DOMAIN ent[e].maps : ent[e].maps[j].age = ent[e].age}}
             = WantedMaps(ent[e].path)

\* A source is not freed under a request that uses it (source_lock); that of an
\* amd mount section is replaced without the lock.
InUse == \A e \in Entry : users[e] # None =>
    \/ \E i \in DOMAIN ent[e].maps : ent[e].maps[i].src = users[e]
    \/ ent[e].path = AmdPath

\* "amd top level mounts have only one map" (master.c).
AmdOneMap == \A e \in ToSet(list) :
    ent[e].path = AmdPath /\ (\A i \in DOMAIN reader.lines : reader.lines[i].path # AmdPath)
        => Len(ent[e].maps) = 1

\* Every thread that completes is joined and its entry freed (master_done).
Joined == completed # {} ~> (completed = {} \/ Exited)
-----------------------------------------------------------------------------
(***************************************************************************)
(* The inductive invariants behind the safety properties.                  *)
(***************************************************************************)
\* What a SIGTERM is for: one that was sent by a mount point's thread finds the
\* thread in the completed list, and there is one such signal at a time.
SignalInv ==
    /\ Signalled /\ NotTakenForTerm
    /\ "TERM" \in pend => asked
    /\ tpend => completed # {} \/ asked
    /\ handler = "term" /\ ~asked => completed # {} /\ ~tpend

\* An entry is in at most one of the two lists, once, with a path of its own; a
\* free one is in none (master_add_mapent, handle_mounts_cleanup, master_done).
EntryLists ==
    /\ IsInjective(list) /\ ToSet(list) \cap completed = {}
    /\ \A e, f \in ToSet(list) : ent[e].path = ent[f].path => e = f
    /\ \A e \in Entry : (ent[e].path = None) = (e \notin ToSet(list) \cup completed)
    /\ \A e \in Entry : ent[e].path = None => ent[e].st = "init"
    /\ \A e \in Entry : (ent[e].st = "gone") = (e \in completed)

\* One thread reads at a time (master->reading); until it has mounted anything
\* at the start, no mount point runs, so the list can be thrown away.
OneReader ==
    /\ reading = (reader.pc # "idle" /\ handler # "start")
    /\ reader.pc # "idle" => reader.age = clock
    /\ reader.pc = "lines" => reader.i \in 1..(Len(reader.lines) + 1)
    /\ reader.pc = "failed" => ~reader.readall
    /\ ~reader.readall /\ reader.pc \in {"lock", "lines", "failed"} =>
         \A e \in Entry : ent[e].st = "init"

\* Requests are served by mount points that run.
UsersRun == \A e \in Entry : Used(e) => ent[e].st \in {"ready", "shutdown"}

EntryInv == TypeOK /\ EntryLists /\ OneReader /\ UsersRun /\ InUse

\* No entry or source is newer than the read that made it current, and a read
\* that started in a new second finds only older ones.
Ages ==
    /\ \A e \in Entry : /\ ent[e].age <= clock
                        /\ \A i \in DOMAIN ent[e].maps : ent[e].maps[i].age <= ent[e].age
    /\ reader.pc = "lock" /\ reader.fresh => \A e \in ToSet(list) : ent[e].age < reader.age

\* How many lines have been parsed, those of the first n that count for a path
\* and the maps they give it; the sources of an entry that are current.
Upto == IF reader.pc = "lines" THEN reader.i - 1 ELSE Len(reader.lines)
LinesFor(ls, n, p) ==
    {i \in 1..n : /\ ls[i].path = p /\ ls[i].map # NullMap
                  /\ ~\E j \in 1..(i - 1) : ls[j] = [path |-> p, map |-> NullMap]}
MapsFor(ls, n, p) ==
    {ls[i].map : i \in {j \in LinesFor(ls, n, p) :
                          p \in Direct \/ \A k \in LinesFor(ls, n, p) : j <= k}}
Current(r) == {i \in DOMAIN r.maps : r.maps[i].age = r.age}
CurrentMaps(r) == {r.maps[i].src : i \in Current(r)}

\* As far as it has been parsed the map has been made the current one: each path
\* with a line that counts has an entry of this age, or could not be mounted,
\* the entries of this age have the sources the lines name, and a source of
\* this age has the number of a line that counts (master_parse_entry).
AsTheLinesSay(r, ls, n) ==
    /\ LinesFor(ls, n, r.path) # {}
    /\ CurrentMaps(r) = MapsFor(ls, n, r.path)
    /\ \A i \in Current(r) : r.maps[i].line \in LinesFor(ls, n, r.path)
ParsedSoFar ==
    reader.fresh /\ reader.pc \in {"lines", "failed", "mount"} =>
        /\ \A p \in Path \ ({AmdPath} \cup reader.failed) : LinesFor(reader.lines, Upto, p) # {} =>
             \E e \in ToSet(list) : ent[e].path = p /\ ent[e].age = reader.age
        /\ \A e \in ToSet(list) : ent[e].path # AmdPath /\ ent[e].age = reader.age =>
             AsTheLinesSay(ent[e], reader.lines, Upto)

FirstOld(r) == r.maps = <<>> \/ r.maps[1].age < r.age

\* The walk of master_mount_mounts(): what it has been to runs or was told to
\* shut down, the latter because it is old or its first source is.
MountedSoFar ==
    /\ reader.pc # "mount" => reader.removed = {} /\ reader.failed = {}
    /\ reader.pc = "failed" => IsInjective(reader.todo) /\ ToSet(reader.todo) = ToSet(list)
    /\ reader.pc = "mount" =>
         /\ IsInjective(reader.todo) /\ ToSet(reader.todo) \subseteq ToSet(list)
         /\ \A e \in ToSet(list) : ent[e].path \notin reader.failed
         /\ \A e \in ToSet(list) \ ToSet(reader.todo) :
              IF ent[e].age < reader.age THEN e \in reader.removed ELSE ent[e].st # "init"
         /\ \A e \in ToSet(list) \cap reader.removed :
              /\ e \notin ToSet(reader.todo)
              /\ reader.fresh => ent[e].age < reader.age \/ FirstOld(ent[e]) \/ ent[e].path = AmdPath

ReadInv == EntryInv /\ Ages /\ ParsedSoFar /\ MountedSoFar
=============================================================================
