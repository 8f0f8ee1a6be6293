---------------------------- MODULE MasterProofs ----------------------------
(***************************************************************************)
(* Proofs about the master map, for any maps, any number of mount points,  *)
(* signals and requests: a thread that has ended is not forgotten, and the *)
(* signal for it is not taken for an order to shut down; a source is not   *)
(* freed under a request; and a read of the map ends with the mount points *)
(* and the sources that the map names.                                     *)
(***************************************************************************)
EXTENDS Master, SequenceFacts

-----------------------------------------------------------------------------
(* What the operators on sources and lines return. *)

\* The sources m after a map was added to those of e or made current: the ones of
\* another map are as they were, and the map is there.
AddsSource(m, e, map, age, line) ==
    /\ \A i \in DOMAIN m :
         \/ m[i].src = map /\ m[i].age = age /\ m[i].line = line
         \/ i \in DOMAIN e.maps /\ m[i] = e.maps[i] /\ m[i].src # map
    /\ \E i \in DOMAIN m : m[i].src = map
    /\ \A i \in DOMAIN e.maps : i \in DOMAIN m /\ m[i].src = e.maps[i].src

LEMMA AddSourceFacts ==
    ASSUME NEW e \in EntryRecord, NEW map \in Source, NEW age \in Nat, NEW line \in Nat
    PROVE  /\ master_add_map_source(e, map, age, line) \in Seq(SourceRecord)
           /\ AddsSource(master_add_map_source(e, map, age, line), e, map, age, line)
<1> DEFINE m == master_add_map_source(e, map, age, line)
<1>1. e.maps \in Seq(SourceRecord) /\ DOMAIN e.maps = 1..Len(e.maps) /\ Len(e.maps) \in Nat
  BY DEF EntryRecord
<1>2. \A i \in DOMAIN e.maps : e.maps[i] \in SourceRecord
  BY <1>1
<1>3. CASE \E i \in DOMAIN e.maps : e.maps[i].src = map
  <2>1. m = [i \in DOMAIN e.maps |-> IF e.maps[i].src = map
                 THEN [e.maps[i] EXCEPT !.age = age, !.line = line] ELSE e.maps[i]]
    BY <1>3 DEF master_add_map_source
  <2> HIDE DEF m
  <2>2. \A i \in DOMAIN e.maps : m[i] \in SourceRecord
    BY <1>2, <2>1 DEF SourceRecord
  <2>3. m \in Seq(SourceRecord)
    <3>1. m \in [1..Len(e.maps) -> SourceRecord]
      BY <1>1, <2>1, <2>2
    <3> QED
      BY <1>1, <3>1
  <2>4. \A i \in DOMAIN e.maps : e.maps[i].src = map =>
          m[i].src = map /\ m[i].age = age /\ m[i].line = line
    BY <1>2, <2>1 DEF SourceRecord
  <2> QED
    BY <1>3, <2>1, <2>3, <2>4 DEF m, AddsSource
<1>4. CASE ~\E i \in DOMAIN e.maps : e.maps[i].src = map
  <2> DEFINE r == [src |-> map, age |-> age, line |-> line, keys |-> FALSE]
  <2>1. m = Append(e.maps, r)
    BY <1>4 DEF master_add_map_source
  <2> HIDE DEF m
  <2>2. r \in SourceRecord /\ r.src = map /\ r.age = age /\ r.line = line
    BY DEF SourceRecord
  <2> HIDE DEF r
  <2>3. /\ m \in Seq(SourceRecord) /\ DOMAIN m = 1..(Len(e.maps) + 1)
        /\ \A i \in 1..Len(e.maps) : m[i] = e.maps[i]
        /\ m[Len(e.maps) + 1] = r
    BY <1>1, <2>1, <2>2
  <2>4. \A i \in DOMAIN m : i \in DOMAIN e.maps \/ i = Len(e.maps) + 1
    BY <1>1, <2>3
  <2> QED
    BY <1>1, <1>4, <2>2, <2>3, <2>4 DEF m, AddsSource
<1> QED
  BY <1>3, <1>4

KeptBelow(e, n) ==
    \E f \in [0..n -> Seq(SourceRecord)] :
        f = [i \in 0..n |-> IF i = 0 THEN <<>>
                            ELSE IF e.maps[i].age < e.age /\ ~e.maps[i].keys THEN f[i - 1]
                            ELSE Append(f[i - 1], e.maps[i])]

LEMMA KeptDefined ==
    ASSUME NEW e \in EntryRecord, NEW k \in 0..Len(e.maps)
    PROVE  KeptBelow(e, k)
<1> DEFINE Bad == {n \in 0..Len(e.maps) : ~KeptBelow(e, n)}
           Old(i) == e.maps[i].age < e.age /\ ~e.maps[i].keys
<1>0. e.maps \in Seq(SourceRecord) /\ Len(e.maps) \in Nat
  BY DEF EntryRecord
<1>1. SUFFICES ASSUME Bad # {} PROVE FALSE
  OBVIOUS
<1>2. PICK n \in Bad : \A m \in Bad : n <= m
  <2>1. Bad \in SUBSET Nat
    BY <1>0
  <2> QED
    BY <1>1, <2>1, Least, Zenon
<1>3. n # 0
  <2> DEFINE f == [i \in 0..0 |-> <<>>]
  <2>1. f \in [0..0 -> Seq(SourceRecord)]
    OBVIOUS
  <2>2. f = [i \in 0..0 |-> IF i = 0 THEN <<>>
                            ELSE IF Old(i) THEN f[i - 1] ELSE Append(f[i - 1], e.maps[i])]
    OBVIOUS
  <2>3. KeptBelow(e, 0)
    BY <2>1, <2>2 DEF KeptBelow
  <2> QED
    BY <2>3
<1>4. n \in 1..Len(e.maps) /\ n - 1 \in 0..Len(e.maps) /\ ~KeptBelow(e, n)
  BY <1>0, <1>3
<1>5. KeptBelow(e, n - 1)
  <2>1. n - 1 \notin Bad
    BY <1>0, <1>2, <1>4
  <2> QED
    BY <1>4, <2>1
<1>6. PICK g \in [0..(n - 1) -> Seq(SourceRecord)] :
        g = [i \in 0..(n - 1) |-> IF i = 0 THEN <<>>
               ELSE IF Old(i) THEN g[i - 1] ELSE Append(g[i - 1], e.maps[i])]
  BY <1>5 DEF KeptBelow
<1> DEFINE f == [i \in 0..n |-> IF i < n THEN g[i]
                                ELSE IF Old(i) THEN g[i - 1] ELSE Append(g[i - 1], e.maps[i])]
<1> HIDE DEF Old
<1>7. f \in [0..n -> Seq(SourceRecord)]
  <2> SUFFICES ASSUME NEW i \in 0..n PROVE f[i] \in Seq(SourceRecord)
    OBVIOUS
  <2>1. CASE i < n
    BY <2>1, <1>4, <1>6
  <2>2. CASE i = n
    <3>1. g[i - 1] \in Seq(SourceRecord) /\ e.maps[i] \in SourceRecord
      BY <2>2, <1>0, <1>4, <1>6
    <3>2. Append(g[i - 1], e.maps[i]) \in Seq(SourceRecord)
      BY <3>1
    <3> QED
      BY <2>2, <3>1, <3>2, <1>4
  <2> QED
    BY <2>1, <2>2, <1>4
<1>8. \A i \in 0..n : f[i] = IF i = 0 THEN <<>>
                             ELSE IF Old(i) THEN f[i - 1] ELSE Append(f[i - 1], e.maps[i])
  <2> TAKE i \in 0..n
  <2>1. i # 0 => f[i - 1] = g[i - 1]
    BY <1>4
  <2>2. CASE i < n
    <3>1. i \in 0..(n - 1) /\ f[i] = g[i]
      BY <2>2, <1>4
    <3>2. g[i] = IF i = 0 THEN <<>>
                 ELSE IF Old(i) THEN g[i - 1] ELSE Append(g[i - 1], e.maps[i])
      BY <1>6, <3>1
    <3> QED
      BY <2>1, <3>1, <3>2
  <2>3. CASE i = n
    BY <2>1, <2>3, <1>4
  <2> QED
    BY <2>2, <2>3, <1>4
<1>9. f = [i \in 0..n |-> IF i = 0 THEN <<>>
                          ELSE IF Old(i) THEN f[i - 1] ELSE Append(f[i - 1], e.maps[i])]
  BY <1>7, <1>8
<1> QED
  BY <1>4, <1>7, <1>9 DEF KeptBelow, Old

\* The sources that stay are the current ones and those that have entries.
LEMMA KeptFacts ==
    ASSUME NEW e \in EntryRecord
    PROVE  /\ KeptSources(e) \in Seq(SourceRecord)
           /\ ToSet(KeptSources(e)) = {m \in ToSet(e.maps) : m.age >= e.age \/ m.keys}
<1> DEFINE n == Len(e.maps)
           Old(i) == e.maps[i].age < e.age /\ ~e.maps[i].keys
           Def(f) == f = [i \in 0..n |-> IF i = 0 THEN <<>>
                            ELSE IF Old(i) THEN f[i - 1] ELSE Append(f[i - 1], e.maps[i])]
           F == CHOOSE f : Def(f)
           S(i) == {e.maps[j] : j \in {k \in 1..i : ~Old(k)}}
<1>0. e.maps \in Seq(SourceRecord) /\ n \in Nat /\ e.age \in Nat
  BY DEF EntryRecord
<1>1. PICK g \in [0..n -> Seq(SourceRecord)] : Def(g)
  <2>1. n \in 0..n
    BY <1>0
  <2>2. KeptBelow(e, n)
    BY <2>1, KeptDefined
  <2> QED
    BY <2>2 DEF KeptBelow
<1>2. Def(F)
  BY <1>1
<1>3. KeptSources(e) = F[n]
  BY DEF KeptSources
<1> HIDE DEF F
<1>4. \A i \in 0..n : F[i] = IF i = 0 THEN <<>>
                             ELSE IF Old(i) THEN F[i - 1] ELSE Append(F[i - 1], e.maps[i])
  BY <1>2
<1> HIDE DEF Def, n
<1>5. \A i \in 0..n : F[i] \in Seq(SourceRecord) /\ ToSet(F[i]) = S(i)
  <2> DEFINE Good(i) == F[i] \in Seq(SourceRecord) /\ ToSet(F[i]) = S(i)
             Bad == {i \in 0..n : ~Good(i)}
  <2>1. SUFFICES ASSUME Bad # {} PROVE FALSE
    OBVIOUS
  <2> HIDE DEF Good
  <2>2. PICK i \in Bad : \A m \in Bad : i <= m
    <3>1. Bad \in SUBSET Nat
      BY <1>0
    <3> QED
      BY <2>1, <3>1, Least, Zenon
  <2>3. CASE i = 0
    <3>1. F[0] = <<>> /\ S(0) = {}
      BY <1>0, <1>4
    <3>2. Good(0)
      BY <3>1 DEF Good, ToSet
    <3> QED
      BY <2>3, <3>2
  <2>4. CASE i # 0
    <3>1. i \in 1..n /\ i - 1 \in 0..n /\ i - 1 \notin Bad
      BY <1>0, <2>2, <2>4
    <3>2. F[i - 1] \in Seq(SourceRecord) /\ ToSet(F[i - 1]) = S(i - 1)
      BY <3>1 DEF Good
    <3>3. e.maps[i] \in SourceRecord
      BY <1>0, <3>1 DEF n
    <3>4. F[i] = IF Old(i) THEN F[i - 1] ELSE Append(F[i - 1], e.maps[i])
      BY <1>4, <3>1
    <3>5. S(i) = S(i - 1) \cup {x \in {e.maps[i]} : ~Old(i)}
      <4> HIDE DEF Old
      <4>1. \A k \in 1..i : k \in 1..(i - 1) \/ k = i
        BY <3>1, <1>0
      <4>2. \A k \in 1..(i - 1) : k \in 1..i
        BY <3>1, <1>0
      <4>3. i \in 1..i
        BY <3>1, <1>0
      <4> QED
        BY <4>1, <4>2, <4>3
    <3>6. CASE Old(i)
      <4>1. S(i) = S(i - 1)
        <5> HIDE DEF S, Old
        <5> QED
          BY <3>5, <3>6
      <4>2. F[i] = F[i - 1]
        BY <3>4, <3>6
      <4> QED
        BY <4>1, <4>2, <3>2 DEF Good
    <3>7. CASE ~Old(i)
      <4>1. S(i) = S(i - 1) \cup {e.maps[i]}
        <5> HIDE DEF S, Old
        <5> QED
          BY <3>5, <3>7
      <4>2. F[i] = Append(F[i - 1], e.maps[i])
        BY <3>4, <3>7
      <4>3. F[i] \in Seq(SourceRecord) /\ ToSet(F[i]) = ToSet(F[i - 1]) \cup {e.maps[i]}
        BY <4>2, <3>2, <3>3, AppendFacts
      <4> QED
        BY <4>1, <4>3, <3>2 DEF Good
    <3> QED
      BY <3>6, <3>7
  <2> QED
    BY <2>3, <2>4
<1>6. S(n) = {m \in ToSet(e.maps) : m.age >= e.age \/ m.keys}
  <2>1. \A i \in 1..n : e.maps[i] \in SourceRecord
    BY <1>0 DEF n
  <2>2. \A i \in 1..n : ~Old(i) <=> (e.maps[i].age >= e.age \/ e.maps[i].keys)
    <3> TAKE i \in 1..n
    <3>1. e.maps[i].age \in Nat /\ e.maps[i].keys \in BOOLEAN
      BY <2>1 DEF SourceRecord
    <3>2. ~(e.maps[i].age < e.age) <=> e.maps[i].age >= e.age
      BY <1>0, <3>1
    <3> QED
      BY <3>2
  <2>3. ToSet(e.maps) = {e.maps[i] : i \in 1..n}
    BY <1>0 DEF ToSet, n
  <2> HIDE DEF Old
  <2> QED
    BY <2>2, <2>3
<1>7. n \in 0..n
  BY <1>0
<1>8. F[n] \in Seq(SourceRecord) /\ ToSet(F[n]) = S(n)
  <2> HIDE DEF S
  <2> QED
    BY <1>5, <1>7
<1> HIDE DEF S
<1> QED
  BY <1>3, <1>6, <1>8
\* NullLine() finds a null entry for the path among the first n lines.
LEMMA NullLineFacts ==
    ASSUME NEW n \in Nat, NEW p
    PROVE  /\ NullLine(n, p) = 0 <=> ~\E i \in 1..n : reader.lines[i] = [path |-> p, map |-> NullMap]
           /\ NullLine(n, p) # 0 => /\ NullLine(n, p) \in 1..n
                                    /\ reader.lines[NullLine(n, p)] = [path |-> p, map |-> NullMap]
<1> DEFINE found == {i \in 1..n : reader.lines[i] = [path |-> p, map |-> NullMap]}
<1>1. CASE found = {}
  BY <1>1 DEF NullLine
<1>2. CASE found # {}
  <2>1. PICK i \in found : \A j \in found : j <= i
    <3>1. found \in SUBSET (1..n)
      OBVIOUS
    <3> HIDE DEF found
    <3> QED
      BY <1>2, <3>1, Greatest
  <2>2. NullLine(n, p) \in found
    BY <2>1 DEF NullLine
  <2> QED
    BY <2>2
<1> QED
  BY <1>1, <1>2

\* What a read of the map returns is lines.
LEMMA ReadLinesType ==
    ASSUME NEW c \in Configuration,
           NEW rs \in [DOMAIN c.nss -> UNION {read_master_map(s) : s \in ToSet(c.nss)}],
           \A i \in DOMAIN c.nss : rs[i] \in read_master_map(c.nss[i])
    PROVE  /\ lookup_nss_read_master(rs, c.lines).lines \in Seq(Line)
           /\ lookup_nss_read_master(rs, c.lines).fail \in BOOLEAN
<1> DEFINE n == Len(rs)
           hit == {i \in 1..n : rs[i][1] = "success"}
           last == IF hit = {} THEN n ELSE CHOOSE i \in hit : \A j \in hit : i <= j
           ps == [i \in 1..last |-> Parsed(rs[i], c.lines[i])]
<1>1. /\ c.nss \in Seq(Service) /\ DOMAIN c.nss = 1..Len(c.nss) /\ Len(c.nss) \in Nat
      /\ c.lines \in [DOMAIN c.nss -> Seq(Line)]
  BY MasterAssumption
<1>2. n = Len(c.nss)
  <2>1. rs \in [1..Len(c.nss) -> UNION {read_master_map(s) : s \in ToSet(c.nss)}]
    BY <1>1
  <2> QED
    BY <1>1, <2>1
<1>3. last \in 0..n
  <2>1. CASE hit = {}
    BY <1>1, <1>2, <2>1
  <2>2. CASE hit # {}
    <3>1. hit \in SUBSET Nat
      BY <1>1, <1>2
    <3> HIDE DEF hit
    <3>2. PICK i \in hit : \A j \in hit : i <= j
      BY <2>2, <3>1, Least, Zenon
    <3>3. last \in hit
      BY <2>2, <3>2
    <3>4. hit \subseteq 1..n
      BY DEF hit
    <3> HIDE DEF last
    <3> QED
      BY <3>3, <3>4, <1>1, <1>2
  <2> QED
    BY <2>1, <2>2
<1> HIDE DEF last
<1>4. ASSUME NEW i \in 1..last PROVE Parsed(rs[i], c.lines[i]) \in Seq(Line)
  <2>1. i \in 1..Len(c.nss) /\ c.lines[i] \in Seq(Line) /\ c.nss[i] \in Service
    BY <1>1, <1>2, <1>3
  <2>2. rs[i] \in read_master_map(c.nss[i])
    BY <1>1, <2>1
  <2>3. rs[i][2] \in {"all", "some", "none"}
    BY <2>1, <2>2 DEF Service, read_master_map, FileReadMaster, YpReadMaster,
       NisplusReadMaster, LdapReadMaster, SssReadMaster
  <2>4. SubSeq(c.lines[i], 1, Len(c.lines[i]) - 1) \in Seq(Line)
    BY <2>1
  <2>5. <<>> \in Seq(Line)
    OBVIOUS
  <2> QED
    BY <2>1, <2>3, <2>4, <2>5 DEF Parsed
<1>5. ps \in Seq(Seq(Line))
  <2>1. ps \in [1..last -> Seq(Line)]
    BY <1>4
  <2>2. last \in Nat
    BY <1>1, <1>2, <1>3
  <2> HIDE DEF ps
  <2> QED
    BY <2>1, <2>2
<1> DEFINE r == [lines |-> FlattenSeq(ps), fail |-> \E i \in 1..last : rs[i][1] = "unavail"]
<1>6. lookup_nss_read_master(rs, c.lines) = r
  BY DEF lookup_nss_read_master, last
<1>7. r.lines \in Seq(Line)
  BY <1>5, FlattenType
<1> QED
  BY <1>6, <1>7

-----------------------------------------------------------------------------
(* Signals. *)

\* A step of the other threads leaves signals alone; a thread that ends sends
\* one when it is the first in the list of completed ones.
LEMMA SignalStep ==
    ASSUME TypeOK, SignalInv, [Next]_vars
    PROVE  SignalInv'
<1> USE DEF SignalInv, Signalled, NotTakenForTerm, TypeOK
<1>1. CASE UNCHANGED <<completed, sigVars, asked>>
  BY <1>1 DEF sigVars
<1>2. CASE ReadEnd
  BY <1>2 DEF ReadEnd
<1>3. CASE TakeTerm
  BY <1>3 DEF TakeTerm, Sigwait
<1>4. CASE TakeHup
  BY <1>4 DEF TakeHup, Sigwait
<1>5. CASE HandleTerm
  BY <1>5 DEF HandleTerm, master_done, do_signals
<1>6. CASE HandleHup
  BY <1>6 DEF HandleHup
<1>7. CASE NotifyStateChange
  BY <1>7 DEF NotifyStateChange
<1>8. CASE SendTerm
  BY <1>8 DEF SendTerm
<1>9. CASE SendHup
  BY <1>9 DEF SendHup
<1>10. ASSUME NEW e \in Entry, handle_mounts_exit(e) PROVE SignalInv'
  <2>0. UNCHANGED <<pend, handler, notify, asked>>
    BY <1>10 DEF handle_mounts_exit
  <2>1. CASE handle_mounts_cleanup(e)
    <3>1. completed' # {} /\ tpend' = (tpend \/ completed = {})
      BY <2>1 DEF handle_mounts_cleanup
    <3>2. CASE completed = {}
      <4>1. tpend' = TRUE
        BY <3>1, <3>2
      <4> QED
        BY <2>0, <3>1, <3>2, <4>1
    <3>3. CASE completed # {}
      <4>1. tpend' = tpend
        BY <3>1, <3>3
      <4> QED
        BY <2>0, <3>1, <3>3, <4>1
    <3> QED
      BY <3>2, <3>3
  <2>2. CASE UNCHANGED <<completed, tpend>>
    BY <2>0, <2>2
  <2> QED
    BY <1>10, <2>1, <2>2 DEF handle_mounts_exit
<1>11. CASE ReadMaster \/ ParseLine \/ ParseAmd \/ ReadFailed \/ master_mount_mounts
  BY <1>1, <1>11 DEF ReadMaster, ParseLine, ParseAmd, ReadFailed, master_mount_mounts
<1>12. ASSUME NEW e \in Entry, LookupStart(e) \/ LookupEnd(e) \/ ReadMap(e) \/ Shutdown(e)
       PROVE  SignalInv'
  BY <1>1, <1>12 DEF LookupStart, LookupEnd, ReadMap, Shutdown
<1>13. CASE UNCHANGED vars
  BY <1>1, <1>13 DEF vars
<1> QED
  BY <1>2, <1>3, <1>4, <1>5, <1>6, <1>7, <1>8, <1>9, <1>10, <1>11, <1>12, <1>13
     DEF Next, Reader, Handler
-----------------------------------------------------------------------------
(* Types. *)

LEMMA FreedType == Freed \in EntryRecord /\ Freed.maps = <<>>
BY DEF Freed, EntryRecord

LEMMA NoReaderType ==
    /\ NoReader \in ReaderRecord
    /\ NoReader.pc = "idle" /\ NoReader.readall = FALSE /\ NoReader.removed = {} /\ NoReader.failed = {}
<1>1. <<>> \in Seq(Line) /\ <<>> \in Seq(Entry)
  OBVIOUS
<1> QED
  BY <1>1 DEF NoReader, ReaderRecord

\* A new entry has the one source.
LEMMA AddMapentType ==
    ASSUME TypeOK, NEW p \in Path, NEW map \in Source, NEW line \in Nat, AddMapent(p, map, line)
    PROVE  /\ NewEntry \in Entry /\ ent[NewEntry].path = None
           /\ list' = Append(list, NewEntry)
           /\ ent' \in [Entry -> EntryRecord]
           /\ \A f \in Entry \ {NewEntry} : ent'[f] = ent[f]
           /\ LET r == ent'[NewEntry]
              IN /\ r.path = p /\ r.age = reader.age /\ r.st = "init"
                 /\ DOMAIN r.maps = {1}
                 /\ r.maps[1].src = map /\ r.maps[1].age = reader.age /\ r.maps[1].line = line
<1> DEFINE new == [Freed EXCEPT !.path = p, !.age = reader.age]
           m == master_add_map_source(new, map, reader.age, line)
<1>1. NewEntry \in Entry /\ ent[NewEntry].path = None
  BY DEF AddMapent, Room, NewEntry
<1>2. reader.age \in Nat
  BY DEF TypeOK, ReaderRecord
<1>3. new \in EntryRecord /\ new.maps = <<>> /\ new.path = p /\ new.age = reader.age /\ new.st = "init"
  BY <1>2, FreedType DEF EntryRecord, Freed
<1>4. list' = Append(list, NewEntry) /\ ent' = [ent EXCEPT ![NewEntry] = [new EXCEPT !.maps = m]]
  BY DEF AddMapent
<1> HIDE DEF new
<1>5. m \in Seq(SourceRecord)
  BY <1>2, <1>3, AddSourceFacts
<1>6. m = <<[src |-> map, age |-> reader.age, line |-> line, keys |-> FALSE]>>
  <2> DEFINE r == [src |-> map, age |-> reader.age, line |-> line, keys |-> FALSE]
  <2>1. ~\E i \in DOMAIN new.maps : new.maps[i].src = map
    BY <1>3
  <2>2. m = Append(new.maps, r)
    BY <2>1 DEF master_add_map_source
  <2> HIDE DEF r, m
  <2>3. m = <<r>>
    BY <1>3, <2>2
  <2> QED
    BY <2>3 DEF r
<1>7. /\ DOMAIN m = {1} /\ m[1].src = map /\ m[1].age = reader.age /\ m[1].line = line
  BY <1>6
<1> HIDE DEF m
<1>8. [new EXCEPT !.maps = m] \in EntryRecord
  BY <1>3, <1>5 DEF EntryRecord
<1>9. ent' \in [Entry -> EntryRecord] /\ \A f \in Entry \ {NewEntry} : ent'[f] = ent[f]
  BY <1>4, <1>8 DEF TypeOK
<1>10. ent'[NewEntry] = [new EXCEPT !.maps = m]
  BY <1>1, <1>4 DEF TypeOK
<1> DEFINE r == ent'[NewEntry]
<1>11. r.path = p /\ r.age = reader.age /\ r.st = "init" /\ r.maps = m
  BY <1>3, <1>10 DEF EntryRecord
<1> QED
  BY <1>1, <1>4, <1>7, <1>9, <1>11

\* master_find_mapent() returns the entry with that path.
LEMMA FindFacts ==
    ASSUME TypeOK, NEW p, NEW e, e = master_find_mapent(ent, list, p)
    PROVE  /\ e = None => ~\E f \in ToSet(list) : ent[f].path = p
           /\ e # None => e \in ToSet(list) /\ ent[e].path = p
<1>1. ToSet(list) \subseteq Entry
  BY DEF TypeOK, ToSet
<1> DEFINE found == {f \in ToSet(list) : ent[f].path = p}
<1>2. CASE found = {}
  BY <1>2 DEF master_find_mapent
<1>3. CASE found # {}
  <2>1. e \in found
    BY <1>3 DEF master_find_mapent
  <2>2. None \notin found
    BY <1>1, MasterAssumption
  <2> QED
    BY <2>1, <2>2
<1> QED
  BY <1>2, <1>3

\* What the three kinds of lines do: no change; a new entry; a source that is
\* added to an entry or made current.
Skips(l, i) ==
    /\ UNCHANGED <<list, ent>>
    /\ \/ l.map = NullMap \/ NullLine(i - 1, l.path) # 0
       \/ /\ l.path \notin Direct
          /\ \E e \in ToSet(list) : ent[e].path = l.path /\ ent[e].age = reader.age
Adds(l, i) ==
    /\ l.map \in Source /\ NullLine(i - 1, l.path) = 0
    /\ ~\E e \in ToSet(list) : ent[e].path = l.path
    /\ AddMapent(l.path, l.map, i)
Updates(e, l, i) ==
    /\ l.map \in Source /\ NullLine(i - 1, l.path) = 0
    /\ ent[e].path = l.path /\ ~Used(e)
    /\ ent[e].age # reader.age \/ l.path \in Direct
    /\ list' = list /\ ent' \in [Entry -> EntryRecord]
    /\ \A f \in Entry \ {e} : ent'[f] = ent[f]
    /\ ent'[e].path = ent[e].path /\ ent'[e].st = ent[e].st /\ ent'[e].age = reader.age
    /\ ent'[e].maps = master_add_map_source(ent[e], l.map, reader.age, i)

LEMMA ParseCases ==
    ASSUME TypeOK, NEW i \in 1..Len(reader.lines), master_parse_entry(i)
    PROVE  LET l == reader.lines[i]
           IN l \in Line /\ (Skips(l, i) \/ Adds(l, i) \/ \E e \in ToSet(list) : Updates(e, l, i))
<1> DEFINE l == reader.lines[i]
           e == master_find_mapent(ent, list, l.path)
<1>1. l \in Line /\ (l.map # NullMap => l.map \in Source)
  <2>1. reader.lines \in Seq(Line)
    BY DEF TypeOK, ReaderRecord
  <2>2. l \in Line
    BY <2>1
  <2> QED
    BY <2>2 DEF Line
<1>2. ToSet(list) \subseteq Entry
  BY DEF TypeOK, ToSet
<1>3. /\ e = None => ~\E f \in ToSet(list) : ent[f].path = l.path
      /\ e # None => e \in ToSet(list) /\ ent[e].path = l.path
  BY FindFacts
<1> DEFINE m == master_add_map_source(ent[e], l.map, reader.age, i)
<1>4. \/ (l.map = NullMap \/ NullLine(i - 1, l.path) # 0) /\ UNCHANGED <<list, ent>>
      \/ /\ l.map # NullMap /\ NullLine(i - 1, l.path) = 0
         /\ \/ e = None /\ AddMapent(l.path, l.map, i)
            \/ /\ e # None /\ ent[e].age = reader.age /\ l.path \notin Direct
               /\ UNCHANGED <<list, ent>>
            \/ /\ e # None /\ ~(ent[e].age = reader.age /\ l.path \notin Direct)
               /\ ~Used(e) /\ UNCHANGED list
               /\ ent' = [ent EXCEPT ![e].age = reader.age, ![e].maps = m]
  BY DEF master_parse_entry
<1> HIDE DEF l, e, m
<1>5. CASE UNCHANGED <<list, ent>> /\ (l.map = NullMap \/ NullLine(i - 1, l.path) # 0)
  BY <1>1, <1>5 DEF Skips, l
<1>6. CASE e = None /\ l.map # NullMap /\ NullLine(i - 1, l.path) = 0 /\ AddMapent(l.path, l.map, i)
  BY <1>1, <1>3, <1>6 DEF Adds, l
<1>7. CASE e # None /\ ent[e].age = reader.age /\ l.path \notin Direct /\ UNCHANGED <<list, ent>>
  BY <1>1, <1>3, <1>7 DEF Skips, l
<1>8. CASE /\ l.map # NullMap /\ NullLine(i - 1, l.path) = 0
           /\ e # None /\ ~(ent[e].age = reader.age /\ l.path \notin Direct)
           /\ ~Used(e) /\ UNCHANGED list
           /\ ent' = [ent EXCEPT ![e].age = reader.age, ![e].maps = m]
  <2>1. e \in Entry /\ e \in ToSet(list) /\ ent[e] \in EntryRecord /\ reader.age \in Nat /\ i \in Nat
    BY <1>2, <1>3, <1>8 DEF TypeOK, ReaderRecord
  <2>2. m \in Seq(SourceRecord)
    BY <1>1, <1>8, <2>1, AddSourceFacts DEF m, l
  <2> DEFINE r == [ent[e] EXCEPT !.age = reader.age, !.maps = m]
  <2>3. /\ r \in EntryRecord /\ r.path = ent[e].path /\ r.st = ent[e].st
        /\ r.age = reader.age /\ r.maps = m
    BY <2>1, <2>2 DEF EntryRecord
  <2>4. ent' = [ent EXCEPT ![e] = r]
    BY <1>8, <2>1 DEF TypeOK
  <2> HIDE DEF r
  <2>5. ent' \in [Entry -> EntryRecord] /\ ent'[e] = r /\ \A f \in Entry \ {e} : ent'[f] = ent[f]
    BY <2>1, <2>3, <2>4 DEF TypeOK
  <2>6. Updates(e, l, i)
    BY <1>1, <1>3, <1>8, <2>3, <2>5 DEF Updates, m
  <2> QED
    BY <1>1, <2>1, <2>6 DEF l
<1> QED
  BY <1>4, <1>5, <1>6, <1>7, <1>8

\* One entry is changed, but for its path, and the list is not.
EntryUpdate(e) ==
    /\ list' = list /\ ent' \in [Entry -> EntryRecord]
    /\ \A f \in Entry \ {e} : ent'[f] = ent[f]
    /\ ent'[e].path = ent[e].path

\* The amd mount section adds an entry or replaces the source of the one there.
UpdatesAmd(e) ==
    /\ ent[e].path = AmdPath /\ EntryUpdate(e)
    /\ ent'[e].st = ent[e].st /\ ent'[e].age = reader.age
    /\ \A i \in DOMAIN ent'[e].maps :
         \/ ent'[e].maps[i].age = reader.age
         \/ \E j \in DOMAIN ent[e].maps : ent'[e].maps[i].age = ent[e].maps[j].age

LEMMA AmdCases ==
    ASSUME TypeOK, master_add_amd
    PROVE  \/ UNCHANGED <<list, ent>>
           \/ /\ reader.amd \in Source /\ ~\E e \in ToSet(list) : ent[e].path = AmdPath
              /\ AddMapent(AmdPath, reader.amd, 0)
           \/ \E e \in ToSet(list) : UpdatesAmd(e)
<1> DEFINE e == master_find_mapent(ent, list, AmdPath)
           match == master_partial_match_amd_mapent(e)
<1>1. /\ e = None => ~\E f \in ToSet(list) : ent[f].path = AmdPath
      /\ e # None => e \in ToSet(list) /\ ent[e].path = AmdPath
  BY FindFacts
<1>2. /\ match \in {-1, 0, 1} /\ (match = 0 => e = None)
      /\ match = 1 => e # None /\ ent[e].maps # <<>>
  BY DEF master_partial_match_amd_mapent
<1>3. \/ UNCHANGED <<list, ent>>
      \/ reader.amd # None /\ match = 0 /\ AddMapent(AmdPath, reader.amd, 0)
      \/ reader.amd # None /\ match = 1 /\ master_update_amd(e, reader.amd) /\ UNCHANGED list
  <2> HIDE DEF match
  <2>1. CASE reader.amd = None \/ match = -1
    BY <2>1, <1>2 DEF master_add_amd, e, match
  <2>2. CASE reader.amd # None /\ match = 0
    BY <2>2, <1>2 DEF master_add_amd, e, match
  <2>3. CASE reader.amd # None /\ match = 1
    BY <2>3, <1>2 DEF master_add_amd, e, match
  <2> QED
    BY <1>2, <2>1, <2>2, <2>3
<1>4. reader.amd # None => reader.amd \in Source
  BY DEF TypeOK, ReaderRecord
<1> HIDE DEF e, match
<1>5. ASSUME reader.amd # None, match = 1, master_update_amd(e, reader.amd), UNCHANGED list
      PROVE  \E f \in ToSet(list) : UpdatesAmd(f)
  <2>1. e \in ToSet(list) /\ ent[e].path = AmdPath /\ ent[e].maps # <<>>
    BY <1>1, <1>2, <1>5
  <2>2. e \in Entry /\ ent[e] \in EntryRecord /\ reader.age \in Nat
    BY <2>1 DEF TypeOK, ToSet, ReaderRecord
  <2> DEFINE ms == ent[e].maps
             old == ms[1]
             new == [src |-> reader.amd, age |-> reader.age, line |-> 0, keys |-> FALSE]
             m == IF old.src = reader.amd THEN <<[old EXCEPT !.line = 0]>> \o Tail(ms) ELSE <<new>>
             r == [ent[e] EXCEPT !.age = reader.age, !.maps = m]
  <2>3. ms \in Seq(SourceRecord) /\ Len(ms) \in Nat \ {0} /\ old \in SourceRecord /\ 1 \in DOMAIN ms
    BY <2>1, <2>2 DEF EntryRecord
  <2>4. ent' = [ent EXCEPT ![e] = r]
    BY <1>5, <2>2 DEF master_update_amd, TypeOK
  <2> HIDE DEF ms, old
  <2>5. /\ m \in Seq(SourceRecord)
        /\ \A i \in DOMAIN m : m[i].age = reader.age \/ \E j \in DOMAIN ms : m[i].age = ms[j].age
    <3>1. CASE old.src # reader.amd
      <4>1. new \in SourceRecord /\ m = <<new>> /\ new.age = reader.age
        BY <1>4, <1>5, <2>2, <3>1 DEF SourceRecord
      <4> HIDE DEF new, m
      <4> QED
        BY <4>1
    <3>2. CASE old.src = reader.amd
      <4> DEFINE o == [old EXCEPT !.line = 0]
      <4>1. o \in SourceRecord /\ o.age = old.age /\ m = <<o>> \o Tail(ms)
        BY <2>3, <3>2 DEF SourceRecord
      <4> HIDE DEF o, m
      <4>2. /\ <<o>> \in Seq(SourceRecord) /\ Len(<<o>>) = 1 /\ <<o>>[1] = o
            /\ Tail(ms) \in Seq(SourceRecord) /\ Len(Tail(ms)) = Len(ms) - 1
            /\ \A i \in 1..(Len(ms) - 1) : Tail(ms)[i] = ms[i + 1]
        BY <2>3, <4>1
      <4>3. /\ m \in Seq(SourceRecord) /\ Len(m) = Len(ms)
            /\ \A i \in 1..Len(ms) : m[i] = IF i <= 1 THEN <<o>>[i] ELSE Tail(ms)[i - 1]
        <5> DEFINE h == <<o>>
                   t == Tail(ms)
        <5>1. h \in Seq(SourceRecord) /\ t \in Seq(SourceRecord) /\ m = h \o t
          BY <4>1, <4>2
        <5> HIDE DEF h, t
        <5>2. /\ m \in Seq(SourceRecord) /\ Len(m) = Len(h) + Len(t)
              /\ \A i \in 1..(Len(h) + Len(t)) : m[i] = IF i <= Len(h) THEN h[i] ELSE t[i - Len(h)]
          BY <5>1, ConcatProperties
        <5>3. Len(h) = 1 /\ Len(t) = Len(ms) - 1
          BY <4>2 DEF h, t
        <5> QED
          BY <2>3, <5>2, <5>3 DEF h, t
      <4>4. DOMAIN m = DOMAIN ms
        BY <2>3, <4>3
      <4>5. ASSUME NEW i \in DOMAIN m PROVE m[i].age = ms[i].age
        <5>1. i \in 1..Len(ms)
          BY <2>3, <4>4
        <5>2. CASE i = 1
          BY <4>1, <4>2, <4>3, <5>1, <5>2 DEF old
        <5>3. CASE i # 1
          <6>1. i - 1 \in 1..(Len(ms) - 1)
            BY <2>3, <5>1, <5>3
          <6>2. m[i] = Tail(ms)[i - 1] /\ Tail(ms)[i - 1] = ms[(i - 1) + 1]
            BY <4>2, <4>3, <5>1, <5>3, <6>1
          <6>3. (i - 1) + 1 = i
            BY <2>3, <5>1
          <6> QED
            BY <6>2, <6>3
        <5> QED
          BY <5>2, <5>3
      <4> QED
        BY <4>3, <4>4, <4>5
    <3> QED
      BY <3>1, <3>2
  <2> HIDE DEF m
  <2>6. r \in EntryRecord /\ r.path = ent[e].path /\ r.st = ent[e].st /\ r.age = reader.age /\ r.maps = m
    BY <2>2, <2>5 DEF EntryRecord
  <2> HIDE DEF r
  <2>7. ent' \in [Entry -> EntryRecord] /\ ent'[e] = r /\ \A f \in Entry \ {e} : ent'[f] = ent[f]
    BY <2>2, <2>4, <2>6 DEF TypeOK
  <2>8. UpdatesAmd(e)
    BY <1>5, <2>1, <2>5, <2>6, <2>7 DEF UpdatesAmd, EntryUpdate, ms
  <2> QED
    BY <2>1, <2>8
<1> QED
  BY <1>1, <1>2, <1>3, <1>4, <1>5

\* What master_mount_mounts() does to an entry.
TellsShutdown(e) ==
    /\ Removed(e) /\ EntryUpdate(e)
    /\ ent'[e].st = ent[e].st /\ ent'[e].age = ent[e].age /\ ent'[e].maps = ent[e].maps
ChecksSources(e) ==
    /\ ~Removed(e) /\ ent[e].st # "init" /\ ~Used(e) /\ EntryUpdate(e)
    /\ ent'[e].st = ent[e].st /\ ent'[e].age = ent[e].age /\ ent'[e].maps = KeptSources(ent[e])
Starts(e) ==
    /\ ~Removed(e) /\ ent[e].st = "init" /\ EntryUpdate(e)
    /\ ent'[e].st = "ready" /\ ent'[e].age = ent[e].age /\ ent'[e].maps = ent[e].maps

LEMMA MountCases ==
    ASSUME TypeOK, NEW e \in Entry, NEW fails, master_mount_mount(e, fails)
    PROVE  \/ TellsShutdown(e) \/ ChecksSources(e) \/ Starts(e)
           \/ ~Removed(e) /\ ent[e].st = "init" /\ Drop(e)
<1>1. ent[e] \in EntryRecord
  BY DEF TypeOK
<1>2. CASE Removed(e)
  <2> DEFINE r == [ent[e] EXCEPT !.tasks = @ \cup {"shutdown"}]
  <2>1. /\ r \in EntryRecord /\ r.path = ent[e].path /\ r.st = ent[e].st
        /\ r.age = ent[e].age /\ r.maps = ent[e].maps
    BY <1>1 DEF EntryRecord
  <2>2. ent' = [ent EXCEPT ![e] = r] /\ list' = list
    BY <1>2 DEF master_mount_mount, TypeOK
  <2> HIDE DEF r
  <2>3. ent' \in [Entry -> EntryRecord] /\ ent'[e] = r /\ \A f \in Entry \ {e} : ent'[f] = ent[f]
    BY <2>1, <2>2 DEF TypeOK
  <2> QED
    BY <1>2, <2>1, <2>2, <2>3 DEF TellsShutdown, EntryUpdate
<1>3. CASE ~Removed(e) /\ NulledFirst(e)
  BY <1>3 DEF master_mount_mount, Removed
<1>4. CASE ~Removed(e) /\ ~NulledFirst(e) /\ ent[e].st # "init"
  <2>1. check_update_map_sources(e)
    BY <1>4 DEF master_mount_mount
  <2> DEFINE ts == IF reader.readall \/ \E i \in DOMAIN KeptSources(ent[e]) :
                          KeptSources(ent[e])[i].age < ent[e].age
                   THEN ent[e].tasks \cup {"readmap"} ELSE ent[e].tasks
             r == [ent[e] EXCEPT !.maps = KeptSources(ent[e]), !.tasks = ts]
  <2>2. KeptSources(ent[e]) \in Seq(SourceRecord)
    BY <1>1, KeptFacts
  <2>3. ent' = [ent EXCEPT ![e] = r] /\ list' = list /\ ~Used(e)
    BY <1>1, <2>1 DEF check_update_map_sources, TypeOK
  <2>4. ts \in SUBSET {"readmap", "shutdown"}
    BY <1>1 DEF EntryRecord
  <2> HIDE DEF ts
  <2>5. /\ r \in EntryRecord /\ r.path = ent[e].path /\ r.st = ent[e].st
        /\ r.age = ent[e].age /\ r.maps = KeptSources(ent[e])
    BY <1>1, <2>2, <2>4 DEF EntryRecord
  <2> HIDE DEF r
  <2>6. ent' \in [Entry -> EntryRecord] /\ ent'[e] = r /\ \A f \in Entry \ {e} : ent'[f] = ent[f]
    BY <2>3, <2>5 DEF TypeOK
  <2> QED
    BY <1>4, <2>3, <2>5, <2>6 DEF ChecksSources, EntryUpdate
<1>5. CASE ~Removed(e) /\ ~NulledFirst(e) /\ ent[e].st = "init"
  <2>1. master_do_mount(e, fails)
    BY <1>5 DEF master_mount_mount
  <2>2. CASE fails
    BY <1>5, <2>1, <2>2 DEF master_do_mount
  <2>3. CASE ~fails
    <3> DEFINE r == [ent[e] EXCEPT !.st = "ready"]
    <3>1. /\ r \in EntryRecord /\ r.path = ent[e].path /\ r.st = "ready"
          /\ r.age = ent[e].age /\ r.maps = ent[e].maps
      BY <1>1 DEF EntryRecord
    <3>2. ent' = [ent EXCEPT ![e] = r] /\ list' = list
      BY <2>1, <2>3 DEF master_do_mount, TypeOK
    <3> HIDE DEF r
    <3>3. ent' \in [Entry -> EntryRecord] /\ ent'[e] = r /\ \A f \in Entry \ {e} : ent'[f] = ent[f]
      BY <3>1, <3>2 DEF TypeOK
    <3> QED
      BY <1>5, <3>1, <3>2, <3>3 DEF Starts, EntryUpdate
  <2> QED
    BY <2>2, <2>3
<1> QED
  BY <1>2, <1>3, <1>4, <1>5

-----------------------------------------------------------------------------
(* The other threads. *)

\* Entries that differ in tasks, in their state or in what is cached only.
SameSources(q, r) ==
    /\ q.path = r.path /\ q.age = r.age /\ DOMAIN q.maps = DOMAIN r.maps
    /\ \A i \in DOMAIN r.maps : /\ q.maps[i].src = r.maps[i].src
                                /\ q.maps[i].age = r.maps[i].age
                                /\ q.maps[i].line = r.maps[i].line

LEMMA SameSourcesFacts ==
    ASSUME NEW q \in EntryRecord, NEW r \in EntryRecord, SameSources(q, r)
    PROVE  /\ \A ls, n : AsTheLinesSay(r, ls, n) => AsTheLinesSay(q, ls, n)
           /\ FirstOld(r) => FirstOld(q)
<1>1. Current(q) = Current(r)
  BY DEF SameSources, Current
<1>2. CurrentMaps(q) = CurrentMaps(r)
  BY <1>1 DEF SameSources, CurrentMaps, Current
<1>3. ASSUME NEW ls, NEW n, AsTheLinesSay(r, ls, n) PROVE AsTheLinesSay(q, ls, n)
  BY <1>1, <1>2, <1>3 DEF SameSources, AsTheLinesSay, Current
<1>4. ASSUME FirstOld(r) PROVE FirstOld(q)
  <2>1. q.maps \in Seq(SourceRecord) /\ r.maps \in Seq(SourceRecord)
    BY DEF EntryRecord
  <2>2. Len(q.maps) = Len(r.maps) /\ (1 \in DOMAIN r.maps \/ Len(r.maps) = 0)
    BY <2>1 DEF SameSources
  <2> QED
    BY <1>4, <2>1, <2>2 DEF SameSources, FirstOld
<1> QED
  BY <1>3, <1>4

\* The part of the invariant about the read map holds on as long as the reader
\* does nothing and sources stay.
LEMMA ReaderIdle ==
    ASSUME ReadInv, ent' \in [Entry -> EntryRecord],
           UNCHANGED <<reader, list, clock>>,
           \A e \in Entry : SameSources(ent'[e], ent[e]),
           \A e \in ToSet(list) : ent'[e].st = "init" => ent[e].st = "init"
    PROVE  Ages' /\ ParsedSoFar' /\ MountedSoFar'
<1>1. ToSet(list) \subseteq Entry /\ list' = list
  BY DEF ReadInv, EntryInv, TypeOK, ToSet
<1>2. \A e \in Entry : ent[e] \in EntryRecord /\ ent'[e] \in EntryRecord
  BY DEF ReadInv, EntryInv, TypeOK
<1>3. \A e \in Entry : ent'[e].path = ent[e].path /\ ent'[e].age = ent[e].age
  BY DEF SameSources
<1>3a. \A e \in Entry : FirstOld(ent[e]) => FirstOld(ent'[e])
  BY <1>2, SameSourcesFacts
<1>3b. \A e \in Entry : \A ls, n : AsTheLinesSay(ent[e], ls, n) => AsTheLinesSay(ent'[e], ls, n)
  BY <1>2, SameSourcesFacts
<1>4. Ages'
  BY <1>1 DEF ReadInv, Ages, SameSources
<1>5. ParsedSoFar'
  <2>1. Upto' = Upto /\ reader' = reader
    BY DEF Upto
  <2> SUFFICES ASSUME reader.fresh, reader.pc \in {"lines", "failed", "mount"}
               PROVE  /\ \A p \in Path \ ({AmdPath} \cup reader.failed) :
                            LinesFor(reader.lines, Upto, p) # {} =>
                              \E e \in ToSet(list) : ent'[e].path = p /\ ent'[e].age = reader.age
                      /\ \A e \in ToSet(list) : ent'[e].path # AmdPath /\ ent'[e].age = reader.age =>
                            AsTheLinesSay(ent'[e], reader.lines, Upto)
    BY <1>1, <2>1 DEF ParsedSoFar
  <2>2. /\ \A p \in Path \ ({AmdPath} \cup reader.failed) : LinesFor(reader.lines, Upto, p) # {} =>
             \E e \in ToSet(list) : ent[e].path = p /\ ent[e].age = reader.age
        /\ \A e \in ToSet(list) : ent[e].path # AmdPath /\ ent[e].age = reader.age =>
             AsTheLinesSay(ent[e], reader.lines, Upto)
    BY DEF ReadInv, ParsedSoFar
  <2>3. \A p \in Path \ ({AmdPath} \cup reader.failed) : LinesFor(reader.lines, Upto, p) # {} =>
             \E e \in ToSet(list) : ent'[e].path = p /\ ent'[e].age = reader.age
    BY <1>1, <1>3, <2>2
  <2>4. \A e \in ToSet(list) : ent'[e].path # AmdPath /\ ent'[e].age = reader.age =>
          AsTheLinesSay(ent'[e], reader.lines, Upto)
    <3> SUFFICES ASSUME NEW e \in ToSet(list), ent'[e].path # AmdPath, ent'[e].age = reader.age
                 PROVE  AsTheLinesSay(ent'[e], reader.lines, Upto)
      OBVIOUS
    <3>1. e \in Entry /\ ent[e].path # AmdPath /\ ent[e].age = reader.age
      BY <1>1, <1>3
    <3>2. AsTheLinesSay(ent[e], reader.lines, Upto)
      BY <2>2, <3>1
    <3> QED
      BY <1>3b, <3>1, <3>2, Zenon
  <2> QED
    BY <2>3, <2>4
<1>6. MountedSoFar'
  <2>1. reader' = reader
    OBVIOUS
  <2>2. CASE reader.pc # "mount"
    BY <2>1, <2>2 DEF ReadInv, MountedSoFar
  <2>3. CASE reader.pc = "mount"
    <3>1. /\ IsInjective(reader.todo) /\ ToSet(reader.todo) \subseteq ToSet(list)
          /\ \A e \in ToSet(list) : ent[e].path \notin reader.failed
          /\ \A e \in ToSet(list) \ ToSet(reader.todo) :
               IF ent[e].age < reader.age THEN e \in reader.removed ELSE ent[e].st # "init"
          /\ \A e \in ToSet(list) \cap reader.removed :
               /\ e \notin ToSet(reader.todo)
               /\ reader.fresh => ent[e].age < reader.age \/ FirstOld(ent[e]) \/ ent[e].path = AmdPath
      BY <2>3 DEF ReadInv, MountedSoFar
    <3>2. \A e \in ToSet(list) \ ToSet(reader.todo) :
               IF ent'[e].age < reader.age THEN e \in reader.removed ELSE ent'[e].st # "init"
      BY <1>1, <1>3, <3>1
    <3>3. \A e \in ToSet(list) \cap reader.removed :
               /\ e \notin ToSet(reader.todo)
               /\ reader.fresh => ent'[e].age < reader.age \/ FirstOld(ent'[e]) \/ ent'[e].path = AmdPath
      <4> TAKE e \in ToSet(list) \cap reader.removed
      <4>1. e \in Entry /\ ent'[e].age = ent[e].age /\ ent'[e].path = ent[e].path
        BY <1>1, <1>3
      <4>2. FirstOld(ent[e]) => FirstOld(ent'[e])
        BY <1>3a, <4>1, Zenon
      <4>3. /\ e \notin ToSet(reader.todo)
            /\ reader.fresh => ent[e].age < reader.age \/ FirstOld(ent[e]) \/ ent[e].path = AmdPath
        BY <3>1
      <4> QED
        BY <4>1, <4>2, <4>3
    <3>4. \A e \in ToSet(list) : ent'[e].path \notin reader.failed
      BY <1>1, <1>3, <3>1
    <3> QED
      BY <1>1, <2>1, <2>3, <3>1, <3>2, <3>3, <3>4 DEF MountedSoFar
  <2> QED
    BY <2>2, <2>3
<1> QED
  BY <1>4, <1>5, <1>6

\* What a thread of a mount point or a request does to the entry.
Serves(e) ==
    /\ e \in Entry /\ EntryUpdate(e) /\ SameSources(ent'[e], ent[e])
    /\ \/ ent'[e].st = ent[e].st
       \/ ent[e].st = "ready" /\ ent'[e].st = "shutdown"

LEMMA ServesStep ==
    ASSUME ReadInv, NEW e, Serves(e), UNCHANGED <<reader, list, completed, sigVars, reading, clock, asked>>,
           \/ UNCHANGED users
           \/ users' = [users EXCEPT ![e] = None]
    PROVE  ReadInv'
<1>1. /\ e \in Entry /\ list' = list /\ completed' = completed /\ ent' \in [Entry -> EntryRecord]
      /\ \A f \in Entry \ {e} : ent'[f] = ent[f]
  BY DEF Serves, EntryUpdate
<1>2. \A f \in Entry : SameSources(ent'[f], ent[f])
  BY <1>1 DEF Serves, SameSources
<1>3. \A f \in Entry : /\ ent'[f].path = ent[f].path
                      /\ \/ ent'[f].st = ent[f].st
                         \/ ent[f].st = "ready" /\ ent'[f].st = "shutdown"
  BY <1>1, <1>2 DEF Serves, SameSources
<1>4. ToSet(list) \subseteq Entry
  BY DEF ReadInv, EntryInv, TypeOK, ToSet
<1>5. Ages' /\ ParsedSoFar' /\ MountedSoFar'
  <2>1. \A f \in ToSet(list) : ent'[f].st = "init" => ent[f].st = "init"
    BY <1>3, <1>4
  <2> QED
    BY <1>1, <1>2, <2>1, ReaderIdle
<1>6. \A f \in Entry : users'[f] # None => users'[f] = users[f]
  BY <1>1 DEF ReadInv, EntryInv, TypeOK
<1>7. TypeOK'
  BY <1>1 DEF ReadInv, EntryInv, TypeOK, sigVars
<1>8. EntryLists'
  BY <1>1, <1>3, <1>4 DEF ReadInv, EntryInv, EntryLists
<1>9. OneReader' /\ UsersRun'
  BY <1>1, <1>3, <1>6 DEF ReadInv, EntryInv, OneReader, UsersRun, Used, sigVars
<1>10. InUse'
  <2> SUFFICES ASSUME NEW f \in Entry, users'[f] # None
               PROVE  \/ \E i \in DOMAIN ent'[f].maps : ent'[f].maps[i].src = users'[f]
                      \/ ent'[f].path = AmdPath
    BY DEF InUse
  <2>1. users'[f] = users[f]
    BY <1>6
  <2> QED
    BY <1>2, <1>3, <2>1 DEF ReadInv, EntryInv, InUse, SameSources
<1> QED
  BY <1>5, <1>7, <1>8, <1>9, <1>10 DEF ReadInv, EntryInv

LEMMA LookupEndStep ==
    ASSUME ReadInv, NEW e \in Entry, LookupEnd(e)
    PROVE  ReadInv'
<1> DEFINE upd(s, cached) == IF s.src = users[e] THEN [s EXCEPT !.keys = @ \/ cached] ELSE s
<1>1. PICK cached \in BOOLEAN : ent' = [ent EXCEPT ![e].maps = [i \in DOMAIN @ |-> upd(@[i], cached)]]
  BY DEF LookupEnd
<1>2. ent \in [Entry -> EntryRecord] /\ ent[e] \in EntryRecord
  BY DEF ReadInv, EntryInv, TypeOK
<1> DEFINE ms == ent[e].maps
           m == [i \in DOMAIN ms |-> upd(ms[i], cached)]
           r == [ent[e] EXCEPT !.maps = m]
<1>3. ms \in Seq(SourceRecord) /\ DOMAIN ms = 1..Len(ms) /\ Len(ms) \in Nat
  BY <1>2 DEF EntryRecord
<1>4. ent' = [ent EXCEPT ![e] = r]
  <2> HIDE DEF upd
  <2> QED
    BY <1>1, <1>2
<1> HIDE DEF ms
<1>5. \A i \in DOMAIN ms : /\ m[i] \in SourceRecord /\ m[i].src = ms[i].src
                           /\ m[i].age = ms[i].age /\ m[i].line = ms[i].line
  <2> TAKE i \in DOMAIN ms
  <2>1. ms[i] \in SourceRecord
    BY <1>3
  <2>2. (ms[i].keys \/ cached) \in BOOLEAN
    OBVIOUS
  <2> QED
    BY <2>1, <2>2 DEF SourceRecord
<1>6. m \in Seq(SourceRecord) /\ DOMAIN m = DOMAIN ms
  <2>1. m \in [1..Len(ms) -> SourceRecord]
    BY <1>3, <1>5
  <2> HIDE DEF m
  <2> QED
    BY <1>3, <2>1
<1> HIDE DEF m
<1>7. r \in EntryRecord /\ r.path = ent[e].path /\ r.age = ent[e].age /\ r.st = ent[e].st /\ r.maps = m
  BY <1>2, <1>6 DEF EntryRecord
<1> HIDE DEF r
<1>8. ent' \in [Entry -> EntryRecord] /\ ent'[e] = r /\ \A f \in Entry \ {e} : ent'[f] = ent[f]
  BY <1>2, <1>4, <1>7
<1>9. list' = list
  BY DEF LookupEnd
<1>10. Serves(e)
  BY <1>5, <1>6, <1>7, <1>8, <1>9 DEF Serves, EntryUpdate, SameSources, ms
<1> QED
  BY <1>10, ServesStep DEF LookupEnd

LEMMA ReadMapStep ==
    ASSUME ReadInv, NEW e \in Entry, ReadMap(e)
    PROVE  ReadInv'
<1> DEFINE read(s, keys) == [s EXCEPT !.keys = keys /\ s.age = ent[e].age]
           ms == ent[e].maps
<1>1. PICK ok \in BOOLEAN, keys \in BOOLEAN : ent' = [ent EXCEPT ![e].tasks = @ \ {"readmap"},
                      ![e].maps = IF ok THEN [i \in DOMAIN @ |-> read(@[i], keys)] ELSE @]
  BY DEF ReadMap
<1>2. ent \in [Entry -> EntryRecord] /\ ent[e] \in EntryRecord
  BY DEF ReadInv, EntryInv, TypeOK
<1> DEFINE m == IF ok THEN [i \in DOMAIN ms |-> read(ms[i], keys)] ELSE ms
           r == [ent[e] EXCEPT !.tasks = @ \ {"readmap"}, !.maps = m]
<1>3. ms \in Seq(SourceRecord) /\ DOMAIN ms = 1..Len(ms) /\ Len(ms) \in Nat
  BY <1>2 DEF EntryRecord
<1>4. ent' = [ent EXCEPT ![e] = r]
  BY <1>1, <1>2
<1> HIDE DEF ms
<1>5. /\ DOMAIN m = DOMAIN ms
      /\ \A i \in DOMAIN ms : /\ m[i] \in SourceRecord /\ m[i].src = ms[i].src
                              /\ m[i].age = ms[i].age /\ m[i].line = ms[i].line
  <2>1. DOMAIN m = DOMAIN ms
    OBVIOUS
  <2>2. ASSUME NEW i \in DOMAIN ms
        PROVE  /\ m[i] \in SourceRecord /\ m[i].src = ms[i].src
               /\ m[i].age = ms[i].age /\ m[i].line = ms[i].line
    <3>1. ms[i] \in SourceRecord /\ m[i] = IF ok THEN read(ms[i], keys) ELSE ms[i]
      BY <1>3
    <3>2. (keys /\ ms[i].age = ent[e].age) \in BOOLEAN
      OBVIOUS
    <3> QED
      BY <3>1, <3>2 DEF SourceRecord
  <2> QED
    BY <2>1, <2>2
<1>6. m \in Seq(SourceRecord)
  <2>1. ok => m \in [1..Len(ms) -> SourceRecord]
    BY <1>3, <1>5
  <2>2. ~ok => m = ms
    OBVIOUS
  <2> HIDE DEF m
  <2> QED
    BY <1>3, <2>1, <2>2
<1> HIDE DEF m
<1>7. r \in EntryRecord /\ r.path = ent[e].path /\ r.age = ent[e].age /\ r.st = ent[e].st /\ r.maps = m
  BY <1>2, <1>6 DEF EntryRecord
<1> HIDE DEF r
<1>8. ent' \in [Entry -> EntryRecord] /\ ent'[e] = r /\ \A f \in Entry \ {e} : ent'[f] = ent[f]
  BY <1>2, <1>4, <1>7
<1>9. list' = list
  BY DEF ReadMap
<1>10. Serves(e)
  BY <1>5, <1>7, <1>8, <1>9 DEF Serves, EntryUpdate, SameSources, ms
<1> QED
  BY <1>10, ServesStep DEF ReadMap

LEMMA ShutdownStep ==
    ASSUME ReadInv, NEW e \in Entry, Shutdown(e)
    PROVE  ReadInv'
<1>1. PICK busy \in BOOLEAN : ent' = [ent EXCEPT ![e].tasks = @ \ {"shutdown"},
                                    ![e].st = IF busy THEN "ready" ELSE "shutdown"]
  BY DEF Shutdown
<1>2. ent \in [Entry -> EntryRecord] /\ ent[e] \in EntryRecord /\ ent[e].st = "ready" /\ list' = list
  BY DEF ReadInv, EntryInv, TypeOK, Shutdown
<1> DEFINE st == IF busy THEN "ready" ELSE "shutdown"
           r == [ent[e] EXCEPT !.tasks = @ \ {"shutdown"}, !.st = st]
<1>3. ent' = [ent EXCEPT ![e] = r]
  BY <1>1, <1>2
<1>4. st \in {"ready", "shutdown"}
  OBVIOUS
<1> HIDE DEF st
<1>5. r \in EntryRecord /\ r.path = ent[e].path /\ r.age = ent[e].age /\ r.st = st /\ r.maps = ent[e].maps
  BY <1>2, <1>4 DEF EntryRecord
<1> HIDE DEF r
<1>6. ent' \in [Entry -> EntryRecord] /\ ent'[e] = r /\ \A f \in Entry \ {e} : ent'[f] = ent[f]
  BY <1>2, <1>3, <1>5
<1>7. Serves(e)
  BY <1>2, <1>4, <1>5, <1>6 DEF Serves, EntryUpdate, SameSources
<1> QED
  BY <1>7, ServesStep DEF Shutdown

LEMMA LookupStartStep ==
    ASSUME ReadInv, NEW e \in Entry, LookupStart(e)
    PROVE  ReadInv'
<1>1. PICK i \in DOMAIN ent[e].maps : users' = [users EXCEPT ![e] = ent[e].maps[i].src]
  BY DEF LookupStart
<1>2. UNCHANGED <<reader, list, completed, ent, sigVars, reading, clock, asked>> /\ ent[e].st = "ready"
  BY DEF LookupStart
<1>3. ent[e].maps[i].src \in Source
  <2>1. ent[e].maps \in Seq(SourceRecord)
    BY DEF ReadInv, EntryInv, TypeOK, EntryRecord
  <2>2. ent[e].maps[i] \in SourceRecord
    BY <2>1
  <2> QED
    BY <2>2 DEF SourceRecord
<1>4. /\ users' \in [Entry -> Source \cup {None}]
      /\ \A f \in Entry : users'[f] = IF f = e THEN ent[e].maps[i].src ELSE users[f]
  BY <1>1, <1>3 DEF ReadInv, EntryInv, TypeOK
<1>5. TypeOK'
  BY <1>2, <1>4 DEF ReadInv, EntryInv, TypeOK, sigVars
<1>6. EntryLists' /\ OneReader'
  BY <1>2 DEF ReadInv, EntryInv, EntryLists, OneReader, sigVars
<1>7. UsersRun' /\ InUse'
  BY <1>2, <1>4 DEF ReadInv, EntryInv, UsersRun, InUse, Used
<1>8. Ages' /\ ParsedSoFar' /\ MountedSoFar'
  <2>1. ent' \in [Entry -> EntryRecord]
    BY <1>2 DEF ReadInv, EntryInv, TypeOK
  <2>2. \A f \in Entry : SameSources(ent'[f], ent[f])
    BY <1>2 DEF SameSources
  <2> QED
    BY <1>2, <2>1, <2>2, ReaderIdle
<1> QED
  BY <1>5, <1>6, <1>7, <1>8 DEF ReadInv, EntryInv

\* Steps that leave the lists, the entries and the reader alone.
LEMMA UnchangedStep ==
    ASSUME ReadInv, TypeOK', UNCHANGED <<reader, list, completed, ent, users, reading, clock>>,
           (handler' = "start") = (handler = "start")
    PROVE  ReadInv'
<1>1. EntryLists' /\ OneReader' /\ UsersRun' /\ InUse'
  BY DEF ReadInv, EntryInv, EntryLists, OneReader, UsersRun, InUse, Used
<1>2. Ages' /\ ParsedSoFar' /\ MountedSoFar'
  <2>1. ent' \in [Entry -> EntryRecord]
    BY DEF ReadInv, EntryInv, TypeOK
  <2>2. \A f \in Entry : SameSources(ent'[f], ent[f])
    BY DEF SameSources
  <2> QED
    BY <2>1, <2>2, ReaderIdle
<1> QED
  BY <1>1, <1>2 DEF ReadInv, EntryInv

LEMMA SignalsStep ==
    ASSUME ReadInv, SendTerm \/ SendHup \/ TakeTerm \/ TakeHup \/ UNCHANGED vars
    PROVE  ReadInv'
<1>0. TypeOK
  BY DEF ReadInv, EntryInv
<1>1. CASE SendTerm
  <2>1. TypeOK'
    BY <1>0, <1>1 DEF SendTerm, TypeOK
  <2> QED
    BY <1>1, <2>1, UnchangedStep DEF SendTerm
<1>2. CASE SendHup
  <2>1. TypeOK'
    BY <1>0, <1>2 DEF SendHup, TypeOK
  <2> QED
    BY <1>2, <2>1, UnchangedStep DEF SendHup
<1>3. CASE TakeTerm
  <2>1. TypeOK'
    BY <1>0, <1>3 DEF TakeTerm, Sigwait, TypeOK
  <2> QED
    BY <1>3, <2>1, UnchangedStep DEF TakeTerm, Sigwait
<1>4. CASE TakeHup
  <2>1. TypeOK'
    BY <1>0, <1>4 DEF TakeHup, Sigwait, TypeOK
  <2> QED
    BY <1>4, <2>1, UnchangedStep DEF TakeHup, Sigwait
<1>5. CASE UNCHANGED vars
  <2>1. TypeOK'
    BY <1>0, <1>5 DEF vars, sigVars, TypeOK
  <2> QED
    BY <1>5, <2>1, UnchangedStep DEF vars, sigVars
<1> QED
  BY <1>1, <1>2, <1>3, <1>4, <1>5

\* The entries of threads that have ended are freed; no request uses them.
LEMMA HandleTermStep ==
    ASSUME ReadInv, HandleTerm
    PROVE  ReadInv'
<1>0. TypeOK /\ EntryLists
  BY DEF ReadInv, EntryInv
<1>1. CASE completed = {}
  <2>1. TypeOK'
    BY <1>0, <1>1 DEF HandleTerm, do_signals, TypeOK
  <2> QED
    BY <1>1, <2>1, UnchangedStep DEF HandleTerm
<1>2. CASE completed # {}
  <2>1. /\ ent' = [e \in Entry |-> IF e \in completed THEN Freed ELSE ent[e]]
        /\ completed' = {} /\ handler' \in {"exited", "wait"} /\ handler = "term"
        /\ UNCHANGED <<reader, list, users, pend, tpend, notify, reading, clock, asked>>
        /\ reader.pc \notin {"lines", "failed", "mount"}
    BY <1>2 DEF HandleTerm, master_done, MutexFree
  <2>2. ent' \in [Entry -> EntryRecord]
    BY <1>0, <2>1, FreedType DEF TypeOK
  <2>3. /\ \A e \in Entry : e \in completed => ent'[e] = Freed
        /\ \A e \in Entry : e \notin completed => ent'[e] = ent[e]
    BY <2>1
  <2>4. Freed.path = None /\ Freed.st = "init" /\ Freed.age = 0 /\ Freed.maps = <<>>
    BY DEF Freed
  <2>5. TypeOK'
    BY <1>0, <2>1, <2>2 DEF TypeOK
  <2>6. ToSet(list) \subseteq Entry
    BY <1>0 DEF TypeOK, ToSet
  <2>7. EntryLists'
    <3>1. \A e \in ToSet(list) : ent'[e] = ent[e]
      BY <1>0, <2>3, <2>6 DEF EntryLists
    <3> QED
      BY <1>0, <2>1, <2>3, <2>4, <2>6, <3>1 DEF EntryLists
  <2>8. \A e \in Entry : e \in completed => users[e] = None
    BY DEF ReadInv, EntryInv, EntryLists, UsersRun, Used
  <2>9. OneReader' /\ UsersRun' /\ InUse'
    BY <2>1, <2>3, <2>4, <2>8 DEF ReadInv, EntryInv, OneReader, UsersRun, InUse, Used
  <2>10. Ages'
    <3>1. clock \in Nat
      BY <1>0 DEF TypeOK
    <3>2. \A e \in ToSet(list) : ent'[e] = ent[e]
      BY <1>0, <2>3, <2>6 DEF EntryLists
    <3>3. \A e \in Entry : /\ ent'[e].age <= clock
                          /\ \A i \in DOMAIN ent'[e].maps : ent'[e].maps[i].age <= ent'[e].age
      BY <2>3, <2>4, <3>1 DEF ReadInv, Ages
    <3> QED
      BY <2>1, <3>2, <3>3 DEF ReadInv, Ages
  <2>11. ParsedSoFar' /\ MountedSoFar'
    BY <2>1 DEF ReadInv, ParsedSoFar, MountedSoFar
  <2> QED
    BY <2>5, <2>7, <2>9, <2>10, <2>11 DEF ReadInv, EntryInv
<1> QED
  BY <1>1, <1>2

\* A read starts with the time, and one in a new second finds only older ages.
LEMMA HandleHupStep ==
    ASSUME ReadInv, HandleHup
    PROVE  ReadInv'
<1>0. TypeOK /\ OneReader
  BY DEF ReadInv, EntryInv
<1>1. CASE reading
  <2>1. TypeOK'
    BY <1>0, <1>1 DEF HandleHup, TypeOK
  <2> QED
    BY <1>0, <1>1, <2>1, UnchangedStep DEF HandleHup, TypeOK
<1>2. CASE ~reading
  <2>1. PICK now \in {clock, clock + 1} :
          /\ clock' = now
          /\ reader' = [NoReader EXCEPT !.pc = "lock", !.age = now, !.readall = TRUE, !.fresh = now > clock]
    BY <1>2 DEF HandleHup
  <2>2. /\ reader' \in ReaderRecord /\ reader'.pc = "lock" /\ reader'.age = now /\ reader'.readall
        /\ reader'.fresh = (now > clock) /\ reader'.removed = {} /\ reader'.failed = {}
        /\ clock \in Nat \ {0} /\ now \in Nat \ {0} /\ clock <= now
    <3>1. clock \in Nat \ {0} /\ now \in Nat \ {0} /\ clock <= now
      BY <1>0, <2>1 DEF TypeOK
    <3> DEFINE b == now > clock
    <3>2. b \in BOOLEAN /\ reader' = [NoReader EXCEPT !.pc = "lock", !.age = now, !.readall = TRUE, !.fresh = b]
      BY <2>1
    <3> HIDE DEF b
    <3>3. NoReader \in ReaderRecord /\ NoReader.removed = {} /\ NoReader.failed = {}
      BY NoReaderType
    <3>4. /\ reader' \in ReaderRecord /\ reader'.pc = "lock" /\ reader'.age = now /\ reader'.readall
          /\ reader'.fresh = b /\ reader'.removed = {} /\ reader'.failed = {}
      BY <3>1, <3>2, <3>3 DEF ReaderRecord
    <3> QED
      BY <3>1, <3>4 DEF b
  <2>3. /\ handler = "hup" /\ handler' = "wait" /\ reading' = TRUE
        /\ UNCHANGED <<list, completed, ent, users, pend, tpend, notify, asked>>
    BY DEF HandleHup
  <2>4. TypeOK'
    BY <1>0, <2>1, <2>2, <2>3 DEF TypeOK
  <2>5. EntryLists' /\ OneReader' /\ UsersRun' /\ InUse'
    BY <2>1, <2>2, <2>3 DEF ReadInv, EntryInv, EntryLists, OneReader, UsersRun, InUse, Used
  <2>6. Ages'
    <3>1. \A e \in Entry : ent[e].age \in Nat /\ ent[e].age <= clock
      BY <1>0 DEF ReadInv, Ages, TypeOK, EntryRecord
    <3>2. \A e \in Entry : ent[e].age <= now
      BY <2>2, <3>1
    <3>3. now > clock => \A e \in Entry : ent[e].age < now
      BY <2>2, <3>1
    <3>4. ToSet(list) \subseteq Entry
      BY <1>0 DEF TypeOK, ToSet
    <3> QED
      BY <2>1, <2>2, <2>3, <3>2, <3>3, <3>4 DEF ReadInv, Ages
  <2>7. ParsedSoFar' /\ MountedSoFar'
    BY <2>2 DEF ParsedSoFar, MountedSoFar
  <2> QED
    BY <2>4, <2>5, <2>6, <2>7 DEF ReadInv, EntryInv
<1> QED
  BY <1>1, <1>2

LEMMA NotifyStep ==
    ASSUME ReadInv, NotifyStateChange
    PROVE  ReadInv'
<1>0. TypeOK
  BY DEF ReadInv, EntryInv
<1>1. /\ ent' = [e \in Entry |-> IF e \in ToSet(list) /\ ent[e].st = "ready"
                                 THEN [ent[e] EXCEPT !.tasks = @ \cup {"shutdown"}] ELSE ent[e]]
      /\ notify' = FALSE
      /\ UNCHANGED <<reader, list, completed, users, pend, tpend, handler, reading, clock, asked>>
  BY DEF NotifyStateChange
<1>2. \A e \in Entry : /\ ent'[e] \in EntryRecord
                      /\ ent'[e].path = ent[e].path /\ ent'[e].age = ent[e].age
                      /\ ent'[e].st = ent[e].st /\ ent'[e].maps = ent[e].maps
  <2> TAKE e \in Entry
  <2>1. ent[e] \in EntryRecord
    BY <1>0 DEF TypeOK
  <2>2. ent'[e] = ent[e] \/ ent'[e] = [ent[e] EXCEPT !.tasks = @ \cup {"shutdown"}]
    BY <1>1
  <2> QED
    BY <2>1, <2>2 DEF EntryRecord
<1>3. ent' \in [Entry -> EntryRecord]
  BY <1>1, <1>2
<1>4. TypeOK'
  BY <1>0, <1>1, <1>3 DEF TypeOK
<1>5. ToSet(list) \subseteq Entry
  BY <1>0 DEF TypeOK, ToSet
<1>6. EntryLists'
  BY <1>1, <1>2, <1>5 DEF ReadInv, EntryInv, EntryLists
<1>7. OneReader' /\ UsersRun' /\ InUse'
  BY <1>1, <1>2 DEF ReadInv, EntryInv, OneReader, UsersRun, InUse, Used
<1>8. Ages' /\ ParsedSoFar' /\ MountedSoFar'
  <2>1. \A f \in Entry : SameSources(ent'[f], ent[f])
    BY <1>2 DEF SameSources
  <2> QED
    BY <1>1, <1>2, <1>3, <1>5, <2>1, ReaderIdle
<1> QED
  BY <1>4, <1>6, <1>7, <1>8 DEF ReadInv, EntryInv

\* The entry of a mount point that ends goes to the other list, or it is ready
\* again; the master map is not being read.
LEMMA ExitStep ==
    ASSUME ReadInv, NEW e \in Entry, handle_mounts_exit(e)
    PROVE  ReadInv'
<1>0. TypeOK /\ EntryLists /\ ent[e] \in EntryRecord
  BY DEF ReadInv, EntryInv, TypeOK
<1>1. /\ ent[e].st = "shutdown" /\ ~Used(e) /\ reader.pc \notin {"lines", "failed", "mount"}
      /\ UNCHANGED <<reader, users, pend, handler, notify, reading, clock, asked>>
  BY DEF handle_mounts_exit, MutexFree
<1> DEFINE r(st) == [ent[e] EXCEPT !.st = st, !.tasks = {}]
<1>2. \/ /\ list' = RemoveFirst(list, e) /\ completed' = completed \cup {e}
         /\ tpend' \in BOOLEAN /\ ent' = [ent EXCEPT ![e] = r("gone")]
      \/ UNCHANGED <<list, completed, tpend>> /\ ent' = [ent EXCEPT ![e] = r("ready")]
  BY <1>0 DEF handle_mounts_exit, handle_mounts_cleanup, TypeOK
<1>3. \A st \in {"gone", "ready"} : /\ r(st) \in EntryRecord /\ r(st).path = ent[e].path /\ r(st).st = st
                                   /\ r(st).age = ent[e].age /\ r(st).maps = ent[e].maps
  BY <1>0 DEF EntryRecord
<1> HIDE DEF r
<1>4. PICK st \in {"gone", "ready"} :
        /\ ent' = [ent EXCEPT ![e] = r(st)]
        /\ st = "gone" => list' = RemoveFirst(list, e) /\ completed' = completed \cup {e} /\ tpend' \in BOOLEAN
        /\ st = "ready" => UNCHANGED <<list, completed, tpend>>
  BY <1>2
<1>5. /\ ent' \in [Entry -> EntryRecord] /\ \A f \in Entry \ {e} : ent'[f] = ent[f]
      /\ ent'[e].path = ent[e].path /\ ent'[e].st = st /\ ent'[e].age = ent[e].age /\ ent'[e].maps = ent[e].maps
  BY <1>0, <1>3, <1>4 DEF TypeOK
<1>6. \A f \in Entry : /\ ent'[f].path = ent[f].path /\ ent'[f].age = ent[f].age
                      /\ ent'[f].maps = ent[f].maps /\ (f # e => ent'[f].st = ent[f].st)
  BY <1>5
<1>7. /\ RemoveFirst(list, e) \in Seq(Entry) /\ IsInjective(RemoveFirst(list, e))
      /\ ToSet(RemoveFirst(list, e)) = ToSet(list) \ {e}
  BY <1>0, RemoveFirstFacts DEF TypeOK, EntryLists
<1>8. TypeOK'
  BY <1>0, <1>1, <1>4, <1>5, <1>7 DEF TypeOK
<1>9. ToSet(list) \subseteq Entry
  BY <1>0 DEF TypeOK, ToSet
<1>10. EntryLists'
  <2>1. e \in ToSet(list) /\ e \notin completed /\ ent[e].path # None
    BY <1>0, <1>1 DEF EntryLists
  <2>2. CASE st = "gone"
    <3>1. ToSet(list') = ToSet(list) \ {e} /\ completed' = completed \cup {e} /\ IsInjective(list')
      BY <1>4, <1>7, <2>2
    <3> QED
      BY <1>0, <1>5, <1>6, <1>9, <2>1, <2>2, <3>1 DEF EntryLists
  <2>3. CASE st = "ready"
    BY <1>0, <1>4, <1>5, <1>6, <1>9, <2>1, <2>3 DEF EntryLists
  <2> QED
    BY <2>2, <2>3
<1>11. OneReader'
  BY <1>1, <1>6 DEF ReadInv, EntryInv, OneReader
<1>12. UsersRun' /\ InUse'
  BY <1>1, <1>6 DEF ReadInv, EntryInv, UsersRun, InUse, Used
<1>13. Ages'
  <2>1. ToSet(list') \subseteq ToSet(list)
    BY <1>4, <1>7
  <2> QED
    BY <1>1, <1>6, <1>9, <2>1 DEF ReadInv, Ages
<1>14. ParsedSoFar' /\ MountedSoFar'
  BY <1>1 DEF ReadInv, ParsedSoFar, MountedSoFar
<1> QED
  BY <1>8, <1>10, <1>11, <1>12, <1>13, <1>14 DEF ReadInv, EntryInv

-----------------------------------------------------------------------------
(* The lines that count for a path. *)

LEMMA NoLines ==
    ASSUME NEW ls, NEW p
    PROVE  LinesFor(ls, 0, p) = {}
BY DEF LinesFor

\* Whether line i counts for a path.
Counts(ls, i, p) ==
    /\ ls[i].path = p /\ ls[i].map # NullMap
    /\ ~\E j \in 1..(i - 1) : ls[j] = [path |-> p, map |-> NullMap]

\* One line more.
LEMMA OneLineMore ==
    ASSUME NEW ls, NEW i \in Nat \ {0}, NEW p
    PROVE  LinesFor(ls, i, p) = LinesFor(ls, i - 1, p) \cup {j \in {i} : Counts(ls, i, p)}
<1>1. \A n : LinesFor(ls, n, p) = {j \in 1..n : Counts(ls, j, p)}
  BY DEF LinesFor, Counts
<1>2. 1..i = 1..(i - 1) \cup {i}
  OBVIOUS
<1> QED
  BY <1>1, <1>2

LEMMA LineSkipped ==
    ASSUME NEW ls, NEW i \in Nat \ {0}, NEW p, ~Counts(ls, i, p)
    PROVE  /\ LinesFor(ls, i, p) = LinesFor(ls, i - 1, p)
           /\ MapsFor(ls, i, p) = MapsFor(ls, i - 1, p)
<1>1. LinesFor(ls, i, p) = LinesFor(ls, i - 1, p)
  <2>1. {j \in {i} : Counts(ls, i, p)} = {}
    BY Zenon
  <2>2. LinesFor(ls, i, p) = LinesFor(ls, i - 1, p) \cup {j \in {i} : Counts(ls, i, p)}
    BY OneLineMore
  <2> QED
    BY <2>1, <2>2
<1> QED
  BY <1>1 DEF MapsFor

\* The first line that counts gives the path its map, others do for "/-" only.
LEMMA LineCounts ==
    ASSUME NEW ls, NEW i \in Nat \ {0}, NEW p, Counts(ls, i, p)
    PROVE  /\ LinesFor(ls, i, p) = LinesFor(ls, i - 1, p) \cup {i}
           /\ LinesFor(ls, i - 1, p) = {} => MapsFor(ls, i, p) = {ls[i].map}
           /\ LinesFor(ls, i - 1, p) # {} /\ p \notin Direct =>
                MapsFor(ls, i, p) = MapsFor(ls, i - 1, p)
           /\ p \in Direct => MapsFor(ls, i, p) = MapsFor(ls, i - 1, p) \cup {ls[i].map}
<1> DEFINE A == LinesFor(ls, i - 1, p)
           B == LinesFor(ls, i, p)
<1>1. B = A \cup {i}
  BY OneLineMore
<1>2. \A j \in A : j \in 1..(i - 1)
  BY DEF LinesFor
<1>3. /\ MapsFor(ls, i - 1, p) = {ls[j].map : j \in {k \in A : p \in Direct \/ \A m \in A : k <= m}}
      /\ MapsFor(ls, i, p) = {ls[j].map : j \in {k \in B : p \in Direct \/ \A m \in B : k <= m}}
  BY DEF MapsFor
<1> HIDE DEF A, B
<1>4. CASE p \in Direct
  <2>1. {k \in A : p \in Direct \/ \A m \in A : k <= m} = A
    BY <1>4
  <2>2. {k \in B : p \in Direct \/ \A m \in B : k <= m} = A \cup {i}
    BY <1>1, <1>4
  <2>3. MapsFor(ls, i - 1, p) = {ls[j].map : j \in A} /\ MapsFor(ls, i, p) = {ls[j].map : j \in A \cup {i}}
    BY <1>3, <2>1, <2>2
  <2> QED
    BY <1>1, <1>4, <2>3 DEF A, B
<1>5. CASE p \notin Direct
  <2>1. CASE A = {}
    <3>1. {k \in B : p \in Direct \/ \A m \in B : k <= m} = {i}
      BY <1>1, <1>5, <2>1
    <3> QED
      BY <1>1, <1>3, <1>5, <2>1, <3>1 DEF A, B
  <2>2. CASE A # {}
    <3>1. {k \in B : p \in Direct \/ \A m \in B : k <= m} = {k \in A : p \in Direct \/ \A m \in A : k <= m}
      <4>1. ASSUME NEW k \in B, \A m \in B : k <= m PROVE k \in A /\ \A m \in A : k <= m
        BY <1>1, <1>2, <2>2, <4>1
      <4>2. ASSUME NEW k \in A, \A m \in A : k <= m PROVE k \in B /\ \A m \in B : k <= m
        BY <1>1, <1>2, <4>2
      <4> QED
        BY <1>5, <4>1, <4>2
    <3> QED
      BY <1>1, <1>3, <1>5, <2>2, <3>1 DEF A, B
  <2> QED
    BY <2>1, <2>2
<1> QED
  BY <1>4, <1>5

\* Entries of a path for which a line does not count, or counts but is not the
\* first, keep what they have.
LEMMA StillAsTheLinesSay ==
    ASSUME NEW r, NEW ls, NEW i \in Nat \ {0}, AsTheLinesSay(r, ls, i - 1),
           Counts(ls, i, r.path) => r.path \notin Direct
    PROVE  AsTheLinesSay(r, ls, i)
<1>1. CASE Counts(ls, i, r.path)
  BY <1>1, LineCounts DEF AsTheLinesSay
<1>2. CASE ~Counts(ls, i, r.path)
  BY <1>2, LineSkipped DEF AsTheLinesSay
<1> QED
  BY <1>1, <1>2

\* An entry whose sources of this age all come from the first line that counts.
LEMMA FirstLine ==
    ASSUME NEW r, NEW ls, NEW i \in Nat \ {0}, Counts(ls, i, r.path),
           LinesFor(ls, i - 1, r.path) = {},
           \E j \in DOMAIN r.maps : r.maps[j].age = r.age /\ r.maps[j].src = ls[i].map,
           \A j \in DOMAIN r.maps : r.maps[j].age = r.age =>
               r.maps[j].src = ls[i].map /\ r.maps[j].line = i
    PROVE  AsTheLinesSay(r, ls, i)
<1>1. LinesFor(ls, i, r.path) = {i} /\ MapsFor(ls, i, r.path) = {ls[i].map}
  BY LineCounts
<1>2. CurrentMaps(r) = {ls[i].map}
  BY DEF CurrentMaps, Current
<1> QED
  BY <1>1, <1>2 DEF AsTheLinesSay, Current

\* An entry that gets the source of another line.
LEMMA AnotherLine ==
    ASSUME NEW q, NEW r, NEW ls, NEW i \in Nat \ {0}, Counts(ls, i, r.path), r.path \in Direct,
           AsTheLinesSay(r, ls, i - 1), q.path = r.path, q.age = r.age,
           \A j \in DOMAIN q.maps :
               \/ q.maps[j].src = ls[i].map /\ q.maps[j].age = r.age /\ q.maps[j].line = i
               \/ j \in DOMAIN r.maps /\ q.maps[j] = r.maps[j] /\ q.maps[j].src # ls[i].map,
           \E j \in DOMAIN q.maps : q.maps[j].src = ls[i].map,
           \A j \in DOMAIN r.maps : j \in DOMAIN q.maps /\ q.maps[j].src = r.maps[j].src
    PROVE  AsTheLinesSay(q, ls, i)
<1>1. /\ LinesFor(ls, i, r.path) = LinesFor(ls, i - 1, r.path) \cup {i}
      /\ MapsFor(ls, i, r.path) = MapsFor(ls, i - 1, r.path) \cup {ls[i].map}
  BY LineCounts
<1>2. CurrentMaps(q) = CurrentMaps(r) \cup {ls[i].map}
  <2>1. ASSUME NEW x \in CurrentMaps(q) PROVE x \in CurrentMaps(r) \cup {ls[i].map}
    BY DEF CurrentMaps, Current
  <2>2. ASSUME NEW x \in CurrentMaps(r) PROVE x \in CurrentMaps(q)
    BY DEF CurrentMaps, Current
  <2>3. ls[i].map \in CurrentMaps(q)
    BY DEF CurrentMaps, Current
  <2> QED
    BY <2>1, <2>2, <2>3
<1>3. \A j \in Current(q) : q.maps[j].line \in LinesFor(ls, i, r.path)
  BY <1>1 DEF AsTheLinesSay, Current
<1> QED
  BY <1>1, <1>2, <1>3 DEF AsTheLinesSay

-----------------------------------------------------------------------------
(* The thread that reads the map. *)

LEMMA ReadMasterStep ==
    ASSUME ReadInv, ReadMaster
    PROVE  ReadInv'
<1>0. TypeOK /\ OneReader
  BY DEF ReadInv, EntryInv
<1>1. /\ reader.pc = "lock"
      /\ UNCHANGED <<list, completed, ent, users, sigVars, reading, clock, asked>>
  BY DEF ReadMaster
<1>2a. PICK c \in Configuration :
        \E rs \in [DOMAIN c.nss -> UNION {read_master_map(s) : s \in ToSet(c.nss)}] :
          /\ \A i \in DOMAIN c.nss : rs[i] \in read_master_map(c.nss[i])
          /\ reader' = [reader EXCEPT !.pc = "lines", !.i = 1,
                          !.lines = lookup_nss_read_master(rs, c.lines).lines,
                          !.amd = c.amd, !.fail = lookup_nss_read_master(rs, c.lines).fail]
  BY Zenon DEF ReadMaster
<1>2. PICK rs \in [DOMAIN c.nss -> UNION {read_master_map(s) : s \in ToSet(c.nss)}] :
        /\ \A i \in DOMAIN c.nss : rs[i] \in read_master_map(c.nss[i])
        /\ reader' = [reader EXCEPT !.pc = "lines", !.i = 1,
                        !.lines = lookup_nss_read_master(rs, c.lines).lines,
                        !.amd = c.amd, !.fail = lookup_nss_read_master(rs, c.lines).fail]
  BY <1>2a, Zenon
<1> DEFINE ls == lookup_nss_read_master(rs, c.lines).lines
           fail == lookup_nss_read_master(rs, c.lines).fail
<1>3. ls \in Seq(Line) /\ fail \in BOOLEAN
  BY <1>2, ReadLinesType
<1>4. c.amd \in Source \cup {None}
  BY MasterAssumption
<1> HIDE DEF ls, fail
<1>5. reader' = [reader EXCEPT !.pc = "lines", !.i = 1, !.lines = ls, !.amd = c.amd, !.fail = fail]
  BY <1>2 DEF ls, fail
<1>6. /\ reader' \in ReaderRecord /\ reader'.pc = "lines" /\ reader'.i = 1 /\ reader'.lines = ls
      /\ reader'.age = reader.age /\ reader'.readall = reader.readall /\ reader'.fresh = reader.fresh
      /\ reader'.removed = reader.removed /\ reader'.failed = reader.failed
  BY <1>0, <1>3, <1>4, <1>5 DEF TypeOK, ReaderRecord
<1>7. TypeOK'
  BY <1>0, <1>1, <1>6 DEF TypeOK, sigVars
<1>8. EntryLists' /\ UsersRun' /\ InUse'
  BY <1>1 DEF ReadInv, EntryInv, EntryLists, UsersRun, InUse, Used
<1>9. OneReader'
  <2>1. 1 \in 1..(Len(ls) + 1)
    BY <1>3
  <2> QED
    BY <1>0, <1>1, <1>6, <2>1 DEF OneReader, sigVars
<1>10. Ages'
  BY <1>1, <1>6 DEF ReadInv, Ages
<1>11. ParsedSoFar'
  <2>1. Upto' = 0
    BY <1>6 DEF Upto
  <2>2. reader.fresh => \A e \in ToSet(list) : ent[e].age < reader.age
    BY <1>1 DEF ReadInv, Ages
  <2>3. ToSet(list) \subseteq Entry
    BY <1>0 DEF TypeOK, ToSet
  <2>4. \A e \in ToSet(list) : ent[e].age \in Nat
    BY <1>0, <2>3 DEF TypeOK, EntryRecord
  <2>5. reader.fresh => \A e \in ToSet(list) : ent[e].age # reader.age
    BY <1>0, <2>2, <2>4 DEF TypeOK, ReaderRecord
  <2>6. \A p : LinesFor(reader'.lines, Upto', p) = {}
    BY <2>1, NoLines
  <2> QED
    BY <1>1, <1>6, <2>5, <2>6 DEF ParsedSoFar
<1>12. MountedSoFar'
  BY <1>1, <1>6 DEF ReadInv, MountedSoFar
<1> QED
  BY <1>7, <1>8, <1>9, <1>10, <1>11, <1>12 DEF ReadInv, EntryInv

\* A new entry, for a path that has none.
LEMMA NewEntryFacts ==
    ASSUME ReadInv, reader.pc = "lines", NEW p \in Path, NEW map \in Source, NEW line \in Nat,
           AddMapent(p, map, line), ~\E e \in ToSet(list) : ent[e].path = p,
           UNCHANGED <<completed, users, clock>>
    PROVE  /\ EntryLists' /\ UsersRun' /\ InUse' /\ list' \in Seq(Entry)
           /\ ToSet(list') = ToSet(list) \cup {NewEntry} /\ NewEntry \notin ToSet(list)
           /\ \A f \in Entry : /\ ent'[f].age <= clock
                               /\ \A i \in DOMAIN ent'[f].maps : ent'[f].maps[i].age <= ent'[f].age
           /\ \A f \in Entry : ent[f].st = "init" => ent'[f].st = "init"
<1>0. TypeOK /\ EntryLists /\ OneReader
  BY DEF ReadInv, EntryInv
<1> DEFINE n == NewEntry
           r == ent'[n]
<1>1. /\ n \in Entry /\ ent[n].path = None
      /\ list' = Append(list, n) /\ ent' \in [Entry -> EntryRecord]
      /\ \A f \in Entry \ {n} : ent'[f] = ent[f]
      /\ r.path = p /\ r.age = reader.age /\ r.st = "init"
      /\ DOMAIN r.maps = {1} /\ r.maps[1].age = reader.age
  BY <1>0, AddMapentType
<1> HIDE DEF n, r
<1>2. n \notin ToSet(list) \cup completed /\ ent[n].st = "init" /\ users[n] = None
  BY <1>0, <1>1 DEF EntryLists, ReadInv, EntryInv, UsersRun, Used
<1>3. list' \in Seq(Entry) /\ ToSet(list') = ToSet(list) \cup {n} /\ IsInjective(list')
  BY <1>0, <1>1, <1>2, AppendFacts DEF TypeOK, EntryLists
<1>4. ToSet(list) \subseteq Entry /\ None \notin Path
  BY <1>0, MasterAssumption DEF TypeOK, ToSet
<1>5. EntryLists'
  <2>1. \A f \in ToSet(list) : ent'[f] = ent[f] /\ f # n
    BY <1>1, <1>2, <1>4
  <2>2. \A f, g \in ToSet(list') : ent'[f].path = ent'[g].path => f = g
    BY <1>0, <1>1, <1>3, <2>1 DEF EntryLists, r
  <2>3. \A f \in Entry : (ent'[f].path = None) = (f \notin ToSet(list') \cup completed)
    BY <1>0, <1>1, <1>2, <1>3, <1>4 DEF EntryLists, r
  <2>4. \A f \in Entry : /\ ent'[f].path = None => ent'[f].st = "init"
                        /\ (ent'[f].st = "gone") = (f \in completed)
    BY <1>0, <1>1, <1>2, <1>4 DEF EntryLists, r
  <2>5. ToSet(list') \cap completed = {}
    BY <1>0, <1>2, <1>3 DEF EntryLists
  <2> QED
    BY <1>3, <2>2, <2>3, <2>4, <2>5 DEF EntryLists
<1>6. UsersRun' /\ InUse'
  BY <1>1, <1>2 DEF ReadInv, EntryInv, UsersRun, InUse, Used
<1>7. \A f \in Entry : /\ ent'[f].age <= clock
                      /\ \A i \in DOMAIN ent'[f].maps : ent'[f].maps[i].age <= ent'[f].age
  <2>1. reader.age = clock /\ clock \in Nat
    BY <1>0 DEF OneReader, TypeOK
  <2>2. r.age <= clock /\ \A i \in DOMAIN r.maps : r.maps[i].age <= r.age
    BY <1>1, <2>1
  <2> QED
    BY <1>1, <2>2 DEF ReadInv, Ages, r
<1>8. \A f \in Entry : ent[f].st = "init" => ent'[f].st = "init"
  BY <1>1 DEF r
<1> QED
  BY <1>2, <1>3, <1>5, <1>6, <1>7, <1>8 DEF n

\* The parts of the invariant that are about an entry by itself.
LEMMA EntryUpdateFacts ==
    ASSUME ReadInv, NEW e \in ToSet(list), EntryUpdate(e), UNCHANGED <<completed, users, clock>>,
           \/ ent'[e].st = ent[e].st
           \/ ent[e].st = "init" /\ ent'[e].st = "ready",
           \/ ~Used(e) \/ ent'[e].maps = ent[e].maps \/ ent[e].path = AmdPath,
           ent'[e].age <= clock,
           \A i \in DOMAIN ent'[e].maps : ent'[e].maps[i].age <= ent'[e].age
    PROVE  /\ EntryLists' /\ UsersRun' /\ InUse' /\ list' \in Seq(Entry)
           /\ \A f \in Entry : /\ ent'[f].age <= clock
                               /\ \A i \in DOMAIN ent'[f].maps : ent'[f].maps[i].age <= ent'[f].age
<1>0. TypeOK /\ EntryLists
  BY DEF ReadInv, EntryInv
<1>1. ToSet(list) \subseteq Entry /\ e \in Entry
  BY <1>0 DEF TypeOK, ToSet
<1>2. /\ list' = list /\ \A f \in Entry \ {e} : ent'[f] = ent[f]
      /\ ent'[e].path = ent[e].path
  BY DEF EntryUpdate
<1>3. \A f \in Entry : /\ ent'[f].path = ent[f].path
                      /\ \/ ent'[f].st = ent[f].st
                         \/ f = e /\ ent[f].st = "init" /\ ent'[f].st = "ready"
  BY <1>2
<1>4. ent[e].path # None
  BY <1>0, <1>1 DEF EntryLists
<1>5. EntryLists'
  BY <1>0, <1>1, <1>2, <1>3, <1>4 DEF EntryLists
<1>6. UsersRun'
  BY <1>3 DEF ReadInv, EntryInv, UsersRun, Used
<1>7. InUse'
  BY <1>2 DEF ReadInv, EntryInv, InUse, Used
<1>8. \A f \in Entry : /\ ent'[f].age <= clock
                      /\ \A i \in DOMAIN ent'[f].maps : ent'[f].maps[i].age <= ent'[f].age
  BY <1>2 DEF ReadInv, Ages
<1> QED
  BY <1>0, <1>2, <1>5, <1>6, <1>7, <1>8 DEF TypeOK

LEMMA ParseLineStep ==
    ASSUME ReadInv, ParseLine
    PROVE  ReadInv'
<1>0. TypeOK /\ EntryLists /\ OneReader
  BY DEF ReadInv, EntryInv
<1> DEFINE i == reader.i
           ls == reader.lines
           l == ls[i]
<1>1. /\ reader.pc = "lines" /\ i \in 1..Len(ls) /\ i \in Nat \ {0} /\ master_parse_entry(i)
      /\ reader' = [reader EXCEPT !.i = i + 1]
      /\ UNCHANGED <<completed, users, sigVars, reading, clock, asked>>
  BY <1>0 DEF ParseLine, OneReader, TypeOK, ReaderRecord
<1>2. /\ reader' \in ReaderRecord /\ reader'.pc = "lines" /\ reader'.i = i + 1 /\ reader'.lines = ls
      /\ reader'.age = reader.age /\ reader'.readall = reader.readall /\ reader'.fresh = reader.fresh
      /\ reader'.removed = reader.removed /\ reader'.failed = reader.failed
  <2>1. i + 1 \in Nat /\ reader \in ReaderRecord
    BY <1>0, <1>1 DEF TypeOK
  <2> QED
    BY <1>1, <2>1 DEF ReaderRecord
<1>3. l \in Line /\ (Skips(l, i) \/ Adds(l, i) \/ \E e \in ToSet(list) : Updates(e, l, i))
  BY <1>0, <1>1, ParseCases
<1>4. l.path \in Path /\ (l.map \in Source => l.map # NullMap)
  BY <1>3, MasterAssumption DEF Line
<1>5. \A p : NullLine(i - 1, p) = 0 <=> ~\E j \in 1..(i - 1) : ls[j] = [path |-> p, map |-> NullMap]
  <2>1. i - 1 \in Nat
    BY <1>1
  <2> QED
    BY <2>1, NullLineFacts, Zenon
<1>6. ToSet(list) \subseteq Entry /\ \A e \in Entry : ent[e] \in EntryRecord
  BY <1>0 DEF TypeOK, ToSet
<1>7. /\ reader.failed = {} /\ reader.removed = {} /\ reader.age = clock /\ clock \in Nat
      /\ Upto = i - 1 /\ Upto' = i
  BY <1>0, <1>1, <1>2 DEF ReadInv, MountedSoFar, OneReader, TypeOK, Upto
<1>8. reader.fresh =>
        /\ \A p \in Path \ {AmdPath} : LinesFor(ls, i - 1, p) # {} =>
             \E e \in ToSet(list) : ent[e].path = p /\ ent[e].age = reader.age
        /\ \A e \in ToSet(list) : ent[e].path # AmdPath /\ ent[e].age = reader.age =>
             AsTheLinesSay(ent[e], ls, i - 1)
  BY <1>1, <1>7 DEF ReadInv, ParsedSoFar
<1> HIDE DEF i, ls, l
<1>9. ASSUME reader.fresh =>
               /\ \A p \in Path \ {AmdPath} : LinesFor(ls, i, p) # {} =>
                    \E e \in ToSet(list') : ent'[e].path = p /\ ent'[e].age = reader.age
               /\ \A e \in ToSet(list') : ent'[e].path # AmdPath /\ ent'[e].age = reader.age =>
                    AsTheLinesSay(ent'[e], ls, i),
             ent' \in [Entry -> EntryRecord], list' \in Seq(Entry),
             EntryLists', UsersRun', InUse',
             \A f \in Entry : /\ ent'[f].age <= clock
                             /\ \A j \in DOMAIN ent'[f].maps : ent'[f].maps[j].age <= ent'[f].age,
             \A f \in Entry : ent[f].st = "init" => ent'[f].st = "init"
      PROVE  ReadInv'
  <2>1. TypeOK'
    BY <1>0, <1>1, <1>2, <1>9 DEF TypeOK, sigVars
  <2>2. OneReader'
    <3>1. i + 1 \in 1..(Len(ls) + 1)
      BY <1>0, <1>1 DEF TypeOK, ReaderRecord, i, ls
    <3> QED
      BY <1>0, <1>1, <1>2, <1>9, <3>1 DEF OneReader, sigVars
  <2>3. Ages'
    BY <1>1, <1>2, <1>9 DEF Ages
  <2>4. ParsedSoFar'
    BY <1>2, <1>7, <1>9 DEF ParsedSoFar
  <2>5. MountedSoFar'
    BY <1>2, <1>7 DEF MountedSoFar
  <2> QED
    BY <1>9, <2>1, <2>2, <2>3, <2>4, <2>5 DEF ReadInv, EntryInv
<1>10. CASE Skips(l, i)
  <2>1. list' = list /\ ent' = ent
    BY <1>10 DEF Skips
  <2>2. EntryLists' /\ UsersRun' /\ InUse'
    BY <1>1, <2>1 DEF ReadInv, EntryInv, EntryLists, UsersRun, InUse, Used
  <2>3. \A p : Counts(ls, i, p) => /\ p = l.path /\ l.path \notin Direct
                                  /\ \E e \in ToSet(list) : ent[e].path = p /\ ent[e].age = reader.age
    <3> SUFFICES ASSUME NEW p, Counts(ls, i, p)
                 PROVE  /\ p = l.path /\ l.path \notin Direct
                        /\ \E e \in ToSet(list) : ent[e].path = p /\ ent[e].age = reader.age
      OBVIOUS
    <3>1. p = l.path /\ l.map # NullMap /\ NullLine(i - 1, p) = 0
      BY <1>5 DEF Counts, l
    <3> QED
      BY <1>10, <3>1 DEF Skips
  <2>4. ASSUME reader.fresh, NEW p \in Path \ {AmdPath}, LinesFor(ls, i, p) # {}
        PROVE  \E e \in ToSet(list) : ent[e].path = p /\ ent[e].age = reader.age
    <3>1. CASE Counts(ls, i, p)
      BY <2>3, <3>1
    <3>2. CASE ~Counts(ls, i, p)
      BY <1>1, <1>8, <2>4, <3>2, LineSkipped
    <3> QED
      BY <3>1, <3>2
  <2>5. ASSUME reader.fresh, NEW e \in ToSet(list), ent[e].path # AmdPath, ent[e].age = reader.age
        PROVE  AsTheLinesSay(ent[e], ls, i)
    <3>1. AsTheLinesSay(ent[e], ls, i - 1)
      BY <1>8, <2>5
    <3>2. Counts(ls, i, ent[e].path) => ent[e].path \notin Direct
      BY <2>3
    <3> QED
      BY <1>1, <3>1, <3>2, StillAsTheLinesSay
  <2>6. \A f \in Entry : /\ ent'[f].age <= clock
                        /\ \A j \in DOMAIN ent'[f].maps : ent'[f].maps[j].age <= ent'[f].age
    BY <2>1 DEF ReadInv, Ages
  <2>7. ent' \in [Entry -> EntryRecord] /\ list' \in Seq(Entry)
    BY <1>0, <2>1 DEF TypeOK
  <2>8. \A f \in Entry : ent[f].st = "init" => ent'[f].st = "init"
    BY <2>1
  <2>9. reader.fresh =>
               /\ \A p \in Path \ {AmdPath} : LinesFor(ls, i, p) # {} =>
                    \E e \in ToSet(list') : ent'[e].path = p /\ ent'[e].age = reader.age
               /\ \A e \in ToSet(list') : ent'[e].path # AmdPath /\ ent'[e].age = reader.age =>
                    AsTheLinesSay(ent'[e], ls, i)
    BY <2>1, <2>4, <2>5
  <2> QED
    BY <1>9, <2>2, <2>6, <2>7, <2>8, <2>9
<1>11. CASE Adds(l, i)
  <2> DEFINE n == NewEntry
             r == ent'[n]
  <2>0. /\ l.map \in Source /\ NullLine(i - 1, l.path) = 0
        /\ ~\E e \in ToSet(list) : ent[e].path = l.path
        /\ AddMapent(l.path, l.map, i)
    BY <1>11 DEF Adds
  <2>1. /\ n \in Entry
        /\ list' = Append(list, n) /\ ent' \in [Entry -> EntryRecord]
        /\ \A f \in Entry \ {n} : ent'[f] = ent[f]
        /\ r.path = l.path /\ r.age = reader.age
        /\ DOMAIN r.maps = {1} /\ r.maps[1].age = reader.age
        /\ r.maps[1].src = l.map /\ r.maps[1].line = i
    BY <1>0, <1>1, <1>4, <2>0, AddMapentType
  <2>2. /\ EntryLists' /\ UsersRun' /\ InUse' /\ list' \in Seq(Entry)
        /\ ToSet(list') = ToSet(list) \cup {n} /\ n \notin ToSet(list)
        /\ \A f \in Entry : /\ ent'[f].age <= clock
                            /\ \A j \in DOMAIN ent'[f].maps : ent'[f].maps[j].age <= ent'[f].age
        /\ \A f \in Entry : ent[f].st = "init" => ent'[f].st = "init"
    BY <1>1, <1>4, <2>0, NewEntryFacts
  <2> HIDE DEF n, r
  <2>3. Counts(ls, i, l.path) /\ \A p : Counts(ls, i, p) => p = l.path
    BY <1>4, <1>5, <2>0 DEF Counts, l
  <2>4. \A e \in ToSet(list) : e # n /\ e \in Entry /\ ent'[e] = ent[e] /\ ent[e].path # l.path
    BY <1>6, <2>0, <2>1, <2>2
  <2>5. ASSUME reader.fresh, NEW p \in Path \ {AmdPath}, LinesFor(ls, i, p) # {}
        PROVE  \E e \in ToSet(list') : ent'[e].path = p /\ ent'[e].age = reader.age
    <3>1. CASE p = l.path
      BY <2>1, <2>2, <3>1 DEF r
    <3>2. CASE p # l.path
      <4>1. LinesFor(ls, i - 1, p) # {}
        BY <1>1, <2>3, <2>5, <3>2, LineSkipped
      <4> QED
        BY <1>8, <2>2, <2>4, <2>5, <4>1
    <3> QED
      BY <3>1, <3>2
  <2>6. ASSUME reader.fresh, NEW e \in ToSet(list'), ent'[e].path # AmdPath, ent'[e].age = reader.age
        PROVE  AsTheLinesSay(ent'[e], ls, i)
    <3>1. CASE e = n
      <4>1. LinesFor(ls, i - 1, r.path) = {}
        BY <1>4, <1>8, <2>0, <2>1, <2>6, <3>1 DEF r
      <4>2. Counts(ls, i, r.path)
        BY <2>1, <2>3
      <4>3. AsTheLinesSay(r, ls, i)
        BY <1>1, <2>1, <4>1, <4>2, FirstLine DEF l
      <4> QED
        BY <3>1, <4>3 DEF r
    <3>2. CASE e # n
      <4>1. e \in ToSet(list) /\ ent'[e] = ent[e] /\ ~Counts(ls, i, ent[e].path)
        BY <2>2, <2>3, <2>4, <3>2
      <4>2. AsTheLinesSay(ent[e], ls, i - 1)
        BY <1>8, <2>6, <4>1
      <4> QED
        BY <1>1, <4>1, <4>2, StillAsTheLinesSay
    <3> QED
      BY <3>1, <3>2
  <2> QED
    BY <1>9, <2>1, <2>2, <2>5, <2>6
<1>12. ASSUME NEW e \in ToSet(list), Updates(e, l, i) PROVE ReadInv'
  <2> DEFINE r == ent[e]
             q == ent'[e]
  <2>0. /\ l.map \in Source /\ NullLine(i - 1, l.path) = 0
        /\ r.path = l.path /\ ~Used(e) /\ (r.age # reader.age \/ l.path \in Direct)
        /\ list' = list /\ ent' \in [Entry -> EntryRecord]
        /\ \A f \in Entry \ {e} : ent'[f] = ent[f]
        /\ q.path = r.path /\ q.st = r.st /\ q.age = reader.age
        /\ q.maps = master_add_map_source(r, l.map, reader.age, i)
    BY <1>12 DEF Updates
  <2>1. e \in Entry /\ r \in EntryRecord /\ reader.age \in Nat /\ i \in Nat
    BY <1>1, <1>6, <1>7
  <2>2. /\ \A j \in DOMAIN q.maps :
             \/ q.maps[j].src = l.map /\ q.maps[j].age = reader.age /\ q.maps[j].line = i
             \/ j \in DOMAIN r.maps /\ q.maps[j] = r.maps[j] /\ q.maps[j].src # l.map
        /\ \E j \in DOMAIN q.maps : q.maps[j].src = l.map
        /\ \A j \in DOMAIN r.maps : j \in DOMAIN q.maps /\ q.maps[j].src = r.maps[j].src
    <3> HIDE DEF q, r
    <3>1. AddsSource(q.maps, r, l.map, reader.age, i)
      BY <2>0, <2>1, AddSourceFacts
    <3> QED
      BY <3>1 DEF AddsSource
  <2>3. /\ r.age \in Nat /\ r.age <= reader.age
        /\ \A j \in DOMAIN r.maps : r.maps[j].age \in Nat /\ r.maps[j].age <= r.age
    <3>1. r.maps \in Seq(SourceRecord) /\ r.age \in Nat
      BY <2>1 DEF EntryRecord
    <3>2. \A j \in DOMAIN r.maps : r.maps[j] \in SourceRecord
      BY <3>1
    <3> QED
      BY <1>7, <2>1, <3>1, <3>2 DEF ReadInv, Ages, SourceRecord
  <2>4. q.age <= clock /\ \A j \in DOMAIN q.maps : q.maps[j].age <= q.age
    BY <1>7, <2>0, <2>1, <2>2, <2>3
  <2>5. /\ EntryLists' /\ UsersRun' /\ InUse' /\ list' \in Seq(Entry)
        /\ \A f \in Entry : /\ ent'[f].age <= clock
                            /\ \A j \in DOMAIN ent'[f].maps : ent'[f].maps[j].age <= ent'[f].age
    <3>1. EntryUpdate(e)
      BY <2>0 DEF EntryUpdate
    <3> QED
      BY <1>1, <2>0, <2>4, <3>1, EntryUpdateFacts
  <2> HIDE DEF r, q
  <2>6. Counts(ls, i, l.path) /\ \A p : Counts(ls, i, p) => p = l.path
    BY <1>4, <1>5, <2>0 DEF Counts, l
  <2>7. \A f \in ToSet(list) \ {e} : f \in Entry /\ ent'[f] = ent[f] /\ ent[f].path # l.path
    BY <1>0, <1>6, <2>0 DEF EntryLists, r
  <2>8. ASSUME reader.fresh, NEW p \in Path \ {AmdPath}, LinesFor(ls, i, p) # {}
        PROVE  \E f \in ToSet(list') : ent'[f].path = p /\ ent'[f].age = reader.age
    <3>1. CASE p = l.path
      BY <2>0, <3>1 DEF q
    <3>2. CASE p # l.path
      <4>1. LinesFor(ls, i - 1, p) # {}
        BY <1>1, <2>6, <2>8, <3>2, LineSkipped
      <4>2. PICK f \in ToSet(list) : ent[f].path = p /\ ent[f].age = reader.age
        BY <1>8, <2>8, <4>1
      <4>3. f # e
        BY <2>0, <3>2, <4>2 DEF r
      <4> QED
        BY <2>0, <2>7, <4>2, <4>3
    <3> QED
      BY <3>1, <3>2
  <2>9. ASSUME reader.fresh, NEW f \in ToSet(list'), ent'[f].path # AmdPath, ent'[f].age = reader.age
        PROVE  AsTheLinesSay(ent'[f], ls, i)
    <3>1. CASE f # e
      <4>1. f \in ToSet(list) /\ ent'[f] = ent[f] /\ ~Counts(ls, i, ent[f].path)
        BY <2>0, <2>6, <2>7, <3>1
      <4>2. AsTheLinesSay(ent[f], ls, i - 1)
        BY <1>8, <2>9, <4>1
      <4> QED
        BY <1>1, <4>1, <4>2, StillAsTheLinesSay
    <3>2. CASE f = e /\ r.age # reader.age
      <4>1. LinesFor(ls, i - 1, q.path) = {}
        <5>1. \A g \in ToSet(list) : ent[g].path = l.path => ent[g].age # reader.age
          BY <2>7, <3>2 DEF r
        <5> QED
          BY <1>4, <1>8, <2>0, <2>9, <3>2, <5>1 DEF q
      <4>2. Counts(ls, i, q.path)
        BY <2>0, <2>6
      <4>3. \A j \in DOMAIN q.maps : q.maps[j].age = q.age => q.maps[j].src = l.map /\ q.maps[j].line = i
        BY <2>0, <2>1, <2>2, <2>3, <3>2
      <4>4. \E j \in DOMAIN q.maps : q.maps[j].age = q.age /\ q.maps[j].src = l.map
        BY <2>0, <2>2
      <4>5. AsTheLinesSay(q, ls, i)
        BY <1>1, <4>1, <4>2, <4>3, <4>4, FirstLine DEF l
      <4> QED
        BY <3>2, <4>5 DEF q
    <3>3. CASE f = e /\ r.age = reader.age
      <4>1. r.path \in Direct /\ Counts(ls, i, r.path) /\ q.age = r.age /\ q.path = r.path
        BY <2>0, <2>6, <3>3
      <4>2. AsTheLinesSay(r, ls, i - 1)
        BY <1>8, <2>0, <2>9, <3>3 DEF r, q
      <4>3. /\ \A j \in DOMAIN q.maps :
                 \/ q.maps[j].src = ls[i].map /\ q.maps[j].age = r.age /\ q.maps[j].line = i
                 \/ j \in DOMAIN r.maps /\ q.maps[j] = r.maps[j] /\ q.maps[j].src # ls[i].map
            /\ \E j \in DOMAIN q.maps : q.maps[j].src = ls[i].map
            /\ \A j \in DOMAIN r.maps : j \in DOMAIN q.maps /\ q.maps[j].src = r.maps[j].src
        BY <2>2, <3>3 DEF l
      <4>4. AsTheLinesSay(q, ls, i)
        BY <1>1, <4>1, <4>2, <4>3, AnotherLine
      <4> QED
        BY <3>3, <4>4 DEF q
    <3> QED
      BY <3>1, <3>2, <3>3
  <2>10. \A f \in Entry : ent[f].st = "init" => ent'[f].st = "init"
    BY <2>0 DEF r, q
  <2> QED
    BY <1>9, <2>0, <2>5, <2>8, <2>9, <2>10
<1> QED
  BY <1>3, <1>10, <1>11, <1>12

\* What is left when the lines have been parsed: the entry of the amd mount
\* section is another one or has another source, the others are as they were.
LEMMA ParseAmdStep ==
    ASSUME ReadInv, ParseAmd
    PROVE  ReadInv'
<1>0. TypeOK /\ EntryLists /\ OneReader
  BY DEF ReadInv, EntryInv
<1> DEFINE ls == reader.lines
           pc == IF reader.fail /\ ~reader.readall THEN "failed" ELSE "mount"
<1>1. /\ reader.pc = "lines" /\ reader.i > Len(ls) /\ master_add_amd
      /\ reader' = [reader EXCEPT !.pc = pc, !.todo = list']
      /\ UNCHANGED <<completed, users, sigVars, reading, clock, asked>>
  BY DEF ParseAmd
<1>2. /\ reader.failed = {} /\ reader.removed = {} /\ reader.age = clock /\ clock \in Nat
      /\ reader.i = Len(ls) + 1 /\ Upto = Len(ls)
  <2>1. Len(ls) \in Nat
    BY <1>0 DEF TypeOK, ReaderRecord
  <2>2. reader.i \in 1..(Len(ls) + 1)
    BY <1>0, <1>1 DEF OneReader
  <2>3. reader.i = Len(ls) + 1
    BY <1>1, <2>1, <2>2
  <2>4. Upto = reader.i - 1
    BY <1>1 DEF Upto
  <2> QED
    BY <1>0, <1>1, <2>1, <2>3, <2>4 DEF ReadInv, MountedSoFar, OneReader, TypeOK
<1>3. ToSet(list) \subseteq Entry /\ \A e \in Entry : ent[e] \in EntryRecord
  BY <1>0 DEF TypeOK, ToSet
<1>4. /\ pc \in {"failed", "mount"} /\ (pc = "failed" => ~reader.readall)
  OBVIOUS
<1> HIDE DEF pc
<1>5. ASSUME ent' \in [Entry -> EntryRecord], list' \in Seq(Entry),
             EntryLists', UsersRun', InUse',
             \A f \in Entry : /\ ent'[f].age <= clock
                             /\ \A j \in DOMAIN ent'[f].maps : ent'[f].maps[j].age <= ent'[f].age,
             \A f \in Entry : ent[f].st = "init" => ent'[f].st = "init",
             \A f \in ToSet(list') : ent'[f].path # AmdPath => f \in ToSet(list) /\ ent'[f] = ent[f],
             \A f \in ToSet(list) : ent[f].path # AmdPath => f \in ToSet(list') /\ ent'[f] = ent[f]
      PROVE  ReadInv'
  <2>1. /\ reader' \in ReaderRecord /\ reader'.pc = pc /\ reader'.todo = list' /\ reader'.lines = ls
        /\ reader'.age = reader.age /\ reader'.readall = reader.readall /\ reader'.fresh = reader.fresh
        /\ reader'.removed = {} /\ reader'.failed = {}
    <3>1. reader \in ReaderRecord
      BY <1>0 DEF TypeOK
    <3> QED
      BY <1>1, <1>2, <1>4, <1>5, <3>1 DEF ReaderRecord
  <2>2. TypeOK'
    BY <1>0, <1>1, <1>5, <2>1 DEF TypeOK, sigVars
  <2>3. OneReader'
    BY <1>0, <1>1, <1>4, <1>5, <2>1 DEF OneReader, sigVars
  <2>4. Ages'
    BY <1>1, <1>4, <1>5, <2>1 DEF Ages
  <2>5. Upto' = Len(ls)
    BY <1>4, <2>1 DEF Upto
  <2>6. ParsedSoFar'
    <3>1. reader.fresh =>
            /\ \A p \in Path \ {AmdPath} : LinesFor(ls, Len(ls), p) # {} =>
                 \E e \in ToSet(list) : ent[e].path = p /\ ent[e].age = reader.age
            /\ \A e \in ToSet(list) : ent[e].path # AmdPath /\ ent[e].age = reader.age =>
                 AsTheLinesSay(ent[e], ls, Len(ls))
      BY <1>1, <1>2 DEF ReadInv, ParsedSoFar
    <3>2. reader.fresh => \A p \in Path \ {AmdPath} : LinesFor(ls, Len(ls), p) # {} =>
                 \E e \in ToSet(list') : ent'[e].path = p /\ ent'[e].age = reader.age
      BY <1>5, <3>1
    <3>3. reader.fresh => \A e \in ToSet(list') : ent'[e].path # AmdPath /\ ent'[e].age = reader.age =>
                 AsTheLinesSay(ent'[e], ls, Len(ls))
      BY <1>5, <3>1
    <3> QED
      BY <2>1, <2>5, <3>2, <3>3 DEF ParsedSoFar
  <2>7. MountedSoFar'
    <3>1. IsInjective(list')
      BY <1>5 DEF EntryLists
    <3> QED
      BY <1>4, <2>1, <3>1 DEF MountedSoFar
  <2> QED
    BY <1>5, <2>2, <2>3, <2>4, <2>6, <2>7 DEF ReadInv, EntryInv
<1>6. CASE UNCHANGED <<list, ent>>
  <2>1. EntryLists' /\ UsersRun' /\ InUse'
    BY <1>1, <1>6 DEF ReadInv, EntryInv, EntryLists, UsersRun, InUse, Used
  <2>2. \A f \in Entry : /\ ent'[f].age <= clock
                        /\ \A j \in DOMAIN ent'[f].maps : ent'[f].maps[j].age <= ent'[f].age
    BY <1>6 DEF ReadInv, Ages
  <2>3. ent' \in [Entry -> EntryRecord] /\ list' \in Seq(Entry)
    BY <1>0, <1>6 DEF TypeOK
  <2> QED
    BY <1>5, <1>6, <2>1, <2>2, <2>3
<1>7. CASE /\ reader.amd \in Source /\ ~\E e \in ToSet(list) : ent[e].path = AmdPath
           /\ AddMapent(AmdPath, reader.amd, 0)
  <2> DEFINE n == NewEntry
  <2>0. AmdPath \in Path /\ 0 \in Nat
    BY MasterAssumption
  <2>1. /\ n \in Entry /\ ent' \in [Entry -> EntryRecord]
        /\ \A f \in Entry \ {n} : ent'[f] = ent[f]
        /\ ent'[n].path = AmdPath
    BY <1>0, <1>7, <2>0, AddMapentType
  <2>2. /\ EntryLists' /\ UsersRun' /\ InUse' /\ list' \in Seq(Entry)
        /\ ToSet(list') = ToSet(list) \cup {n} /\ n \notin ToSet(list)
        /\ \A f \in Entry : /\ ent'[f].age <= clock
                            /\ \A j \in DOMAIN ent'[f].maps : ent'[f].maps[j].age <= ent'[f].age
        /\ \A f \in Entry : ent[f].st = "init" => ent'[f].st = "init"
    BY <1>1, <1>7, <2>0, NewEntryFacts
  <2> HIDE DEF n
  <2>3. \A f \in ToSet(list) : f \in Entry /\ f # n /\ ent'[f] = ent[f]
    BY <1>3, <2>1, <2>2
  <2>4. /\ \A f \in ToSet(list') : ent'[f].path # AmdPath => f \in ToSet(list) /\ ent'[f] = ent[f]
        /\ \A f \in ToSet(list) : ent[f].path # AmdPath => f \in ToSet(list') /\ ent'[f] = ent[f]
    BY <2>1, <2>2, <2>3
  <2> QED
    BY <1>5, <2>1, <2>2, <2>4
<1>8. ASSUME NEW e \in ToSet(list), UpdatesAmd(e) PROVE ReadInv'
  <2>1. /\ ent[e].path = AmdPath /\ EntryUpdate(e) /\ ent'[e].st = ent[e].st /\ ent'[e].age = reader.age
        /\ \A i \in DOMAIN ent'[e].maps :
             \/ ent'[e].maps[i].age = reader.age
             \/ \E j \in DOMAIN ent[e].maps : ent'[e].maps[i].age = ent[e].maps[j].age
    BY <1>8 DEF UpdatesAmd
  <2>2. /\ list' = list /\ ent' \in [Entry -> EntryRecord]
        /\ \A f \in Entry \ {e} : ent'[f] = ent[f]
        /\ ent'[e].path = ent[e].path /\ e \in Entry
    BY <1>3, <2>1 DEF EntryUpdate
  <2>3. \A j \in DOMAIN ent[e].maps : ent[e].maps[j].age <= reader.age
    <3>1. ent[e].maps \in Seq(SourceRecord) /\ ent[e].age \in Nat
      BY <1>3, <2>2 DEF EntryRecord
    <3>1a. \A j \in DOMAIN ent[e].maps : ent[e].maps[j] \in SourceRecord
      BY <3>1
    <3>2. \A j \in DOMAIN ent[e].maps : ent[e].maps[j].age \in Nat
      BY <3>1a DEF SourceRecord
    <3>3. ent[e].age <= clock /\ \A j \in DOMAIN ent[e].maps : ent[e].maps[j].age <= ent[e].age
      BY <2>2 DEF ReadInv, Ages
    <3> QED
      BY <1>2, <3>1, <3>2, <3>3
  <2>4. ent'[e].age <= clock /\ \A i \in DOMAIN ent'[e].maps : ent'[e].maps[i].age <= ent'[e].age
    BY <1>2, <2>1, <2>3
  <2>5. /\ EntryLists' /\ UsersRun' /\ InUse' /\ list' \in Seq(Entry)
        /\ \A f \in Entry : /\ ent'[f].age <= clock
                            /\ \A j \in DOMAIN ent'[f].maps : ent'[f].maps[j].age <= ent'[f].age
    BY <1>1, <2>1, <2>4, EntryUpdateFacts
  <2>6. \A f \in Entry : ent[f].st = "init" => ent'[f].st = "init"
    BY <2>1, <2>2
  <2>7. /\ \A f \in ToSet(list') : ent'[f].path # AmdPath => f \in ToSet(list) /\ ent'[f] = ent[f]
        /\ \A f \in ToSet(list) : ent[f].path # AmdPath => f \in ToSet(list') /\ ent'[f] = ent[f]
    BY <1>3, <2>1, <2>2
  <2> QED
    BY <1>5, <2>2, <2>5, <2>6, <2>7
<1> QED
  BY <1>0, <1>1, <1>6, <1>7, <1>8, AmdCases

\* Nothing runs when a failed read is tried again from an empty list.
LEMMA ReadFailedStep ==
    ASSUME ReadInv, ReadFailed
    PROVE  ReadInv'
<1>0. TypeOK /\ EntryLists /\ OneReader
  BY DEF ReadInv, EntryInv
<1>1. /\ reader.pc = "failed" /\ UNCHANGED <<completed, users, sigVars, reading, clock, asked>>
      /\ ~reader.readall /\ \A e \in Entry : ent[e].st = "init"
  BY <1>0 DEF ReadFailed, OneReader
<1>2. completed = {} /\ \A e \in Entry : ~Used(e)
  BY <1>0, <1>1 DEF EntryLists, TypeOK, ReadInv, EntryInv, UsersRun
<1>3. ToSet(list) \subseteq Entry
  BY <1>0 DEF TypeOK, ToSet
<1>4. CASE /\ list' = <<>>
           /\ ent' = [e \in Entry |-> IF e \in ToSet(list) THEN Freed ELSE ent[e]]
           /\ reader' = [NoReader EXCEPT !.pc = "lock", !.age = clock, !.again = TRUE]
  <2>1. /\ reader' \in ReaderRecord /\ reader'.pc = "lock" /\ reader'.age = clock
        /\ reader'.removed = {} /\ reader'.failed = {}
    BY <1>0, <1>4, NoReaderType DEF TypeOK, ReaderRecord
  <2>2. Freed.path = None /\ Freed.st = "init" /\ Freed.age = 0 /\ Freed.maps = <<>>
    BY DEF Freed
  <2>3. ent' \in [Entry -> EntryRecord] /\ list' \in Seq(Entry) /\ ToSet(list') = {} /\ IsInjective(list')
    <3>1. ent' \in [Entry -> EntryRecord]
      BY <1>0, <1>4, FreedType DEF TypeOK
    <3> QED
      BY <1>4, <3>1 DEF ToSet, IsInjective
  <2>4. \A e \in Entry : /\ ent'[e].path = None /\ ent'[e].st = "init"
                         /\ ent'[e] = Freed \/ ent'[e] = ent[e]
    BY <1>0, <1>1, <1>2, <1>4, <2>2 DEF EntryLists
  <2>5. TypeOK'
    BY <1>0, <1>1, <2>1, <2>3 DEF TypeOK, sigVars
  <2>6. EntryLists'
    <3>1. completed' = {} /\ ToSet(list') = {} /\ IsInjective(list')
      BY <1>1, <1>2, <2>3
    <3>2. \A e \in Entry : /\ (ent'[e].path = None) = (e \notin ToSet(list') \cup completed')
                          /\ (ent'[e].st = "gone") = (e \in completed')
      <4> TAKE e \in Entry
      <4>1. /\ ent'[e].path = None /\ e \notin ToSet(list') \cup completed'
            /\ ent'[e].st # "gone" /\ e \notin completed'
        BY <2>4, <3>1
      <4> QED
        BY <4>1
    <3>3. \A e \in Entry : ent'[e].st = "init"
      BY <2>4
    <3>4. ToSet(list') \cap completed' = {} /\ \A e, f \in ToSet(list') : ent'[e].path = ent'[f].path => e = f
      BY <3>1
    <3> QED
      BY <3>1, <3>2, <3>3, <3>4 DEF EntryLists
  <2>7. OneReader' /\ UsersRun' /\ InUse'
    BY <1>0, <1>1, <1>2, <2>1, <2>4 DEF OneReader, UsersRun, InUse, Used, sigVars
  <2>8. Ages'
    <3>1. clock \in Nat
      BY <1>0 DEF TypeOK
    <3>2. \A e \in Entry : /\ ent'[e].age <= clock
                          /\ \A i \in DOMAIN ent'[e].maps : ent'[e].maps[i].age <= ent'[e].age
      BY <2>2, <2>4, <3>1 DEF ReadInv, Ages
    <3> QED
      BY <1>1, <2>3, <3>2 DEF Ages
  <2>9. ParsedSoFar' /\ MountedSoFar'
    BY <2>1 DEF ParsedSoFar, MountedSoFar
  <2> QED
    BY <2>5, <2>6, <2>7, <2>8, <2>9 DEF ReadInv, EntryInv
<1>5. CASE reader' = [reader EXCEPT !.pc = "mount", !.readall = TRUE] /\ UNCHANGED <<list, ent>>
  <2>1. /\ reader' \in ReaderRecord /\ reader'.pc = "mount" /\ reader'.age = reader.age /\ reader'.readall
        /\ reader'.removed = reader.removed /\ reader'.failed = reader.failed
        /\ reader'.todo = reader.todo /\ reader'.lines = reader.lines /\ reader'.fresh = reader.fresh
    BY <1>0, <1>5 DEF TypeOK, ReaderRecord
  <2>2. TypeOK'
    BY <1>0, <1>1, <1>5, <2>1 DEF TypeOK, sigVars
  <2>3. EntryLists' /\ OneReader' /\ UsersRun' /\ InUse'
    BY <1>1, <1>5, <2>1 DEF ReadInv, EntryInv, EntryLists, OneReader, UsersRun, InUse, Used, sigVars
  <2>4. Ages'
    BY <1>1, <1>5, <2>1 DEF ReadInv, Ages
  <2>5. Upto' = Upto
    BY <1>1, <2>1 DEF Upto
  <2>6. ParsedSoFar'
    BY <1>1, <1>5, <2>1, <2>5 DEF ReadInv, ParsedSoFar
  <2>7. MountedSoFar'
    BY <1>1, <1>5, <2>1 DEF ReadInv, MountedSoFar
  <2> QED
    BY <2>2, <2>3, <2>4, <2>6, <2>7 DEF ReadInv, EntryInv
<1> QED
  BY <1>4, <1>5 DEF ReadFailed

LEMMA ReadEndStep ==
    ASSUME ReadInv, ReadEnd
    PROVE  ReadInv'
<1>0. TypeOK /\ OneReader
  BY DEF ReadInv, EntryInv
<1>1. /\ reader.pc = "mount" /\ reader' = NoReader /\ reading' = FALSE
      /\ UNCHANGED <<list, completed, ent, users, pend, tpend, notify, clock, asked>>
      /\ handler' \in {"wait", handler} /\ handler' # "start"
  BY DEF ReadEnd
<1>2. /\ NoReader \in ReaderRecord /\ NoReader.pc = "idle" /\ NoReader.removed = {} /\ NoReader.failed = {}
  BY NoReaderType
<1>3. TypeOK'
  BY <1>0, <1>1, <1>2 DEF TypeOK
<1>4. EntryLists' /\ OneReader' /\ UsersRun' /\ InUse'
  BY <1>1, <1>2 DEF ReadInv, EntryInv, EntryLists, OneReader, UsersRun, InUse, Used
<1>5. Ages' /\ ParsedSoFar' /\ MountedSoFar'
  BY <1>1, <1>2 DEF ReadInv, Ages, ParsedSoFar, MountedSoFar
<1> QED
  BY <1>3, <1>4, <1>5 DEF ReadInv, EntryInv

\* The lines say the same of an entry that has lost sources that are not current.
LEMMA KeptSay ==
    ASSUME NEW q \in EntryRecord, NEW r \in EntryRecord, q.path = r.path, q.age = r.age,
           {m \in ToSet(q.maps) : m.age = r.age} = {m \in ToSet(r.maps) : m.age = r.age}
    PROVE  \A ls, n : AsTheLinesSay(r, ls, n) => AsTheLinesSay(q, ls, n)
<1>1. ToSet(q.maps) = {q.maps[i] : i \in DOMAIN q.maps} /\ ToSet(r.maps) = {r.maps[i] : i \in DOMAIN r.maps}
  BY DEF ToSet
<1>2. ASSUME NEW i \in Current(q) PROVE \E j \in Current(r) : q.maps[i] = r.maps[j]
  <2>1. i \in DOMAIN q.maps /\ q.maps[i].age = r.age
    BY <1>2 DEF Current
  <2>2. q.maps[i] \in {m \in ToSet(q.maps) : m.age = r.age}
    BY <1>1, <2>1
  <2>3. q.maps[i] \in ToSet(r.maps)
    BY <2>2
  <2> QED
    BY <1>1, <2>1, <2>3 DEF Current
<1>3. ASSUME NEW i \in Current(r) PROVE \E j \in Current(q) : r.maps[i] = q.maps[j]
  <2>1. i \in DOMAIN r.maps /\ r.maps[i].age = r.age
    BY <1>3 DEF Current
  <2>2. r.maps[i] \in {m \in ToSet(r.maps) : m.age = r.age}
    BY <1>1, <2>1
  <2>3. r.maps[i] \in ToSet(q.maps)
    BY <2>2
  <2> QED
    BY <1>1, <2>1, <2>3 DEF Current
<1>4. CurrentMaps(q) = CurrentMaps(r)
  BY <1>2, <1>3 DEF CurrentMaps
<1> QED
  BY <1>2, <1>4 DEF AsTheLinesSay

\* An entry whose first source comes from a line that counts has no null entry
\* before it.
LEMMA NotNulled ==
    ASSUME ReadInv, reader.pc = "mount", reader.fresh, NEW e \in ToSet(list),
           ent[e].path # AmdPath, ~(ent[e].age < reader.age), ~FirstOld(ent[e])
    PROVE  ~NulledFirst(e)
<1> DEFINE r == ent[e]
           ls == reader.lines
           n == NullLine(Len(ls), r.path)
<1>0. TypeOK /\ OneReader
  BY DEF ReadInv, EntryInv
<1>1. e \in Entry /\ r \in EntryRecord /\ ls \in Seq(Line) /\ Len(ls) \in Nat /\ reader.age \in Nat
  BY <1>0 DEF TypeOK, ToSet, ReaderRecord
<1>2. r.age = reader.age
  <2>1. r.age \in Nat /\ r.age <= clock /\ reader.age = clock
    BY <1>0, <1>1 DEF ReadInv, Ages, OneReader, EntryRecord
  <2> QED
    BY <1>1, <2>1
<1>3. 1 \in Current(r) /\ r.maps[1] \in SourceRecord
  <2>1. r.maps \in Seq(SourceRecord) /\ r.maps # <<>> /\ r.age \in Nat
    BY <1>1 DEF FirstOld, EntryRecord
  <2>2. 1 \in DOMAIN r.maps /\ r.maps[1] \in SourceRecord
    BY <2>1
  <2>3. r.maps[1].age <= r.age /\ ~(r.maps[1].age < r.age) /\ r.maps[1].age \in Nat
    BY <1>1, <2>2 DEF FirstOld, ReadInv, Ages, SourceRecord
  <2>4. r.maps[1].age = r.age
    BY <2>1, <2>3
  <2> QED
    BY <2>2, <2>4 DEF Current
<1>4. AsTheLinesSay(r, ls, Len(ls))
  <2>1. Upto = Len(ls)
    BY DEF Upto
  <2> QED
    BY <1>2, <2>1 DEF ReadInv, ParsedSoFar
<1>5. r.maps[1].line \in LinesFor(ls, Len(ls), r.path)
  BY <1>3, <1>4 DEF AsTheLinesSay
<1>6. SUFFICES ASSUME n # 0, r.maps[1].line >= n PROVE FALSE
  BY DEF NulledFirst
<1>7. n \in 1..Len(ls) /\ ls[n] = [path |-> r.path, map |-> NullMap]
  BY <1>1, <1>6, NullLineFacts
<1> HIDE DEF n, r, ls
<1>8. /\ r.maps[1].line \in 1..Len(ls) /\ ls[r.maps[1].line].map # NullMap
      /\ ~\E j \in 1..(r.maps[1].line - 1) : ls[j] = [path |-> r.path, map |-> NullMap]
  BY <1>5 DEF LinesFor
<1>9. ls[n].map = NullMap
  BY <1>7
<1>10. n # r.maps[1].line
  BY <1>8, <1>9
<1> DEFINE k == r.maps[1].line
<1>11. k \in 1..Len(ls) /\ k >= n /\ n # k
  BY <1>6, <1>8, <1>10
<1>12. n \in 1..(k - 1)
  <2> HIDE DEF k
  <2> QED
    BY <1>1, <1>7, <1>11
<1> QED
  BY <1>7, <1>8, <1>12

\* master_mount_mounts() does one entry: tells it to shut down, looks at its
\* sources or starts it.
MountsEntry(e) == TellsShutdown(e) \/ ChecksSources(e) \/ Starts(e)

LEMMA MountsEntryFacts ==
    ASSUME ReadInv, NEW e \in ToSet(list), MountsEntry(e), UNCHANGED <<completed, users, clock>>
    PROVE  /\ EntryUpdate(e) /\ ent'[e].age = ent[e].age
           /\ EntryLists' /\ UsersRun' /\ InUse' /\ list' \in Seq(Entry)
           /\ \A f \in Entry : /\ ent'[f].age <= clock
                               /\ \A i \in DOMAIN ent'[f].maps : ent'[f].maps[i].age <= ent'[f].age
           /\ \A ls, n : AsTheLinesSay(ent[e], ls, n) => AsTheLinesSay(ent'[e], ls, n)
<1>0. TypeOK /\ EntryLists
  BY DEF ReadInv, EntryInv
<1> DEFINE r == ent[e]
           q == ent'[e]
<1>1. e \in Entry /\ r \in EntryRecord
  BY <1>0 DEF TypeOK, ToSet
<1>2. EntryUpdate(e) /\ q.age = r.age /\ q.path = r.path /\ q \in EntryRecord
  BY <1>1 DEF MountsEntry, TellsShutdown, ChecksSources, Starts, EntryUpdate
<1>3. \/ q.st = r.st
      \/ r.st = "init" /\ q.st = "ready"
  BY DEF MountsEntry, TellsShutdown, ChecksSources, Starts
<1>4. q.maps = r.maps \/ (~Used(e) /\ q.maps = KeptSources(r))
  BY DEF MountsEntry, TellsShutdown, ChecksSources, Starts
<1>5. /\ r.age \in Nat /\ r.age <= clock /\ r.maps \in Seq(SourceRecord) /\ q.maps \in Seq(SourceRecord)
      /\ \A i \in DOMAIN r.maps : r.maps[i].age <= r.age
  BY <1>1, <1>2 DEF ReadInv, Ages, EntryRecord
<1>6. \A m \in ToSet(r.maps) : m \in SourceRecord /\ m.age <= r.age
  BY <1>5 DEF ToSet
<1>7. /\ \A m \in ToSet(q.maps) : m \in ToSet(r.maps)
      /\ \A m \in ToSet(r.maps) : m.age = r.age => m \in ToSet(q.maps)
  <2>1. CASE q.maps = r.maps
    BY <2>1
  <2>2. CASE q.maps = KeptSources(r)
    <3>1. ToSet(q.maps) = {m \in ToSet(r.maps) : m.age >= r.age \/ m.keys}
      BY <1>1, <2>2, KeptFacts
    <3>2. \A m \in ToSet(r.maps) : m.age = r.age => m.age >= r.age
      BY <1>5
    <3> QED
      BY <3>1, <3>2
  <2> QED
    BY <1>4, <2>1, <2>2
<1>8. {m \in ToSet(q.maps) : m.age = r.age} = {m \in ToSet(r.maps) : m.age = r.age}
  BY <1>7
<1>9. \A ls, n : AsTheLinesSay(r, ls, n) => AsTheLinesSay(q, ls, n)
  <2> HIDE DEF q, r
  <2> QED
    BY <1>1, <1>2, <1>8, KeptSay
<1>10. \A i \in DOMAIN q.maps : q.maps[i].age <= q.age
  <2> TAKE i \in DOMAIN q.maps
  <2>1. q.maps[i] \in ToSet(q.maps)
    BY DEF ToSet
  <2> QED
    BY <1>2, <1>6, <1>7, <2>1
<1>11. /\ EntryLists' /\ UsersRun' /\ InUse' /\ list' \in Seq(Entry)
       /\ \A f \in Entry : /\ ent'[f].age <= clock
                           /\ \A i \in DOMAIN ent'[f].maps : ent'[f].maps[i].age <= ent'[f].age
  BY <1>2, <1>3, <1>4, <1>5, <1>10, EntryUpdateFacts
<1> QED
  BY <1>2, <1>9, <1>11

LEMMA MountStep ==
    ASSUME ReadInv, master_mount_mounts
    PROVE  ReadInv'
<1>0. TypeOK /\ EntryLists /\ OneReader
  BY DEF ReadInv, EntryInv
<1> DEFINE e == Head(reader.todo)
           Rem == {x \in {e} : Removed(x)}
           Fail == {ent[x].path : x \in {e} \ ToSet(list')}
<1>1. PICK fails \in BOOLEAN :
        /\ master_mount_mount(e, fails)
        /\ reader' = [reader EXCEPT !.todo = Tail(@), !.removed = @ \cup Rem, !.failed = @ \cup Fail]
  BY DEF master_mount_mounts
<1>2. /\ reader.pc = "mount" /\ reader.todo # <<>> /\ reader \in ReaderRecord
      /\ UNCHANGED <<completed, users, sigVars, reading, clock, asked>>
  BY <1>0 DEF master_mount_mounts, TypeOK
<1>3. /\ IsInjective(reader.todo) /\ ToSet(reader.todo) \subseteq ToSet(list)
      /\ \A f \in ToSet(list) : ent[f].path \notin reader.failed
      /\ \A f \in ToSet(list) \ ToSet(reader.todo) :
           IF ent[f].age < reader.age THEN f \in reader.removed ELSE ent[f].st # "init"
      /\ \A f \in ToSet(list) \cap reader.removed :
           /\ f \notin ToSet(reader.todo)
           /\ reader.fresh => ent[f].age < reader.age \/ FirstOld(ent[f]) \/ ent[f].path = AmdPath
  BY <1>2 DEF ReadInv, MountedSoFar
<1>4. reader.todo \in Seq(Entry) /\ reader.removed \subseteq Entry /\ reader.failed \subseteq Path \cup {None}
  BY <1>2 DEF ReaderRecord
<1> DEFINE todo == Tail(reader.todo)
<1>5. /\ e \in Entry /\ todo \in Seq(Entry) /\ e \in ToSet(reader.todo)
      /\ ToSet(reader.todo) = {e} \cup ToSet(todo)
      /\ IsInjective(todo) /\ e \notin ToSet(todo)
  BY <1>2, <1>3, <1>4, TailFacts
<1> HIDE DEF e, todo
<1>6. e \in ToSet(list) /\ e \notin reader.removed /\ ToSet(list) \subseteq Entry /\ ent[e] \in EntryRecord
  <2>1. ToSet(list) \subseteq Entry /\ ent \in [Entry -> EntryRecord]
    BY <1>0 DEF TypeOK, ToSet
  <2>2. e \in ToSet(list) /\ e \notin reader.removed
    BY <1>3, <1>5
  <2> QED
    BY <1>5, <2>1, <2>2
<1>7. Rem \subseteq Entry /\ Fail \subseteq Path \cup {None}
  BY <1>5, <1>6 DEF EntryRecord
<1> HIDE DEF Rem, Fail
<1>8. /\ reader' \in ReaderRecord /\ reader'.pc = "mount" /\ reader'.todo = todo
      /\ reader'.lines = reader.lines /\ reader'.age = reader.age /\ reader'.fresh = reader.fresh
      /\ reader'.readall = reader.readall
      /\ reader'.removed = reader.removed \cup Rem /\ reader'.failed = reader.failed \cup Fail
  <2>1. reader' = [reader EXCEPT !.todo = todo, !.removed = reader.removed \cup Rem,
                                 !.failed = reader.failed \cup Fail]
    BY <1>1, <1>2 DEF todo, ReaderRecord
  <2>2. reader.removed \cup Rem \in SUBSET Entry /\ reader.failed \cup Fail \in SUBSET (Path \cup {None})
    BY <1>4, <1>7
  <2> QED
    BY <1>2, <1>5, <2>1, <2>2 DEF ReaderRecord
<1>9. Upto' = Len(reader.lines) /\ Upto = Len(reader.lines)
  BY <1>2, <1>8 DEF Upto
<1>10. reader.fresh =>
        /\ \A p \in Path \ ({AmdPath} \cup reader.failed) : LinesFor(reader.lines, Len(reader.lines), p) # {} =>
             \E f \in ToSet(list) : ent[f].path = p /\ ent[f].age = reader.age
        /\ \A f \in ToSet(list) : ent[f].path # AmdPath /\ ent[f].age = reader.age =>
             AsTheLinesSay(ent[f], reader.lines, Len(reader.lines))
  BY <1>2, <1>9 DEF ReadInv, ParsedSoFar
<1>11. /\ Rem = IF Removed(e) THEN {e} ELSE {}
       /\ e \in ToSet(list') => Fail = {}
       /\ e \notin ToSet(list') => Fail = {ent[e].path}
  BY DEF Rem, Fail
<1>12. ASSUME ent' \in [Entry -> EntryRecord], list' \in Seq(Entry),
              EntryLists', UsersRun', InUse',
              \A f \in Entry : /\ ent'[f].age <= clock
                              /\ \A i \in DOMAIN ent'[f].maps : ent'[f].maps[i].age <= ent'[f].age,
              ParsedSoFar', MountedSoFar'
       PROVE  ReadInv'
  <2>1. TypeOK'
    BY <1>0, <1>2, <1>8, <1>12 DEF TypeOK, sigVars
  <2>2. OneReader' /\ Ages'
    BY <1>0, <1>2, <1>8, <1>12 DEF OneReader, Ages, sigVars
  <2> QED
    BY <1>12, <2>1, <2>2 DEF ReadInv, EntryInv
<1>13. CASE MountsEntry(e)
  <2>1. /\ EntryUpdate(e) /\ ent'[e].age = ent[e].age
        /\ EntryLists' /\ UsersRun' /\ InUse' /\ list' \in Seq(Entry)
        /\ \A f \in Entry : /\ ent'[f].age <= clock
                            /\ \A i \in DOMAIN ent'[f].maps : ent'[f].maps[i].age <= ent'[f].age
        /\ \A ls, n : AsTheLinesSay(ent[e], ls, n) => AsTheLinesSay(ent'[e], ls, n)
    BY <1>2, <1>6, <1>13, MountsEntryFacts
  <2>2. /\ list' = list /\ ent' \in [Entry -> EntryRecord] /\ ent'[e].path = ent[e].path
        /\ \A f \in Entry \ {e} : ent'[f] = ent[f]
    BY <2>1 DEF EntryUpdate
  <2>3. reader'.failed = reader.failed
    BY <1>6, <1>8, <1>11, <2>2
  <2>4. \A f \in ToSet(list) : ent'[f].path = ent[f].path /\ ent'[f].age = ent[f].age
    BY <1>6, <2>1, <2>2
  <2>5. ParsedSoFar'
    <3>1. ASSUME reader.fresh, NEW f \in ToSet(list), ent'[f].path # AmdPath, ent'[f].age = reader.age
          PROVE  AsTheLinesSay(ent'[f], reader.lines, Len(reader.lines))
      <4>1. AsTheLinesSay(ent[f], reader.lines, Len(reader.lines))
        BY <1>10, <2>4, <3>1
      <4>2. CASE f = e
        BY <2>1, <4>1, <4>2
      <4>3. CASE f # e
        BY <1>6, <2>2, <4>1, <4>3
      <4> QED
        BY <4>2, <4>3
    <3>2. reader.fresh => \A p \in Path \ ({AmdPath} \cup reader.failed) :
            LinesFor(reader.lines, Len(reader.lines), p) # {} =>
             \E f \in ToSet(list) : ent'[f].path = p /\ ent'[f].age = reader.age
      BY <1>10, <2>4
    <3> QED
      BY <1>8, <1>9, <2>2, <2>3, <3>1, <3>2 DEF ParsedSoFar
  <2>6. ASSUME NEW f \in ToSet(list) \ ToSet(todo)
        PROVE  IF ent'[f].age < reader.age THEN f \in reader'.removed ELSE ent'[f].st # "init"
    <3>1. CASE f # e
      <4>1. f \in ToSet(list) \ ToSet(reader.todo) /\ ent'[f] = ent[f]
        BY <1>5, <1>6, <2>2, <3>1
      <4> QED
        BY <1>3, <1>8, <4>1
    <3>2. CASE f = e /\ ent[e].age < reader.age
      <4>1. Removed(e)
        BY <3>2 DEF Removed, Gone
      <4> QED
        BY <1>8, <1>11, <2>4, <3>2, <4>1
    <3>3. CASE f = e /\ ~(ent[e].age < reader.age)
      <4>1. Removed(e) => ent[e].st # "init"
        BY <3>3 DEF Removed, Gone
      <4>2. ent'[e].st # "init"
        BY <1>13, <4>1 DEF MountsEntry, TellsShutdown, ChecksSources, Starts
      <4> QED
        BY <2>4, <3>3, <4>2
    <3> QED
      BY <3>1, <3>2, <3>3
  <2>7. ASSUME NEW f \in ToSet(list) \cap reader'.removed
        PROVE  /\ f \notin ToSet(todo)
               /\ reader.fresh => ent'[f].age < reader.age \/ FirstOld(ent'[f]) \/ ent'[f].path = AmdPath
    <3>1. CASE f # e
      <4>1. f \in ToSet(list) \cap reader.removed /\ ent'[f] = ent[f]
        BY <1>6, <1>8, <1>11, <2>2, <3>1
      <4> QED
        BY <1>3, <1>5, <4>1
    <3>2. CASE f = e
      <4>1. Removed(e)
        BY <1>6, <1>8, <1>11, <3>2
      <4>2. ent'[e].maps = ent[e].maps
        BY <1>13, <4>1 DEF MountsEntry, TellsShutdown, ChecksSources, Starts
      <4>3. FirstOld(ent[e]) => FirstOld(ent'[e])
        BY <2>1, <4>2 DEF FirstOld
      <4>4. reader.fresh => ent[e].age < reader.age \/ FirstOld(ent[e]) \/ ent[e].path = AmdPath
        BY <1>2, <1>6, <4>1, NotNulled DEF Removed, Gone
      <4> QED
        BY <1>5, <2>1, <2>2, <3>2, <4>3, <4>4
    <3> QED
      BY <3>1, <3>2
  <2>8. MountedSoFar'
    <3>1. \A f \in ToSet(list) : ent'[f].path \notin reader'.failed
      BY <1>3, <2>3, <2>4
    <3> QED
      BY <1>3, <1>5, <1>8, <2>2, <2>6, <2>7, <3>1 DEF MountedSoFar
  <2> QED
    BY <1>12, <2>1, <2>2, <2>5, <2>8
<1>14. CASE ~Removed(e) /\ ent[e].st = "init" /\ Drop(e)
  <2>1. list' = RemoveFirst(list, e) /\ ent' = [ent EXCEPT ![e] = Freed]
    BY <1>14 DEF Drop
  <2>2. list' \in Seq(Entry) /\ IsInjective(list') /\ ToSet(list') = ToSet(list) \ {e}
    BY <1>0, <2>1, RemoveFirstFacts DEF TypeOK, EntryLists
  <2>3. ent' \in [Entry -> EntryRecord] /\ ent'[e] = Freed /\ \A f \in Entry \ {e} : ent'[f] = ent[f]
    BY <1>0, <1>5, <2>1, FreedType DEF TypeOK
  <2>4. Freed.path = None /\ Freed.st = "init" /\ Freed.age = 0 /\ Freed.maps = <<>>
    BY DEF Freed
  <2>5. reader'.removed = reader.removed /\ reader'.failed = reader.failed \cup {ent[e].path}
    BY <1>8, <1>11, <1>14, <2>2
  <2>6. \A f \in ToSet(list') : f \in ToSet(list) /\ f # e /\ ent'[f] = ent[f]
    BY <1>6, <2>2, <2>3
  <2>7. users[e] = None /\ e \notin completed
    BY <1>0, <1>5, <1>6, <1>14 DEF ReadInv, EntryInv, UsersRun, Used, EntryLists
  <2>8. EntryLists'
    <3>1. \A f \in Entry : (ent'[f].path = None) = (f \notin ToSet(list') \cup completed)
      BY <1>0, <2>2, <2>3, <2>4, <2>7 DEF EntryLists
    <3>2. \A f \in Entry : /\ ent'[f].path = None => ent'[f].st = "init"
                          /\ (ent'[f].st = "gone") = (f \in completed)
      BY <1>0, <2>3, <2>4, <2>7 DEF EntryLists
    <3>3. \A f, g \in ToSet(list') : ent'[f].path = ent'[g].path => f = g
      BY <1>0, <2>6 DEF EntryLists
    <3>4. ToSet(list') \cap completed = {}
      BY <1>0, <2>2 DEF EntryLists
    <3> QED
      BY <1>2, <2>2, <3>1, <3>2, <3>3, <3>4 DEF EntryLists
  <2>9. UsersRun' /\ InUse'
    BY <1>2, <2>3, <2>7 DEF ReadInv, EntryInv, UsersRun, InUse, Used
  <2>10. \A f \in Entry : /\ ent'[f].age <= clock
                         /\ \A i \in DOMAIN ent'[f].maps : ent'[f].maps[i].age <= ent'[f].age
    <3>1. clock \in Nat
      BY <1>0 DEF TypeOK
    <3> QED
      BY <2>3, <2>4, <3>1 DEF ReadInv, Ages
  <2>11. ParsedSoFar'
    <3>1. ASSUME reader.fresh, NEW p \in Path \ ({AmdPath} \cup reader'.failed),
                 LinesFor(reader.lines, Len(reader.lines), p) # {}
          PROVE  \E f \in ToSet(list') : ent'[f].path = p /\ ent'[f].age = reader.age
      <4>1. PICK f \in ToSet(list) : ent[f].path = p /\ ent[f].age = reader.age
        BY <1>10, <2>5, <3>1
      <4>2. f # e
        BY <2>5, <4>1
      <4> QED
        BY <2>2, <2>6, <4>1, <4>2
    <3>2. reader.fresh => \A f \in ToSet(list') : ent'[f].path # AmdPath /\ ent'[f].age = reader.age =>
            AsTheLinesSay(ent'[f], reader.lines, Len(reader.lines))
      BY <1>10, <2>6
    <3> QED
      BY <1>8, <1>9, <3>1, <3>2 DEF ParsedSoFar
  <2>12. MountedSoFar'
    <3>1. ToSet(todo) \subseteq ToSet(list')
      BY <1>3, <1>5, <2>2
    <3>2. \A f \in ToSet(list') \ ToSet(todo) : f \in ToSet(list) \ ToSet(reader.todo) /\ ent'[f] = ent[f]
      BY <1>5, <2>6
    <3>3. \A f \in ToSet(list') \cap reader'.removed :
            f \in ToSet(list) \cap reader.removed /\ ent'[f] = ent[f] /\ f \notin ToSet(todo)
      BY <1>3, <1>5, <2>5, <2>6
    <3>4. \A f \in ToSet(list') \ ToSet(todo) :
            IF ent'[f].age < reader.age THEN f \in reader'.removed ELSE ent'[f].st # "init"
      BY <1>3, <2>5, <3>2
    <3>5. \A f \in ToSet(list') \cap reader'.removed :
            /\ f \notin ToSet(todo)
            /\ reader.fresh => ent'[f].age < reader.age \/ FirstOld(ent'[f]) \/ ent'[f].path = AmdPath
      BY <1>3, <3>3
    <3>6. \A f \in ToSet(list') : ent'[f].path \notin reader'.failed
      BY <1>0, <1>3, <1>6, <2>5, <2>6 DEF EntryLists
    <3> QED
      BY <1>5, <1>8, <3>1, <3>4, <3>5, <3>6 DEF MountedSoFar
  <2> QED
    BY <1>12, <2>2, <2>3, <2>8, <2>9, <2>10, <2>11, <2>12
<1> QED
  BY <1>0, <1>1, <1>5, <1>13, <1>14, MountCases DEF MountsEntry

-----------------------------------------------------------------------------
(* The theorems. *)

LEMMA SignalInit == Init => SignalInv
BY DEF Init, SignalInv, Signalled, NotTakenForTerm

LEMMA ReadInit == Init => ReadInv
<1> SUFFICES ASSUME Init PROVE ReadInv
  OBVIOUS
<1>1. /\ clock = 1 /\ reader = [NoReader EXCEPT !.pc = "lock", !.age = clock]
      /\ list = <<>> /\ completed = {}
      /\ ent = [e \in Entry |-> Freed] /\ users = [e \in Entry |-> None]
      /\ pend = {} /\ tpend = FALSE /\ handler = "start" /\ notify = FALSE
      /\ reading = FALSE /\ asked = FALSE
  BY DEF Init
<1>2. /\ reader \in ReaderRecord /\ reader.pc = "lock" /\ reader.age = clock
      /\ reader.removed = {} /\ reader.failed = {}
  BY <1>1, NoReaderType DEF ReaderRecord
<1>3. Freed.path = None /\ Freed.st = "init" /\ Freed.age = 0 /\ Freed.maps = <<>>
  BY DEF Freed
<1>4. list \in Seq(Entry) /\ ToSet(list) = {} /\ IsInjective(list)
  BY <1>1 DEF ToSet, IsInjective
<1>5. \A e \in Entry : ent[e] = Freed /\ users[e] = None
  BY <1>1
<1>6. TypeOK
  <2>1. ent \in [Entry -> EntryRecord] /\ users \in [Entry -> Source \cup {None}]
    BY <1>1, FreedType
  <2>2. clock \in Nat \ {0} /\ completed \subseteq Entry /\ pend \subseteq {"TERM", "HUP"}
    BY <1>1
  <2> QED
    BY <1>1, <1>2, <1>4, <2>1, <2>2 DEF TypeOK
<1>7. EntryLists
  <2>1. \A e \in Entry : /\ (ent[e].path = None) = (e \notin ToSet(list) \cup completed)
                        /\ (ent[e].st = "gone") = (e \in completed)
                        /\ ent[e].st = "init"
    BY <1>1, <1>3, <1>4, <1>5
  <2> QED
    BY <1>1, <1>4, <2>1 DEF EntryLists
<1>8. OneReader /\ UsersRun /\ InUse
  BY <1>1, <1>2, <1>3, <1>5 DEF OneReader, UsersRun, InUse, Used
<1>9. Ages
  BY <1>1, <1>3, <1>4, <1>5 DEF Ages
<1>10. ParsedSoFar /\ MountedSoFar
  BY <1>2 DEF ParsedSoFar, MountedSoFar
<1> QED
  BY <1>6, <1>7, <1>8, <1>9, <1>10 DEF ReadInv, EntryInv

LEMMA ReadStep ==
    ASSUME ReadInv, [Next]_vars
    PROVE  ReadInv'
<1>1. CASE Reader
  BY <1>1, ReadMasterStep, ParseLineStep, ParseAmdStep, ReadFailedStep, MountStep, ReadEndStep
     DEF Reader
<1>2. CASE Handler
  BY <1>2, SignalsStep, HandleTermStep, HandleHupStep DEF Handler
<1>3. ASSUME NEW e \in Entry, LookupStart(e) \/ LookupEnd(e) \/ ReadMap(e) \/ Shutdown(e)
                              \/ handle_mounts_exit(e)
      PROVE  ReadInv'
  BY <1>3, LookupStartStep, LookupEndStep, ReadMapStep, ShutdownStep, ExitStep
<1>4. CASE NotifyStateChange
  BY <1>4, NotifyStep
<1>5. CASE SendTerm \/ SendHup \/ UNCHANGED vars
  BY <1>5, SignalsStep
<1> QED
  BY <1>1, <1>2, <1>3, <1>4, <1>5 DEF Next

\* Whatever the threads do, the lists of entries, the ages of entries and sources
\* and the progress of a read fit together (master.c, the readers of the map and
\* handle_mounts): the inductive invariant of the theorems below.
THEOREM MapIsRead == Spec => []ReadInv
<1>1. Init => ReadInv
  BY ReadInit
<1>2. ReadInv /\ [Next]_vars => ReadInv'
  BY ReadStep
<1> QED
  BY <1>1, <1>2, PTL DEF Spec

\* The state of the master map has its type.
THEOREM MasterTypes == Spec => []TypeOK
<1>1. ReadInv => TypeOK
  BY DEF ReadInv, EntryInv
<1> QED
  BY <1>1, MapIsRead, PTL

\* A SIGTERM of a thread that ended is told from one that was sent to the daemon
\* (signal_handler, handle_mounts_cleanup).
THEOREM SignalsTold == Spec => []SignalInv
<1>1. Init => SignalInv
  BY SignalInit
<1>2. TypeOK /\ SignalInv /\ [Next]_vars => SignalInv'
  BY SignalStep
<1> QED
  BY <1>1, <1>2, MasterTypes, PTL DEF Spec

\* As long as an entry waits to be joined a SIGTERM is pending or being handled,
\* though only the first thread that ends sends one (handle_mounts_cleanup).
THEOREM CompletedSignalled == Spec => []Signalled
<1>1. SignalInv => Signalled
  BY DEF SignalInv
<1> QED
  BY <1>1, SignalsTold, PTL

\* The mount points are told to shut down only if the daemon has been sent
\* SIGTERM itself (signal_handler).
THEOREM JoinNotTakenForTerm == Spec => []NotTakenForTerm
<1>1. SignalInv => NotTakenForTerm
  BY DEF SignalInv
<1> QED
  BY <1>1, SignalsTold, PTL

\* A source is not freed under a request that uses it, but for that of the amd
\* mount section (source_lock, check_update_map_sources, master_done).
THEOREM SourcesInUse == Spec => []InUse
<1>1. ReadInv => InUse
  BY DEF ReadInv, EntryInv
<1> QED
  BY <1>1, MapIsRead, PTL

\* The lines that count are those of LinesFor, to the end of the map.
LEMMA EffectiveLines ==
    ASSUME TypeOK, NEW p
    PROVE  /\ Effective(p) = LinesFor(reader.lines, Len(reader.lines), p)
           /\ WantedMaps(p) = MapsFor(reader.lines, Len(reader.lines), p)
<1> DEFINE ls == reader.lines
           N(i) == ~\E j \in 1..(i - 1) : ls[j] = [path |-> p, map |-> NullMap]
<1>1. ls \in Seq(Line) /\ DOMAIN ls = 1..Len(ls) /\ Len(ls) \in Nat
  BY DEF TypeOK, ReaderRecord
<1>2. \A i \in 1..Len(ls) : NullLine(i - 1, p) = 0 <=> N(i)
  <2> TAKE i \in 1..Len(ls)
  <2>1. i - 1 \in Nat
    BY <1>1
  <2> QED
    BY <2>1, NullLineFacts, Zenon
<1>3. /\ LinesFor(ls, Len(ls), p) = {i \in 1..Len(ls) : ls[i].path = p /\ ls[i].map # NullMap /\ N(i)}
      /\ Effective(p) = {i \in 1..Len(ls) : ls[i].path = p /\ ls[i].map # NullMap /\ NullLine(i - 1, p) = 0}
  BY <1>1 DEF LinesFor, Effective
<1> HIDE DEF N
<1>4. Effective(p) = LinesFor(ls, Len(ls), p)
  BY <1>2, <1>3
<1> QED
  BY <1>4 DEF WantedMaps, MapsFor

LEMMA ReadMatches ==
    ASSUME ReadInv
    PROVE  MatchesMap
<1> SUFFICES ASSUME AtEnd
             PROVE  /\ \A p \in Wanted \ (reader.failed \cup {AmdPath}) :
                         \E e \in ToSet(list) : ent[e].path = p /\ ent[e].st # "init"
                    /\ \A e \in ToSet(list) : Exempt(e) \/ ((e \in reader.removed) = (ent[e].path \notin Wanted))
                    /\ \A e \in ToSet(list) : ent[e].path \in Wanted \ {AmdPath} =>
                         {ent[e].maps[i].src : i \in {j \in DOMAIN ent[e].maps : ent[e].maps[j].age = ent[e].age}}
                             = WantedMaps(ent[e].path)
  BY DEF MatchesMap
<1> DEFINE ls == reader.lines
           n == Len(reader.lines)
<1>0. TypeOK /\ EntryLists /\ OneReader
  BY DEF ReadInv, EntryInv
<1>1. reader.pc = "mount" /\ reader.todo = <<>> /\ reader.fresh /\ ToSet(reader.todo) = {}
  BY DEF AtEnd, ToSet
<1>2. /\ \A p \in Path \ ({AmdPath} \cup reader.failed) : LinesFor(ls, n, p) # {} =>
             \E e \in ToSet(list) : ent[e].path = p /\ ent[e].age = reader.age
      /\ \A e \in ToSet(list) : ent[e].path # AmdPath /\ ent[e].age = reader.age =>
             AsTheLinesSay(ent[e], ls, n)
  BY <1>1 DEF ReadInv, ParsedSoFar, Upto
<1>3. /\ \A e \in ToSet(list) : ent[e].path \notin reader.failed
      /\ \A e \in ToSet(list) :
             IF ent[e].age < reader.age THEN e \in reader.removed ELSE ent[e].st # "init"
      /\ \A e \in ToSet(list) \cap reader.removed :
             ent[e].age < reader.age \/ FirstOld(ent[e]) \/ ent[e].path = AmdPath
  BY <1>1 DEF ReadInv, MountedSoFar
<1>4. \A p : Effective(p) = LinesFor(ls, n, p) /\ WantedMaps(p) = MapsFor(ls, n, p)
  BY <1>0, EffectiveLines
<1> HIDE DEF ls, n
<1>5. \A p : p # AmdPath => (p \in Wanted <=> p \in Path /\ LinesFor(ls, n, p) # {})
  BY <1>4 DEF Wanted
<1>6. ASSUME NEW e \in ToSet(list)
      PROVE  /\ ent[e].path \in Path /\ ent[e].age \in Nat /\ reader.age \in Nat
             /\ ~(ent[e].age < reader.age) => ent[e].age = reader.age
  <2>1. e \in Entry /\ ent[e] \in EntryRecord /\ reader.age \in Nat /\ reader.age = clock
    BY <1>0, <1>1 DEF TypeOK, ToSet, OneReader, ReaderRecord
  <2>2. ent[e].path # None
    BY <1>0, <2>1 DEF EntryLists
  <2>3. ent[e].path \in Path /\ ent[e].age \in Nat
    BY <2>1, <2>2 DEF EntryRecord
  <2>4. ent[e].age <= clock
    BY <2>1 DEF ReadInv, Ages
  <2> QED
    BY <2>1, <2>3, <2>4
<1>7. ASSUME NEW p \in Wanted \ (reader.failed \cup {AmdPath})
      PROVE  \E e \in ToSet(list) : ent[e].path = p /\ ent[e].st # "init"
  <2>1. PICK e \in ToSet(list) : ent[e].path = p /\ ent[e].age = reader.age
    BY <1>2, <1>5, <1>7
  <2>2. ~(ent[e].age < reader.age)
    BY <1>6, <2>1
  <2> QED
    BY <1>3, <2>1, <2>2
<1>8. ASSUME NEW e \in ToSet(list), ent[e].path # AmdPath, ent[e].age < reader.age
      PROVE  ent[e].path \notin Wanted
  <2>1. SUFFICES ASSUME LinesFor(ls, n, ent[e].path) # {} PROVE FALSE
    BY <1>5, <1>8
  <2>2. PICK f \in ToSet(list) : ent[f].path = ent[e].path /\ ent[f].age = reader.age
    BY <1>2, <1>3, <1>6, <1>8, <2>1
  <2>3. f = e
    BY <1>0, <2>2 DEF EntryLists
  <2> QED
    BY <1>6, <1>8, <2>2, <2>3
<1>9. ASSUME NEW e \in ToSet(list), ~Exempt(e)
      PROVE  (e \in reader.removed) = (ent[e].path \notin Wanted)
  <2>1. ent[e].path # AmdPath /\ ~FirstOld(ent[e])
    BY <1>9 DEF Exempt, OldFirst, FirstOld
  <2>2. CASE ent[e].age < reader.age
    BY <1>3, <1>8, <2>1, <2>2
  <2>3. CASE ~(ent[e].age < reader.age)
    <3>1. e \notin reader.removed
      BY <1>3, <2>1, <2>3
    <3>2. AsTheLinesSay(ent[e], ls, n)
      BY <1>2, <1>6, <2>1, <2>3
    <3>3. ent[e].path \in Wanted
      BY <1>5, <1>6, <2>1, <3>2 DEF AsTheLinesSay
    <3> QED
      BY <3>1, <3>3
  <2> QED
    BY <2>2, <2>3
<1>10. ASSUME NEW e \in ToSet(list), ent[e].path \in Wanted \ {AmdPath}
       PROVE  {ent[e].maps[i].src : i \in {j \in DOMAIN ent[e].maps : ent[e].maps[j].age = ent[e].age}}
                  = WantedMaps(ent[e].path)
  <2>1. AsTheLinesSay(ent[e], ls, n)
    BY <1>2, <1>6, <1>8, <1>10
  <2>2. CurrentMaps(ent[e]) = WantedMaps(ent[e].path)
    BY <1>4, <2>1 DEF AsTheLinesSay
  <2> QED
    BY <2>2 DEF CurrentMaps, Current
<1> QED
  BY <1>7, <1>9, <1>10

\* A read of the master map that is through, whatever was mounted before and
\* whatever the other threads do meanwhile, has started a mount point for every
\* path the map names, told those to shut down that it does not, and made the
\* maps it names the current sources (master_mount_mounts, master_parse_entry).
THEOREM ReadMatchesMap == Spec => []MatchesMap
<1>1. ReadInv => MatchesMap
  BY ReadMatches
<1> QED
  BY <1>1, MapIsRead, PTL
=============================================================================
