--------------------------- MODULE MountNfsProofs ---------------------------
(***************************************************************************)
(* Proofs about mounting from a location, for any locations, servers and   *)
(* versions: what is reported is what is mounted; the closest server is    *)
(* tried first; one that is there is found; and the version that most of   *)
(* the closest servers have is taken.                                      *)
(***************************************************************************)
EXTENDS MountNfs, SequenceFacts

-----------------------------------------------------------------------------
(* The list of hosts. *)

LEMMA ProxFacts ==
    ASSUME NEW h \in HostRecord
    PROVE  h.prox \in {1, 2, 4, 8} /\ (Local(h) <=> h.prox = 1)
BY DEF HostRecord, Local, PROXIMITY_LOCAL, PROXIMITY_SUBNET, PROXIMITY_NET, PROXIMITY_OTHER

\* add_host() inserts the host, in a sorted list where it belongs.
LEMMA AddHostAt ==
    ASSUME NEW list \in Seq(HostRecord), NEW h \in HostRecord
    PROVE  \E k \in 1..(Len(list) + 1) :
             /\ add_host(list, h) = InsertAt(list, k, h)
             /\ Sorted(list) => \A j \in 1..Len(list) :
                  IF j < k THEN list[j].prox <= h.prox ELSE h.prox <= list[j].prox
<1> DEFINE n == Len(list)
           closer == {i \in DOMAIN list : list[i].prox < h.prox}
           cheaper == {i \in DOMAIN list : h.cost # 0 /\ list[i].prox = h.prox /\ list[i].cost < h.cost}
           c == Cardinality(closer)
           run == {i \in cheaper : \A j \in c + 1..i : j \in cheaper}
           r == Cardinality(run)
<1>1. add_host(list, h) = InsertAt(list, c + r + 1, h)
  BY DEF add_host
<1>2. n \in Nat /\ DOMAIN list = 1..n /\ \A i \in 1..n : list[i] \in HostRecord
  OBVIOUS
<1>3. h.prox \in Nat /\ \A i \in 1..n : list[i].prox \in Nat
  BY <1>2, ProxFacts
<1>4. closer \in SUBSET (1..n) /\ run \in SUBSET (1..n) /\ closer \cap run = {}
  BY <1>2, <1>3
<1>5. IsFiniteSet(1..n) /\ Cardinality(1..n) = n
  <2> HIDE DEF n
  <2>1. Cardinality(1..n) = IF 1 > n THEN 0 ELSE n - 1 + 1
    BY <1>2, FS_Interval
  <2> QED
    BY <1>2, <2>1, FS_Interval
<1>6. IsFiniteSet(closer) /\ IsFiniteSet(run)
  BY <1>4, <1>5, FS_Subset
<1>7. c \in Nat /\ r \in Nat
  BY <1>6, FS_CardinalityType
<1>8. c + r <= n
  <2>1. Cardinality(closer \cup run) = c + r
    <3> HIDE DEF closer, run
    <3>1. Cardinality(closer \cup run) = Cardinality(closer) + Cardinality(run) - Cardinality(closer \cap run)
      BY <1>6, FS_Union
    <3>2. Cardinality(closer \cap run) = 0
      BY <1>4, FS_EmptySet
    <3> QED
      BY <1>7, <3>1, <3>2
  <2>2. closer \cup run \in SUBSET (1..n)
    BY <1>4
  <2>3. Cardinality(closer \cup run) <= n
    BY <1>5, <2>2, FS_Subset
  <2> QED
    BY <2>1, <2>3
<1>9. ASSUME Sorted(list), NEW j \in 1..n
      PROVE  IF j < c + r + 1 THEN list[j].prox <= h.prox ELSE h.prox <= list[j].prox
  <2>1. closer = 1..c
    <3>1. closer \in SUBSET ((0 + 1)..n)
      BY <1>4
    <3>2. \A a \in closer : \A b \in (0 + 1)..a : b \in closer
      BY <1>2, <1>3, <1>9 DEF Sorted
    <3>3. closer = (0 + 1)..(0 + c)
      BY <1>2, <3>1, <3>2, InitialSegment
    <3> HIDE DEF closer
    <3> QED
      BY <1>7, <3>3
  <2>2. run = (c + 1)..(c + r)
    <3>1. run \in SUBSET ((c + 1)..n)
      <4> HIDE DEF closer, run, c
      <4> QED
        BY <1>4, <1>7, <2>1
    <3>2. \A a \in run : \A b \in (c + 1)..a : b \in run
      BY <1>4, <1>7
    <3> HIDE DEF run, c
    <3>3. run = (c + 1)..(c + Cardinality(run))
      BY <1>2, <1>7, <3>1, <3>2, InitialSegment
    <3> QED
      BY <3>3
  <2>3. CASE j <= c
    BY <1>3, <1>7, <2>1, <2>3
  <2>4. CASE j > c /\ j <= c + r
    <3>1. j \in run
      <4> HIDE DEF closer, run, c, r
      <4> QED
        BY <1>7, <2>2, <2>4
    <3> QED
      BY <1>3, <1>7, <2>4, <3>1
  <2>5. CASE j > c + r
    <3>1. j \notin closer
      <4> HIDE DEF closer, run, c, r
      <4> QED
        BY <1>7, <2>1, <2>5
    <3> QED
      BY <1>2, <1>3, <1>7, <2>5, <3>1
  <2> QED
    BY <1>7, <2>3, <2>4, <2>5
<1> HIDE DEF closer, run, c, r
<1>10. c + r + 1 \in 1..(n + 1)
  BY <1>2, <1>7, <1>8
<1> QED
  BY <1>1, <1>9, <1>10

LEMMA AddHost ==
    ASSUME NEW list \in Seq(HostRecord), NEW h \in HostRecord
    PROVE  /\ add_host(list, h) \in Seq(HostRecord)
           /\ ToSet(add_host(list, h)) = ToSet(list) \cup {h}
           /\ Sorted(list) => Sorted(add_host(list, h))
<1>1. PICK k \in 1..(Len(list) + 1) :
        /\ add_host(list, h) = InsertAt(list, k, h)
        /\ Sorted(list) => \A j \in 1..Len(list) :
             IF j < k THEN list[j].prox <= h.prox ELSE h.prox <= list[j].prox
  BY AddHostAt
<1> DEFINE r == InsertAt(list, k, h)
<1>2. /\ r \in Seq(HostRecord) /\ Len(r) = Len(list) + 1
      /\ \A j \in 1..(Len(list) + 1) :
           r[j] = IF j < k THEN list[j] ELSE IF j = k THEN h ELSE list[j - 1]
      /\ ToSet(r) = ToSet(list) \cup {h}
  BY InsertAtFacts
<1> HIDE DEF r
<1>3. ASSUME Sorted(list), NEW i \in DOMAIN r, NEW j \in DOMAIN r, i < j
      PROVE  r[i].prox <= r[j].prox
  <2>1. /\ i \in 1..(Len(list) + 1) /\ j \in 1..(Len(list) + 1) /\ DOMAIN list = 1..Len(list)
        /\ Len(list) \in Nat /\ h.prox \in Nat /\ \A m \in 1..Len(list) : list[m].prox \in Nat
    <3>1. h.prox \in Nat
      BY ProxFacts
    <3>2. ASSUME NEW m \in 1..Len(list) PROVE list[m].prox \in Nat
      <4>1. list[m] \in HostRecord
        OBVIOUS
      <4> QED
        BY <4>1, ProxFacts
    <3> QED
      BY <1>2, <3>1, <3>2
  <2>2. \A m \in 1..Len(list) : IF m < k THEN list[m].prox <= h.prox ELSE h.prox <= list[m].prox
    BY <1>1, <1>3
  <2>3. \A a, b \in 1..Len(list) : a < b => list[a].prox <= list[b].prox
    BY <1>3, <2>1 DEF Sorted
  <2>4. CASE j < k
    <3>1. r[i] = list[i] /\ r[j] = list[j]
      BY <1>2, <1>3, <2>1, <2>4
    <3> QED
      BY <1>3, <2>1, <2>3, <2>4, <3>1
  <2>5. CASE j = k
    <3>1. r[i] = list[i] /\ r[j] = h /\ i \in 1..Len(list)
      BY <1>2, <1>3, <2>1, <2>5
    <3> QED
      BY <1>3, <2>1, <2>2, <2>5, <3>1
  <2>6. CASE j > k
    <3>1. r[j] = list[j - 1] /\ j - 1 \in 1..Len(list)
      BY <1>2, <2>1, <2>6
    <3>2. CASE i < k
      <4>1. r[i] = list[i] /\ i < j - 1
        BY <1>2, <1>3, <2>1, <2>6, <3>2
      <4> QED
        BY <1>3, <2>1, <2>3, <3>1, <4>1
    <3>3. CASE i = k
      <4>1. r[i] = h
        BY <1>2, <2>1, <3>3
      <4> QED
        BY <2>1, <2>2, <2>6, <3>1, <4>1
    <3>4. CASE i > k
      <4>1. r[i] = list[i - 1] /\ i - 1 \in 1..Len(list) /\ i - 1 < j - 1
        BY <1>2, <1>3, <2>1, <3>4
      <4> QED
        BY <2>1, <2>3, <3>1, <4>1
    <3> QED
      BY <2>1, <3>2, <3>3, <3>4
  <2> QED
    BY <2>1, <2>4, <2>5, <2>6
<1>4. Sorted(list) => Sorted(r)
  BY <1>3 DEF Sorted
<1> QED
  BY <1>1, <1>2, <1>4 DEF r

\* What parse_location() makes of a location: hosts not probed yet, the closer
\* ones first, each one that is not local with an address of its entry.
FromEntry(loc, h) ==
    /\ h.cost = 0 /\ h.vers = {}
    /\ ~Local(h) => /\ h.ent \in DOMAIN loc /\ h.srv \in Servers
                    /\ \E a \in ToSet(loc[h.ent].addrs) : h.srv = a.srv
HostList(loc) == {list \in Seq(HostRecord) : Sorted(list) /\ \A h \in ToSet(list) : FromEntry(loc, h)}

LEMMA EmptyHostList ==
    ASSUME NEW loc PROVE <<>> \in HostList(loc)
BY DEF HostList, Sorted, ToSet

LEMMA AddToHostList ==
    ASSUME NEW loc, NEW list \in HostList(loc), NEW h \in HostRecord, FromEntry(loc, h)
    PROVE  add_host(list, h) \in HostList(loc)
BY AddHost DEF HostList

LEMMA AddNewHost ==
    ASSUME NEW loc \in Seq(LocationEntry), NEW list \in HostList(loc), NEW ent \in DOMAIN loc,
           NEW i \in 1..Len(loc[ent].addrs), NEW opt \in Conf, NEW rr \in BOOLEAN
    PROVE  add_new_host(list, ent, loc[ent].weight, loc[ent].addrs[i], rr, opt) \in HostList(loc)
<1> DEFINE addr == loc[ent].addrs[i]
           prx == get_proximity(addr.rel)
           prox == IF prx # PROXIMITY_LOCAL /\ opt.weightonly THEN PROXIMITY_SUBNET ELSE prx
           h == new_host(addr.srv, ent, prox, loc[ent].weight, rr)
<1>1. loc[ent] \in LocationEntry /\ ent \in Nat
  OBVIOUS
<1>2. loc[ent].weight \in Nat /\ loc[ent].addrs \in Seq(Address)
  BY <1>1 DEF LocationEntry
<1>a. addr \in Address /\ addr \in ToSet(loc[ent].addrs)
  BY <1>2 DEF ToSet
<1>b. addr.srv \in Servers
  BY <1>a DEF Address
<1>3. prx \in {1, 2, 4, 8, 16}
  BY DEF get_proximity, PROXIMITY_LOCAL, PROXIMITY_SUBNET, PROXIMITY_NET, PROXIMITY_OTHER, PROXIMITY_UNSUPPORTED
<1>4. CASE prx = PROXIMITY_UNSUPPORTED
  BY <1>4 DEF add_new_host
<1>5. CASE prx # PROXIMITY_UNSUPPORTED
  <2>1. prox \in {1, 2, 4, 8}
    BY <1>3, <1>5 DEF PROXIMITY_SUBNET, PROXIMITY_UNSUPPORTED
  <2>2. add_new_host(list, ent, loc[ent].weight, addr, rr, opt) = add_host(list, h)
    BY <1>5 DEF add_new_host
  <2> HIDE DEF addr, prx, prox
  <2>3. h \in HostRecord /\ h.cost = 0 /\ h.vers = {} /\ h.srv = addr.srv /\ h.ent = ent
    BY <1>1, <1>2, <1>b, <2>1 DEF new_host, HostRecord, PROXIMITY_LOCAL, PROXIMITY_SUBNET,
       PROXIMITY_NET, PROXIMITY_OTHER
  <2> HIDE DEF h
  <2>4. FromEntry(loc, h)
    BY <1>a, <1>b, <2>3 DEF FromEntry
  <2> QED
    BY <2>2, <2>3, <2>4, AddToHostList DEF addr
<1> QED
  BY <1>4, <1>5

LEMMA AddHostAddrs ==
    ASSUME NEW loc \in Seq(LocationEntry), NEW list \in HostList(loc), NEW ent \in DOMAIN loc,
           NEW opt \in Conf
    PROVE  add_host_addrs(list, ent, loc[ent], opt) \in HostList(loc)
<1> DEFINE n == Len(loc[ent].addrs)
           Add(l, i) == add_new_host(l, ent, loc[ent].weight, loc[ent].addrs[i], n > 1, opt)
           Def(f) == f = [i \in 0..n |-> IF i = 0 THEN list ELSE Add(f[i - 1], i)]
           F == CHOOSE f : Def(f)
           H == HostList(loc)
           step == [x \in H \X (1..n) |-> Add(x[1], x[2])]
<1>1. n \in Nat
  BY DEF LocationEntry
<1>2. ASSUME NEW l \in H, NEW i \in 1..n PROVE Add(l, i) \in H
  <2>1. (n > 1) \in BOOLEAN
    OBVIOUS
  <2> QED
    BY <1>2, <2>1, AddNewHost, Zenon
<1> HIDE DEF Add
<1>3. step \in [H \X (1..n) -> H]
  BY <1>2
<1>4. \E f : Def(f)
  <2>1. PICK g \in [0..n -> H] : g[0] = list /\ \A i \in 1..n : g[i] = step[<<g[i - 1], i>>]
    <3>0. list \in H
      OBVIOUS
    <3> HIDE DEF step, H, n
    <3>1. Steps(H, list, step, n)
      BY <1>1, <1>3, <3>0, StepsExist
    <3> QED
      BY <3>1 DEF Steps
  <2>2. \A i \in 1..n : g[i] = Add(g[i - 1], i)
    <3> TAKE i \in 1..n
    <3>1. g[i - 1] \in H
      BY <1>1, <2>1
    <3> QED
      BY <2>1, <3>1
  <2>3. g = [i \in 0..n |-> IF i = 0 THEN list ELSE Add(g[i - 1], i)]
    BY <1>1, <2>1, <2>2
  <2> QED
    BY <2>3
<1>5. Def(F)
  BY <1>4
<1>6. add_host_addrs(list, ent, loc[ent], opt) = F[n]
  BY DEF add_host_addrs, Add
<1> HIDE DEF F
<1> DEFINE P == {i \in 0..n : F[i] \in H}
<1>7. F[0] = list /\ \A i \in 1..n : F[i] = Add(F[i - 1], i)
  BY <1>1, <1>5
<1>8. 0 \in P
  BY <1>1, <1>7
<1>9. \A i \in 1..n : i - 1 \in P => i \in P
  BY <1>1, <1>2, <1>7
<1>10. n \in P
  <2> HIDE DEF P, n
  <2>1. \A i \in 0..n : i \in P
    BY <1>1, <1>8, <1>9, UpTo
  <2> QED
    BY <1>1, <2>1
<1> QED
  BY <1>6, <1>10

LEMMA ParseLocation ==
    ASSUME NEW loc \in Seq(LocationEntry), NEW opt \in Conf
    PROVE  parse_location(loc, opt) \in HostList(loc)
<1> DEFINE n == Len(loc)
           Add(l, i) == IF loc[i].name = "none" THEN add_local_path(l)
                        ELSE IF loc[i].name = "unknown" THEN l
                        ELSE add_host_addrs(l, i, loc[i], opt)
           Def(f) == f = [i \in 0..n |-> IF i = 0 THEN <<>> ELSE Add(f[i - 1], i)]
           F == CHOOSE f : Def(f)
           H == HostList(loc)
           step == [x \in H \X (1..n) |-> Add(x[1], x[2])]
<1>1. n \in Nat /\ DOMAIN loc = 1..n
  OBVIOUS
<1>2. ASSUME NEW l \in H, NEW i \in 1..n PROVE Add(l, i) \in H
  <2>1. add_local_path(l) \in H
    <3> DEFINE h == new_host(None, 0, PROXIMITY_LOCAL, 0, FALSE)
    <3>1. h \in HostRecord /\ h.cost = 0 /\ h.vers = {} /\ h.prox = 1
      BY DEF new_host, HostRecord, PROXIMITY_LOCAL
    <3>2. Local(h)
      BY <3>1 DEF Local, PROXIMITY_LOCAL
    <3> HIDE DEF h
    <3>3. FromEntry(loc, h)
      BY <3>1, <3>2 DEF FromEntry
    <3> QED
      BY <3>1, <3>3, AddToHostList DEF add_local_path, h
  <2>2. add_host_addrs(l, i, loc[i], opt) \in H
    BY <1>1, AddHostAddrs
  <2> QED
    BY <2>1, <2>2
<1> HIDE DEF Add
<1>3. step \in [H \X (1..n) -> H]
  BY <1>2
<1>4. \E f : Def(f)
  <2>0. <<>> \in H
    BY EmptyHostList
  <2>1. PICK g \in [0..n -> H] : g[0] = <<>> /\ \A i \in 1..n : g[i] = step[<<g[i - 1], i>>]
    <3> HIDE DEF step, H, n
    <3>1. Steps(H, <<>>, step, n)
      BY <1>1, <1>3, <2>0, StepsExist
    <3> QED
      BY <3>1 DEF Steps
  <2>2. \A i \in 1..n : g[i] = Add(g[i - 1], i)
    <3> TAKE i \in 1..n
    <3>1. g[i - 1] \in H
      BY <1>1, <2>1
    <3> QED
      BY <2>1, <3>1
  <2>3. g = [i \in 0..n |-> IF i = 0 THEN <<>> ELSE Add(g[i - 1], i)]
    BY <1>1, <2>1, <2>2
  <2> QED
    BY <2>3
<1>5. Def(F)
  BY <1>4
<1>6. parse_location(loc, opt) = F[n]
  BY DEF parse_location, Add
<1> HIDE DEF F
<1> DEFINE P == {i \in 0..n : F[i] \in H}
<1>7. F[0] = <<>> /\ \A i \in 1..n : F[i] = Add(F[i - 1], i)
  BY <1>1, <1>5
<1>8. 0 \in P
  BY <1>1, <1>7, EmptyHostList
<1>9. \A i \in 1..n : i - 1 \in P => i \in P
  BY <1>1, <1>2, <1>7
<1>10. n \in P
  <2> HIDE DEF P, n
  <2>1. \A i \in 0..n : i \in P
    BY <1>1, <1>8, <1>9, UpTo
  <2> QED
    BY <1>1, <2>1
<1> QED
  BY <1>6, <1>10
-----------------------------------------------------------------------------
(* The choice of a version. *)

LEMMA SupportersNat ==
    ASSUME NEW near \in Seq(HostRecord), NEW vp
    PROVE  /\ IsFiniteSet({i \in DOMAIN near : vp \in near[i].vers})
           /\ Supporters(near, vp) \in Nat /\ Supporters(near, vp) <= Len(near)
<1> DEFINE T == {i \in DOMAIN near : vp \in near[i].vers}
           n == Len(near)
<1>1. n \in Nat /\ T \in SUBSET (1..n)
  OBVIOUS
<1> HIDE DEF T, n
<1>2. IsFiniteSet(1..n) /\ Cardinality(1..n) = IF 1 > n THEN 0 ELSE n - 1 + 1
  BY <1>1, FS_Interval
<1>3. IsFiniteSet(T) /\ Cardinality(T) <= Cardinality(1..n)
  BY <1>1, <1>2, FS_Subset
<1>4. Cardinality(T) \in Nat
  BY <1>3, FS_CardinalityType
<1> QED
  BY <1>1, <1>2, <1>3, <1>4 DEF Supporters, T, n

LEMMA PreferenceFacts ==
    /\ \A i \in 1..6 : Preference[i] \in VP
    /\ \A vp \in VP : \E i \in 1..6 : Preference[i] = vp
    /\ \A i \in 1..6 : Preference[i][1] = 2 => \E j \in 1..(i - 1) : Preference[j] = <<3, Preference[i][2]>>
<1>1. /\ Preference[1] = <<4, "tcp">> /\ Preference[2] = <<3, "tcp">> /\ Preference[3] = <<2, "tcp">>
      /\ Preference[4] = <<4, "udp">> /\ Preference[5] = <<3, "udp">> /\ Preference[6] = <<2, "udp">>
  BY DEF Preference
<1>2. \A i \in 1..6 : i = 1 \/ i = 2 \/ i = 3 \/ i = 4 \/ i = 5 \/ i = 6
  OBVIOUS
<1>3. \A i \in 1..6 : Preference[i] \in VP
  BY <1>1, <1>2 DEF VP
<1>4. ASSUME NEW v \in 2..4, NEW p \in {"tcp", "udp"} PROVE \E i \in 1..6 : Preference[i] = <<v, p>>
  <2>1. (v = 2 \/ v = 3 \/ v = 4) /\ (p = "tcp" \/ p = "udp")
    OBVIOUS
  <2>2. 1 \in 1..6 /\ 2 \in 1..6 /\ 3 \in 1..6 /\ 4 \in 1..6 /\ 5 \in 1..6 /\ 6 \in 1..6
    OBVIOUS
  <2> QED
    BY <1>1, <2>1, <2>2, Zenon
<1>5. \A i \in 1..6 : Preference[i][1] = 2 => \E j \in 1..(i - 1) : Preference[j] = <<3, Preference[i][2]>>
  <2> TAKE i \in 1..6
  <2> HAVE Preference[i][1] = 2
  <2>1. i = 3 \/ i = 6
    BY <1>1, <1>2
  <2>2. CASE i = 3
    <3>1. 2 \in 1..(i - 1) /\ Preference[2] = <<3, Preference[i][2]>>
      BY <1>1, <2>2
    <3> QED BY <3>1
  <2>3. CASE i = 6
    <3>1. 5 \in 1..(i - 1) /\ Preference[5] = <<3, Preference[i][2]>>
      BY <1>1, <2>3
    <3> QED BY <3>1
  <2> QED
    BY <2>1, <2>2, <2>3
<1>6. \A vp \in VP : \E i \in 1..6 : Preference[i] = vp
  <2> TAKE vp \in VP
  <2>1. PICK v \in 2..4, p \in {"tcp", "udp"} : vp = <<v, p>>
    BY DEF VP
  <2> QED
    BY <1>4, <2>1
<1> QED
  BY <1>3, <1>5, <1>6

\* Most of the hosts have the version selected, and fewer have one preferred to it.
IsSelected(near, i) ==
    /\ \A j \in 1..6 : Supporters(near, Preference[j]) <= Supporters(near, Preference[i])
    /\ \A j \in 1..i - 1 : Supporters(near, Preference[j]) < Supporters(near, Preference[i])
LEMMA SelectedIs ==
    ASSUME NEW near \in Seq(HostRecord)
    PROVE  \E i \in 1..6 : Selected(near) = Preference[i] /\ IsSelected(near, i)
<1> DEFINE S(j) == Supporters(near, Preference[j])
           n == Len(near) + 1
           T == {S(j) + 1 : j \in 1..6}
<1>1. \A j \in 1..6 : S(j) \in Nat /\ S(j) + 1 \in 1..n
  <2> TAKE j \in 1..6
  <2>1. S(j) \in Nat /\ S(j) <= Len(near)
    BY SupportersNat
  <2> HIDE DEF S
  <2>2. Len(near) \in Nat
    OBVIOUS
  <2> QED
    BY <2>1, <2>2
<1> HIDE DEF S
<1>2. n \in Nat /\ T \in SUBSET (1..n) /\ T # {}
  <2>1. 1 \in 1..6
    OBVIOUS
  <2>2. S(1) + 1 \in T
    BY <2>1
  <2>3. \A x \in T : x \in 1..n
    BY <1>1
  <2> QED
    BY <2>2, <2>3
<1>3. PICK m \in T : \A k \in T : k <= m
  <2> HIDE DEF T, n
  <2> QED
    BY <1>2, Greatest
<1> DEFINE I == {i \in 1..6 : S(i) + 1 = m}
<1>4. I \in SUBSET Nat /\ I # {}
  BY <1>3
<1>5. PICK i \in I : \A k \in I : i <= k
  <2> HIDE DEF I
  <2> QED
    BY <1>4, Least
<1>6. i \in 1..6 /\ \A j \in 1..6 : S(j) <= S(i)
  <2>1. i \in 1..6 /\ S(i) + 1 = m
    BY <1>5
  <2>2. ASSUME NEW j \in 1..6 PROVE S(j) <= S(i)
    <3>1. S(j) + 1 <= S(i) + 1
      BY <1>3, <2>1
    <3>2. S(j) \in Nat /\ S(i) \in Nat
      BY <1>1, <2>1
    <3> QED
      BY <3>1, <3>2
  <2> QED
    BY <2>1, <2>2
<1>7. \A j \in 1..i - 1 : S(j) < S(i)
  <2> TAKE j \in 1..i - 1
  <2>1. j \in 1..6 /\ j \notin I
    BY <1>5, <1>6
  <2>2. S(j) + 1 # m /\ S(i) + 1 = m /\ S(j) <= S(i)
    BY <1>5, <1>6, <2>1
  <2>3. S(i) \in Nat /\ S(j) \in Nat
    BY <1>1, <1>6, <2>1
  <2> QED
    BY <2>2, <2>3
<1>8. \E k \in 1..6 : IsSelected(near, k)
  BY <1>6, <1>7 DEF IsSelected, S
<1>9. Selected(near) = Preference[CHOOSE k \in 1..6 : IsSelected(near, k)]
  BY DEF Selected, IsSelected
<1> QED
  BY <1>8, <1>9, Zenon

\* The hosts selected keep their place in the order, with the version.
Taken(hosts, j, sel) == [hosts[j] EXCEPT !.vers = {sel}]
Keep(hosts, j, sel) == Local(hosts[j]) \/ sel \in hosts[j].vers
ChosenFrom(hosts, sel, i, new) ==
    /\ new \in Seq(HostRecord) /\ Sorted(new)
    /\ ToSet(new) = {Taken(hosts, j, sel) : j \in {k \in 1..i : Keep(hosts, k, sel)}}
    /\ \A X \in SUBSET HostRecord :
         Cardinality(At(new, X)) = Cardinality({j \in 1..i : Keep(hosts, j, sel) /\ Taken(hosts, j, sel) \in X})
LEMMA TakenIs ==
    ASSUME NEW hosts \in Seq(HostRecord), NEW sel \in VP, NEW j \in 1..Len(hosts)
    PROVE  Taken(hosts, j, sel) \in HostRecord /\ SameHost(Taken(hosts, j, sel), hosts[j])
<1>1. hosts[j] \in HostRecord /\ {sel} \in SUBSET VP
  OBVIOUS
<1> QED
  BY <1>1 DEF Taken, HostRecord, SameHost
LEMMA ChosenStep ==
    ASSUME NEW hosts \in Seq(HostRecord), NEW sel \in VP, NEW i \in 1..Len(hosts),
           NEW new, ChosenFrom(hosts, sel, i - 1, new)
    PROVE  ChosenFrom(hosts, sel, i, IF Keep(hosts, i, sel) THEN add_host(new, Taken(hosts, i, sel)) ELSE new)
<1> DEFINE K(m) == {k \in 1..m : Keep(hosts, k, sel)}
           C(m, X) == {j \in 1..m : Keep(hosts, j, sel) /\ Taken(hosts, j, sel) \in X}
<1>0. i \in Nat \ {0} /\ Len(hosts) \in Nat
  OBVIOUS
<1>1. CASE ~Keep(hosts, i, sel)
  <2>1. K(i) = K(i - 1)
    BY <1>0, <1>1
  <2>2. \A X \in SUBSET HostRecord : C(i, X) = C(i - 1, X)
    BY <1>0, <1>1
  <2> HIDE DEF K, C
  <2>3. ChosenFrom(hosts, sel, i, new)
    BY <2>1, <2>2 DEF ChosenFrom, K, C
  <2> QED
    BY <1>1, <2>3
<1>2. CASE Keep(hosts, i, sel)
  <2> DEFINE t == Taken(hosts, i, sel)
             r == add_host(new, t)
  <2>1. t \in HostRecord
    BY TakenIs
  <2>2. new \in Seq(HostRecord) /\ Sorted(new)
    BY DEF ChosenFrom
  <2>3. r \in Seq(HostRecord) /\ ToSet(r) = ToSet(new) \cup {t} /\ Sorted(r)
    BY <2>1, <2>2, AddHost
  <2>4. K(i) = K(i - 1) \cup {i}
    BY <1>0, <1>2
  <2>5. ToSet(r) = {Taken(hosts, j, sel) : j \in K(i)}
    <3>1. ToSet(new) = {Taken(hosts, j, sel) : j \in K(i - 1)}
      BY DEF ChosenFrom
    <3> HIDE DEF K, r
    <3> QED
      BY <2>3, <2>4, <3>1
  <2>6. ASSUME NEW X \in SUBSET HostRecord PROVE Cardinality(At(r, X)) = Cardinality(C(i, X))
    <3>1. PICK k \in 1..(Len(new) + 1) : r = InsertAt(new, k, t)
      BY <2>1, <2>2, AddHostAt
    <3>2. Cardinality(At(r, X)) = Cardinality(At(new, X)) + (IF t \in X THEN 1 ELSE 0)
      BY <2>1, <2>2, <3>1, InsertAtCount
    <3>3. Cardinality(At(new, X)) = Cardinality(C(i - 1, X))
      BY DEF ChosenFrom
    <3>4. C(i, X) = IF t \in X THEN C(i - 1, X) \cup {i} ELSE C(i - 1, X)
      BY <1>0, <1>2
    <3>5. i \notin C(i - 1, X) /\ C(i - 1, X) \in SUBSET (1..(i - 1))
      BY <1>0
    <3>6. IsFiniteSet(1..(i - 1))
      BY <1>0, FS_Interval
    <3> HIDE DEF C
    <3>7. IsFiniteSet(C(i - 1, X))
      BY <3>5, <3>6, FS_Subset
    <3>8. Cardinality(C(i - 1, X) \cup {i}) = Cardinality(C(i - 1, X)) + 1 /\ Cardinality(C(i - 1, X)) \in Nat
      BY <3>5, <3>7, FS_AddElement, FS_CardinalityType
    <3> HIDE DEF r, t
    <3> QED
      BY <3>2, <3>3, <3>4, <3>8
  <2> HIDE DEF r
  <2>7. ChosenFrom(hosts, sel, i, r)
    BY <2>3, <2>5, <2>6 DEF ChosenFrom
  <2> QED
    BY <1>2, <2>7 DEF r
<1> QED
  BY <1>1, <1>2

LEMMA ChosenIs ==
    ASSUME NEW hosts \in Seq(HostRecord), NEW sel \in VP
    PROVE  ChosenFrom(hosts, sel, Len(hosts), Chosen(hosts, sel))
<1> DEFINE n == Len(hosts)
           Add(l, i) == IF Keep(hosts, i, sel) THEN add_host(l, Taken(hosts, i, sel)) ELSE l
           Def(f) == f = [i \in 0..n |-> IF i = 0 THEN <<>> ELSE Add(f[i - 1], i)]
           F == CHOOSE f : Def(f)
           H == Seq(HostRecord)
           step == [x \in H \X (1..n) |-> Add(x[1], x[2])]
<1>1. n \in Nat /\ DOMAIN hosts = 1..n
  OBVIOUS
<1>2. ASSUME NEW l \in H, NEW i \in 1..n PROVE Add(l, i) \in H
  <2>1. Taken(hosts, i, sel) \in HostRecord
    BY TakenIs
  <2> QED
    BY <2>1, AddHost
<1> HIDE DEF Add
<1>3. step \in [H \X (1..n) -> H]
  BY <1>2
<1>4. \E f : Def(f)
  <2>1. PICK g \in [0..n -> H] : g[0] = <<>> /\ \A i \in 1..n : g[i] = step[<<g[i - 1], i>>]
    <3>0. <<>> \in H
      OBVIOUS
    <3> HIDE DEF step, H, n
    <3>1. Steps(H, <<>>, step, n)
      BY <1>1, <1>3, <3>0, StepsExist
    <3> QED
      BY <3>1 DEF Steps
  <2>2. \A i \in 1..n : g[i] = Add(g[i - 1], i)
    <3> TAKE i \in 1..n
    <3>1. g[i - 1] \in H
      BY <1>1, <2>1
    <3> QED
      BY <2>1, <3>1
  <2>3. g = [i \in 0..n |-> IF i = 0 THEN <<>> ELSE Add(g[i - 1], i)]
    BY <1>1, <2>1, <2>2
  <2> QED
    BY <2>3
<1>5. Def(F)
  BY <1>4
<1>6. Chosen(hosts, sel) = F[n]
  <2>1. Chosen(hosts, sel) =
          (CHOOSE f : f = [i \in 0..n |-> IF i = 0 THEN <<>>
                              ELSE IF Keep(hosts, i, sel) THEN add_host(f[i - 1], [j \in DOMAIN hosts |-> Taken(hosts, j, sel)][i])
                              ELSE f[i - 1]])[n]
    BY DEF Chosen, Keep, Taken
  <2>2. ASSUME NEW f
        PROVE  [i \in 0..n |-> IF i = 0 THEN <<>>
                    ELSE IF Keep(hosts, i, sel) THEN add_host(f[i - 1], [j \in DOMAIN hosts |-> Taken(hosts, j, sel)][i])
                    ELSE f[i - 1]]
               = [i \in 0..n |-> IF i = 0 THEN <<>> ELSE Add(f[i - 1], i)]
    BY <1>1 DEF Add
  <2> QED
    BY <2>1, <2>2
<1> HIDE DEF F
<1> DEFINE P == {i \in 0..n : ChosenFrom(hosts, sel, i, F[i])}
<1>7. F[0] = <<>> /\ \A i \in 1..n : F[i] = Add(F[i - 1], i)
  BY <1>1, <1>5
<1>8. 0 \in P
  <2>1. ChosenFrom(hosts, sel, 0, <<>>)
    <3>1. <<>> \in Seq(HostRecord) /\ Sorted(<<>>) /\ ToSet(<<>>) = {}
      BY DEF Sorted, ToSet
    <3>2. \A X \in SUBSET HostRecord : At(<<>>, X) = {}
      BY DEF At
    <3>3. 1..0 = {}
      OBVIOUS
    <3>4. \A X \in SUBSET HostRecord : {j \in 1..0 : Keep(hosts, j, sel) /\ Taken(hosts, j, sel) \in X} = {}
      BY <3>3
    <3>5. {k \in 1..0 : Keep(hosts, k, sel)} = {}
      BY <3>3
    <3>6. {Taken(hosts, j, sel) : j \in {k \in 1..0 : Keep(hosts, k, sel)}} = {}
      BY <3>5
    <3> QED
      BY <3>1, <3>2, <3>4, <3>6 DEF ChosenFrom
  <2> QED
    BY <1>1, <1>7, <2>1
<1>9. \A i \in 1..n : i - 1 \in P => i \in P
  <2> TAKE i \in 1..n
  <2> HAVE i - 1 \in P
  <2>1. ChosenFrom(hosts, sel, i - 1, F[i - 1])
    OBVIOUS
  <2>2. ChosenFrom(hosts, sel, i, Add(F[i - 1], i))
    BY <2>1, ChosenStep DEF Add
  <2> QED
    BY <1>1, <1>7, <2>2
<1>10. n \in P
  <2> HIDE DEF P, n
  <2>1. \A i \in 0..n : i \in P
    BY <1>1, <1>8, <1>9, UpTo
  <2> QED
    BY <1>1, <2>1
<1> QED
  BY <1>6, <1>10
-----------------------------------------------------------------------------
(* What a probe finds. *)

LEMMA SupportsType ==
    ASSUME TypeOK, NEW s \in Servers
    PROVE  Supports(s) \in SUBSET VP
<1>1. conf.support \in DOMAIN Support
  BY DEF TypeOK, Conf
<1>2. Support[conf.support] \in [Servers -> SUBSET VP]
  BY <1>1, MountNfsAssumption
<1> QED
  BY <1>2 DEF Supports

LEMMA AskedType ==
    ASSUME TypeOK
    PROVE  /\ conf.vers \in SUBSET (2..4) /\ conf.vers # {}
           /\ conf.protos \in SUBSET {"tcp", "udp"} /\ conf.protos # {}
           /\ Asked \in SUBSET VP /\ Asked # {}
<1>1. /\ conf.vers \in SUBSET (2..4) /\ conf.vers # {}
      /\ conf.protos \in SUBSET {"tcp", "udp"} /\ conf.protos # {}
  BY DEF TypeOK, Conf
<1>2. PICK v \in conf.vers, p \in conf.protos : TRUE
  BY <1>1
<1>3. <<v, p>> \in Asked
  BY <1>2 DEF Asked
<1>4. Asked \in SUBSET VP
  BY <1>1 DEF Asked, VP
<1> QED
  BY <1>1, <1>3, <1>4

LEMMA AnswerIs ==
    ASSUME TypeOK, NEW s \in Servers, NEW vp \in VP
    PROVE  /\ health[s] = "up" => Answers(s)[vp] = IF vp \in Supports(s) THEN "ok" ELSE "noport"
           /\ health[s] = "error" => Answers(s)[vp] = IF vp \in Supports(s) THEN "error" ELSE "noport"
           /\ health[s] \in {"timeout", "unreach"} => Answers(s)[vp] = health[s]
           /\ health[s] \in {"up", "error", "timeout", "unreach"}
BY DEF TypeOK, Health, Answers, create_client, rpc_portmap_getport, rpc_ping_proto

\* One step of get_nfs_info(), for version v.
Info == [stop : BOOLEAN, err : {"none", "unreach", "timeout"}, ok : SUBSET (2..4)]
InfoStep(ans, vers, p, x, v) ==
    IF x.stop \/ v \notin vers THEN x
    ELSE IF ans[<<v, p>>] \in {"unreach", "timeout"} THEN [x EXCEPT !.stop = TRUE, !.err = ans[<<v, p>>]]
    ELSE IF ans[<<v, p>>] = "ok" THEN [x EXCEPT !.ok = @ \cup {v}]
    ELSE IF ans[<<v, p>>] = "noport" /\ vers # {4} /\ v # 4 THEN [x EXCEPT !.stop = TRUE]
    ELSE x
InfoStart == [stop |-> FALSE, err |-> "none", ok |-> {}]

InfoAfter(a, vers, x, v, y) ==
    /\ y \in Info
    /\ x.stop \/ v \notin vers => y = x
    /\ ~x.stop /\ v \in vers /\ a \in {"unreach", "timeout"} => y.stop /\ y.err = a
    /\ ~x.stop /\ v \in vers /\ a = "ok" => ~y.stop /\ y.err = x.err /\ y.ok = x.ok \cup {v}
    /\ ~x.stop /\ v \in vers /\ a = "noport" => (y.stop <=> v # 4) /\ y.err = x.err /\ y.ok = x.ok
    /\ ~x.stop /\ v \in vers /\ a = "error" => y = x
LEMMA InfoStepIs ==
    ASSUME NEW ans, NEW vers, NEW p, NEW x \in Info, NEW v \in 2..4
    PROVE  InfoAfter(ans[<<v, p>>], vers, x, v, InfoStep(ans, vers, p, x, v))
<1> DEFINE a == ans[<<v, p>>]
           y == InfoStep(ans, vers, p, x, v)
<1>1. CASE x.stop \/ v \notin vers
  BY <1>1 DEF InfoStep, InfoAfter
<1>2. CASE ~x.stop /\ v \in vers /\ a \in {"unreach", "timeout"}
  <2>1. y = [x EXCEPT !.stop = TRUE, !.err = a]
    BY <1>2 DEF InfoStep
  <2> HIDE DEF y, a
  <2> QED
    BY <1>2, <2>1 DEF Info, InfoAfter, y, a
<1>3. CASE ~x.stop /\ v \in vers /\ a = "ok"
  <2>1. y = [x EXCEPT !.ok = x.ok \cup {v}]
    BY <1>3 DEF InfoStep, Info
  <2> HIDE DEF y, a
  <2>2. y \in Info /\ y.stop = x.stop /\ y.err = x.err /\ y.ok = x.ok \cup {v}
    BY <2>1 DEF Info
  <2> QED
    BY <1>3, <2>2 DEF InfoAfter, y, a
<1>4. CASE ~x.stop /\ v \in vers /\ a = "noport" /\ v # 4
  <2>1. y = [x EXCEPT !.stop = TRUE]
    BY <1>4 DEF InfoStep
  <2> HIDE DEF y, a
  <2> QED
    BY <1>4, <2>1 DEF Info, InfoAfter, y, a
<1>5. CASE ~x.stop /\ v \in vers /\ a = "noport" /\ v = 4
  <2>1. y = x
    BY <1>5 DEF InfoStep
  <2> QED
    BY <1>5, <2>1 DEF InfoAfter
<1>6. CASE ~x.stop /\ v \in vers /\ a \notin {"unreach", "timeout", "ok", "noport"}
  <2>1. y = x
    BY <1>6 DEF InfoStep
  <2> QED
    BY <1>6, <2>1 DEF InfoAfter
<1> QED
  BY <1>1, <1>2, <1>3, <1>4, <1>5, <1>6

\* get_nfs_info() takes the three versions in turn.
LEMMA InfoIs ==
    ASSUME NEW ans, NEW vers, NEW p
    PROVE  get_nfs_info(ans, vers, p) =
             InfoStep(ans, vers, p, InfoStep(ans, vers, p, InfoStep(ans, vers, p, InfoStart, 4), 3), 2)
<1> DEFINE order == <<4, 3, 2>>
           Add(x, i) == InfoStep(ans, vers, p, x, order[i])
           Def(f) == f = [i \in 0..3 |-> IF i = 0 THEN InfoStart ELSE Add(f[i - 1], i)]
           F == CHOOSE f : Def(f)
           step == [x \in Info \X (1..3) |-> Add(x[1], x[2])]
<1>0. InfoStart \in Info
  BY DEF InfoStart, Info
<1>1. \A i \in 1..3 : order[i] \in 2..4
  OBVIOUS
<1>o. order[1] = 4 /\ order[2] = 3 /\ order[3] = 2
  OBVIOUS
<1>2. ASSUME NEW x \in Info, NEW i \in 1..3 PROVE Add(x, i) \in Info
  BY <1>1, InfoStepIs, Zenon DEF InfoAfter
<1> HIDE DEF Add
<1>3. step \in [Info \X (1..3) -> Info]
  BY <1>2
<1>4. \E f : Def(f)
  <2>1. PICK g \in [0..3 -> Info] : g[0] = InfoStart /\ \A i \in 1..3 : g[i] = step[<<g[i - 1], i>>]
    <3> HIDE DEF step
    <3>1. Steps(Info, InfoStart, step, 3)
      BY <1>0, <1>3, StepsExist
    <3> QED
      BY <3>1 DEF Steps
  <2>2. \A i \in 1..3 : g[i] = Add(g[i - 1], i)
    <3> TAKE i \in 1..3
    <3>1. g[i - 1] \in Info
      BY <2>1
    <3> QED
      BY <2>1, <3>1
  <2>3. g = [i \in 0..3 |-> IF i = 0 THEN InfoStart ELSE Add(g[i - 1], i)]
    BY <2>1, <2>2
  <2> QED
    BY <2>3
<1>5. Def(F)
  BY <1>4
<1>6. get_nfs_info(ans, vers, p) = F[3]
  BY DEF get_nfs_info, Add, InfoStep, InfoStart
<1> HIDE DEF F
<1>7. F[0] = InfoStart /\ F[1] = Add(F[0], 1) /\ F[2] = Add(F[1], 2) /\ F[3] = Add(F[2], 3)
  BY <1>5
<1> QED
  BY <1>6, <1>7, <1>o DEF Add

\* The versions a server that is up answers for, over one protocol.
FoundOver(s, vers, p) ==
    {v \in vers : <<v, p>> \in Supports(s) /\ (v = 2 /\ 3 \in vers => <<3, p>> \in Supports(s))}
LEMMA NfsInfo ==
    ASSUME TypeOK, NEW s \in Servers, NEW p \in {"tcp", "udp"}, NEW vers \in SUBSET (2..4), vers # {}
    PROVE  /\ health[s] = "up" => /\ get_nfs_info(Answers(s), vers, p).err = "none"
                                  /\ get_nfs_info(Answers(s), vers, p).ok = FoundOver(s, vers, p)
           /\ health[s] = "error" => /\ get_nfs_info(Answers(s), vers, p).err = "none"
                                     /\ get_nfs_info(Answers(s), vers, p).ok = {}
           /\ health[s] \in {"timeout", "unreach"} => get_nfs_info(Answers(s), vers, p).err # "none"
<1> DEFINE ans == Answers(s)
           x1 == InfoStep(ans, vers, p, InfoStart, 4)
           x2 == InfoStep(ans, vers, p, x1, 3)
           x3 == InfoStep(ans, vers, p, x2, 2)
<1>0. /\ InfoStart \in Info /\ ~InfoStart.stop /\ InfoStart.err = "none" /\ InfoStart.ok = {}
      /\ 2 \in 2..4 /\ 3 \in 2..4 /\ 4 \in 2..4
  BY DEF InfoStart, Info
<1>1. get_nfs_info(ans, vers, p) = x3
  BY InfoIs
<1>2. <<4, p>> \in VP /\ <<3, p>> \in VP /\ <<2, p>> \in VP
  BY DEF VP
<1>a. /\ x1 \in Info
      /\ 4 \notin vers => x1 = InfoStart
      /\ 4 \in vers /\ ans[<<4, p>>] \in {"unreach", "timeout"} => x1.stop /\ x1.err = ans[<<4, p>>]
      /\ 4 \in vers /\ ans[<<4, p>>] = "ok" => ~x1.stop /\ x1.err = "none" /\ x1.ok = {4}
      /\ 4 \in vers /\ ans[<<4, p>>] = "noport" => ~x1.stop /\ x1.err = "none" /\ x1.ok = {}
      /\ 4 \in vers /\ ans[<<4, p>>] = "error" => x1 = InfoStart
  <2>1. InfoAfter(ans[<<4, p>>], vers, InfoStart, 4, x1)
    BY <1>0, InfoStepIs
  <2> HIDE DEF x1, ans
  <2> QED
    BY <1>0, <2>1 DEF InfoAfter
<1> HIDE DEF x1
<1>b. /\ x2 \in Info
      /\ x1.stop \/ 3 \notin vers => x2 = x1
      /\ ~x1.stop /\ 3 \in vers /\ ans[<<3, p>>] \in {"unreach", "timeout"} => x2.stop /\ x2.err = ans[<<3, p>>]
      /\ ~x1.stop /\ 3 \in vers /\ ans[<<3, p>>] = "ok" => ~x2.stop /\ x2.err = x1.err /\ x2.ok = x1.ok \cup {3}
      /\ ~x1.stop /\ 3 \in vers /\ ans[<<3, p>>] = "noport" => x2.stop /\ x2.err = x1.err /\ x2.ok = x1.ok
      /\ ~x1.stop /\ 3 \in vers /\ ans[<<3, p>>] = "error" => x2 = x1
  <2>1. InfoAfter(ans[<<3, p>>], vers, x1, 3, x2)
    BY <1>0, <1>a, InfoStepIs
  <2> HIDE DEF x2, ans
  <2> QED
    BY <2>1 DEF InfoAfter
<1> HIDE DEF x2
<1>c. /\ x2.stop \/ 2 \notin vers => x3 = x2
      /\ ~x2.stop /\ 2 \in vers /\ ans[<<2, p>>] \in {"unreach", "timeout"} => x3.stop /\ x3.err = ans[<<2, p>>]
      /\ ~x2.stop /\ 2 \in vers /\ ans[<<2, p>>] = "ok" => ~x3.stop /\ x3.err = x2.err /\ x3.ok = x2.ok \cup {2}
      /\ ~x2.stop /\ 2 \in vers /\ ans[<<2, p>>] = "noport" => x3.stop /\ x3.err = x2.err /\ x3.ok = x2.ok
      /\ ~x2.stop /\ 2 \in vers /\ ans[<<2, p>>] = "error" => x3 = x2
  <2>1. InfoAfter(ans[<<2, p>>], vers, x2, 2, x3)
    BY <1>0, <1>b, InfoStepIs
  <2> HIDE DEF x3, ans
  <2> QED
    BY <2>1 DEF InfoAfter
<1> HIDE DEF x3
<1>3. CASE health[s] = "up"
  <2>1. \A v \in {2, 3, 4} : ans[<<v, p>>] = IF <<v, p>> \in Supports(s) THEN "ok" ELSE "noport"
    BY <1>2, <1>3, AnswerIs
  <2>2. ~x1.stop /\ x1.err = "none" /\ x1.ok = IF 4 \in vers /\ <<4, p>> \in Supports(s) THEN {4} ELSE {}
    BY <1>0, <1>a, <2>1
  <2>3. /\ x2.err = "none" /\ (x2.stop <=> 3 \in vers /\ <<3, p>> \notin Supports(s))
        /\ x2.ok = IF 3 \in vers /\ <<3, p>> \in Supports(s) THEN x1.ok \cup {3} ELSE x1.ok
    BY <1>b, <2>1, <2>2
  <2>4. /\ x3.err = "none"
        /\ x3.ok = IF ~x2.stop /\ 2 \in vers /\ <<2, p>> \in Supports(s) THEN x2.ok \cup {2} ELSE x2.ok
    BY <1>c, <2>1, <2>3
  <2>5. \A v : v \in x3.ok <=> v \in FoundOver(s, vers, p)
    <3> TAKE v
    <3>1. v \in vers => v = 2 \/ v = 3 \/ v = 4
      OBVIOUS
    <3>2. v \in x3.ok <=> \/ v = 4 /\ 4 \in vers /\ <<4, p>> \in Supports(s)
                          \/ v = 3 /\ 3 \in vers /\ <<3, p>> \in Supports(s)
                          \/ v = 2 /\ ~x2.stop /\ 2 \in vers /\ <<2, p>> \in Supports(s)
      BY <2>2, <2>3, <2>4
    <3> QED
      BY <2>3, <3>1, <3>2 DEF FoundOver
  <2>6. x3.ok = FoundOver(s, vers, p)
    BY <2>5
  <2> QED
    BY <1>1, <1>3, <2>4, <2>6
<1>4. CASE health[s] = "error"
  <2>1. \A v \in {2, 3, 4} : ans[<<v, p>>] \in {"error", "noport"}
    BY <1>2, <1>4, AnswerIs
  <2>2. x1.err = "none" /\ x1.ok = {}
    BY <1>0, <1>a, <2>1
  <2>3. x2.err = "none" /\ x2.ok = {}
    BY <1>a, <1>b, <2>1, <2>2
  <2>4. x3.err = "none" /\ x3.ok = {}
    BY <1>b, <1>c, <2>1, <2>3
  <2> QED
    BY <1>1, <1>4, <2>4
<1>5. CASE health[s] \in {"timeout", "unreach"}
  <2>1. \A v \in {2, 3, 4} : ans[<<v, p>>] \in {"unreach", "timeout"}
    BY <1>2, <1>5, AnswerIs
  <2>2. 2 \in vers \/ 3 \in vers \/ 4 \in vers
    <3>1. PICK v \in vers : TRUE
      OBVIOUS
    <3>2. v = 2 \/ v = 3 \/ v = 4
      BY <3>1
    <3> QED
      BY <3>1, <3>2
  <2>3. IF 4 \in vers THEN x1.stop /\ x1.err # "none" ELSE x1 = InfoStart
    BY <1>a, <2>1
  <2>4. IF 4 \in vers \/ 3 \in vers THEN x2.stop /\ x2.err # "none" ELSE x2 = InfoStart
    BY <1>0, <1>b, <2>1, <2>3
  <2>5. x3.err # "none"
    BY <1>0, <1>c, <2>1, <2>2, <2>4
  <2> QED
    BY <1>1, <1>5, <2>5
<1>6. health[s] \in {"up", "error", "timeout", "unreach"}
  BY DEF TypeOK, Health
<1> QED
  BY <1>3, <1>4, <1>5, <1>6

\* get_vers_and_cost() succeeds for a server that is up and has a version that
\* can be found, and finds all of them.
LEMMA VersAndCost ==
    ASSUME TypeOK, NEW s \in Servers, NEW h, NEW t
    PROVE  get_vers_and_cost(h, Answers(s), conf, t) =
             IF health[s] = "up" /\ Found(s) # {}
             THEN [status |-> TRUE, host |-> [h EXCEPT !.vers = Found(s), !.cost = Cost(h, conf, t)]]
             ELSE [status |-> FALSE, host |-> h]
<1> DEFINE info(p) == IF p \in conf.protos THEN get_nfs_info(Answers(s), conf.vers, p)
                      ELSE [stop |-> FALSE, err |-> "none", ok |-> {}]
           good(p) == IF info(p).err = "none" THEN {<<v, p>> : v \in info(p).ok} ELSE {}
           supported == good("tcp") \cup good("udp")
<1>1. get_vers_and_cost(h, Answers(s), conf, t) =
        IF info("tcp").err # "none" \/ supported = {} THEN [status |-> FALSE, host |-> h]
        ELSE [status |-> TRUE, host |-> [h EXCEPT !.vers = supported, !.cost = Cost(h, conf, t)]]
  BY DEF get_vers_and_cost
<1>2. /\ conf.vers \in SUBSET (2..4) /\ conf.vers # {}
      /\ conf.protos \in SUBSET {"tcp", "udp"} /\ conf.protos # {}
  BY AskedType
<1>3. \A p \in {"tcp", "udp"} : p \notin conf.protos => info(p).err = "none" /\ info(p).ok = {}
  OBVIOUS
<1>4. CASE health[s] = "up"
  <2>1. \A p \in conf.protos : info(p).err = "none" /\ info(p).ok = FoundOver(s, conf.vers, p)
    BY <1>2, <1>4, NfsInfo
  <2> HIDE DEF info
  <2>2. \A p \in {"tcp", "udp"} : good(p) = IF p \in conf.protos THEN {<<v, p>> : v \in FoundOver(s, conf.vers, p)} ELSE {}
    BY <1>3, <2>1
  <2>3. \A x : x \in supported <=> \E p \in conf.protos : \E v \in FoundOver(s, conf.vers, p) : x = <<v, p>>
    <3> HIDE DEF good
    <3> QED
      BY <1>2, <2>2
  <2>4. \A x : x \in Found(s) <=> \E p \in conf.protos : \E v \in FoundOver(s, conf.vers, p) : x = <<v, p>>
    <3>1. ASSUME NEW x \in Found(s)
          PROVE  \E p \in conf.protos : \E v \in FoundOver(s, conf.vers, p) : x = <<v, p>>
      <4>1. PICK v \in conf.vers, p \in conf.protos : x = <<v, p>>
        BY DEF Found, Asked
      <4>2. v \in FoundOver(s, conf.vers, p)
        BY <4>1 DEF Found, FoundOver
      <4> QED
        BY <4>1, <4>2
    <3>2. ASSUME NEW p \in conf.protos, NEW v \in FoundOver(s, conf.vers, p) PROVE <<v, p>> \in Found(s)
      <4>1. v \in conf.vers /\ <<v, p>> \in Asked /\ <<v, p>>[1] = v /\ <<v, p>>[2] = p
        BY DEF FoundOver, Asked
      <4> QED
        BY <4>1 DEF Found, FoundOver
    <3> QED
      BY <3>1, <3>2
  <2> HIDE DEF supported
  <2>5. supported = Found(s)
    BY <2>3, <2>4
  <2>6. info("tcp").err = "none"
    BY <1>3, <2>1
  <2> QED
    BY <1>1, <1>4, <2>5, <2>6
<1>5. CASE health[s] = "error"
  <2>1. \A p \in conf.protos : info(p).ok = {}
    BY <1>2, <1>5, NfsInfo
  <2>2. \A p \in {"tcp", "udp"} : info(p).ok = {}
    BY <1>3, <2>1
  <2> HIDE DEF info
  <2>3. good("tcp") = {} /\ good("udp") = {}
    BY <2>2
  <2>4. supported = {}
    BY <2>3
  <2> HIDE DEF supported
  <2> QED
    BY <1>1, <1>5, <2>4
<1>6. CASE health[s] \in {"timeout", "unreach"}
  <2>1. \A p \in conf.protos : info(p).err # "none"
    BY <1>2, <1>6, NfsInfo
  <2>2. \A p \in {"tcp", "udp"} : info(p).err # "none" \/ info(p).ok = {}
    BY <1>3, <2>1
  <2> HIDE DEF info
  <2>3. good("tcp") = {} /\ good("udp") = {}
    BY <2>2
  <2>4. supported = {}
    BY <2>3
  <2> HIDE DEF supported
  <2> QED
    BY <1>1, <1>6, <2>4
<1>7. health[s] \in {"up", "error", "timeout", "unreach"}
  BY DEF TypeOK, Health
<1> QED
  BY <1>4, <1>5, <1>6, <1>7

-----------------------------------------------------------------------------
(***************************************************************************)
(* Types.                                                                  *)
(***************************************************************************)
LEMMA CostNat ==
    ASSUME TypeOK, NEW h \in HostRecord, NEW t \in Nat
    PROVE  Cost(h, conf, t) \in Nat
<1> DEFINE base == IF conf.weightonly THEN 1 ELSE t
<1>1. base \in Nat /\ h.weight + 1 \in Nat /\ h.weight \in Nat
  BY DEF HostRecord
<1>2. \A a, b \in Nat : a * b \in Nat
  OBVIOUS
<1> QED
  BY <1>1, <1>2 DEF Cost

\* A probe leaves a host what it is but for its versions and cost.
LEMMA ProbedHost ==
    ASSUME NEW h \in HostRecord, NEW V \in SUBSET VP, NEW c \in Nat
    PROVE  /\ [h EXCEPT !.vers = V, !.cost = c] \in HostRecord
           /\ SameHost([h EXCEPT !.vers = V, !.cost = c], h)
           /\ [h EXCEPT !.vers = V, !.cost = c].vers = V
BY DEF HostRecord, SameHost

LEMMA VersAndCostType ==
    ASSUME TypeOK, NEW h \in HostRecord, NEW ans, NEW t \in Nat
    PROVE  LET g == get_vers_and_cost(h, ans, conf, t)
           IN g.host \in HostRecord /\ SameHost(g.host, h)
<1> DEFINE info(p) == IF p \in conf.protos THEN get_nfs_info(ans, conf.vers, p)
                      ELSE [stop |-> FALSE, err |-> "none", ok |-> {}]
           good(p) == IF info(p).err = "none" THEN {<<v, p>> : v \in info(p).ok} ELSE {}
           supported == good("tcp") \cup good("udp")
<1>1. get_vers_and_cost(h, ans, conf, t) =
        IF info("tcp").err # "none" \/ supported = {} THEN [status |-> FALSE, host |-> h]
        ELSE [status |-> TRUE, host |-> [h EXCEPT !.vers = supported, !.cost = Cost(h, conf, t)]]
  BY DEF get_vers_and_cost
<1>2. \A p \in {"tcp", "udp"} : info(p).ok \in SUBSET (2..4)
  <2> TAKE p \in {"tcp", "udp"}
  <2>1. get_nfs_info(ans, conf.vers, p) \in Info
    <3>1. InfoStart \in Info /\ 2 \in 2..4 /\ 3 \in 2..4 /\ 4 \in 2..4
      BY DEF InfoStart, Info
    <3>2. \A x \in Info : \A v \in 2..4 : InfoStep(ans, conf.vers, p, x, v) \in Info
      BY InfoStepIs DEF InfoAfter
    <3> QED
      BY <3>1, <3>2, InfoIs
  <2> QED
    BY <2>1 DEF Info
<1> HIDE DEF info
<1>3. supported \in SUBSET VP
  <2>1. \A p \in {"tcp", "udp"} : good(p) \in SUBSET VP
    BY <1>2 DEF VP
  <2> QED
    BY <2>1
<1> HIDE DEF supported
<1>4. Cost(h, conf, t) \in Nat
  BY CostNat
<1>5. SameHost(h, h)
  BY DEF SameHost
<1> DEFINE k == [h EXCEPT !.vers = supported, !.cost = Cost(h, conf, t)]
<1>6. k \in HostRecord /\ SameHost(k, h)
  BY <1>3, <1>4, ProbedHost
<1> HIDE DEF k, good
<1>7. get_vers_and_cost(h, ans, conf, t) \in {[status |-> FALSE, host |-> h], [status |-> TRUE, host |-> k]}
  BY <1>1 DEF k
<1> QED
  BY <1>5, <1>6, <1>7

LEMMA SupportedVerAndCost ==
    ASSUME TypeOK, NEW h \in HostRecord, NEW ans, NEW sel \in VP, NEW t \in Nat
    PROVE  LET g == get_supported_ver_and_cost(h, ans, sel, conf, t)
           IN /\ g.host \in HostRecord /\ SameHost(g.host, h)
              /\ ans[sel] = "ok" => g.status
<1>1. Cost(h, conf, IF ans[sel] = "ok" THEN t ELSE 0) \in Nat
  BY CostNat
<1>2. SameHost(h, h) /\ {sel} \in SUBSET VP
  BY DEF SameHost
<1> QED
  BY <1>1, <1>2, ProbedHost DEF get_supported_ver_and_cost

LEMMA MaxOfTwo ==
    ASSUME NEW n \in Nat
    PROVE  Max({0, n - 1}) = IF n = 0 THEN 0 ELSE n - 1
<1> DEFINE P(x) == \A y \in {0, n - 1} : x >= y
<1>1. \E x \in {0, n - 1} : P(x)
  OBVIOUS
<1>2. Max({0, n - 1}) \in {0, n - 1} /\ P(Max({0, n - 1}))
  BY <1>1 DEF Max
<1> QED
  BY <1>2

LEMMA ParsedType ==
    ASSUME TypeOK, NEW p \in Request
    PROVE  /\ Location(p) \in Seq(LocationEntry)
           /\ Parsed(p) \in Seq(HostRecord)
           /\ ~Device \/ p # "A" => Parsed(p) \in HostList(Location(p))
<1>1. Location(p) \in Seq(LocationEntry)
  <2>1. CASE p = "A"
    <3>1. conf.location \in DOMAIN Locations
      BY DEF TypeOK, Conf
    <3> QED
      BY <2>1, <3>1, MountNfsAssumption DEF Location
  <2>2. CASE p # "A"
    <3> DEFINE a == [srv |-> "lh", rel |-> <<"self">>]
               e == [name |-> conf.name, weight |-> 0, addrs |-> <<a>>]
    <3>1. a \in Address
      <4>1. <<"self">> \in Seq({"self", "subnet", "net", "none", "unusable"})
        OBVIOUS
      <4> QED
        BY <4>1, MountNfsAssumption DEF Address
    <3>2. <<a>> \in Seq(Address)
      BY <3>1
    <3>3. conf.name \in {"known", "unknown", "none"}
      BY DEF TypeOK, Conf
    <3> HIDE DEF a
    <3>4. e \in LocationEntry
      BY <3>2, <3>3 DEF LocationEntry
    <3> HIDE DEF e
    <3>5. <<e>> \in Seq(LocationEntry)
      BY <3>4
    <3> QED
      BY <2>2, <3>5 DEF Location, e, a
  <2> QED
    BY <2>1, <2>2
<1>2. conf \in Conf
  BY DEF TypeOK
<1>3. parse_location(Location(p), conf) \in HostList(Location(p))
  BY <1>1, <1>2, ParseLocation
<1>4. HostList(Location(p)) \subseteq Seq(HostRecord)
  BY DEF HostList
<1>5. << new_host(None, 0, PROXIMITY_OTHER, 0, FALSE) >> \in Seq(HostRecord)
  <2>1. new_host(None, 0, PROXIMITY_OTHER, 0, FALSE) \in HostRecord
    BY DEF new_host, HostRecord
  <2>2. \A x \in HostRecord : <<x>> \in Seq(HostRecord)
    OBVIOUS
  <2> QED
    BY <2>1, <2>2
<1> QED
  BY <1>1, <1>3, <1>4, <1>5 DEF Parsed

LEMMA BeginType ==
    ASSUME TypeOK, NEW p \in Request
    PROVE  /\ Begin(p) \in RequestRecord /\ Cursor(Begin(p)) /\ Begin(p).pc \in {"prune", "mkdir"}
           /\ Begin(p).hosts = Parsed(p) /\ Begin(p).prev = 0 /\ Begin(p).sel = None
           /\ Begin(p).pc = "mkdir" <=> p = "A" /\ Device
<1>1. Parsed(p) \in Seq(HostRecord)
  BY ParsedType
<1>2. NoReq \in RequestRecord
  BY DEF NoReq, RequestRecord
<1>3. Begin(p) = [NoReq EXCEPT !.pc = IF p = "A" /\ Device THEN "mkdir" ELSE "prune", !.hosts = Parsed(p)]
  BY DEF Begin
<1> QED
  BY <1>1, <1>2, <1>3 DEF RequestRecord, Cursor, NoReq

\* A call, its request and what is mounted on a path are not touched by the
\* work on another path.
LEMMA CallFrame ==
    ASSUME NEW q \in Path, CallShape(q), Waiting(q)' <=> Waiting(q), conf' = conf,
           sp'[q] = sp[q], child'[q] = child[q], hurt \subseteq hurt'
    PROVE  CallShape(q)'
<1>1. UNCHANGED UseOpen(q)
  BY DEF UseOpen
<1>2. UNCHANGED Trigger(q)
  BY <1>1 DEF Trigger
<1> QED
  BY <1>2 DEF CallShape, Programs

LEMMA MountFrame ==
    ASSUME NEW q \in Request, Counted(q), RequestTrue(q), conf' = conf, hurt \subseteq hurt',
           sp'[q] = sp[q], child'[q] = child[q], req'[q] = req[q], mnt'[q] = mnt[q],
           q \in mtab' <=> q \in mtab
    PROVE  Counted(q)' /\ RequestTrue(q)'
<1>1. UNCHANGED <<Trigger(q), Made(q)>>
  BY DEF UseOpen, Trigger, Made
<1>2. Untouched(q)' => Untouched(q)
  BY DEF Untouched
<1> QED
  BY <1>1, <1>2 DEF Counted, RequestTrue

LEMMA QuietMount ==
    ASSUME NEW p \in Request, CallShape(p), Counted(p), ~Waiting(p), req[p].pc = "done" => mnt[p] = 0,
           req'[p].pc = "done" => req'[p].ret = "fail", conf' = conf, hurt \subseteq hurt',
           sp'[p] = sp[p], child'[p] = child[p], mnt'[p] = mnt[p]
    PROVE  Counted(p)' /\ RequestTrue(p)'
<1>1. sp[p] = NoSpawn /\ child[p] = "none" /\ sp[p].pc = "idle" /\ sp[p].ret = "none"
  <2>1. sp[p] = NoSpawn
    BY DEF CallShape
  <2>2. sp[p].pc = "idle" /\ sp[p].ret = "none"
    BY <2>1 DEF NoSpawn
  <2> QED
    BY <2>1, <2>2 DEF CallShape
<1>2. ~Made(p) /\ ~Made(p)'
  BY <1>1 DEF Made
<1>3. Untouched(p)' => Untouched(p)
  BY DEF Untouched
<1>4. Untouched(p)' => mnt[p] = 0
  BY <1>2, <1>3 DEF Counted
<1>5. Counted(p)'
  BY <1>1, <1>2, <1>4 DEF Counted
<1>6. RequestTrue(p)'
  BY <1>4 DEF RequestTrue
<1> QED
  BY <1>5, <1>6

\* A step that only works on the hosts of a request, or ends it without success.
LEMMA QuietStep ==
    ASSUME TruthInv, NEW p \in Request, NEW r \in RequestRecord, Cursor(r), r.pc # "wait",
           r.pc = "done" => r.ret = "fail", req[p].pc # "wait", req[p].pc = "done" => mnt[p] = 0,
           req' = [req EXCEPT ![p] = r],
           UNCHANGED <<conf, health, changes, exp, sp, child, mutex, mnt, mtab, mounted>>,
           unsteady' \subseteq Servers, dir' \subseteq Path, hurt \subseteq hurt'
    PROVE  TruthInv'
<1>0. /\ TypeOK /\ Cursors /\ SpawnShape /\ MountCount /\ MountTruth
      /\ req \in [Request -> RequestRecord] /\ Request \subseteq Path /\ "C" \notin Request
  BY DEF TruthInv, TypeOK, Path, Request
<1>1. req' \in [Request -> RequestRecord] /\ req'[p] = r /\ \A q \in Request \ {p} : req'[q] = req[q]
  BY <1>0
<1>2. TypeOK'
  BY <1>0, <1>1 DEF TypeOK
<1>3. Cursors'
  BY <1>0, <1>1 DEF Cursors
<1>4. SpawnShape'
  <2>1. \A q \in Path : Waiting(q)' <=> Waiting(q)
    BY <1>0, <1>1 DEF Waiting, Path
  <2>2. \A q \in Path : CallShape(q)'
    BY <1>0, <2>1, CallFrame DEF SpawnShape
  <2> QED
    BY <1>0, <2>2 DEF SpawnShape
<1>5. \A q \in Request : Counted(q)' /\ RequestTrue(q)'
  <2>1. ASSUME NEW q \in Request, q # p PROVE Counted(q)' /\ RequestTrue(q)'
    BY <1>0, <1>1, <2>1, MountFrame DEF MountCount, MountTruth
  <2>2. Counted(p)' /\ RequestTrue(p)'
    BY <1>0, <1>1, QuietMount DEF SpawnShape, MountCount, Waiting
  <2> QED
    BY <2>1, <2>2
<1>6. UmountTrue'
  BY <1>0 DEF MountTruth, UmountTrue
<1> QED
  BY <1>2, <1>3, <1>4, <1>5, <1>6 DEF TruthInv, MountCount, MountTruth

LEMMA FirstOther ==
    ASSUME NEW hosts \in Seq(HostRecord), Others(hosts) # {}
    PROVE  /\ Min(Others(hosts)) \in 1..Len(hosts) /\ ~Local(hosts[Min(Others(hosts))])
           /\ Sorted(hosts) => \A j \in DOMAIN hosts : Local(hosts[j]) <=> j < Min(Others(hosts))
<1> DEFINE m == Min(Others(hosts))
<1>1. Others(hosts) \subseteq 1..Len(hosts) /\ 1..Len(hosts) \subseteq Nat /\ DOMAIN hosts = 1..Len(hosts)
  BY DEF Others
<1>2. \E x \in Others(hosts) : \A y \in Others(hosts) : x <= y
  BY <1>1, Least
<1>3. m \in Others(hosts) /\ \A y \in Others(hosts) : m <= y
  BY <1>2 DEF Min
<1>4. m \in 1..Len(hosts) /\ ~Local(hosts[m])
  BY <1>1, <1>3 DEF Others
<1> HIDE DEF m
<1>5. ASSUME Sorted(hosts), NEW j \in DOMAIN hosts PROVE Local(hosts[j]) <=> j < m
  <2>1. CASE j < m
    BY <1>1, <1>3, <1>4, <2>1 DEF Others
  <2>2. CASE m <= j
    <3>1. hosts[m].prox <= hosts[j].prox
      <4>1. CASE m = j
        <5>1. hosts[m].prox \in {1, 2, 4, 8}
          BY <1>1, <1>4, ProxFacts
        <5> QED
          BY <4>1, <5>1
      <4>2. CASE m < j
        BY <1>1, <1>4, <1>5, <4>2 DEF Sorted
      <4> QED
        BY <1>1, <1>4, <2>2, <4>1, <4>2
    <3>2. /\ hosts[m].prox \in {1, 2, 4, 8} /\ (Local(hosts[m]) <=> hosts[m].prox = 1)
          /\ hosts[j].prox \in {1, 2, 4, 8} /\ (Local(hosts[j]) <=> hosts[j].prox = 1)
      BY <1>1, <1>4, ProxFacts
    <3> QED
      BY <1>1, <1>4, <2>2, <3>1, <3>2
  <2> QED
    BY <1>1, <1>4, <2>1, <2>2
<1> QED
  BY <1>4, <1>5 DEF m

\* What the steps of prune_host_list() leave alone, and the shape of what they
\* make of their own request.
LEMMA ProbingFrame ==
    ASSUME NEW p, prune_host_list(p) \/ ProbeNear(p) \/ Select(p) \/ ProbeFar(p)
    PROVE  UNCHANGED <<conf, health, changes, unsteady, exp, sp, child, mutex, hurt, mnt, mtab, dir, mounted>>
<1>1. UNCHANGED <<conf, srvVars, exp, spVars, fsVars>>
  BY Zenon DEF prune_host_list, ProbeNear, Select, ProbeFar
<1> QED
  BY <1>1 DEF srvVars, spVars, fsVars

LEMMA ProbeNearIs ==
    ASSUME NEW p, ProbeNear(p)
    PROVE  /\ req[p].pc = "near" /\ req[p].first <= Len(req[p].hosts) /\ IsNear(req[p])
           /\ \E h : \/ req' = [req EXCEPT ![p] = [req[p] EXCEPT !.hosts[req[p].i] = h, !.i = @ + 1]]
                     \/ req' = [req EXCEPT ![p] = [req[p] EXCEPT !.hosts = RemoveAt(req[p].hosts, req[p].i)]]
<1> DEFINE r == req[p]
           probe(t) == get_vers_and_cost(r.hosts[r.i], Answers(r.hosts[r.i].srv), conf, t)
<1>1. r.pc = "near" /\ r.first <= Len(r.hosts) /\ IsNear(r)
  BY Zenon DEF ProbeNear
<1>2. PICK t \in 1..MaxTime :
        req' = [req EXCEPT ![p] = IF probe(t).status THEN [r EXCEPT !.hosts[r.i] = probe(t).host, !.i = @ + 1]
                                  ELSE [r EXCEPT !.hosts = RemoveAt(r.hosts, r.i)]]
  BY Zenon DEF ProbeNear, FailedNear
<1> HIDE DEF probe
<1>3. CASE probe(t).status
  <2>1. req' = [req EXCEPT ![p] = [r EXCEPT !.hosts[r.i] = probe(t).host, !.i = @ + 1]]
    BY <1>2, <1>3
  <2> QED
    BY <1>1, <2>1
<1>4. CASE ~probe(t).status
  <2>1. req' = [req EXCEPT ![p] = [r EXCEPT !.hosts = RemoveAt(r.hosts, r.i)]]
    BY <1>2, <1>4
  <2> QED
    BY <1>1, <2>1
<1> QED
  BY <1>3, <1>4

LEMMA ProbeFarIs ==
    ASSUME NEW p, ProbeFar(p)
    PROVE  /\ req[p].pc = "far"
           /\ \E n, e : \/ req' = [req EXCEPT ![p] = [req[p] EXCEPT !.pc = "mkdir", !.hosts = req[p].new, !.new = <<>>, !.i = 0]]
                        \/ req' = [req EXCEPT ![p] = [req[p] EXCEPT !.i = @ + 1, !.new = n, !.prev = e]]
                        \/ req' = [req EXCEPT ![p] = [req[p] EXCEPT !.i = @ + 1]]
<1> DEFINE r == req[p]
           h == r.hosts[r.i]
           probe(t) == get_supported_ver_and_cost(h, Answers(h.srv), r.sel, conf, t)
           skip(t) == ~(~(conf.hostname /\ r.prev = h.ent) /\ probe(t).status)
           new(t) == add_host(r.new, probe(t).host)
           r1 == [r EXCEPT !.pc = "mkdir", !.hosts = r.new, !.new = <<>>, !.i = 0]
           r2(n, e) == [r EXCEPT !.i = @ + 1, !.new = n, !.prev = e]
           r3 == [r EXCEPT !.i = @ + 1]
<1>1. r.pc = "far"
  BY Zenon DEF ProbeFar
<1>2. PICK t \in 1..MaxTime :
        req' = [req EXCEPT ![p] = IF r.i > Len(r.hosts) THEN r1 ELSE IF ~skip(t) THEN r2(new(t), h.ent) ELSE r3]
  BY Zenon DEF ProbeFar
<1> HIDE DEF h, probe, skip, new, r1, r2, r3
<1>3. \/ req' = [req EXCEPT ![p] = r1] \/ req' = [req EXCEPT ![p] = r2(new(t), h.ent)]
      \/ req' = [req EXCEPT ![p] = r3]
  BY <1>2
<1>4. \E n, e : req' = [req EXCEPT ![p] = r1] \/ req' = [req EXCEPT ![p] = r2(n, e)] \/ req' = [req EXCEPT ![p] = r3]
  BY <1>3
<1> QED
  BY <1>1, <1>4 DEF r1, r2, r3

LEMMA ProbingOwn ==
    ASSUME NEW p, NEW q, p # q, prune_host_list(p) \/ ProbeNear(p) \/ Select(p) \/ ProbeFar(p),
           q \in DOMAIN req
    PROVE  req'[q] = req[q]
<1>1. ASSUME NEW s, req' = [req EXCEPT ![p] = s] PROVE req'[q] = req[q]
  BY <1>1
<1>2. CASE prune_host_list(p)
  BY <1>2 DEF prune_host_list, Goto
<1>3. CASE ProbeNear(p)
  BY <1>1, <1>3, ProbeNearIs
<1>4. CASE Select(p)
  <2>1. CASE Goto(p, "mkdir")
    BY <2>1 DEF Goto
  <2>2. CASE ~Goto(p, "mkdir")
    BY <1>1, <1>4, <2>2 DEF Select
  <2> QED
    BY <2>1, <2>2
<1>5. CASE ProbeFar(p)
  BY <1>1, <1>5, ProbeFarIs
<1> QED
  BY <1>2, <1>3, <1>4, <1>5

LEMMA TruthBegin ==
    ASSUME TruthInv, NEW p \in Request, mount_mount(p)
    PROVE  TruthInv'
<1>1. TypeOK
  BY DEF TruthInv
<1>2. /\ Begin(p) \in RequestRecord /\ Cursor(Begin(p))
      /\ Begin(p).pc # "wait" /\ Begin(p).pc # "done"
  BY <1>1, BeginType
<1>3. req[p].pc = "idle" /\ req' = [req EXCEPT ![p] = Begin(p)] /\ unsteady' \subseteq Servers
  BY <1>1 DEF mount_mount, TypeOK
<1>4. UNCHANGED <<conf, health, changes, exp, sp, child, mutex, mnt, mtab, mounted, hurt, dir>> /\ dir \subseteq Path
  BY <1>1 DEF mount_mount, spVars, fsVars, TypeOK
<1> QED
  BY <1>2, <1>3, <1>4, QuietStep

LEMMA TruthPrune ==
    ASSUME TruthInv, NEW p \in Request, prune_host_list(p)
    PROVE  TruthInv'
<1>1. TypeOK /\ req[p] \in RequestRecord /\ req[p].pc = "prune" /\ req[p].hosts \in Seq(HostRecord)
  BY DEF TruthInv, TypeOK, prune_host_list, RequestRecord
<1>2. /\ UNCHANGED <<conf, health, changes, exp, sp, child, mutex, mnt, mtab, mounted, hurt, dir, unsteady>>
      /\ dir \subseteq Path /\ unsteady \subseteq Servers
  BY <1>1, ProbingFrame DEF TypeOK
<1> DEFINE m == Min(Others(req[p].hosts))
           r1 == [req[p] EXCEPT !.pc = "mkdir"]
           r2 == [req[p] EXCEPT !.pc = "near", !.first = m, !.i = m]
<1>3. CASE Goto(p, "mkdir")
  <2>1. r1 \in RequestRecord /\ Cursor(r1) /\ r1.pc # "wait" /\ r1.pc # "done"
    BY <1>1 DEF RequestRecord, Cursor
  <2>2. req' = [req EXCEPT ![p] = r1]
    BY <1>1, <1>3 DEF Goto, TypeOK
  <2> HIDE DEF r1
  <2> QED
    BY <1>1, <1>2, <2>1, <2>2, QuietStep
<1>4. CASE /\ ~Unprobed(req[p].hosts)
           /\ req' = [req EXCEPT ![p].pc = "near", ![p].first = m, ![p].i = m]
  <2>1. m \in 1..Len(req[p].hosts)
    BY <1>1, <1>4, FirstOther DEF Unprobed
  <2> HIDE DEF m
  <2>2. r2 \in RequestRecord /\ Cursor(r2) /\ r2.pc # "wait" /\ r2.pc # "done"
    <3>1. r2 \in RequestRecord
      <4>1. m \in Nat
        BY <1>1, <2>1
      <4> QED
        BY <1>1, <4>1 DEF RequestRecord
    <3>2. r2.pc = "near" /\ r2.first = m /\ r2.i = m /\ r2.hosts = req[p].hosts
      BY <1>1 DEF RequestRecord
    <3> HIDE DEF r2
    <3> QED
      BY <1>1, <2>1, <3>1, <3>2 DEF Cursor
  <2>3. req' = [req EXCEPT ![p] = r2]
    BY <1>1, <1>4 DEF TypeOK
  <2> HIDE DEF r2
  <2> QED
    BY <1>1, <1>2, <2>2, <2>3, QuietStep
<1> QED
  BY <1>3, <1>4 DEF prune_host_list

LEMMA TruthProbeNear ==
    ASSUME TruthInv, NEW p \in Request, ProbeNear(p)
    PROVE  TruthInv'
<1>1. /\ TypeOK /\ req[p] \in RequestRecord /\ req[p].pc = "near" /\ Cursor(req[p])
      /\ req[p].hosts \in Seq(HostRecord)
  BY ProbeNearIs DEF TruthInv, TypeOK, RequestRecord, Cursors
<1>2. /\ UNCHANGED <<conf, health, changes, exp, sp, child, mutex, mnt, mtab, mounted, hurt, dir, unsteady>>
      /\ dir \subseteq Path /\ unsteady \subseteq Servers
  BY <1>1, ProbingFrame DEF TypeOK
<1> DEFINE r == req[p]
<1>3. r.i \in 1..Len(r.hosts) /\ r.first \in 1..r.i /\ r.hosts[r.i] \in HostRecord
  <2>1. r.first <= Len(r.hosts) /\ r.i <= Len(r.hosts)
    BY ProbeNearIs DEF IsNear
  <2>2. r.first \in Nat /\ r.i \in Nat /\ r.first \in 1..r.i
    BY <1>1 DEF Cursor, RequestRecord
  <2> QED
    BY <1>1, <2>1, <2>2
<1>4. PICK t \in 1..MaxTime :
        LET probe == get_vers_and_cost(r.hosts[r.i], Answers(r.hosts[r.i].srv), conf, t)
        IN req' = [req EXCEPT ![p] =
                    IF probe.status THEN [r EXCEPT !.hosts[r.i] = probe.host, !.i = @ + 1]
                    ELSE FailedNear(r)]
  BY Zenon DEF ProbeNear
<1> DEFINE probe == get_vers_and_cost(r.hosts[r.i], Answers(r.hosts[r.i].srv), conf, t)
           h == probe.host
           r1 == [r EXCEPT !.hosts[r.i] = h, !.i = @ + 1]
           r2 == FailedNear(r)
<1>5. h \in HostRecord
  BY <1>1, <1>3, VersAndCostType
<1>6. req' = [req EXCEPT ![p] = r1] \/ req' = [req EXCEPT ![p] = r2]
  BY <1>4
<1> HIDE DEF probe, h
<1>7. r1 \in RequestRecord /\ Cursor(r1) /\ r1.pc = "near"
  <2>1. [r.hosts EXCEPT ![r.i] = h] \in Seq(HostRecord) /\ Len([r.hosts EXCEPT ![r.i] = h]) = Len(r.hosts)
    BY <1>1, <1>3, <1>5
  <2>2. r1 = [r EXCEPT !.hosts = [r.hosts EXCEPT ![r.i] = h], !.i = r.i + 1]
    BY <1>1 DEF RequestRecord
  <2>3. r1 \in RequestRecord
    <3>1. r.i + 1 \in Nat
      BY <1>1, <1>3
    <3> HIDE DEF r1
    <3> QED
      BY <1>1, <2>1, <2>2, <3>1 DEF RequestRecord
  <2>4. /\ r1.pc = "near" /\ r1.first = r.first /\ r1.i = r.i + 1
        /\ r1.hosts = [r.hosts EXCEPT ![r.i] = h]
    BY <1>1, <2>2 DEF RequestRecord
  <2> HIDE DEF r1
  <2> QED
    BY <1>1, <1>3, <2>1, <2>3, <2>4 DEF Cursor
<1>8. r2 \in RequestRecord /\ Cursor(r2) /\ r2.pc = "near"
  <2>1. RemoveAt(r.hosts, r.i) \in Seq(HostRecord) /\ Len(RemoveAt(r.hosts, r.i)) = Len(r.hosts) - 1
    BY <1>1, <1>3, RemoveAtFacts
  <2>2. r2 = [r EXCEPT !.hosts = RemoveAt(r.hosts, r.i)]
    BY <1>1 DEF FailedNear, RequestRecord
  <2>3. r2 \in RequestRecord
    BY <1>1, <1>3, <2>1, <2>2 DEF RequestRecord
  <2>4. r2.pc = "near" /\ r2.first = r.first /\ r2.i = r.i /\ r2.hosts = RemoveAt(r.hosts, r.i)
    BY <1>1, <2>2 DEF RequestRecord
  <2> HIDE DEF r2
  <2> QED
    BY <1>1, <1>3, <2>1, <2>3, <2>4 DEF Cursor
<1> HIDE DEF r1, r2
<1> QED
  BY <1>1, <1>2, <1>6, <1>7, <1>8, QuietStep

\* The versions that are asked of the closest hosts, and the list chosen.
LEMMA SelectType ==
    ASSUME NEW r \in RequestRecord, Cursor(r), r.pc = "near"
    PROVE  LET near == SubSeq(r.hosts, r.first, r.i - 1)
               upto == SubSeq(r.hosts, 1, r.i - 1)
           IN /\ near \in Seq(HostRecord) /\ Len(near) = r.i - r.first
              /\ \A j \in 1..(r.i - r.first) : near[j] = r.hosts[r.first + j - 1]
              /\ upto \in Seq(HostRecord) /\ Len(upto) = r.i - 1
              /\ \A j \in 1..(r.i - 1) : upto[j] = r.hosts[j]
              /\ Selected(near) \in VP
              /\ ChosenFrom(upto, Selected(near), r.i - 1, Chosen(upto, Selected(near)))
<1> DEFINE near == SubSeq(r.hosts, r.first, r.i - 1)
           upto == SubSeq(r.hosts, 1, r.i - 1)
<1>1. /\ r.hosts \in Seq(HostRecord) /\ r.first \in Nat /\ r.i \in Nat /\ 1 <= r.first /\ r.first <= r.i
      /\ r.i - 1 <= Len(r.hosts)
  BY DEF RequestRecord, Cursor
<1>2. /\ near \in Seq(HostRecord) /\ Len(near) = r.i - r.first
      /\ \A j \in 1..(r.i - r.first) : near[j] = r.hosts[r.first + j - 1]
  <2> DEFINE hs == r.hosts
             a == r.first
             b == r.i - 1
  <2>1. hs \in Seq(HostRecord) /\ a \in Nat /\ b \in Nat /\ 1 <= a /\ a <= b + 1 /\ b <= Len(hs)
        /\ b - a + 1 = r.i - r.first
    BY <1>1
  <2> HIDE DEF hs, a, b
  <2>2. SubSeq(hs, a, b) \in Seq(HostRecord) /\ Len(SubSeq(hs, a, b)) = b - a + 1
    BY <2>1
  <2>3. \A j \in 1..(b - a + 1) : SubSeq(hs, a, b)[j] = hs[a + j - 1]
    BY <2>1
  <2> QED
    BY <2>1, <2>2, <2>3 DEF hs, a, b
<1>3. /\ upto \in Seq(HostRecord) /\ Len(upto) = r.i - 1
      /\ \A j \in 1..(r.i - 1) : upto[j] = r.hosts[j]
  BY <1>1
<1> HIDE DEF near, upto
<1>4. Selected(near) \in VP
  <2>1. PICK k \in 1..6 : Selected(near) = Preference[k]
    BY <1>2, SelectedIs
  <2> QED
    BY <2>1, PreferenceFacts
<1>5. ChosenFrom(upto, Selected(near), r.i - 1, Chosen(upto, Selected(near)))
  BY <1>3, <1>4, ChosenIs
<1> QED
  BY <1>2, <1>3, <1>4, <1>5 DEF near, upto

LEMMA TruthSelect ==
    ASSUME TruthInv, NEW p \in Request, Select(p)
    PROVE  TruthInv'
<1>1. TypeOK /\ req[p] \in RequestRecord /\ req[p].pc = "near" /\ Cursor(req[p])
  BY DEF TruthInv, TypeOK, Select, Cursors
<1>2. /\ UNCHANGED <<conf, health, changes, exp, sp, child, mutex, mnt, mtab, mounted, hurt, dir, unsteady>>
      /\ dir \subseteq Path /\ unsteady \subseteq Servers
  BY <1>1, ProbingFrame DEF TypeOK
<1> DEFINE r == req[p]
           sel == Selected(SubSeq(r.hosts, r.first, r.i - 1))
           new == Chosen(SubSeq(r.hosts, 1, r.i - 1), sel)
           r1 == [r EXCEPT !.pc = "mkdir"]
           r2 == [r EXCEPT !.pc = "far", !.sel = sel, !.new = new]
<1>3. r1 \in RequestRecord /\ Cursor(r1) /\ r1.pc # "wait" /\ r1.pc # "done"
  BY <1>1 DEF RequestRecord, Cursor
<1>4. r2 \in RequestRecord /\ Cursor(r2) /\ r2.pc # "wait" /\ r2.pc # "done"
  <2>1. sel \in VP /\ new \in Seq(HostRecord)
    BY <1>1, SelectType DEF ChosenFrom
  <2> HIDE DEF sel, new
  <2>2. r2 \in RequestRecord
    BY <1>1, <2>1 DEF RequestRecord
  <2>3. r2.pc = "far" /\ r2.sel = sel /\ r2.i = r.i
    BY <1>1 DEF RequestRecord
  <2>4. r.i # 0
    BY <1>1 DEF Cursor, RequestRecord
  <2> HIDE DEF r2
  <2> QED
    BY <2>1, <2>2, <2>3, <2>4 DEF Cursor
<1>5. req' = [req EXCEPT ![p] = r1] \/ req' = [req EXCEPT ![p] = r2]
  <2>1. Goto(p, "mkdir") \/ req' = [req EXCEPT ![p] = r2]
    BY Zenon DEF Select
  <2>2. Goto(p, "mkdir") => req' = [req EXCEPT ![p] = r1]
    BY <1>1, Zenon DEF Goto, TypeOK
  <2> QED
    BY <2>1, <2>2
<1> HIDE DEF r1, r2
<1> QED
  BY <1>1, <1>2, <1>3, <1>4, <1>5, QuietStep

LEMMA TruthProbeFar ==
    ASSUME TruthInv, NEW p \in Request, ProbeFar(p)
    PROVE  TruthInv'
<1>1. /\ TypeOK /\ req[p] \in RequestRecord /\ req[p].pc = "far" /\ Cursor(req[p])
      /\ req[p].hosts \in Seq(HostRecord) /\ req[p].new \in Seq(HostRecord) /\ req[p].i \in Nat
      /\ MaxTime \in Nat
  BY MountNfsAssumption, ProbeFarIs DEF TruthInv, TypeOK, Cursors, RequestRecord
<1>2. /\ UNCHANGED <<conf, health, changes, exp, sp, child, mutex, mnt, mtab, mounted, hurt, dir, unsteady>>
      /\ dir \subseteq Path /\ unsteady \subseteq Servers
  BY <1>1, ProbingFrame DEF TypeOK
<1> DEFINE r == req[p]
           h == r.hosts[r.i]
           r1 == [r EXCEPT !.pc = "mkdir", !.hosts = r.new, !.new = <<>>, !.i = 0]
           r3 == [r EXCEPT !.i = @ + 1]
<1>3. PICK t \in 1..MaxTime :
        LET probe == get_supported_ver_and_cost(h, Answers(h.srv), r.sel, conf, t)
        IN req' = [req EXCEPT ![p] =
                    IF r.i > Len(r.hosts) THEN r1
                    ELSE IF ~(conf.hostname /\ r.prev = h.ent) /\ probe.status
                         THEN [r EXCEPT !.i = @ + 1, !.new = add_host(@, probe.host), !.prev = h.ent]
                    ELSE r3]
  BY Zenon DEF ProbeFar
<1> DEFINE k == get_supported_ver_and_cost(h, Answers(h.srv), r.sel, conf, t).host
           r2 == [r EXCEPT !.i = @ + 1, !.new = add_host(@, k), !.prev = h.ent]
<1>4. r1 \in RequestRecord /\ Cursor(r1) /\ r1.pc # "wait" /\ r1.pc # "done"
  <2>1. <<>> \in Seq(HostRecord)
    OBVIOUS
  <2>2. r1 \in RequestRecord /\ r1.pc = "mkdir"
    BY <1>1, <2>1 DEF RequestRecord
  <2> QED
    BY <2>2 DEF Cursor
<1>5. r3 \in RequestRecord /\ Cursor(r3) /\ r3.pc # "wait" /\ r3.pc # "done"
  <2>1. r.i + 1 \in Nat /\ r.i + 1 # 0 /\ r.sel \in VP
    BY <1>1 DEF Cursor
  <2>2. r3 \in RequestRecord
    BY <1>1, <2>1 DEF RequestRecord
  <2>3. r3.pc = "far" /\ r3.i = r.i + 1 /\ r3.sel = r.sel
    BY <1>1 DEF RequestRecord
  <2> HIDE DEF r3
  <2> QED
    BY <2>1, <2>2, <2>3 DEF Cursor
<1>6. ASSUME r.i <= Len(r.hosts)
      PROVE  r2 \in RequestRecord /\ Cursor(r2) /\ r2.pc # "wait" /\ r2.pc # "done"
  <2>1. r.i \in 1..Len(r.hosts) /\ r.sel \in VP
    BY <1>1, <1>6 DEF Cursor
  <2>2. h \in HostRecord
    BY <1>1, <2>1
  <2> HIDE DEF h
  <2>a. h.ent \in Nat /\ t \in Nat
    BY <2>2 DEF HostRecord
  <2>3. k \in HostRecord
    BY <1>1, <2>1, <2>2, <2>a, SupportedVerAndCost
  <2> HIDE DEF k
  <2>4. add_host(r.new, k) \in Seq(HostRecord)
    BY <1>1, <2>3, AddHost
  <2>5. r2 = [r EXCEPT !.i = r.i + 1, !.new = add_host(r.new, k), !.prev = h.ent]
    BY <1>1 DEF RequestRecord
  <2>6. r.i + 1 \in Nat /\ r.i + 1 # 0
    BY <1>1
  <2>7. r2 \in RequestRecord
    BY <1>1, <2>a, <2>4, <2>5, <2>6 DEF RequestRecord
  <2>8. r2.pc = "far" /\ r2.i = r.i + 1 /\ r2.sel = r.sel
    BY <1>1, <2>5 DEF RequestRecord
  <2> HIDE DEF r2
  <2> QED
    BY <2>1, <2>6, <2>7, <2>8 DEF Cursor
<1>7. \/ req' = [req EXCEPT ![p] = r1] \/ req' = [req EXCEPT ![p] = r3]
      \/ r.i <= Len(r.hosts) /\ req' = [req EXCEPT ![p] = r2]
  <2>1. Len(r.hosts) \in Nat
    BY <1>1
  <2>2. CASE r.i > Len(r.hosts)
    BY <1>3, <2>2
  <2>3. CASE ~(r.i > Len(r.hosts))
    <3>1. r.i <= Len(r.hosts)
      BY <1>1, <2>1, <2>3
    <3> QED
      BY <1>3, <2>3, <3>1
  <2> QED
    BY <2>2, <2>3
<1> HIDE DEF r1, r2, r3
<1>8. PICK x \in RequestRecord : /\ req' = [req EXCEPT ![p] = x]
                                 /\ Cursor(x) /\ x.pc # "wait" /\ x.pc # "done"
  BY <1>4, <1>5, <1>6, <1>7
<1> QED
  BY <1>1, <1>2, <1>8, QuietStep

LEMMA TruthMkdir ==
    ASSUME TruthInv, NEW p \in Request, Mkdir(p)
    PROVE  TruthInv'
<1>1. TypeOK /\ req[p] \in RequestRecord /\ req[p].pc = "mkdir" /\ p \in Path
  BY DEF TruthInv, TypeOK, Mkdir, Path
<1>2. /\ UNCHANGED <<conf, health, changes, exp, sp, child, mutex, mnt, mtab, mounted, unsteady>>
      /\ dir' \subseteq Path /\ unsteady \subseteq Servers /\ hurt \subseteq hurt'
  BY <1>1 DEF Mkdir, srvVars, TypeOK
<1> DEFINE r1 == [req[p] EXCEPT !.pc = "done", !.ret = "fail"]
           there == p \in dir
           pc == IF p = "A" /\ conf.kind \in {"ext2", "changer"} THEN "check" ELSE "try"
           r2 == [req[p] EXCEPT !.existed = there, !.i = 1, !.pc = pc]
<1>3. req' = [req EXCEPT ![p] = r1] \/ req' = [req EXCEPT ![p] = r2]
  BY <1>1 DEF Mkdir, Ended, TypeOK
<1>4. r1 \in RequestRecord /\ Cursor(r1) /\ r1.pc = "done" /\ r1.ret = "fail"
  BY <1>1 DEF RequestRecord, Cursor
<1>5. r2 \in RequestRecord /\ Cursor(r2) /\ r2.pc # "wait" /\ r2.pc # "done"
  <2>1. there \in BOOLEAN /\ pc \in {"check", "try"} /\ 1 \in Nat
    OBVIOUS
  <2> HIDE DEF there, pc
  <2> QED
    BY <1>1, <2>1 DEF RequestRecord, Cursor
<1> HIDE DEF r1, r2
<1> QED
  BY <1>1, <1>2, <1>3, <1>4, <1>5, QuietStep

LEMMA TruthCheck ==
    ASSUME TruthInv, NEW p \in Request, Check(p)
    PROVE  TruthInv'
<1>1. TypeOK /\ req[p] \in RequestRecord /\ req[p].pc = "check"
  BY DEF TruthInv, TypeOK, Check
<1>2. /\ UNCHANGED <<conf, health, changes, exp, sp, child, mutex, mnt, mtab, mounted, unsteady, dir, hurt>>
      /\ dir \subseteq Path /\ unsteady \subseteq Servers
  BY <1>1 DEF Check, srvVars, spVars, fsVars, TypeOK
<1> DEFINE r1 == [req[p] EXCEPT !.pc = "done", !.ret = "fail"]
           r2 == [req[p] EXCEPT !.pc = "try"]
<1>3. req' = [req EXCEPT ![p] = r1] \/ req' = [req EXCEPT ![p] = r2]
  BY <1>1 DEF Check, fsck, swapCD, Goto, Ended, TypeOK
<1>4. r1 \in RequestRecord /\ Cursor(r1) /\ r1.pc = "done" /\ r1.ret = "fail"
  BY <1>1 DEF RequestRecord, Cursor
<1>5. r2 \in RequestRecord /\ Cursor(r2) /\ r2.pc # "wait" /\ r2.pc # "done"
  BY <1>1 DEF RequestRecord, Cursor
<1> HIDE DEF r1, r2
<1> QED
  BY <1>1, <1>2, <1>3, <1>4, <1>5, QuietStep

\* A step of the request that calls spawn.c or takes what it has returned.
LEMMA RequestStep ==
    ASSUME TruthInv, NEW p \in Request, NEW r \in RequestRecord, Cursor(r), NEW s \in SpawnRecord,
           req' = [req EXCEPT ![p] = r], sp' = [sp EXCEPT ![p] = s], dir' \subseteq Path,
           UNCHANGED <<conf, health, changes, unsteady, exp, child, mutex, mnt, mtab, mounted, hurt>>,
           CallShape(p)', Counted(p)', RequestTrue(p)'
    PROVE  TruthInv'
<1>0. /\ TypeOK /\ Cursors /\ SpawnShape /\ MountCount /\ MountTruth
      /\ req \in [Request -> RequestRecord] /\ sp \in [Path -> SpawnRecord]
      /\ Request \subseteq Path /\ "C" \notin Request
  BY DEF TruthInv, TypeOK, Path, Request
<1>1. /\ req' \in [Request -> RequestRecord] /\ req'[p] = r /\ \A q \in Request \ {p} : req'[q] = req[q]
      /\ sp' \in [Path -> SpawnRecord] /\ sp'[p] = s /\ \A q \in Path \ {p} : sp'[q] = sp[q]
  BY <1>0
<1>2. TypeOK' /\ Cursors'
  BY <1>0, <1>1 DEF TypeOK, Cursors
<1>3. SpawnShape'
  <2>1. \A q \in Path \ {p} : Waiting(q)' <=> Waiting(q)
    BY <1>0, <1>1 DEF Waiting, Path
  <2>2. \A q \in Path \ {p} : CallShape(q)'
    BY <1>0, <1>1, <2>1, CallFrame DEF SpawnShape
  <2> QED
    BY <1>0, <2>2 DEF SpawnShape
<1>4. \A q \in Request \ {p} : Counted(q)' /\ RequestTrue(q)'
  BY <1>0, <1>1, MountFrame DEF MountCount, MountTruth
<1>5. UmountTrue'
  BY <1>0 DEF MountTruth, UmountTrue
<1> QED
  BY <1>2, <1>3, <1>4, <1>5 DEF TruthInv, MountCount, MountTruth

\* A call that begins, with nothing mounted yet ...
LEMMA TruthSpawn ==
    ASSUME TruthInv, NEW p \in Request, NEW prog \in {"bind", "mount"}, Spawn(p, prog),
           req[p].pc \notin {"idle", "done"}, child[p] = "none", ~Made(p),
           UNCHANGED <<conf, health, changes, unsteady, exp, child, mutex, mnt, mtab, mounted, hurt, dir>>
    PROVE  TruthInv'
<1> DEFINE r == [req[p] EXCEPT !.pc = "wait"]
           s == Call(prog)
<1>0. /\ TypeOK /\ SpawnShape /\ MountCount /\ req[p] \in RequestRecord /\ p # "C" /\ p \in Path
      /\ MTAB_LOCK_RETRIES \in Nat \ {0}
  BY MountNfsAssumption DEF TruthInv, TypeOK, Path, Request
<1>1. r \in RequestRecord /\ Cursor(r) /\ r.pc = "wait"
  BY <1>0 DEF RequestRecord, Cursor
<1>2. /\ s \in SpawnRecord /\ s.pc = "lock" /\ s.prog = prog /\ ~s.fake /\ s.left = MTAB_LOCK_RETRIES
      /\ s.ret = "none"
  BY <1>0 DEF Call, SpawnRecord
<1>3. req' = [req EXCEPT ![p] = r] /\ sp' = [sp EXCEPT ![p] = s] /\ sp'[p] = s /\ req'[p] = r
  BY <1>0 DEF Spawn, Goto, TypeOK
<1> HIDE DEF r, s
<1>4. CallShape(p)'
  BY <1>0, <1>1, <1>2, <1>3 DEF CallShape, Waiting, Programs
<1>5. Counted(p)'
  <2>1. Untouched(p)' => mnt[p] = 0
    BY <1>0 DEF Untouched, MountCount, Counted
  <2>2. ~Made(p)'
    BY <1>2, <1>3 DEF Made
  <2> QED
    BY <1>0, <1>1, <1>2, <1>3, <2>1, <2>2 DEF Counted
<1>6. RequestTrue(p)'
  BY <1>1, <1>3 DEF RequestTrue
<1>7. dir' \subseteq Path
  BY <1>0 DEF TypeOK
<1> QED
  BY <1>1, <1>2, <1>3, <1>4, <1>5, <1>6, <1>7, RequestStep

\* ... and a call that has returned.
LEMMA TruthReturn ==
    ASSUME TruthInv, NEW p \in Request, NEW r \in RequestRecord, Cursor(r),
           req[p].pc = "wait", sp[p].pc = "returned",
           \/ r.pc = "done" /\ r.ret = (IF sp[p].ret = "ok" THEN "ok" ELSE "fail")
           \/ r.pc = "try" /\ sp[p].ret # "ok",
           req' = [req EXCEPT ![p] = r], sp' = [sp EXCEPT ![p] = NoSpawn], dir' \subseteq Path,
           UNCHANGED <<conf, health, changes, unsteady, exp, child, mutex, mnt, mtab, mounted, hurt>>
    PROVE  TruthInv'
<1>0. /\ TypeOK /\ SpawnShape /\ MountCount /\ p # "C" /\ p \in Path /\ CallShape(p) /\ Counted(p)
      /\ MTAB_LOCK_RETRIES \in Nat \ {0}
  BY MountNfsAssumption DEF TruthInv, TypeOK, Path, Request, SpawnShape, MountCount
<1>1. NoSpawn \in SpawnRecord
  BY DEF NoSpawn, SpawnRecord
<1>2. sp'[p] = NoSpawn /\ req'[p] = r /\ child[p] = "none"
  BY <1>0 DEF TypeOK, CallShape
<1>3. CallShape(p)'
  BY <1>0, <1>2 DEF CallShape, Waiting, NoSpawn
<1>4. Untouched(p)' => Untouched(p)
  BY DEF Untouched
<1>5. Made(p) <=> sp[p].ret = "ok"
  BY DEF Made
<1>6. ~Made(p)'
  BY <1>2 DEF Made, NoSpawn
<1>7. Counted(p)'
  BY <1>0, <1>2, <1>4, <1>5, <1>6 DEF Counted, NoSpawn
<1>8. RequestTrue(p)'
  BY <1>0, <1>2, <1>4, <1>5 DEF Counted, RequestTrue
<1> QED
  BY <1>1, <1>3, <1>7, <1>8, RequestStep

LEMMA TruthTry ==
    ASSUME TruthInv, NEW p \in Request, Try(p)
    PROVE  TruthInv'
<1> DEFINE r == req[p]
           h == r.hosts[r.i]
           r1 == [r EXCEPT !.pc = "done", !.ret = "fail"]
           r2 == [r EXCEPT !.pc = "try", !.i = r.i + 1]
<1>1. /\ TypeOK /\ r \in RequestRecord /\ r.pc = "try" /\ p \in Path /\ r.i \in Nat
      /\ CallShape(p) /\ ~Waiting(p)
  BY DEF TruthInv, TypeOK, Try, Path, Request, SpawnShape, Waiting, RequestRecord
<1>2. /\ UNCHANGED <<conf, health, changes, unsteady, exp, child, mutex, hurt, mnt, mtab, mounted>>
      /\ dir \subseteq Path /\ unsteady \subseteq Servers
  BY <1>1 DEF Try, srvVars, TypeOK
<1>3. r1 \in RequestRecord /\ Cursor(r1) /\ r1.pc = "done" /\ r1.ret = "fail"
  BY <1>1 DEF RequestRecord, Cursor
<1>4. r2 \in RequestRecord /\ Cursor(r2) /\ r2.pc = "try"
  <2>1. r.i + 1 \in Nat
    BY <1>1
  <2>2. r2 \in RequestRecord /\ r2.pc = "try"
    BY <1>1, <2>1 DEF RequestRecord
  <2> QED
    BY <2>2 DEF Cursor
<1>5. CASE Ended(p, "fail") /\ RmdirPath(p) /\ UNCHANGED sp
  <2>1. req' = [req EXCEPT ![p] = r1] /\ dir' \subseteq Path
    BY <1>1, <1>2, <1>5 DEF Ended, RmdirPath, TypeOK
  <2> HIDE DEF r1
  <2> QED
    BY <1>1, <1>2, <1>3, <1>5, <2>1, QuietStep
<1>6. CASE NextHost(p) /\ UNCHANGED <<sp, dir>>
  <2>1. req' = [req EXCEPT ![p] = r2]
    BY <1>1, <1>6 DEF NextHost, TypeOK
  <2> HIDE DEF r2
  <2> QED
    BY <1>1, <1>2, <1>4, <1>6, <2>1, QuietStep
<1>7. ASSUME NEW prog \in {"bind", "mount"}, Spawn(p, prog), UNCHANGED dir PROVE TruthInv'
  <2>1. sp[p] = NoSpawn
    BY <1>1 DEF CallShape
  <2>2. sp[p].pc = "idle"
    BY <2>1 DEF NoSpawn
  <2>3. child[p] = "none" /\ ~Made(p)
    BY <1>1, <2>2 DEF CallShape, Made
  <2> QED
    BY <1>1, <1>2, <1>7, <2>3, TruthSpawn
<1> QED
  BY <1>5, <1>6, <1>7 DEF Try

LEMMA TruthReturned ==
    ASSUME TruthInv, NEW p \in Request, Returned(p)
    PROVE  TruthInv'
<1> DEFINE r == req[p]
           h == r.hosts[r.i]
           bind == sp[p].prog = "bind"
           ret == IF bind THEN BindRet(sp[p].ret) ELSE sp[p].ret
           r1 == [r EXCEPT !.pc = "done", !.ret = "ok"]
           r2 == [r EXCEPT !.pc = "done", !.ret = "fail"]
           r3 == [r EXCEPT !.pc = "try", !.i = r.i + 1]
<1>1. /\ TypeOK /\ r \in RequestRecord /\ r.pc = "wait" /\ p \in Path /\ r.i \in Nat
      /\ CallShape(p) /\ sp[p].pc = "returned"
  BY DEF TruthInv, TypeOK, Returned, Path, Request, SpawnShape, RequestRecord
<1>2. /\ UNCHANGED <<conf, health, changes, unsteady, exp, child, mutex, hurt, mnt, mtab, mounted>>
      /\ dir \subseteq Path /\ child[p] = "none"
  BY <1>1 DEF Returned, srvVars, TypeOK, CallShape
<1>3. ret = "ok" <=> sp[p].ret = "ok"
  BY DEF BindRet
<1>4. r1 \in RequestRecord /\ Cursor(r1) /\ r1.pc = "done" /\ r1.ret = "ok"
  BY <1>1 DEF RequestRecord, Cursor
<1>5. r2 \in RequestRecord /\ Cursor(r2) /\ r2.pc = "done" /\ r2.ret = "fail"
  BY <1>1 DEF RequestRecord, Cursor
<1>6. r3 \in RequestRecord /\ Cursor(r3) /\ r3.pc = "try"
  <2>1. r.i + 1 \in Nat
    BY <1>1
  <2>2. r3 \in RequestRecord /\ r3.pc = "try"
    BY <1>1, <2>1 DEF RequestRecord
  <2> QED
    BY <2>2 DEF Cursor
<1>7. CASE ret = "ok" /\ Ended(p, "ok") /\ sp' = [sp EXCEPT ![p] = NoSpawn] /\ UNCHANGED dir
  <2>1. req' = [req EXCEPT ![p] = r1] /\ dir' \subseteq Path /\ sp[p].ret = "ok"
    BY <1>1, <1>2, <1>3, <1>7 DEF Ended, TypeOK
  <2> HIDE DEF r1
  <2> QED
    BY <1>1, <1>2, <1>4, <1>7, <2>1, TruthReturn
<1>8. CASE bind /\ ret = "force" /\ Ended(p, "fail") /\ RmdirPath(p) /\ sp' = [sp EXCEPT ![p] = NoSpawn]
  <2>1. req' = [req EXCEPT ![p] = r2] /\ dir' \subseteq Path /\ sp[p].ret # "ok"
    BY <1>1, <1>2, <1>3, <1>8 DEF Ended, RmdirPath, TypeOK
  <2> HIDE DEF r2
  <2> QED
    BY <1>1, <1>2, <1>5, <1>8, <2>1, TruthReturn
<1>9. CASE bind /\ ret \notin {"ok", "force"} /\ Spawn(p, "mount") /\ UNCHANGED dir
  <2>1. ~Made(p)
    BY <1>1, <1>3, <1>9 DEF Made
  <2> QED
    BY <1>1, <1>2, <1>9, <2>1, TruthSpawn
<1>10. CASE ret # "ok" /\ NextHost(p) /\ sp' = [sp EXCEPT ![p] = NoSpawn] /\ UNCHANGED dir
  <2>1. req' = [req EXCEPT ![p] = r3] /\ dir' \subseteq Path /\ sp[p].ret # "ok"
    BY <1>1, <1>2, <1>3, <1>10 DEF NextHost, TypeOK
  <2> HIDE DEF r3
  <2> QED
    BY <1>1, <1>2, <1>6, <1>10, <2>1, TruthReturn
<1> QED
  BY <1>7, <1>8, <1>9, <1>10 DEF Returned

\* A step of spawn.c or of the process it has forked.
ChildState == {"none", "start", "open", "exec", "made"} \cup Exits
LEMMA CallStep ==
    ASSUME TruthInv, NEW p \in Path, sp[p].pc # "idle",
           NEW s \in SpawnRecord, s.pc # "idle", s.prog = sp[p].prog, s.left <= MTAB_LOCK_RETRIES,
           NEW c \in ChildState, c = "none" <=> s.pc # "run", c = "open" => Trigger(p),
           c = "term" \/ s.ret = "term" => <<p, "kill">> \in hurt',
           NEW n \in Nat, sp' = [sp EXCEPT ![p] = s], child' = [child EXCEPT ![p] = c], mnt' = [mnt EXCEPT ![p] = n],
           mtab' \subseteq Path, \A q \in Path \ {p} : q \in mtab' <=> q \in mtab,
           hurt \subseteq hurt', mutex' \in Path \cup {None},
           UNCHANGED <<conf, health, changes, unsteady, req, exp, mounted, dir>>,
           p \in Request => Counted(p)'
    PROVE  TruthInv'
<1>0. /\ TypeOK /\ Cursors /\ SpawnShape /\ MountCount /\ MountTruth
      /\ sp \in [Path -> SpawnRecord] /\ child \in [Path -> ChildState] /\ mnt \in [Path -> Nat]
      /\ Request \subseteq Path /\ "C" \in Path
  BY DEF TruthInv, TypeOK, Path, Request, ChildState
<1>1. /\ sp' \in [Path -> SpawnRecord] /\ sp'[p] = s /\ \A q \in Path \ {p} : sp'[q] = sp[q]
      /\ child' \in [Path -> ChildState] /\ child'[p] = c /\ \A q \in Path \ {p} : child'[q] = child[q]
      /\ mnt' \in [Path -> Nat] /\ mnt'[p] = n /\ \A q \in Path \ {p} : mnt'[q] = mnt[q]
  BY <1>0
<1>2. Waiting(p) /\ sp[p].prog \in Programs(p)
  BY <1>0 DEF SpawnShape, CallShape, NoSpawn
<1>3. TypeOK' /\ Cursors'
  BY <1>0, <1>1 DEF TypeOK, Cursors, ChildState
<1>4. SpawnShape'
  <2>1. \A q \in Path : Waiting(q)' <=> Waiting(q)
    BY DEF Waiting
  <2>2. \A q \in Path \ {p} : CallShape(q)'
    BY <1>0, <1>1, <2>1, CallFrame DEF SpawnShape
  <2>3. Trigger(p)' <=> Trigger(p)
    BY <1>1 DEF Trigger, UseOpen
  <2>4. CallShape(p)'
    BY <1>1, <1>2, <2>1, <2>3 DEF CallShape, Programs
  <2> QED
    BY <1>0, <2>2, <2>4 DEF SpawnShape
<1>5. \A q \in Request \ {p} : Counted(q)' /\ RequestTrue(q)'
  BY <1>0, <1>1, MountFrame DEF MountCount, MountTruth
<1>6. p \in Request => RequestTrue(p)'
  BY <1>0, <1>2 DEF RequestTrue, Waiting, Request
<1>7. UmountTrue'
  BY <1>0, <1>1, <1>2 DEF MountTruth, UmountTrue, Waiting
<1> QED
  BY <1>3, <1>4, <1>5, <1>6, <1>7 DEF TruthInv, MountCount, MountTruth

LEMMA TruthFork ==
    ASSUME TruthInv, NEW p \in Path, Fork(p)
    PROVE  TruthInv'
<1>1. /\ TypeOK /\ SpawnShape /\ MountCount /\ sp[p] \in SpawnRecord /\ mnt[p] \in Nat /\ CallShape(p)
      /\ sp[p].pc = "lock" /\ child[p] = "none" /\ MTAB_LOCK_RETRIES \in Nat
  BY MountNfsAssumption DEF TruthInv, TypeOK, Fork, SpawnShape, CallShape
<1>2. /\ UNCHANGED <<conf, health, changes, unsteady, req, exp, mounted, dir, mnt, mtab>>
      /\ mtab \subseteq Path /\ mnt' = [mnt EXCEPT ![p] = mnt[p]]
  BY <1>1 DEF Fork, srvVars, fsVars, TypeOK
<1> DEFINE s1 == [sp[p] EXCEPT !.pc = "run"]
           s2 == [sp[p] EXCEPT !.pc = "returned", !.ret = "fail"]
<1>3. CASE /\ child' = [child EXCEPT ![p] = "start"] /\ sp' = [sp EXCEPT ![p].pc = "run"]
           /\ mutex' = IF UseLock THEN p ELSE mutex
           /\ UNCHANGED hurt
  <2>1. /\ s1 \in SpawnRecord /\ s1.pc = "run" /\ s1.prog = sp[p].prog /\ s1.left = sp[p].left
        /\ s1.fake = sp[p].fake /\ s1.ret = sp[p].ret
    BY <1>1 DEF SpawnRecord
  <2>2. sp' = [sp EXCEPT ![p] = s1] /\ sp'[p] = s1 /\ child'[p] = "start" /\ mutex' \in Path \cup {None}
    BY <1>1, <1>3 DEF TypeOK
  <2> HIDE DEF s1
  <2>3. s1.left <= MTAB_LOCK_RETRIES /\ (s1.ret = "term" => <<p, "kill">> \in hurt')
    BY <1>1, <1>3, <2>1 DEF CallShape
  <2>4. p \in Request => Counted(p)'
    <3> SUFFICES ASSUME p \in Request, Counted(p) PROVE Counted(p)'
      BY <1>1 DEF MountCount
    <3>1. UNCHANGED <<Trigger(p), Untouched(p)>>
      BY <1>2, <1>3, <2>1, <2>2 DEF Trigger, UseOpen, Untouched
    <3>2. Made(p)' <=> Made(p)
      BY <1>1, <2>1, <2>2 DEF Made
    <3> QED
      BY <1>1, <1>2, <2>1, <2>2, <3>1, <3>2 DEF Counted
  <2>5. "start" \in ChildState
    BY DEF ChildState
  <2> QED
    BY <1>1, <1>2, <1>3, <2>1, <2>2, <2>3, <2>4, <2>5, CallStep
<1>4. CASE /\ sp' = [sp EXCEPT ![p].pc = "returned", ![p].ret = "fail"]
           /\ hurt' = hurt \cup {<<p, IF sp[p].left < MTAB_LOCK_RETRIES THEN "refork" ELSE "fork">>}
           /\ UNCHANGED <<child, mutex>>
  <2>1. /\ s2 \in SpawnRecord /\ s2.pc = "returned" /\ s2.prog = sp[p].prog /\ s2.left = sp[p].left
        /\ s2.fake = sp[p].fake /\ s2.ret = "fail"
    BY <1>1 DEF SpawnRecord
  <2>2. /\ sp' = [sp EXCEPT ![p] = s2] /\ sp'[p] = s2 /\ child'[p] = "none" /\ mutex' \in Path \cup {None}
        /\ child' = [child EXCEPT ![p] = "none"]
    BY <1>1, <1>4 DEF TypeOK
  <2> HIDE DEF s2
  <2>3. s2.left <= MTAB_LOCK_RETRIES
    BY <1>1, <2>1 DEF CallShape
  <2>4. p \in Request => Counted(p)'
    <3> SUFFICES ASSUME p \in Request, Counted(p), Untouched(p)' PROVE Counted(p)'
      BY <1>1 DEF MountCount, Counted
    <3>1. Untouched(p) /\ ~(sp[p].left < MTAB_LOCK_RETRIES)
      BY <1>2, <1>4 DEF Untouched
    <3>2. ~Made(p)' /\ ~Made(p)
      BY <1>1, <2>1, <2>2, <3>1 DEF Made, Counted
    <3> QED
      BY <1>1, <1>2, <2>1, <2>2, <3>1, <3>2 DEF Counted
  <2>5. "none" \in ChildState /\ hurt \subseteq hurt'
    BY <1>4 DEF ChildState
  <2> QED
    BY <1>1, <1>2, <2>1, <2>2, <2>3, <2>4, <2>5, CallStep
<1> QED
  BY <1>3, <1>4 DEF Fork

\* A step of the process: the call stays what it is.
LEMMA ChildStep ==
    ASSUME TruthInv, NEW p \in Path, child[p] # "none", NEW c \in ChildState \ {"none"},
           c = "open" => Trigger(p), c = "term" => <<p, "kill">> \in hurt',
           NEW n \in Nat, child' = [child EXCEPT ![p] = c], mnt' = [mnt EXCEPT ![p] = n],
           mtab' \subseteq Path, \A q \in Path \ {p} : q \in mtab' <=> q \in mtab,
           hurt \subseteq hurt', UNCHANGED <<conf, health, changes, unsteady, req, exp, sp, mutex, mounted, dir>>,
           p \in Request => Counted(p)'
    PROVE  TruthInv'
<1>1. /\ sp[p].pc = "run" /\ sp[p] \in SpawnRecord /\ sp[p].left <= MTAB_LOCK_RETRIES
      /\ sp[p].ret = "term" => <<p, "kill">> \in hurt
  BY DEF TruthInv, TypeOK, SpawnShape, CallShape
<1>2. sp' = [sp EXCEPT ![p] = sp[p]] /\ mutex' \in Path \cup {None}
  BY DEF TruthInv, TypeOK
<1> QED
  BY <1>1, <1>2, CallStep

LEMMA TruthChildOpened ==
    ASSUME TruthInv, NEW p \in Path, ChildOpened(p)
    PROVE  TruthInv'
<1> DEFINE c == IF conf.target = "autofs" THEN "fail" ELSE "exec"
<1>1. /\ TypeOK /\ MountCount /\ mnt[p] \in Nat /\ child[p] = "open" /\ Trigger(p) /\ sp[p].pc = "run"
  BY DEF TruthInv, TypeOK, ChildOpened, SpawnShape, CallShape
<1>2. /\ UNCHANGED <<conf, health, changes, unsteady, req, exp, sp, mutex, mounted, dir, mnt, mtab, hurt>>
      /\ mtab \subseteq Path /\ mnt' = [mnt EXCEPT ![p] = mnt[p]]
      /\ child' = [child EXCEPT ![p] = c] /\ child'[p] = c
  BY <1>1 DEF ChildOpened, srvVars, fsVars, TypeOK
<1>3. c \in ChildState \ {"none"} /\ c # "open" /\ c # "term"
  BY DEF ChildState, Exits
<1>4. p \in Request => Counted(p)'
  <2> SUFFICES ASSUME p \in Request, Counted(p) PROVE Counted(p)'
    BY <1>1 DEF MountCount
  <2>1. UNCHANGED <<Trigger(p), Untouched(p)>>
    BY <1>2 DEF Trigger, UseOpen, Untouched
  <2>2. Untouched(p) /\ conf.target = "autofs" => ~sp[p].fake
    BY <1>1 DEF Counted
  <2>3. Untouched(p) => (Made(p)' <=> Made(p))
    BY <1>1, <1>2, <2>2 DEF Made
  <2> QED
    BY <1>1, <1>2, <2>1, <2>2, <2>3 DEF Counted
<1> HIDE DEF c
<1> QED
  BY <1>1, <1>2, <1>3, <1>4, ChildStep

LEMMA TruthChildOpen ==
    ASSUME TruthInv, NEW p \in Path, ChildOpen(p)
    PROVE  TruthInv'
<1> DEFINE c == IF Trigger(p) THEN "open" ELSE "exec"
<1>1. /\ TypeOK /\ Cursors /\ SpawnShape /\ MountCount /\ MountTruth
      /\ mnt[p] \in Nat /\ child[p] = "start" /\ sp[p].pc = "run"
      /\ req \in [Request -> RequestRecord] /\ Request \subseteq Path /\ "A" \in Request /\ "C" \notin Request
  BY DEF TruthInv, TypeOK, ChildOpen, SpawnShape, CallShape, Path, Request
<1>2. /\ UNCHANGED <<conf, health, changes, exp, sp, mutex, mounted, dir, mnt, mtab, hurt>>
      /\ mtab \subseteq Path /\ mnt' = [mnt EXCEPT ![p] = mnt[p]]
      /\ child' = [child EXCEPT ![p] = c] /\ child'[p] = c
  BY <1>1 DEF ChildOpen, fsVars, TypeOK
<1>3. c \in ChildState \ {"none"} /\ (c = "open" => Trigger(p)) /\ c # "term"
  BY DEF ChildState
<1>4. ASSUME p \in Request, req'[p] = req[p] PROVE Counted(p)'
  <2>1. UNCHANGED <<Trigger(p), Untouched(p)>> /\ Counted(p)
    BY <1>1, <1>2, <1>4 DEF Trigger, UseOpen, Untouched, MountCount
  <2>2. Made(p)' <=> Made(p)
    BY <1>1, <1>2, <1>4 DEF Made
  <2> QED
    BY <1>1, <1>2, <1>4, <2>1, <2>2 DEF Counted
<1>5. CASE UNCHANGED <<req, unsteady>>
  BY <1>1, <1>2, <1>3, <1>4, <1>5, ChildStep
<1>6. CASE /\ Trigger(p) /\ mnt["A"] = 0 /\ ~Active("A")
           /\ req' = [req EXCEPT !["A"] = Begin("A")] /\ unsteady' = {}
  <2>1. p # "A" /\ p \in Request /\ req["A"].pc # "wait"
    BY <1>6 DEF Trigger, Active, Request
  <2>2. Begin("A") \in RequestRecord /\ Cursor(Begin("A")) /\ Begin("A").pc \in {"prune", "mkdir"}
    BY <1>1, BeginType
  <2>3. /\ req' \in [Request -> RequestRecord] /\ req'["A"] = Begin("A")
        /\ \A q \in Request \ {"A"} : req'[q] = req[q]
    BY <1>1, <1>6, <2>2
  <2>4. \A q \in Path \ {p} : child'[q] = child[q]
    BY <1>1, <1>2 DEF TypeOK
  <2>5. TypeOK' /\ Cursors'
    <3>1. child' \in [Path -> ChildState]
      BY <1>1, <1>2, <1>3 DEF TypeOK, ChildState
    <3> QED
      BY <1>1, <1>2, <1>6, <2>2, <2>3, <3>1 DEF TypeOK, Cursors, ChildState
  <2>6. \A q \in Path : Waiting(q)' <=> Waiting(q)
    BY <1>1, <1>2, <2>1, <2>2, <2>3 DEF Waiting, Path
  <2>7. CallShape(p)'
    <3>1. UNCHANGED Trigger(p) /\ CallShape(p)
      BY <1>1, <1>2 DEF Trigger, UseOpen, SpawnShape
    <3> QED
      BY <1>1, <1>2, <1>3, <2>6, <3>1 DEF CallShape, Programs
  <2>8. SpawnShape'
    BY <1>1, <1>2, <2>4, <2>6, <2>7, CallFrame DEF SpawnShape
  <2>9. Counted(p)' /\ RequestTrue(p)'
    <3>1. req'[p].pc = "wait"
      <4>1. Waiting(p)
        <5>1. CallShape(p) /\ NoSpawn.pc # "run"
          BY <1>1 DEF SpawnShape, NoSpawn
        <5> QED
          BY <1>1, <5>1 DEF CallShape
      <4> QED
        BY <1>1, <2>1, <2>3, <4>1 DEF Waiting
    <3> QED
      BY <1>4, <2>1, <2>3, <3>1 DEF RequestTrue
  <2>10. Counted("A")' /\ RequestTrue("A")'
    BY <1>1, <1>2, <1>6, <2>1, <2>2, <2>3, <2>4, QuietMount DEF SpawnShape, MountCount, Waiting
  <2>11. \A q \in Request : Counted(q)' /\ RequestTrue(q)'
    <3>1. \A q \in Request : q = "A" \/ q = p
      BY <2>1 DEF Request
    <3> QED
      BY <2>9, <2>10, <3>1
  <2>12. UmountTrue'
    BY <1>1, <1>2 DEF MountTruth, UmountTrue
  <2> QED
    BY <2>5, <2>8, <2>11, <2>12 DEF TruthInv, MountCount, MountTruth
<1> QED
  BY <1>5, <1>6 DEF ChildOpen

LEMMA TruthChildExec ==
    ASSUME TruthInv, NEW p \in Path, ChildExec(p)
    PROVE  TruthInv'
<1>1. /\ TypeOK /\ MountCount /\ mnt[p] \in Nat /\ child[p] = "exec" /\ sp[p].pc = "run"
      /\ sp[p].prog \in Programs(p) /\ mnt \in [Path -> Nat] /\ child \in [Path -> ChildState]
      /\ "C" \notin Request /\ Request \subseteq Path
  BY DEF TruthInv, TypeOK, ChildExec, SpawnShape, CallShape, NoSpawn, ChildState, Path, Request
<1>2. /\ UNCHANGED <<conf, health, changes, unsteady, req, exp, sp, mutex, mounted, dir, mtab, hurt>>
      /\ mtab \subseteq Path
  BY <1>1 DEF ChildExec, srvVars, TypeOK
<1>3. UNCHANGED <<Trigger(p), Untouched(p)>>
  BY <1>2 DEF Trigger, UseOpen, Untouched
<1>4. "made" \in ChildState /\ "fail" \in ChildState
  BY DEF ChildState, Exits
<1>5. CASE sp[p].fake /\ child' = [child EXCEPT ![p] = "made"] /\ mnt' = mnt
  <2>1. mnt' = [mnt EXCEPT ![p] = mnt[p]] /\ child'[p] = "made"
    BY <1>1, <1>5
  <2>2. p \in Request => Counted(p)'
    <3> SUFFICES ASSUME p \in Request, Counted(p) PROVE Counted(p)'
      BY <1>1 DEF MountCount
    <3>1. Made(p) /\ Made(p)'
      BY <1>1, <1>2, <1>5, <2>1 DEF Made
    <3> QED
      BY <1>1, <1>2, <1>3, <1>5, <2>1, <3>1 DEF Counted
  <2> QED
    BY <1>1, <1>2, <1>4, <1>5, <2>1, <2>2, ChildStep
<1>6. CASE /\ ~sp[p].fake /\ child' = [child EXCEPT ![p] = "made"]
           /\ mnt' = [mnt EXCEPT ![p] = IF sp[p].prog = "umount" THEN @ - 1 ELSE @ + 1]
           /\ sp[p].prog = "umount" => mnt[p] > 0
  <2> DEFINE n == IF sp[p].prog = "umount" THEN mnt[p] - 1 ELSE mnt[p] + 1
  <2>1. mnt' = [mnt EXCEPT ![p] = n] /\ n \in Nat /\ mnt'[p] = n /\ child'[p] = "made"
    BY <1>1, <1>6
  <2>2. p \in Request => Counted(p)'
    <3> SUFFICES ASSUME p \in Request, Counted(p) PROVE Counted(p)'
      BY <1>1 DEF MountCount
    <3>1. ~Made(p) /\ Made(p)'
      BY <1>1, <1>2, <1>6, <2>1 DEF Made
    <3>2. n = mnt[p] + 1
      BY <1>1 DEF Programs
    <3> HIDE DEF n
    <3> QED
      BY <1>1, <1>2, <1>3, <1>6, <2>1, <3>1, <3>2 DEF Counted
  <2> HIDE DEF n
  <2> QED
    BY <1>1, <1>2, <1>4, <1>6, <2>1, <2>2, ChildStep
<1>7. CASE ~sp[p].fake /\ child' = [child EXCEPT ![p] = "fail"] /\ mnt' = mnt
  <2>1. mnt' = [mnt EXCEPT ![p] = mnt[p]] /\ child'[p] = "fail"
    BY <1>1, <1>7
  <2>2. p \in Request => Counted(p)'
    <3> SUFFICES ASSUME p \in Request, Counted(p) PROVE Counted(p)'
      BY <1>1 DEF MountCount
    <3>1. ~Made(p) /\ ~Made(p)'
      BY <1>1, <1>2, <1>7, <2>1 DEF Made
    <3> QED
      BY <1>1, <1>2, <1>3, <1>7, <2>1, <3>1 DEF Counted
  <2> QED
    BY <1>1, <1>2, <1>4, <1>7, <2>1, <2>2, ChildStep
<1> DEFINE may == CASE sp[p].prog = "umount" -> mnt[p] > 0
                    [] sp[p].prog = "bind" -> TRUE
                    [] p = "A" /\ Device -> TRUE
                    [] OTHER -> Serves(p, req[p].hosts[req[p].i])
<1>8. sp[p].prog = "umount" /\ may => mnt[p] > 0
  <2>1. sp[p].prog = "umount" => sp[p].prog # "bind"
    OBVIOUS
  <2> QED
    BY <1>1, <2>1 DEF Programs, Request
<1>9. \/ sp[p].fake /\ child' = [child EXCEPT ![p] = "made"] /\ mnt' = mnt
      \/ /\ ~sp[p].fake /\ may /\ child' = [child EXCEPT ![p] = "made"]
         /\ mnt' = [mnt EXCEPT ![p] = IF sp[p].prog = "umount" THEN @ - 1 ELSE @ + 1]
      \/ ~sp[p].fake /\ child' = [child EXCEPT ![p] = "fail"] /\ mnt' = mnt
  BY DEF ChildExec
<1> HIDE DEF may
<1> QED
  BY <1>5, <1>6, <1>7, <1>8, <1>9

LEMMA TruthChildMtab ==
    ASSUME TruthInv, NEW p \in Path, ChildMtab(p)
    PROVE  TruthInv'
<1>1. /\ TypeOK /\ MountCount /\ mnt[p] \in Nat /\ child[p] = "made" /\ sp[p].pc = "run"
      /\ sp[p].prog \in Programs(p) /\ mnt \in [Path -> Nat] /\ child \in [Path -> ChildState]
      /\ "C" \notin Request /\ mtab \subseteq Path
  BY DEF TruthInv, TypeOK, ChildMtab, SpawnShape, CallShape, NoSpawn, ChildState, Path, Request
<1>2. /\ UNCHANGED <<conf, health, changes, unsteady, req, exp, sp, mutex, mounted, dir, mnt, hurt>>
      /\ mnt' = [mnt EXCEPT ![p] = mnt[p]]
  BY <1>1 DEF ChildMtab, srvVars
<1>3. UNCHANGED <<Trigger(p), Untouched(p)>>
  BY <1>2 DEF Trigger, UseOpen, Untouched
<1>4. "ok" \in ChildState /\ "notupdated" \in ChildState
  BY DEF ChildState, Exits
<1>5. /\ mtab' \subseteq Path /\ \A q \in Path \ {p} : q \in mtab' <=> q \in mtab
      /\ sp[p].prog # "umount" /\ p \in mtab => p \in mtab'
  BY <1>1 DEF ChildMtab
<1>6. CASE child' = [child EXCEPT ![p] = "ok"] /\ (conf.mtab /\ sp[p].prog # "umount" => p \in mtab')
  <2>1. child'[p] = "ok"
    BY <1>1, <1>6
  <2>2. p \in Request => Counted(p)'
    <3> SUFFICES ASSUME p \in Request, Counted(p) PROVE Counted(p)'
      BY <1>1 DEF MountCount
    <3>1. Made(p) /\ Made(p)' /\ sp[p].prog # "umount"
      BY <1>1, <1>2, <2>1 DEF Made, Programs
    <3> QED
      BY <1>1, <1>2, <1>3, <1>6, <2>1, <3>1 DEF Counted
  <2> QED
    BY <1>1, <1>2, <1>4, <1>5, <1>6, <2>2, ChildStep
<1>7. CASE conf.mtab /\ child' = [child EXCEPT ![p] = "notupdated"]
  <2>1. child'[p] = "notupdated"
    BY <1>1, <1>7
  <2>2. p \in Request => Counted(p)'
    <3> SUFFICES ASSUME p \in Request, Counted(p) PROVE Counted(p)'
      BY <1>1 DEF MountCount
    <3>1. Made(p) /\ Made(p)' /\ sp[p].prog # "umount"
      BY <1>1, <1>2, <2>1 DEF Made, Programs
    <3> QED
      BY <1>1, <1>2, <1>3, <1>5, <1>7, <2>1, <3>1 DEF Counted
  <2> QED
    BY <1>1, <1>2, <1>4, <1>5, <1>7, <2>2, ChildStep
<1> QED
  BY <1>6, <1>7 DEF ChildMtab

LEMMA TruthTimedOut ==
    ASSUME TruthInv, NEW p \in Path, TimedOut(p)
    PROVE  TruthInv'
<1>1. /\ TypeOK /\ MountCount /\ mnt[p] \in Nat /\ child[p] # "none" /\ child \in [Path -> ChildState]
  BY DEF TruthInv, TypeOK, TimedOut, SpawnShape, CallShape, ChildState
<1>2. /\ UNCHANGED <<conf, health, changes, unsteady, req, exp, sp, mutex, mounted, dir, mnt, mtab>>
      /\ mtab \subseteq Path /\ mnt' = [mnt EXCEPT ![p] = mnt[p]]
      /\ child' = [child EXCEPT ![p] = "term"] /\ child'[p] = "term" /\ "term" \in ChildState
      /\ hurt \subseteq hurt' /\ <<p, "kill">> \in hurt'
  BY <1>1 DEF TimedOut, srvVars, fsVars, TypeOK, ChildState, Exits
<1>3. ~Untouched(p)'
  BY <1>2 DEF Untouched
<1> QED
  BY <1>1, <1>2, <1>3, ChildStep DEF Counted

LEMMA TruthReap ==
    ASSUME TruthInv, NEW p \in Path, Reap(p)
    PROVE  TruthInv'
<1>1. /\ TypeOK /\ MountCount /\ CallShape(p) /\ mnt[p] \in Nat /\ sp[p] \in SpawnRecord
      /\ sp[p].pc = "run" /\ child[p] \in Exits
      /\ mnt \in [Path -> Nat] /\ child \in [Path -> ChildState] /\ sp \in [Path -> SpawnRecord]
      /\ "C" \notin Request /\ Request \subseteq Path /\ MTAB_LOCK_RETRIES \in Nat
      /\ sp[p].left \in Nat
  BY MountNfsAssumption DEF TruthInv, TypeOK, Reap, SpawnShape, ChildState, Path, Request, SpawnRecord
<1>2. /\ UNCHANGED <<conf, health, changes, unsteady, req, exp, mounted, dir, mtab, hurt>>
      /\ mtab \subseteq Path /\ child' = [child EXCEPT ![p] = "none"] /\ child'[p] = "none"
      /\ mutex' \in Path \cup {None} /\ "none" \in ChildState
  BY <1>1 DEF Reap, srvVars, TypeOK, ChildState
<1>3. UNCHANGED Untouched(p)
  BY <1>2 DEF Untouched
<1>4. sp[p].prog \in Programs(p) /\ sp[p].left <= MTAB_LOCK_RETRIES
  <2>1. NoSpawn.pc # "run"
    BY DEF NoSpawn
  <2> QED
    BY <1>1, <2>1 DEF CallShape
<1>5. ASSUME NEW s \in SpawnRecord, NEW n \in Nat, sp' = [sp EXCEPT ![p] = s], mnt' = [mnt EXCEPT ![p] = n],
             s.pc \in {"lock", "returned"}, s.prog = sp[p].prog, s.left <= sp[p].left,
             s.ret \in {sp[p].ret, child[p], "ok", "force"},
             p \in Request => Counted(p)'
      PROVE  TruthInv'
  <2>1. s.left <= MTAB_LOCK_RETRIES /\ (s.ret = "term" => <<p, "kill">> \in hurt') /\ sp[p].pc # "idle"
    <3>1. s.left \in Nat
      BY DEF SpawnRecord
    <3> QED
      BY <1>1, <1>2, <1>4, <1>5, <3>1 DEF CallShape
  <2> QED
    BY <1>1, <1>2, <1>5, <2>1, CallStep
<1>6. ASSUME NEW fake \in BOOLEAN, MtabRetry(p, fake), p \in Request => (conf.mtab /\ ~conf.verbose => fake)
      PROVE  TruthInv'
  <2>1. CASE child[p] # "notupdated"
    <3> DEFINE s == [sp[p] EXCEPT !.pc = "returned", !.ret = child[p]]
    <3>1. /\ s \in SpawnRecord /\ s.pc = "returned" /\ s.ret = child[p] /\ s.prog = sp[p].prog
          /\ s.left = sp[p].left /\ s.fake = sp[p].fake /\ s.ret # "force"
      BY <1>1, <2>1 DEF SpawnRecord, Exits
    <3>2. sp' = [sp EXCEPT ![p] = s] /\ mnt' = [mnt EXCEPT ![p] = mnt[p]] /\ sp'[p] = s /\ mnt' = mnt
      BY <1>1, <1>6, <2>1 DEF MtabRetry
    <3> HIDE DEF s
    <3>3. p \in Request => Counted(p)'
      <4> SUFFICES ASSUME p \in Request, Counted(p), Untouched(p) PROVE Counted(p)'
        BY <1>1, <1>3 DEF MountCount, Counted
      <4>1. Made(p)' <=> Made(p)
        BY <1>1, <1>2, <2>1, <3>1, <3>2 DEF Made, Exits
      <4> QED
        BY <1>1, <1>2, <3>1, <3>2, <4>1 DEF Counted
    <3>4. s.left <= sp[p].left
      BY <1>1, <3>1
    <3> QED
      BY <1>1, <1>5, <3>1, <3>2, <3>3, <3>4
  <2>2. CASE child[p] = "notupdated" /\ sp[p].left > 1
    <3> DEFINE s == [sp[p] EXCEPT !.pc = "lock", !.left = sp[p].left - 1, !.fake = fake]
    <3>1. /\ s \in SpawnRecord /\ s.pc = "lock" /\ s.ret = sp[p].ret /\ s.prog = sp[p].prog
          /\ s.left = sp[p].left - 1 /\ s.fake = fake
      <4>1. sp[p].left - 1 \in Nat
        BY <1>1, <2>2
      <4> QED
        BY <1>1, <4>1 DEF SpawnRecord
    <3>2. sp' = [sp EXCEPT ![p] = s] /\ mnt' = [mnt EXCEPT ![p] = mnt[p]] /\ sp'[p] = s /\ mnt' = mnt
      BY <1>1, <1>6, <2>2 DEF MtabRetry
    <3> HIDE DEF s
    <3>3. p \in Request => Counted(p)'
      <4> SUFFICES ASSUME p \in Request, Counted(p), Untouched(p) PROVE Counted(p)'
        BY <1>1, <1>3 DEF MountCount, Counted
      <4>1. conf.mtab /\ ~conf.verbose
        BY <2>2 DEF Counted, Untouched
      <4>2. fake /\ s.left < MTAB_LOCK_RETRIES
        BY <1>1, <1>4, <1>6, <3>1, <4>1
      <4>3. Made(p)' /\ Made(p)
        BY <1>1, <1>2, <2>2, <3>1, <3>2, <4>2 DEF Made, Exits
      <4>4. ~(Trigger(p) /\ conf.target = "autofs")
        BY <1>1, <2>2 DEF Counted
      <4>5. UNCHANGED Trigger(p)
        BY <1>2, <3>1, <3>2 DEF Trigger, UseOpen
      <4> QED
        BY <1>1, <1>2, <3>1, <3>2, <4>2, <4>3, <4>4, <4>5 DEF Counted
    <3>4. s.left <= sp[p].left
      BY <1>1, <3>1
    <3> QED
      BY <1>1, <1>5, <3>1, <3>2, <3>3, <3>4
  <2>3. CASE child[p] = "notupdated" /\ ~(sp[p].left > 1)
    <3> DEFINE s == [sp[p] EXCEPT !.pc = "returned", !.ret = "force"]
               n == Max({0, mnt[p] - 1})
    <3>1. /\ s \in SpawnRecord /\ s.pc = "returned" /\ s.ret = "force" /\ s.prog = sp[p].prog
          /\ s.left = sp[p].left /\ s.fake = sp[p].fake
      BY <1>1 DEF SpawnRecord
    <3>2. n = (IF mnt[p] = 0 THEN 0 ELSE mnt[p] - 1) /\ n \in Nat
      BY <1>1, MaxOfTwo
    <3>3. sp' = [sp EXCEPT ![p] = s] /\ mnt' = [mnt EXCEPT ![p] = n] /\ sp'[p] = s /\ mnt'[p] = n
      BY <1>1, <1>6, <2>3 DEF MtabRetry
    <3> HIDE DEF s, n
    <3>4. p \in Request => Counted(p)'
      <4> SUFFICES ASSUME p \in Request, Counted(p), Untouched(p) PROVE Counted(p)'
        BY <1>1, <1>3 DEF MountCount, Counted
      <4>1. Made(p) /\ ~Made(p)'
        BY <1>1, <1>2, <2>3, <3>1, <3>3 DEF Made
      <4>2. conf.mtab
        BY <2>3 DEF Counted
      <4> QED
        BY <1>1, <1>2, <3>1, <3>2, <3>3, <4>1, <4>2 DEF Counted
    <3>5. s.left <= sp[p].left
      BY <1>1, <3>1
    <3> QED
      BY <1>1, <1>5, <3>1, <3>2, <3>3, <3>4, <3>5
  <2> QED
    BY <2>1, <2>2, <2>3
<1>7. CASE sp[p].prog = "umount" /\ spawn_umount(p)
  <2>1. p \notin Request
    BY <1>4, <1>7 DEF Programs, Request
  <2> DEFINE ret == IF child[p] = "notupdated" \/ sp[p].left < MTAB_LOCK_RETRIES THEN "ok" ELSE child[p]
             s1 == [sp[p] EXCEPT !.pc = "lock", !.left = sp[p].left - 1]
             s2 == [sp[p] EXCEPT !.pc = "returned", !.ret = ret]
  <2>2. mnt' = [mnt EXCEPT ![p] = mnt[p]] /\ ret \in {child[p], "ok"} /\ ret # "notupdated"
    BY <1>1, <1>7 DEF spawn_umount
  <2>3. CASE child[p] = "notupdated" /\ sp[p].left > 1
    <3>1. /\ s1 \in SpawnRecord /\ s1.pc = "lock" /\ s1.ret = sp[p].ret /\ s1.prog = sp[p].prog
          /\ s1.left = sp[p].left - 1
      <4>1. sp[p].left - 1 \in Nat
        BY <1>1, <2>3
      <4> QED
        BY <1>1, <4>1 DEF SpawnRecord
    <3>2. s1.left <= sp[p].left
      BY <1>1, <3>1
    <3>3. sp' = [sp EXCEPT ![p] = s1]
      <4>1. sp' = [sp EXCEPT ![p] = [sp[p] EXCEPT !.pc = "lock", !.left = @ - 1]]
        BY <1>7, <2>3 DEF spawn_umount
      <4>2. [sp[p] EXCEPT !.pc = "lock", !.left = @ - 1] = s1
        BY <1>1 DEF SpawnRecord
      <4> QED
        BY <1>1, <4>1, <4>2
    <3> HIDE DEF s1
    <3> QED
      BY <1>1, <1>5, <2>1, <2>2, <3>1, <3>2, <3>3
  <2>4. CASE ~(child[p] = "notupdated" /\ sp[p].left > 1)
    <3>1. /\ s2 \in SpawnRecord /\ s2.pc = "returned" /\ s2.ret = ret /\ s2.prog = sp[p].prog
          /\ s2.left = sp[p].left
      <4>1. ret \in {"none", "ok", "fail", "term", "force"}
        BY <1>1, <2>2 DEF Exits
      <4> HIDE DEF ret
      <4> QED
        BY <1>1, <4>1 DEF SpawnRecord
    <3>2. sp' = [sp EXCEPT ![p] = s2]
      BY <1>1, <1>7, <2>4 DEF spawn_umount
    <3>3. s2.left <= sp[p].left
      BY <1>1, <3>1
    <3> HIDE DEF s2, ret
    <3> QED
      BY <1>1, <1>5, <2>1, <2>2, <3>1, <3>2, <3>3
  <2> QED
    BY <2>3, <2>4
<1>8. CASE spawn_bind_mount(p)
  BY <1>6, <1>8 DEF spawn_bind_mount
<1>9. CASE spawn_mount(p)
  <2>1. AddFake \in BOOLEAN
    BY DEF AddFake
  <2>2. conf.mtab /\ ~conf.verbose => AddFake
    BY DEF AddFake
  <2> QED
    BY <1>6, <1>9, <2>1, <2>2 DEF spawn_mount
<1> QED
  BY <1>7, <1>8, <1>9 DEF Reap

LEMMA TruthUmountStart ==
    ASSUME TruthInv, UmountStart
    PROVE  TruthInv'
<1>1. /\ TypeOK /\ Cursors /\ SpawnShape /\ MountCount /\ MountTruth
      /\ sp \in [Path -> SpawnRecord] /\ exp.pc = "idle"
      /\ "C" \in Path /\ Request \subseteq Path /\ "C" \notin Request /\ CallShape("C")
      /\ MTAB_LOCK_RETRIES \in Nat
  BY MountNfsAssumption DEF TruthInv, TypeOK, UmountStart, Path, Request, SpawnShape
<1>2. /\ UNCHANGED <<conf, health, changes, unsteady, req, child, mutex, hurt, mnt, mtab, dir, mounted>>
      /\ sp' = [sp EXCEPT !["C"] = Call("umount")]
      /\ \E l \in BOOLEAN : exp' = [exp EXCEPT !.pc = "wait", !.lazy = l]
  BY DEF UmountStart, srvVars, fsVars
<1>3. Call("umount") \in SpawnRecord
  BY <1>1 DEF Call, SpawnRecord
<1>4. /\ sp' \in [Path -> SpawnRecord] /\ sp'["C"] = Call("umount")
      /\ \A q \in Path \ {"C"} : sp'[q] = sp[q]
  BY <1>1, <1>2, <1>3
<1>5. exp'.pc = "wait" /\ exp' \in [pc : {"idle", "wait", "done"}, lazy : BOOLEAN, ret : {"none", "ok", "fail"}]
  BY <1>1, <1>2 DEF TypeOK
<1>6. TypeOK' /\ Cursors'
  BY <1>1, <1>2, <1>4, <1>5 DEF TypeOK, Cursors
<1>7. SpawnShape'
  <2>1. \A q \in Path \ {"C"} : CallShape(q)'
    <3>1. \A q \in Path \ {"C"} : Waiting(q)' <=> Waiting(q)
      BY <1>2 DEF Waiting
    <3> QED
      BY <1>1, <1>2, <1>4, <3>1, CallFrame DEF SpawnShape
  <2>2. CallShape("C")'
    <3>1. child["C"] = "none"
      <4>1. sp["C"] = NoSpawn
        BY <1>1 DEF CallShape, Waiting
      <4>2. sp["C"].pc # "run"
        BY <4>1 DEF NoSpawn
      <4> QED
        BY <1>1, <4>2 DEF CallShape
    <3> QED
      BY <1>1, <1>2, <1>4, <1>5, <3>1 DEF CallShape, Waiting, Programs, Call
  <2> QED
    BY <1>1, <1>2, <2>1, <2>2 DEF SpawnShape
<1>8. \A q \in Request : Counted(q)' /\ RequestTrue(q)'
  BY <1>1, <1>2, <1>4, MountFrame DEF MountCount, MountTruth
<1>9. UmountTrue'
  BY <1>5 DEF UmountTrue
<1> QED
  BY <1>6, <1>7, <1>8, <1>9 DEF TruthInv, MountCount, MountTruth

LEMMA TruthUmount ==
    ASSUME TruthInv, umount_ent
    PROVE  TruthInv'
<1>1. /\ TypeOK /\ Cursors /\ SpawnShape /\ MountCount /\ MountTruth
      /\ sp \in [Path -> SpawnRecord] /\ exp.pc = "wait" /\ sp["C"].pc = "returned" /\ mnt["C"] \in Nat
      /\ "C" \in Path /\ Request \subseteq Path /\ "C" \notin Request /\ CallShape("C")
      /\ MTAB_LOCK_RETRIES \in Nat /\ "C" \in mounted
  BY MountNfsAssumption DEF TruthInv, TypeOK, umount_ent, Path, Request, SpawnShape
<1>2. /\ UNCHANGED <<conf, health, changes, unsteady, req, child, mutex, hurt, mnt, mtab, dir>>
      /\ sp' = [sp EXCEPT !["C"] = NoSpawn]
      /\ exp' = [exp EXCEPT !.pc = "done", !.ret = IF StillMounted THEN "fail" ELSE "ok"]
      /\ mounted' = IF StillMounted THEN mounted ELSE mounted \ {"C"}
  BY DEF umount_ent, srvVars
<1>3. NoSpawn \in SpawnRecord
  BY DEF NoSpawn, SpawnRecord
<1>4. /\ sp' \in [Path -> SpawnRecord] /\ sp'["C"] = NoSpawn
      /\ \A q \in Path \ {"C"} : sp'[q] = sp[q]
  BY <1>1, <1>2, <1>3
<1>5. /\ exp'.pc = "done" /\ exp'.ret = (IF StillMounted THEN "fail" ELSE "ok")
      /\ exp' \in [pc : {"idle", "wait", "done"}, lazy : BOOLEAN, ret : {"none", "ok", "fail"}]
  BY <1>1, <1>2 DEF TypeOK
<1>6. TypeOK' /\ Cursors'
  BY <1>1, <1>2, <1>4, <1>5 DEF TypeOK, Cursors
<1>7. SpawnShape'
  <2>1. \A q \in Path \ {"C"} : CallShape(q)'
    <3>1. \A q \in Path \ {"C"} : Waiting(q)' <=> Waiting(q)
      BY <1>2 DEF Waiting
    <3> QED
      BY <1>1, <1>2, <1>4, <3>1, CallFrame DEF SpawnShape
  <2>2. CallShape("C")'
    <3>1. child["C"] = "none"
      BY <1>1 DEF CallShape
    <3> QED
      BY <1>1, <1>2, <1>4, <1>5, <3>1 DEF CallShape, Waiting, NoSpawn
  <2> QED
    BY <1>1, <1>5, <2>1, <2>2 DEF SpawnShape
<1>8. \A q \in Request : Counted(q)' /\ RequestTrue(q)'
  BY <1>1, <1>2, <1>4, MountFrame DEF MountCount, MountTruth
<1>9. UmountTrue'
  BY <1>1, <1>2, <1>5 DEF UmountTrue, StillMounted
<1> QED
  BY <1>6, <1>7, <1>8, <1>9 DEF TruthInv, MountCount, MountTruth

LEMMA TruthUnchanged ==
    ASSUME TruthInv, UNCHANGED <<conf, req, exp, sp, child, mutex, hurt, mnt, mtab, dir, mounted>>,
           health' \in [Servers -> Health], changes' \in Nat, unsteady' \subseteq Servers
    PROVE  TruthInv'
<1>1. /\ TypeOK /\ Cursors /\ SpawnShape /\ MountCount /\ MountTruth /\ Request \subseteq Path
  BY DEF TruthInv, Path
<1>2. TypeOK' /\ Cursors'
  BY <1>1 DEF TypeOK, Cursors
<1>3. SpawnShape'
  <2>1. \A q \in Path : Waiting(q)' <=> Waiting(q)
    BY DEF Waiting
  <2> QED
    BY <1>1, <2>1, CallFrame DEF SpawnShape
<1>4. \A q \in Request : Counted(q)' /\ RequestTrue(q)'
  BY <1>1, MountFrame DEF MountCount, MountTruth
<1>5. UmountTrue'
  BY <1>1 DEF MountTruth, UmountTrue
<1> QED
  BY <1>2, <1>3, <1>4, <1>5 DEF TruthInv, MountCount, MountTruth

LEMMA TruthServerChange ==
    ASSUME TruthInv, NEW s \in Servers, ServerChange(s)
    PROVE  TruthInv'
<1>1. /\ TypeOK /\ UNCHANGED <<conf, req, exp, sp, child, mutex, hurt, mnt, mtab, dir, mounted>>
  BY DEF TruthInv, ServerChange, spVars, fsVars
<1>2. health' \in [Servers -> Health]
  BY <1>1 DEF TypeOK, ServerChange, Health
<1>3. changes' \in Nat /\ unsteady' \subseteq Servers
  BY <1>1 DEF TypeOK, ServerChange
<1> QED
  BY <1>1, <1>2, <1>3, TruthUnchanged

LEMMA TruthInit == Init => TruthInv
<1> SUFFICES ASSUME Init PROVE TruthInv
  OBVIOUS
<1>1. PICK x \in Scenario : conf = x.conf /\ health = x.health
  BY DEF Init
<1>2. conf \in Conf /\ conf.vers # {} /\ conf.protos # {} /\ health \in [Servers -> Health]
  BY <1>1, MountNfsAssumption
<1>3. NoReq \in RequestRecord /\ NoSpawn \in SpawnRecord
  <2>1. <<>> \in Seq(HostRecord)
    OBVIOUS
  <2> QED
    BY <2>1 DEF NoReq, RequestRecord, NoSpawn, SpawnRecord
<1>4. TypeOK
  <2>1. conf.there \subseteq Path
    BY <1>2 DEF Conf
  <2>2. req \in [Request -> RequestRecord] /\ sp \in [Path -> SpawnRecord]
    BY <1>3 DEF Init
  <2>3. exp \in [pc : {"idle", "wait", "done"}, lazy : BOOLEAN, ret : {"none", "ok", "fail"}]
    BY DEF Init
  <2>4. child \in [Path -> {"none", "start", "open", "exec", "made"} \cup Exits] /\ mnt \in [Path -> Nat]
    BY DEF Init
  <2>5. mtab \subseteq Path /\ dir \subseteq Path /\ mounted \subseteq Path /\ mutex \in Path \cup {None}
    BY <2>1 DEF Init, Path
  <2>6. changes \in Nat /\ unsteady \subseteq Servers
    BY DEF Init
  <2> QED
    BY <1>2, <2>2, <2>3, <2>4, <2>5, <2>6 DEF TypeOK
<1>5. \A p \in Request : req[p] = NoReq /\ mnt[p] = 0
  BY DEF Init, Request, Path
<1>6. \A p \in Path : sp[p] = NoSpawn /\ child[p] = "none"
  BY DEF Init
<1>7. Cursors
  BY <1>5 DEF Cursors, Cursor, NoReq
<1>8. SpawnShape
  <2>1. exp.pc = "idle" /\ "C" \in mounted /\ MTAB_LOCK_RETRIES \in Nat
    BY MountNfsAssumption DEF Init
  <2>2. \A p \in Path : ~Waiting(p)
    BY <1>5, <2>1 DEF Waiting, Path, NoReq
  <2> QED
    BY <1>6, <2>1, <2>2 DEF SpawnShape, CallShape, NoSpawn
<1>9. MountCount
  <2>1. \A p \in Request : ~Made(p) /\ p \in Path
    BY <1>6 DEF Made, NoSpawn, Path
  <2> QED
    BY <1>5, <1>6, <2>1 DEF MountCount, Counted, NoSpawn
<1>10. MountTruth
  BY <1>5 DEF MountTruth, RequestTrue, UmountTrue, NoReq, Init
<1> QED
  BY <1>4, <1>7, <1>8, <1>9, <1>10 DEF TruthInv

LEMMA TruthThread ==
    ASSUME TruthInv, NEW p \in Path, Thread(p)
    PROVE  TruthInv'
BY TruthPrune, TruthProbeNear, TruthSelect, TruthProbeFar, TruthMkdir, TruthCheck, TruthTry, TruthReturned,
   TruthUmount, TruthFork, TruthChildOpen, TruthChildOpened, TruthChildExec, TruthChildMtab, TruthReap
   DEF Thread

LEMMA TruthNext == TruthInv /\ [Next]_vars => TruthInv'
<1> SUFFICES ASSUME TruthInv, [Next]_vars PROVE TruthInv'
  OBVIOUS
<1>1. CASE UNCHANGED vars
  <2>1. UNCHANGED <<conf, health, changes, unsteady, req, exp, sp, child, mutex, hurt, mnt, mtab, dir, mounted>>
    BY <1>1 DEF vars, srvVars, spVars, fsVars
  <2>2. health' \in [Servers -> Health] /\ changes' \in Nat /\ unsteady' \subseteq Servers
    BY <2>1 DEF TruthInv, TypeOK
  <2> QED
    BY <2>1, <2>2, TruthUnchanged
<1> QED
  BY <1>1, TruthBegin, TruthUmountStart, TruthThread, TruthTimedOut, TruthServerChange DEF Next

\* The state of the requests, of the calls of spawn.c and of their processes
\* stays in its type, whatever the servers do and whoever is killed.
THEOREM MountNfsTypes == Spec => []TypeOK
<1>1. TruthInv => TypeOK
  BY DEF TruthInv
<1> QED
  BY <1>1, TruthInit, TruthNext, PTL DEF Spec

\* spawn.c and the mount modules: a request that succeeds has made one mount,
\* which the mtab shows, and one that fails has left none, for every set of
\* servers, every configuration and any number of retries; a umount is off the
\* list of mounted mounts if and only if it is gone.
THEOREM MountsAreTrue == Spec => []MountTruth
<1>1. TruthInv => MountTruth
  BY DEF TruthInv
<1> QED
  BY <1>1, TruthInit, TruthNext, PTL DEF Spec
-----------------------------------------------------------------------------
(***************************************************************************)
(* The hosts of A.                                                         *)
(***************************************************************************)
LEMMA HostFacts ==
    ASSUME TypeOK, ~Device
    PROVE  /\ Parsed("A") \in Seq(HostRecord) /\ Sorted(Parsed("A"))
           /\ Hosts = {h \in ToSet(Parsed("A")) : ~Local(h)}
           /\ \A h \in ToSet(Parsed("A")) : h \in HostRecord
           /\ \A h \in Hosts : /\ h \in HostRecord /\ h.srv \in Servers /\ h.ent # 0
                               /\ h.cost = 0 /\ h.vers = {}
                               /\ \E a \in ToSet(Location("A")[h.ent].addrs) : h.srv = a.srv
<1> DEFINE loc == Locations[conf.location]
           list == parse_location(loc, conf)
<1>1. Location("A") = loc /\ Parsed("A") = list /\ "A" \in Request
  BY DEF Location, Parsed, Request
<1>2. loc \in Seq(LocationEntry) /\ list \in HostList(loc)
  BY <1>1, ParsedType
<1>3. Hosts = {h \in ToSet(list) : ~Local(h)}
  BY DEF Hosts
<1> HIDE DEF loc, list
<1>4. list \in Seq(HostRecord) /\ Sorted(list) /\ \A h \in ToSet(list) : FromEntry(loc, h)
  BY <1>2 DEF HostList
<1>5. \A h \in ToSet(list) : h \in HostRecord
  BY <1>4 DEF ToSet
<1>6. \A h \in Hosts : /\ h \in HostRecord /\ h.srv \in Servers /\ h.ent # 0
                       /\ h.cost = 0 /\ h.vers = {}
                       /\ \E a \in ToSet(loc[h.ent].addrs) : h.srv = a.srv
  <2> TAKE h \in Hosts
  <2>1. h \in ToSet(list) /\ ~Local(h) /\ FromEntry(loc, h)
    BY <1>3, <1>4
  <2>2. h.ent \in DOMAIN loc /\ 0 \notin DOMAIN loc
    BY <1>2, <2>1 DEF FromEntry
  <2> QED
    BY <1>5, <2>1, <2>2 DEF FromEntry
<1> QED
  BY <1>1, <1>3, <1>4, <1>5, <1>6

\* What does not change with the configuration.
LEMMA StaticFrame ==
    ASSUME conf' = conf
    PROVE  /\ Device' <=> Device
           /\ Parsed("A")' = Parsed("A") /\ Hosts' = Hosts /\ Asked' = Asked /\ Location("A")' = Location("A")
           /\ \A s : Supports(s)' = Supports(s) /\ Found(s)' = Found(s)
<1>1. Device' <=> Device
  BY DEF Device
<1>2. Asked' = Asked /\ Location("A")' = Location("A")
  BY DEF Asked, Location
<1>3. Parsed("A")' = Parsed("A")
  BY <1>1, <1>2 DEF Parsed
<1>4. Hosts' = Hosts
  BY DEF Hosts
<1>5. \A s : Supports(s)' = Supports(s)
  BY DEF Supports
<1>6. \A s : Found(s)' = Found(s)
  BY <1>2, <1>5 DEF Found
<1> QED
  BY <1>1, <1>2, <1>3, <1>4, <1>5, <1>6

\* A server that is steady was so before.
Steadier == /\ unsteady \subseteq unsteady' 
            /\ \A s \in Servers : s \notin unsteady' => health'[s] = health[s]
LEMMA SteadyFrame ==
    ASSUME TypeOK, ~Device, conf' = conf, Steadier
    PROVE  /\ \A h \in Hosts : Steady(h)' => Steady(h)
           /\ Responding' \subseteq Responding
           /\ req'["A"].sel = req["A"].sel => Wanted' \subseteq Wanted
           /\ Serving' \subseteq Serving
<1>1. \A h \in Hosts : Steady(h)' => Steady(h)
  BY HostFacts DEF Steadier, Steady
<1>2. Responding' \subseteq Responding
  BY <1>1, StaticFrame DEF Responding
<1>3. Serving' \subseteq Serving
  BY <1>1, StaticFrame DEF Serving
<1>4. req'["A"].sel = req["A"].sel => Wanted' \subseteq Wanted
  BY <1>1, StaticFrame DEF Wanted
<1> QED
  BY <1>1, <1>2, <1>3, <1>4

LEMMA ListFrame ==
    ASSUME TruthInv, ListInv, conf' = conf, req'["A"] = req["A"], Steadier,
           req["A"].pc = "wait" => sp'["A"].prog = sp["A"].prog
    PROVE  ListInv'
<1> DEFINE r == req["A"]
<1> SUFFICES ASSUME ~Device PROVE Pruning(r)' /\ ProbedNear(r)' /\ ProbedFar(r)' /\ TryingHosts(r)'
  BY StaticFrame DEF ListInv
<1>1. /\ TypeOK /\ Cursors /\ Pruning(r) /\ ProbedNear(r) /\ ProbedFar(r) /\ TryingHosts(r) /\ r \in RequestRecord /\ r' = r
      /\ "A" \in Request /\ r.hosts \in Seq(HostRecord) /\ Cursor(r)
  BY DEF ListInv, TruthInv, TypeOK, Request, RequestRecord, Cursors
<1>2. /\ Parsed("A")' = Parsed("A") /\ Asked' = Asked /\ \A s : Found(s)' = Found(s)
      /\ Responding' \subseteq Responding /\ Wanted' \subseteq Wanted
  BY <1>1, StaticFrame, SteadyFrame
<1>3. \A hosts : OfLocation(hosts)' <=> OfLocation(hosts)
  BY <1>2 DEF OfLocation
<1> HIDE DEF r
<1>4. Pruning(r)'
  BY <1>1, <1>2 DEF Pruning
<1>5. ProbedNear(r)'
  <2> SUFFICES ASSUME r.pc = "near" PROVE ProbedNear(r)'
    BY <1>1 DEF ProbedNear
  <2>1. \A j \in r.first..(r.i - 1) : r.hosts[j].srv \notin unsteady' => health'[r.hosts[j].srv] = "up"
    <3> TAKE j \in r.first..(r.i - 1)
    <3>1. j \in DOMAIN r.hosts /\ ~(j < r.first)
      BY <1>1 DEF Cursor, RequestRecord
    <3>2. ~Local(r.hosts[j])
      BY <1>1, <3>1 DEF ProbedNear
    <3>3. PICK h \in ToSet(Parsed("A")) : SameHost(r.hosts[j], h)
      BY <1>1, <3>1 DEF ProbedNear, OfLocation
    <3>4. r.hosts[j].srv \in Servers
      <4>1. h \in Hosts
        BY <1>1, <3>2, <3>3, HostFacts DEF SameHost, Local
      <4> QED
        BY <1>1, <3>3, <4>1, HostFacts DEF SameHost
    <3> QED
      BY <1>1, <3>4 DEF ProbedNear, Steadier
  <2> QED
    BY <1>1, <1>2, <1>3, <2>1 DEF ProbedNear, Proximity
<1>6. ProbedFar(r)'
  BY <1>1, <1>2, <1>3 DEF ProbedFar, StandsFor
<1>7. TryingHosts(r)'
  BY <1>1, <1>2, <1>3 DEF TryingHosts, StandsFor, r
<1> QED
  BY <1>4, <1>5, <1>6, <1>7 DEF r

\* A step of A in the list of its hosts.
LEMMA ListStep ==
    ASSUME TypeOK, ~Device, NEW r \in RequestRecord, req'["A"] = r, conf' = conf, UNCHANGED <<health, unsteady>>,
           req["A"].sel = r.sel
    PROVE  /\ Responding' = Responding /\ Wanted' = Wanted /\ Parsed("A")' = Parsed("A") /\ Asked' = Asked
           /\ \A hosts : OfLocation(hosts)' <=> OfLocation(hosts)
           /\ \A s : Found(s)' = Found(s)
<1>1. /\ Parsed("A")' = Parsed("A") /\ Asked' = Asked /\ Hosts' = Hosts
      /\ \A s : Found(s)' = Found(s) /\ Supports(s)' = Supports(s)
  BY StaticFrame
<1>2. \A h \in Hosts : Steady(h)' <=> Steady(h)
  BY DEF Steady
<1>3. Responding' = Responding
  BY <1>1, <1>2 DEF Responding
<1>4. Wanted' = Wanted
  BY <1>1, <1>2 DEF Wanted
<1>5. \A hosts : OfLocation(hosts)' <=> OfLocation(hosts)
  BY <1>1 DEF OfLocation
<1> QED
  BY <1>1, <1>3, <1>4, <1>5

LEMMA ListTo ==
    ASSUME NEW s, req'["A"] = s, conf' = conf,
           ~Device => Pruning(s)' /\ ProbedNear(s)' /\ ProbedFar(s)' /\ TryingHosts(s)'
    PROVE  ListInv'
BY StaticFrame DEF ListInv

LEMMA ListPrune ==
    ASSUME TruthInv, ListInv, prune_host_list("A")
    PROVE  ListInv'
<1> DEFINE r == req["A"]
           m == Min(Others(r.hosts))
           r1 == [r EXCEPT !.pc = "mkdir"]
           r2 == [r EXCEPT !.pc = "near", !.first = m, !.i = m]
<1>0. PICK s : s = req'["A"]
  OBVIOUS
<1> SUFFICES ASSUME ~Device PROVE Pruning(s)' /\ ProbedNear(s)' /\ ProbedFar(s)' /\ TryingHosts(s)'
  BY <1>0, ListTo, ProbingFrame
<1>1. /\ TypeOK /\ req \in [Request -> RequestRecord] /\ r \in RequestRecord /\ r.pc = "prune"
      /\ "A" \in Request /\ r.hosts = Parsed("A") /\ r.prev = 0 /\ r.sel = None
      /\ conf' = conf /\ UNCHANGED <<health, unsteady>>
  BY DEF TruthInv, TypeOK, ListInv, prune_host_list, srvVars, Request, Pruning
<1>2. /\ r.hosts \in Seq(HostRecord) /\ Sorted(r.hosts) /\ OfLocation(r.hosts)
      /\ \A h \in Wanted : h \in ToSet(r.hosts) /\ ~Local(h)
      /\ \A h \in Responding : h \in ToSet(r.hosts) /\ ~Local(h)
  <2>1. OfLocation(r.hosts)
    BY <1>1, HostFacts DEF OfLocation, SameHost, ToSet
  <2> QED
    BY <1>1, <2>1, HostFacts DEF Wanted, Responding
<1>3. CASE Goto("A", "mkdir")
  <2>1. r1 \in RequestRecord /\ r1.pc = "mkdir" /\ r1.hosts = r.hosts /\ r1.sel = r.sel
    BY <1>1 DEF RequestRecord
  <2>2. s = r1
    BY <1>0, <1>1, <1>3 DEF Goto
  <2>a. s \in RequestRecord /\ s.pc = "mkdir" /\ s.hosts = r.hosts /\ s.sel = r.sel /\ s.sel = None
    BY <1>1, <2>1, <2>2
  <2> HIDE DEF r1
  <2>3. Wanted' = Wanted /\ \A hosts : OfLocation(hosts)' <=> OfLocation(hosts)
    BY <1>0, <1>1, <2>a, ListStep
  <2>4. \A h \in Wanted : StandsFor(h, h)'
    BY <1>1, <1>2, HostFacts, ProxFacts DEF StandsFor, Wanted
  <2>5. TryingHosts(s)'
    BY <1>1, <1>2, <2>a, <2>3, <2>4 DEF TryingHosts
  <2> QED
    BY <2>a, <2>5 DEF Pruning, ProbedNear, ProbedFar
<1>4. CASE /\ ~Unprobed(r.hosts) /\ req' = [req EXCEPT !["A"].pc = "near", !["A"].first = m, !["A"].i = m]
  <2>1. /\ m \in 1..Len(r.hosts) /\ m \in Nat
        /\ \A j \in DOMAIN r.hosts : Local(r.hosts[j]) <=> j < m
    BY <1>2, <1>4, FirstOther DEF Unprobed
  <2> HIDE DEF m
  <2>2. /\ r2 \in RequestRecord /\ r2.pc = "near" /\ r2.hosts = r.hosts /\ r2.sel = r.sel
        /\ r2.first = m /\ r2.i = m /\ r2.prev = r.prev
    BY <1>1, <2>1 DEF RequestRecord
  <2>3. s = r2
    BY <1>0, <1>1, <1>4
  <2>a. /\ s \in RequestRecord /\ s.pc = "near" /\ s.hosts = r.hosts /\ s.sel = r.sel
        /\ s.first = m /\ s.i = m /\ s.prev = r.prev
    BY <2>2, <2>3
  <2> HIDE DEF r2
  <2>4. /\ Responding' = Responding /\ Parsed("A")' = Parsed("A")
        /\ \A hosts : OfLocation(hosts)' <=> OfLocation(hosts)
    BY <1>0, <1>1, <2>a, ListStep
  <2>5. \A h \in Responding : \E j \in m..Len(r.hosts) : r.hosts[j] = h
    <3> TAKE h \in Responding
    <3>1. PICK j \in DOMAIN r.hosts : r.hosts[j] = h
      BY <1>2 DEF ToSet
    <3>2. ~(j < m) /\ j \in 1..Len(r.hosts)
      BY <1>2, <2>1, <3>1
    <3> QED
      BY <2>1, <3>1, <3>2
  <2>6. \A j \in m..Len(r.hosts) : r.hosts[j] \in ToSet(Parsed("A"))
    BY <1>1, <1>2, <2>1 DEF ToSet
  <2>7. ProbedNear(s)'
    <3>1. \A j \in m..(m - 1) : FALSE
      BY <2>1
    <3> QED
      BY <1>1, <1>2, <2>1, <2>a, <2>4, <2>5, <2>6, <3>1 DEF ProbedNear
  <2> QED
    BY <2>a, <2>7 DEF Pruning, ProbedFar, TryingHosts
<1> QED
  BY <1>3, <1>4 DEF prune_host_list

LEMMA ListProbeNear ==
    ASSUME TruthInv, ListInv, ProbeNear("A")
    PROVE  ListInv'
<1>0. PICK s, r : s = req'["A"] /\ r = req["A"]
  OBVIOUS
<1> SUFFICES ASSUME ~Device PROVE Pruning(s)' /\ ProbedNear(s)' /\ ProbedFar(s)' /\ TryingHosts(s)'
  BY <1>0, ListTo, ProbingFrame
<1>1. /\ TypeOK /\ req \in [Request -> RequestRecord] /\ r \in RequestRecord /\ r.pc = "near"
      /\ "A" \in Request /\ ProbedNear(r) /\ Cursor(r)
      /\ conf' = conf /\ UNCHANGED <<health, unsteady>>
  <2>1. r.pc = "near" /\ conf' = conf /\ UNCHANGED <<health, unsteady>>
    BY <1>0, ProbeNearIs, ProbingFrame
  <2> QED
    BY <1>0, <2>1 DEF TruthInv, TypeOK, ListInv, Request, Cursors
<1> DEFINE hs == r.hosts
           n == Len(hs)
           i == r.i
           first == r.first
           h == hs[i]
<1>2. /\ hs \in Seq(HostRecord) /\ n \in Nat /\ i \in 1..n /\ first \in 1..i /\ hs[i].prox = hs[first].prox
      /\ DOMAIN hs = 1..n /\ \A j \in 1..n : hs[j] \in HostRecord
  <2>1. i <= n /\ hs[i].prox = hs[first].prox
    BY <1>0, ProbeNearIs DEF IsNear, Proximity
  <2> QED
    BY <1>1, <2>1 DEF Cursor, RequestRecord
<1>3. /\ r.prev = 0 /\ r.sel = None /\ Sorted(hs) /\ OfLocation(hs)
      /\ \A j \in 1..n : Local(hs[j]) <=> j < first
      /\ \A j \in first..(i - 1) :
             /\ hs[j].prox = hs[first].prox
             /\ hs[j].vers = Found(hs[j].srv) /\ hs[j].vers # {}
             /\ hs[j].srv \notin unsteady => health[hs[j].srv] = "up"
      /\ \A j \in i..n : hs[j] \in ToSet(Parsed("A"))
      /\ \A g \in Responding : \/ \E j \in first..(i - 1) : SameHost(hs[j], g)
                               \/ \E j \in i..n : hs[j] = g
  BY <1>1, <1>2 DEF ProbedNear, Proximity
<1>4. h \in HostRecord /\ h \in Hosts /\ h.srv \in Servers /\ ~Local(h)
  <2>1. h \in ToSet(Parsed("A")) /\ ~Local(h)
    BY <1>2, <1>3
  <2> QED
    BY <1>1, <1>2, <2>1, HostFacts
<1>5. PICK t \in 1..MaxTime :
        LET probe == get_vers_and_cost(h, Answers(h.srv), conf, t)
        IN req' = [req EXCEPT !["A"] =
                    IF probe.status THEN [r EXCEPT !.hosts[i] = probe.host, !.i = @ + 1] ELSE FailedNear(r)]
  BY <1>0, Zenon DEF ProbeNear
<1> DEFINE probe == get_vers_and_cost(h, Answers(h.srv), conf, t)
           g == [h EXCEPT !.vers = Found(h.srv), !.cost = Cost(h, conf, t)]
<1>6. /\ probe = IF health[h.srv] = "up" /\ Found(h.srv) # {} THEN [status |-> TRUE, host |-> g]
                 ELSE [status |-> FALSE, host |-> h]
      /\ s = IF probe.status THEN [r EXCEPT !.hosts[i] = probe.host, !.i = @ + 1] ELSE FailedNear(r)
  <2>1. probe = IF health[h.srv] = "up" /\ Found(h.srv) # {} THEN [status |-> TRUE, host |-> g]
                ELSE [status |-> FALSE, host |-> h]
    BY <1>1, <1>4, VersAndCost
  <2>2. req' = [req EXCEPT !["A"] =
                  IF probe.status THEN [r EXCEPT !.hosts[i] = probe.host, !.i = @ + 1] ELSE FailedNear(r)]
    BY <1>5, Zenon
  <2> HIDE DEF probe
  <2>3. s = IF probe.status THEN [r EXCEPT !.hosts[i] = probe.host, !.i = @ + 1] ELSE FailedNear(r)
    BY <1>0, <1>1, <2>2
  <2> QED
    BY <2>1, <2>3
<1> HIDE DEF hs, n, i, first
<1>a. r.hosts = hs /\ r.i = i /\ r.first = first /\ Len(hs) = n
  BY DEF hs, n, i, first
<1>7. CASE health[h.srv] = "up" /\ Found(h.srv) # {}
  <2>1. g \in HostRecord /\ SameHost(g, h) /\ g.vers = Found(h.srv)
    <3>1. Found(h.srv) \in SUBSET VP
      BY <1>1, AskedType DEF Found
    <3>2. Cost(h, conf, t) \in Nat
      BY <1>1, <1>4, CostNat
    <3> QED
      BY <1>4, <3>1, <3>2, ProbedHost
  <2> HIDE DEF g
  <2>2. s = [r EXCEPT !.hosts[i] = g, !.i = @ + 1]
    BY <1>6, <1>7
  <2> DEFINE ks == [hs EXCEPT ![i] = g]
  <2>3. s = [r EXCEPT !.hosts = ks, !.i = i + 1]
    BY <1>1, <1>a, <2>2 DEF RequestRecord
  <2>4. /\ ks \in Seq(HostRecord) /\ Len(ks) = n /\ DOMAIN ks = 1..n
        /\ \A j \in 1..n : ks[j] = IF j = i THEN g ELSE hs[j]
    BY <1>2, <1>a, <2>1
  <2> HIDE DEF ks
  <2>5. /\ s \in RequestRecord /\ s.pc = "near" /\ s.hosts = ks /\ s.i = i + 1 /\ s.first = first
        /\ s.prev = 0 /\ s.sel = r.sel /\ s.sel = None
    <3>1. i + 1 \in Nat
      BY <1>2
    <3> QED
      BY <1>1, <1>3, <1>a, <2>3, <2>4, <3>1 DEF RequestRecord
  <2>6. \A j \in 1..n : SameHost(ks[j], hs[j])
    BY <2>1, <2>4 DEF SameHost
  <2>7. /\ Responding' = Responding /\ Parsed("A")' = Parsed("A")
        /\ \A hosts : OfLocation(hosts)' <=> OfLocation(hosts)
        /\ \A x : Found(x)' = Found(x)
    BY <1>0, <1>1, <2>5, ListStep
  <2>8. Sorted(ks) /\ OfLocation(ks)
    <3>1. Sorted(ks)
      BY <1>2, <1>3, <2>4, <2>6 DEF Sorted, SameHost
    <3>2. OfLocation(ks)
      BY <1>2, <1>3, <2>4, <2>6 DEF OfLocation, SameHost
    <3> QED
      BY <3>1, <3>2
  <2>9. \A j \in 1..n : Local(ks[j]) <=> j < first
    BY <1>3, <2>6 DEF SameHost, Local
  <2>10. \A j \in first..i : /\ ks[j].prox = ks[first].prox
                             /\ ks[j].vers = Found(ks[j].srv) /\ ks[j].vers # {}
                             /\ ks[j].srv \notin unsteady => health[ks[j].srv] = "up"
    <3> TAKE j \in first..i
    <3>1. j \in 1..n /\ first \in 1..n /\ ks[j].prox = hs[j].prox /\ ks[first].prox = hs[first].prox
      BY <1>2, <2>6 DEF SameHost
    <3>2. CASE j = i
      BY <1>2, <1>7, <2>1, <2>4, <3>1, <3>2 DEF SameHost
    <3>3. CASE j # i
      BY <1>2, <1>3, <2>4, <3>1, <3>3
    <3> QED
      BY <3>2, <3>3
  <2>11. \A j \in (i + 1)..n : ks[j] = hs[j] /\ ks[j] \in ToSet(Parsed("A"))
    BY <1>2, <1>3, <2>4
  <2>12. \A x \in Responding : \/ \E j \in first..i : SameHost(ks[j], x)
                               \/ \E j \in (i + 1)..n : ks[j] = x
    <3> TAKE x \in Responding
    <3>1. CASE \E j \in first..(i - 1) : SameHost(hs[j], x)
      <4>1. PICK j \in first..(i - 1) : SameHost(hs[j], x)
        BY <3>1
      <4>2. j \in first..i /\ SameHost(ks[j], x)
        BY <1>2, <2>6, <4>1 DEF SameHost
      <4> QED
        BY <4>2
    <3>2. CASE \E j \in i..n : hs[j] = x
      <4>1. PICK j \in i..n : hs[j] = x
        BY <3>2
      <4>2. CASE j = i
        <5>1. i \in first..i /\ SameHost(ks[i], x)
          BY <1>2, <2>6, <4>1, <4>2 DEF SameHost
        <5> QED
          BY <5>1
      <4>3. CASE j # i
        BY <1>2, <2>11, <4>1, <4>3
      <4> QED
        BY <4>2, <4>3
    <3> QED
      BY <1>3, <3>1, <3>2
  <2>13. ProbedNear(s)'
    <3>1. s.i - 1 = i
      BY <1>2, <2>5
    <3>2. /\ Sorted(s.hosts)' /\ OfLocation(s.hosts)'
          /\ \A j \in DOMAIN s.hosts : Local(s.hosts[j]) <=> j < s.first
      BY <2>4, <2>5, <2>7, <2>8, <2>9 DEF Sorted
    <3>3. \A j \in s.first..(s.i - 1) :
             /\ s.hosts[j].prox = Proximity(s)
             /\ s.hosts[j].vers = Found(s.hosts[j].srv)' /\ s.hosts[j].vers # {}
             /\ s.hosts[j].srv \notin unsteady' => health'[s.hosts[j].srv] = "up"
      BY <1>1, <2>5, <2>7, <2>10, <3>1 DEF Proximity
    <3>4. \A j \in s.i..Len(s.hosts) : s.hosts[j] \in ToSet(Parsed("A"))'
      BY <2>4, <2>5, <2>7, <2>11
    <3>5. \A x \in Responding' : \/ \E j \in s.first..(s.i - 1) : SameHost(s.hosts[j], x)
                                \/ \E j \in s.i..Len(s.hosts) : s.hosts[j] = x
      BY <2>4, <2>5, <2>7, <2>12, <3>1
    <3> QED
      BY <2>5, <3>2, <3>3, <3>4, <3>5 DEF ProbedNear, Proximity
  <2> QED
    BY <2>5, <2>13 DEF Pruning, ProbedFar, TryingHosts
<1>8. CASE ~(health[h.srv] = "up" /\ Found(h.srv) # {})
  <2> DEFINE ks == RemoveAt(hs, i)
  <2>1. s = [r EXCEPT !.hosts = ks]
    BY <1>1, <1>6, <1>8, <1>a DEF FailedNear, RequestRecord
  <2>2. /\ ks \in Seq(HostRecord) /\ Len(ks) = n - 1 /\ DOMAIN ks = 1..(n - 1)
        /\ \A j \in 1..(n - 1) : ks[j] = IF j < i THEN hs[j] ELSE hs[j + 1]
    <3>1. i \in 1..Len(hs)
      BY <1>2, <1>a
    <3>2. /\ ks \in Seq(HostRecord) /\ Len(ks) = Len(hs) - 1
          /\ \A j \in 1..(Len(hs) - 1) : ks[j] = IF j < i THEN hs[j] ELSE hs[j + 1]
      BY <1>2, <3>1, RemoveAtFacts
    <3> HIDE DEF ks
    <3> QED
      BY <1>a, <3>2
  <2> HIDE DEF ks
  <2>3. /\ s \in RequestRecord /\ s.pc = "near" /\ s.hosts = ks /\ s.i = i /\ s.first = first
        /\ s.prev = 0 /\ s.sel = r.sel /\ s.sel = None
    BY <1>1, <1>3, <1>a, <2>1, <2>2 DEF RequestRecord
  <2>4. /\ Responding' = Responding /\ Parsed("A")' = Parsed("A")
        /\ \A hosts : OfLocation(hosts)' <=> OfLocation(hosts)
        /\ \A x : Found(x)' = Found(x)
    BY <1>0, <1>1, <2>3, ListStep
  <2>5. h \notin Responding
    BY <1>8 DEF Responding, Steady
  <2>6. Sorted(ks)
    <3> SUFFICES ASSUME NEW a \in 1..(n - 1), NEW b \in 1..(n - 1), a < b PROVE ks[a].prox <= ks[b].prox
      BY <2>2 DEF Sorted
    <3> DEFINE a1 == IF a < i THEN a ELSE a + 1
               b1 == IF b < i THEN b ELSE b + 1
    <3>1. a1 \in 1..n /\ b1 \in 1..n /\ a1 < b1 /\ ks[a] = hs[a1] /\ ks[b] = hs[b1]
      BY <1>2, <2>2
    <3> HIDE DEF a1, b1
    <3> QED
      BY <1>2, <1>3, <3>1 DEF Sorted
  <2>7. OfLocation(ks)
    <3> SUFFICES ASSUME NEW j \in 1..(n - 1) PROVE \E x \in ToSet(Parsed("A")) : SameHost(ks[j], x)
      BY <2>2 DEF OfLocation
    <3>1. PICK k \in 1..n : ks[j] = hs[k]
      BY <1>2, <2>2
    <3> QED
      BY <1>2, <1>3, <3>1 DEF OfLocation
  <2>8. \A j \in 1..(n - 1) : Local(ks[j]) <=> j < first
    BY <1>2, <1>3, <2>2
  <2>9. \A j \in first..(i - 1) : j \in 1..(n - 1) /\ first \in 1..(n - 1) /\ ks[j] = hs[j] /\ ks[first] = hs[first]
    BY <1>2, <2>2
  <2>10. \A j \in i..(n - 1) : ks[j] \in ToSet(Parsed("A"))
    BY <1>2, <1>3, <2>2
  <2>11. \A x \in Responding : \/ \E j \in first..(i - 1) : SameHost(ks[j], x)
                               \/ \E j \in i..(n - 1) : ks[j] = x
    <3> TAKE x \in Responding
    <3>1. CASE \E j \in first..(i - 1) : SameHost(hs[j], x)
      BY <2>9, <3>1
    <3>2. CASE \E j \in i..n : hs[j] = x
      <4>1. PICK j \in i..n : hs[j] = x
        BY <3>2
      <4>2. j # i
        BY <2>5, <4>1
      <4>3. j - 1 \in i..(n - 1) /\ ks[j - 1] = x
        BY <1>2, <2>2, <4>1, <4>2
      <4> QED
        BY <4>3
    <3> QED
      BY <1>3, <3>1, <3>2
  <2>12. ProbedNear(s)'
    <3>2. /\ Sorted(s.hosts)' /\ OfLocation(s.hosts)'
          /\ \A j \in DOMAIN s.hosts : Local(s.hosts[j]) <=> j < s.first
      BY <2>2, <2>3, <2>4, <2>6, <2>7, <2>8 DEF Sorted
    <3>3. \A j \in s.first..(s.i - 1) :
             /\ s.hosts[j].prox = Proximity(s)
             /\ s.hosts[j].vers = Found(s.hosts[j].srv)' /\ s.hosts[j].vers # {}
             /\ s.hosts[j].srv \notin unsteady' => health'[s.hosts[j].srv] = "up"
      BY <1>1, <1>3, <2>3, <2>4, <2>9 DEF Proximity
    <3>4. \A j \in s.i..Len(s.hosts) : s.hosts[j] \in ToSet(Parsed("A"))'
      BY <2>2, <2>3, <2>4, <2>10
    <3>5. \A x \in Responding' : \/ \E j \in s.first..(s.i - 1) : SameHost(s.hosts[j], x)
                                \/ \E j \in s.i..Len(s.hosts) : s.hosts[j] = x
      BY <2>2, <2>3, <2>4, <2>11
    <3> QED
      BY <2>3, <3>2, <3>3, <3>4, <3>5 DEF ProbedNear, Proximity
  <2> QED
    BY <2>3, <2>12 DEF Pruning, ProbedFar, TryingHosts
<1> QED
  BY <1>7, <1>8

\* The version selected among hosts that have answered is one that is asked for,
\* as many of them have it as have any other, and it is not version 2 when
\* version 3 is asked for: the hosts with version 2 have that, too.
LEMMA SelectionFacts ==
    ASSUME TypeOK, NEW near \in Seq(HostRecord), Len(near) > 0,
           \A j \in 1..Len(near) : near[j].vers = Found(near[j].srv) /\ near[j].vers # {}
    PROVE  LET sel == Selected(near)
           IN /\ sel \in Asked /\ (sel[1] = 2 => 3 \notin conf.vers)
              /\ \A vp \in VP : Supporters(near, vp) <= Supporters(near, sel)
<1> DEFINE sel == Selected(near)
           n == Len(near)
           S(vp) == {i \in DOMAIN near : vp \in near[i].vers}
<1>0. n \in Nat /\ 1 \in 1..n /\ DOMAIN near = 1..n
  OBVIOUS
<1>1. PICK k \in 1..6 : sel = Preference[k] /\ IsSelected(near, k)
  BY SelectedIs
<1>2. \A vp : IsFiniteSet(S(vp)) /\ Supporters(near, vp) = Cardinality(S(vp)) /\ Supporters(near, vp) \in Nat
  BY SupportersNat DEF Supporters
<1>3. \A vp \in VP : Supporters(near, vp) <= Supporters(near, sel)
  <2> TAKE vp \in VP
  <2>1. PICK j \in 1..6 : Preference[j] = vp
    BY PreferenceFacts
  <2> QED
    BY <1>1, <2>1 DEF IsSelected
<1> HIDE DEF sel, S
<1>4. PICK vp \in near[1].vers : vp \in VP
  <2>1. near[1].vers # {} /\ near[1] \in HostRecord
    BY <1>0
  <2> QED
    BY <2>1 DEF HostRecord
<1>5. S(sel) # {}
  <2>1. S(vp) # {}
    BY <1>0, <1>4 DEF S
  <2>2. Cardinality(S(vp)) # 0
    BY <1>2, <2>1, FS_EmptySet
  <2>3. Cardinality(S(sel)) # 0
    BY <1>2, <1>3, <1>4, <2>2
  <2> QED
    BY <2>3, FS_EmptySet
<1>6. PICK i \in 1..n : sel \in near[i].vers
  BY <1>0, <1>5 DEF S
<1>7. sel \in Asked
  BY <1>0, <1>6 DEF Found
<1>8. ASSUME sel[1] = 2, 3 \in conf.vers PROVE FALSE
  <2> DEFINE three == <<3, sel[2]>>
  <2>1. three \in Asked /\ three[1] = 3
    BY <1>7, <1>8 DEF Asked
  <2>2. PICK j \in 1..(k - 1) : Preference[j] = three
    BY <1>1, <1>8, PreferenceFacts
  <2>3. Supporters(near, three) < Supporters(near, sel)
    BY <1>1, <2>2 DEF IsSelected
  <2>4. S(sel) \subseteq S(three)
    <3> SUFFICES ASSUME NEW m \in 1..n, sel \in near[m].vers PROVE three \in near[m].vers
      BY <1>0 DEF S
    <3>1. sel \in Found(near[m].srv) /\ near[m].vers = Found(near[m].srv)
      BY <1>0
    <3> QED
      BY <1>8, <2>1, <3>1 DEF Found
  <2>5. Cardinality(S(sel)) <= Cardinality(S(three))
    BY <1>2, <2>4, FS_Subset
  <2> QED
    BY <1>2, <2>3, <2>5
<1> QED
  BY <1>3, <1>7, <1>8 DEF sel

\* The hosts that have answered, when all of them have been probed.
LEMMA Answered ==
    ASSUME TypeOK, ~Device, NEW r \in RequestRecord, Cursor(r), r.pc = "near", ProbedNear(r),
           r.first <= Len(r.hosts), ~IsNear(r)
    PROVE  LET near == SubSeq(r.hosts, r.first, r.i - 1)
               upto == SubSeq(r.hosts, 1, r.i - 1)
               sel == Selected(near)
           IN /\ r.first < r.i
              /\ sel \in Asked /\ sel \in VP /\ (sel[1] = 2 => 3 \notin conf.vers)
              /\ \A vp \in VP : Supporters(near, vp) <= Supporters(near, sel)
              /\ ChosenFrom(r.hosts, sel, r.i - 1, Chosen(upto, sel))
<1> DEFINE near == SubSeq(r.hosts, r.first, r.i - 1)
           upto == SubSeq(r.hosts, 1, r.i - 1)
           sel == Selected(near)
           new == Chosen(upto, sel)
<1>1. /\ near \in Seq(HostRecord) /\ Len(near) = r.i - r.first
      /\ \A j \in 1..(r.i - r.first) : near[j] = r.hosts[r.first + j - 1]
      /\ upto \in Seq(HostRecord) /\ Len(upto) = r.i - 1
      /\ \A j \in 1..(r.i - 1) : upto[j] = r.hosts[j]
      /\ sel \in VP /\ ChosenFrom(upto, sel, r.i - 1, new)
  BY SelectType
<1>2. r.first \in Nat /\ r.i \in Nat /\ 1 <= r.first /\ r.first <= r.i /\ r.i <= Len(r.hosts) + 1 /\ Len(r.hosts) \in Nat
  BY DEF RequestRecord, Cursor
<1>3. r.first < r.i
  BY <1>2 DEF IsNear, Proximity
<1> HIDE DEF near, upto, sel, new
<1>4. \A j \in 1..Len(near) : near[j].vers = Found(near[j].srv) /\ near[j].vers # {}
  <2> TAKE j \in 1..Len(near)
  <2>1. r.first + j - 1 \in r.first..(r.i - 1) /\ near[j] = r.hosts[r.first + j - 1]
    BY <1>1, <1>2
  <2> QED
    BY <2>1 DEF ProbedNear
<1>5. /\ sel \in Asked /\ (sel[1] = 2 => 3 \notin conf.vers)
      /\ \A vp \in VP : Supporters(near, vp) <= Supporters(near, sel)
  <2>1. Len(near) > 0
    BY <1>1, <1>2, <1>3
  <2> QED
    BY <1>1, <1>4, <2>1, SelectionFacts DEF sel
<1>6. ChosenFrom(r.hosts, sel, r.i - 1, new)
  <2>1. \A j \in 1..(r.i - 1) : /\ Keep(r.hosts, j, sel) <=> Keep(upto, j, sel)
                                /\ Taken(r.hosts, j, sel) = Taken(upto, j, sel)
    BY <1>1 DEF Keep, Taken
  <2>2. {Taken(r.hosts, j, sel) : j \in {k \in 1..(r.i - 1) : Keep(r.hosts, k, sel)}} =
        {Taken(upto, j, sel) : j \in {k \in 1..(r.i - 1) : Keep(upto, k, sel)}}
    BY <2>1
  <2>3. \A X : {j \in 1..(r.i - 1) : Keep(r.hosts, j, sel) /\ Taken(r.hosts, j, sel) \in X} =
               {j \in 1..(r.i - 1) : Keep(upto, j, sel) /\ Taken(upto, j, sel) \in X}
    BY <2>1
  <2> QED
    BY <1>1, <2>2, <2>3 DEF ChosenFrom
<1> QED
  BY <1>1, <1>3, <1>5, <1>6 DEF near, upto, sel, new

\* A host that is up and has the version selected is one that a probe finds.
LEMMA SelectedFound ==
    ASSUME TypeOK, NEW sel \in Asked, sel[1] = 2 => 3 \notin conf.vers,
           NEW h \in Hosts, Steady(h), sel \in Supports(h.srv)
    PROVE  h \in Responding /\ sel \in Found(h.srv)
BY DEF Responding, Found

LEMMA ListSelect ==
    ASSUME TruthInv, ListInv, Select("A")
    PROVE  ListInv'
<1>0. PICK s, r : s = req'["A"] /\ r = req["A"]
  OBVIOUS
<1> SUFFICES ASSUME ~Device PROVE Pruning(s)' /\ ProbedNear(s)' /\ ProbedFar(s)' /\ TryingHosts(s)'
  BY <1>0, ListTo, ProbingFrame
<1>1. /\ TypeOK /\ req \in [Request -> RequestRecord] /\ r \in RequestRecord /\ r.pc = "near"
      /\ "A" \in Request /\ ProbedNear(r) /\ Cursor(r)
      /\ conf' = conf /\ UNCHANGED <<health, unsteady>>
  BY <1>0 DEF TruthInv, TypeOK, ListInv, Select, srvVars, Request, Cursors
<1> DEFINE hs == r.hosts
           n == Len(hs)
           i == r.i
           first == r.first
           sel == Selected(SubSeq(r.hosts, r.first, r.i - 1))
           new == Chosen(SubSeq(r.hosts, 1, r.i - 1), sel)
<1>2. /\ hs \in Seq(HostRecord) /\ n \in Nat /\ i \in 1..(n + 1) /\ first \in 1..i
      /\ DOMAIN hs = 1..n /\ \A j \in 1..n : hs[j] \in HostRecord
  BY <1>1 DEF Cursor, RequestRecord
<1>3. /\ r.prev = 0 /\ r.sel = None /\ Sorted(hs) /\ OfLocation(hs)
      /\ \A j \in 1..n : Local(hs[j]) <=> j < first
      /\ \A j \in first..(i - 1) : hs[j].vers = Found(hs[j].srv)
      /\ \A j \in i..n : hs[j] \in ToSet(Parsed("A"))
      /\ \A g \in Responding : \/ \E j \in first..(i - 1) : SameHost(hs[j], g)
                               \/ \E j \in i..n : hs[j] = g
  BY <1>1, <1>2 DEF ProbedNear
<1> HIDE DEF hs, n, i, first
<1>4. r.hosts = hs /\ r.i = i /\ r.first = first /\ Len(hs) = n
  BY DEF hs, n, i, first
<1>5. CASE first > n /\ Goto("A", "mkdir")
  <2>1. s = [r EXCEPT !.pc = "mkdir"]
    BY <1>0, <1>1, <1>5 DEF Goto
  <2>2. s \in RequestRecord /\ s.pc = "mkdir" /\ s.hosts = hs /\ s.sel = r.sel /\ s.sel = None
    BY <1>1, <1>3, <1>4, <2>1 DEF RequestRecord
  <2>3. Responding = {}
    BY <1>2, <1>3, <1>5
  <2>4. Wanted' = Wanted /\ \A hosts : OfLocation(hosts)' <=> OfLocation(hosts)
    BY <1>0, <1>1, <2>2, ListStep
  <2>5. Wanted = {}
    <3>1. req["A"].sel = None
      BY <1>0, <1>3
    <3> QED
      BY <2>3, <3>1 DEF Wanted, Responding
  <2>6. TryingHosts(s)'
    BY <1>3, <2>2, <2>4, <2>5 DEF TryingHosts
  <2> QED
    BY <2>2, <2>6 DEF Pruning, ProbedNear, ProbedFar
<1>6. CASE /\ ~(first > n) /\ ~IsNear(r)
           /\ req' = [req EXCEPT !["A"] = [r EXCEPT !.pc = "far", !.sel = sel, !.new = new]]
  <2>1. /\ first < i /\ sel \in Asked /\ sel \in VP /\ (sel[1] = 2 => 3 \notin conf.vers)
        /\ ChosenFrom(hs, sel, i - 1, new)
    <3>1. r.first <= Len(r.hosts)
      BY <1>2, <1>4, <1>6
    <3> QED
      BY <1>1, <1>4, <1>6, <3>1, Answered
  <2>2. sel # None
    BY <2>1, MountNfsAssumption
  <2> HIDE DEF sel, new
  <2>3. s = [r EXCEPT !.pc = "far", !.sel = sel, !.new = new]
    BY <1>0, <1>1, <1>6
  <2>4. new \in Seq(HostRecord) /\ Sorted(new)
    BY <2>1 DEF ChosenFrom
  <2>5. /\ s \in RequestRecord /\ s.pc = "far" /\ s.hosts = hs /\ s.sel = sel /\ s.new = new
        /\ s.i = i /\ s.prev = 0
    BY <1>1, <1>3, <1>4, <2>1, <2>3, <2>4 DEF RequestRecord
  <2>6. /\ Parsed("A")' = Parsed("A") /\ Asked' = Asked /\ Hosts' = Hosts
        /\ \A x : Supports(x)' = Supports(x)
    BY <1>1, StaticFrame
  <2>7. \A g \in ToSet(new) : \E j \in 1..(i - 1) : SameHost(g, hs[j])
    <3> TAKE g \in ToSet(new)
    <3>1. PICK j \in 1..(i - 1) : g = Taken(hs, j, sel)
      BY <2>1 DEF ChosenFrom
    <3>2. j \in 1..n
      BY <1>2, <3>1
    <3> QED
      BY <1>2, <1>4, <2>1, <3>1, <3>2, TakenIs
  <2>8. OfLocation(new)'
    <3> SUFFICES ASSUME NEW j \in DOMAIN new PROVE \E h \in ToSet(Parsed("A")) : SameHost(new[j], h)
      BY <2>6 DEF OfLocation
    <3>1. PICK k \in 1..(i - 1) : SameHost(new[j], hs[k])
      BY <2>7 DEF ToSet
    <3>2. k \in 1..n
      BY <1>2
    <3>3. PICK h \in ToSet(Parsed("A")) : SameHost(hs[k], h)
      BY <1>2, <1>3, <3>2 DEF OfLocation
    <3> QED
      BY <3>1, <3>3 DEF SameHost
  <2>9. \A j \in i..n : /\ hs[j] \in ToSet(Parsed("A")) /\ ~Local(hs[j])
                        /\ \A g \in ToSet(new) : g.prox <= hs[j].prox
    <3> TAKE j \in i..n
    <3>1. j \in 1..n /\ ~(j < first)
      BY <1>2
    <3>2. ASSUME NEW g \in ToSet(new) PROVE g.prox <= hs[j].prox
      <4>1. PICK k \in 1..(i - 1) : SameHost(g, hs[k])
        BY <2>7
      <4>2. k \in 1..n /\ k < j
        BY <1>2
      <4>3. hs[k].prox <= hs[j].prox
        BY <1>2, <1>3, <3>1, <4>2 DEF Sorted
      <4> QED
        BY <4>1, <4>3 DEF SameHost
    <3> QED
      BY <1>3, <3>1, <3>2
  <2>10. \A h \in Wanted' : \/ \E g \in ToSet(new) : StandsFor(g, h)
                            \/ \E j \in i..n : hs[j] = h
    <3> TAKE h \in Wanted'
    <3>1. h \in Hosts /\ Steady(h) /\ sel \in Supports(h.srv)
      <4>1. req'["A"].sel = sel
        BY <1>0, <2>5
      <4>2. h \in Hosts' /\ Steady(h)' /\ sel \in Supports(h.srv)'
        BY <2>2, <4>1 DEF Wanted
      <4>3. Steady(h)
        BY <1>1, <4>2 DEF Steady
      <4> QED
        BY <2>6, <4>2, <4>3
    <3>2. h \in Responding /\ sel \in Found(h.srv)
      BY <1>1, <2>1, <3>1, SelectedFound
    <3>3. CASE \E j \in i..n : hs[j] = h
      BY <3>3
    <3>4. CASE \E j \in first..(i - 1) : SameHost(hs[j], h)
      <4>1. PICK j \in first..(i - 1) : SameHost(hs[j], h)
        BY <3>4
      <4>2. j \in 1..(i - 1) /\ j \in 1..n /\ ~(j < first)
        BY <1>2
      <4>3. sel \in hs[j].vers
        BY <1>3, <3>2, <4>1 DEF SameHost
      <4>4. Taken(hs, j, sel) \in ToSet(new)
        BY <2>1, <4>2, <4>3 DEF ChosenFrom, Keep
      <4>5. SameHost(Taken(hs, j, sel), hs[j])
        BY <1>2, <1>4, <2>1, <4>2, TakenIs
      <4>6. h.prox \in {1, 2, 4, 8}
        BY <1>1, <3>1, HostFacts, ProxFacts
      <4>7. StandsFor(Taken(hs, j, sel), h)
        BY <1>3, <4>1, <4>2, <4>5, <4>6 DEF StandsFor, SameHost, Local
      <4> QED
        BY <4>4, <4>7
    <3> QED
      BY <1>3, <3>2, <3>3, <3>4
  <2>11. ProbedFar(s)'
    <3>1. \A g, h : StandsFor(g, h)' <=> StandsFor(g, h)
      BY <1>1 DEF StandsFor
    <3> QED
      BY <1>3, <1>4, <2>1, <2>4, <2>5, <2>6, <2>8, <2>9, <2>10, <3>1 DEF ProbedFar
  <2> QED
    BY <2>5, <2>11 DEF Pruning, ProbedNear, TryingHosts
<1> QED
  BY <1>0, <1>4, <1>5, <1>6 DEF Select

LEMMA ListProbeFar ==
    ASSUME TruthInv, ListInv, ProbeFar("A")
    PROVE  ListInv'
<1>0. PICK s, r : s = req'["A"] /\ r = req["A"]
  OBVIOUS
<1> SUFFICES ASSUME ~Device PROVE Pruning(s)' /\ ProbedNear(s)' /\ ProbedFar(s)' /\ TryingHosts(s)'
  BY <1>0, ListTo, ProbingFrame
<1>1. /\ TypeOK /\ req \in [Request -> RequestRecord] /\ r \in RequestRecord /\ r.pc = "far"
      /\ "A" \in Request /\ ProbedFar(r) /\ Cursor(r)
      /\ conf' = conf /\ UNCHANGED <<health, unsteady>>
  <2>1. r.pc = "far" /\ conf' = conf /\ UNCHANGED <<health, unsteady>>
    BY <1>0, ProbeFarIs, ProbingFrame
  <2> QED
    BY <1>0, <2>1 DEF TruthInv, TypeOK, ListInv, Request, Cursors
<1> DEFINE hs == r.hosts
           n == Len(hs)
           i == r.i
           h == hs[i]
           new == r.new
<1>2. /\ hs \in Seq(HostRecord) /\ n \in Nat /\ i \in Nat /\ i # 0 /\ new \in Seq(HostRecord)
      /\ DOMAIN hs = 1..n /\ \A j \in 1..n : hs[j] \in HostRecord
      /\ r.sel \in VP /\ r.sel # None
  BY <1>1, MountNfsAssumption DEF Cursor, RequestRecord
<1>3. /\ r.sel \in Asked /\ Sorted(new) /\ OfLocation(new) /\ Sorted(hs)
      /\ \A j \in i..n : /\ hs[j] \in ToSet(Parsed("A")) /\ ~Local(hs[j])
                         /\ \A g \in ToSet(new) : g.prox <= hs[j].prox
      /\ r.prev # 0 => \E g \in ToSet(new) : g.ent = r.prev /\ ~Local(g)
      /\ \A x \in Wanted : \/ \E g \in ToSet(new) : StandsFor(g, x)
                           \/ \E j \in i..n : hs[j] = x
  BY <1>1 DEF ProbedFar
<1> HIDE DEF hs, n, i, new
<1>4. r.hosts = hs /\ r.i = i /\ r.new = new /\ Len(hs) = n
  BY DEF hs, n, i, new
<1>5. PICK t \in 1..MaxTime :
        LET probe == get_supported_ver_and_cost(h, Answers(h.srv), r.sel, conf, t)
        IN req' = [req EXCEPT !["A"] =
                    IF i > n THEN [r EXCEPT !.pc = "mkdir", !.hosts = r.new, !.new = <<>>, !.i = 0]
                    ELSE IF ~(conf.hostname /\ r.prev = h.ent) /\ probe.status
                         THEN [r EXCEPT !.i = @ + 1, !.new = add_host(@, probe.host), !.prev = h.ent]
                    ELSE [r EXCEPT !.i = @ + 1]]
  BY <1>0, <1>4, Zenon DEF ProbeFar
<1> DEFINE probe == get_supported_ver_and_cost(h, Answers(h.srv), r.sel, conf, t)
           g == probe.host
<1>6. s = IF i > n THEN [r EXCEPT !.pc = "mkdir", !.hosts = r.new, !.new = <<>>, !.i = 0]
          ELSE IF ~(conf.hostname /\ r.prev = h.ent) /\ probe.status
               THEN [r EXCEPT !.i = @ + 1, !.new = add_host(@, g), !.prev = h.ent]
          ELSE [r EXCEPT !.i = @ + 1]
  BY <1>0, <1>1, <1>5
<1>7. \A x, y : StandsFor(x, y)' <=> StandsFor(x, y)
  BY <1>1 DEF StandsFor
<1>8. CASE i > n
  <2>1. s = [r EXCEPT !.pc = "mkdir", !.hosts = new, !.new = <<>>, !.i = 0]
    BY <1>4, <1>6, <1>8
  <2>2. s \in RequestRecord /\ s.pc = "mkdir" /\ s.hosts = new /\ s.sel = r.sel
    <3>1. <<>> \in Seq(HostRecord) /\ 0 \in Nat
      OBVIOUS
    <3> QED
      BY <1>1, <1>2, <2>1, <3>1 DEF RequestRecord
  <2>3. Wanted' = Wanted /\ Asked' = Asked /\ \A hosts : OfLocation(hosts)' <=> OfLocation(hosts)
    BY <1>0, <1>1, <2>2, ListStep
  <2>4. \A x \in Wanted : \E y \in ToSet(new) : StandsFor(y, x)
    BY <1>2, <1>3, <1>8
  <2>5. TryingHosts(s)'
    BY <1>3, <1>7, <2>2, <2>3, <2>4 DEF TryingHosts
  <2> QED
    BY <2>2, <2>5 DEF Pruning, ProbedNear, ProbedFar
<1>9. CASE ~(i > n)
  <2>1. i \in 1..n /\ i \in i..n /\ h \in HostRecord /\ h \in ToSet(Parsed("A")) /\ ~Local(h) /\ i + 1 \in Nat
    BY <1>2, <1>3, <1>9
  <2>2. h \in Hosts /\ h.srv \in Servers /\ h.ent # 0 /\ h.ent \in Nat
    BY <1>1, <2>1, HostFacts DEF HostRecord
  <2>3. g \in HostRecord /\ SameHost(g, h) /\ (h \in Wanted => probe.status)
    <3>1. t \in Nat
      OBVIOUS
    <3>2. g \in HostRecord /\ SameHost(g, h) /\ (Answers(h.srv)[r.sel] = "ok" => probe.status)
      BY <1>1, <1>2, <2>1, <3>1, SupportedVerAndCost
    <3>3. h \in Wanted => Answers(h.srv)[r.sel] = "ok"
      BY <1>0, <1>1, <1>2, <2>2, AnswerIs DEF Wanted, Steady
    <3> QED
      BY <3>2, <3>3
  <2>4. \A j \in (i + 1)..n : j \in i..n /\ j \in 1..n /\ h.prox <= hs[j].prox
    BY <1>2, <1>3, <2>1 DEF Sorted
  <2>5. CASE ~(conf.hostname /\ r.prev = h.ent) /\ probe.status
    <3> HIDE DEF g
    <3> DEFINE added == add_host(new, g)
    <3>1. s = [r EXCEPT !.i = @ + 1, !.new = add_host(@, g), !.prev = h.ent]
      BY <1>6, <1>9, <2>5
    <3>2. s = [r EXCEPT !.i = i + 1, !.new = added, !.prev = h.ent]
      BY <1>1, <1>4, <3>1 DEF RequestRecord
    <3>3. added \in Seq(HostRecord) /\ ToSet(added) = ToSet(new) \cup {g} /\ Sorted(added)
      BY <1>2, <1>3, <2>3, AddHost
    <3> HIDE DEF added
    <3>4. /\ s \in RequestRecord /\ s.pc = "far" /\ s.hosts = hs /\ s.sel = r.sel /\ s.new = added
          /\ s.i = i + 1 /\ s.prev = h.ent
      BY <1>1, <1>4, <2>1, <2>2, <3>2, <3>3 DEF RequestRecord
    <3>5. /\ Wanted' = Wanted /\ Asked' = Asked /\ Parsed("A")' = Parsed("A")
          /\ \A hosts : OfLocation(hosts)' <=> OfLocation(hosts)
      BY <1>0, <1>1, <3>4, ListStep
    <3>6. OfLocation(added)
      <4> SUFFICES ASSUME NEW j \in DOMAIN added PROVE \E x \in ToSet(Parsed("A")) : SameHost(added[j], x)
        BY DEF OfLocation
      <4>1. added[j] \in ToSet(new) \cup {g}
        BY <3>3 DEF ToSet
      <4>2. CASE added[j] = g
        BY <2>1, <2>3, <4>2
      <4>3. CASE added[j] \in ToSet(new)
        BY <1>3, <4>3 DEF OfLocation, ToSet
      <4> QED
        BY <4>1, <4>2, <4>3
    <3>7. \A j \in (i + 1)..n : /\ hs[j] \in ToSet(Parsed("A")) /\ ~Local(hs[j])
                                /\ \A x \in ToSet(added) : x.prox <= hs[j].prox
      BY <1>3, <2>3, <2>4, <3>3 DEF SameHost
    <3>8. g \in ToSet(added) /\ g.ent = h.ent /\ ~Local(g)
      BY <2>1, <2>3, <3>3 DEF SameHost, Local
    <3>9. StandsFor(g, h)
      <4>1. h.prox \in {1, 2, 4, 8}
        BY <2>1, ProxFacts
      <4> QED
        BY <2>3, <3>8, <4>1 DEF StandsFor, SameHost
    <3>10. \A x \in Wanted : \/ \E y \in ToSet(added) : StandsFor(y, x)
                             \/ \E j \in (i + 1)..n : hs[j] = x
      <4> TAKE x \in Wanted
      <4>1. CASE \E y \in ToSet(new) : StandsFor(y, x)
        BY <3>3, <4>1
      <4>2. CASE \E j \in i..n : hs[j] = x
        <5>1. PICK j \in i..n : hs[j] = x
          BY <4>2
        <5>2. CASE j = i
          BY <3>8, <3>9, <5>1, <5>2
        <5>3. CASE j # i
          BY <1>2, <5>1, <5>3
        <5> QED
          BY <5>2, <5>3
      <4> QED
        BY <1>3, <4>1, <4>2
    <3>11. ProbedFar(s)'
      BY <1>3, <1>4, <1>7, <3>3, <3>4, <3>5, <3>6, <3>7, <3>8, <3>10 DEF ProbedFar
    <3> QED
      BY <3>4, <3>11 DEF Pruning, ProbedNear, TryingHosts
  <2>6. CASE ~(~(conf.hostname /\ r.prev = h.ent) /\ probe.status)
    <3>1. s = [r EXCEPT !.i = @ + 1]
      BY <1>6, <1>9, <2>6
    <3>2. s = [r EXCEPT !.i = i + 1]
      BY <1>1, <1>4, <3>1 DEF RequestRecord
    <3>3. /\ s \in RequestRecord /\ s.pc = "far" /\ s.hosts = hs /\ s.sel = r.sel /\ s.new = new
          /\ s.i = i + 1 /\ s.prev = r.prev
      BY <1>1, <1>4, <2>1, <3>2 DEF RequestRecord
    <3>4. /\ Wanted' = Wanted /\ Asked' = Asked /\ Parsed("A")' = Parsed("A")
          /\ \A hosts : OfLocation(hosts)' <=> OfLocation(hosts)
      BY <1>0, <1>1, <3>3, ListStep
    <3>5. h \in Wanted => \E y \in ToSet(new) : StandsFor(y, h)
      <4> SUFFICES ASSUME h \in Wanted PROVE \E y \in ToSet(new) : StandsFor(y, h)
        OBVIOUS
      <4>1. conf.hostname /\ r.prev = h.ent
        BY <2>3, <2>6
      <4>2. PICK y \in ToSet(new) : y.ent = h.ent /\ ~Local(y)
        BY <1>3, <2>2, <4>1
      <4>3. y.prox <= h.prox
        BY <1>3, <2>1
      <4> QED
        BY <4>1, <4>2, <4>3 DEF StandsFor
    <3>6. \A x \in Wanted : \/ \E y \in ToSet(new) : StandsFor(y, x)
                            \/ \E j \in (i + 1)..n : hs[j] = x
      <4> TAKE x \in Wanted
      <4>1. CASE \E j \in i..n : hs[j] = x
        <5>1. PICK j \in i..n : hs[j] = x
          BY <4>1
        <5>2. CASE j = i
          BY <3>5, <5>1, <5>2
        <5>3. CASE j # i
          BY <1>2, <5>1, <5>3
        <5> QED
          BY <5>2, <5>3
      <4> QED
        BY <1>3, <4>1
    <3>7. ProbedFar(s)'
      BY <1>3, <1>4, <1>7, <2>4, <3>3, <3>4, <3>6 DEF ProbedFar
    <3> QED
      BY <3>3, <3>7 DEF Pruning, ProbedNear, TryingHosts
  <2> QED
    BY <2>5, <2>6
<1> QED
  BY <1>8, <1>9

\* The hosts are tried in turn, or the request has ended.
LEMMA ListTrying ==
    ASSUME TruthInv, ListInv, req["A"].pc \in {"mkdir", "try", "wait"}, conf' = conf, UNCHANGED <<health, unsteady>>,
           NEW s \in RequestRecord, req'["A"] = s, s.hosts = req["A"].hosts, s.sel = req["A"].sel,
           s.pc \in {"try", "wait", "done", "check"}, s.pc \in {"try", "wait"} => s.i # 0,
           s.pc = "wait" => s.i <= Len(s.hosts) /\ (sp'["A"].prog = "bind" => Local(s.hosts[s.i]))
    PROVE  ListInv'
<1> SUFFICES ASSUME ~Device PROVE Pruning(s)' /\ ProbedNear(s)' /\ ProbedFar(s)' /\ TryingHosts(s)'
  BY ListTo
<1>1. TypeOK /\ TryingHosts(req["A"]) /\ s.i \in Nat
  BY DEF TruthInv, ListInv, RequestRecord
<1>2. Wanted' = Wanted /\ Asked' = Asked /\ \A hosts : OfLocation(hosts)' <=> OfLocation(hosts)
  BY <1>1, ListStep
<1>3. \A x, y : StandsFor(x, y)' <=> StandsFor(x, y)
  BY DEF StandsFor
<1>4. /\ Sorted(s.hosts) /\ OfLocation(s.hosts) /\ s.sel \in Asked \cup {None}
      /\ \A h \in Wanted : \E g \in ToSet(s.hosts) : StandsFor(g, h)
  BY <1>1 DEF TryingHosts
<1>5. TryingHosts(s)'
  BY <1>1, <1>2, <1>3, <1>4 DEF TryingHosts
<1> QED
  BY <1>5 DEF Pruning, ProbedNear, ProbedFar

LEMMA ListMkdir ==
    ASSUME TruthInv, ListInv, Mkdir("A")
    PROVE  ListInv'
<1>1. /\ TypeOK /\ req \in [Request -> RequestRecord] /\ req["A"] \in RequestRecord /\ req["A"].pc = "mkdir"
      /\ "A" \in Request /\ conf' = conf /\ UNCHANGED <<health, unsteady>>
  BY DEF TruthInv, TypeOK, Mkdir, srvVars, Request
<1>2. PICK s : s = req'["A"]
  OBVIOUS
<1>3. req' \in [Request -> RequestRecord]
  BY TruthMkdir, <1>1 DEF TruthInv, TypeOK
<1>4. /\ s \in RequestRecord /\ s.hosts = req["A"].hosts /\ s.sel = req["A"].sel
      /\ s.pc \in {"try", "done", "check"} /\ (s.pc = "try" => s.i # 0)
  <2>1. CASE Ended("A", "fail")
    BY <1>1, <1>2, <1>3, <2>1 DEF Ended, RequestRecord
  <2>2. CASE req' = [req EXCEPT !["A"].existed = "A" \in dir, !["A"].i = 1,
                            !["A"].pc = IF "A" = "A" /\ conf.kind \in {"ext2", "changer"} THEN "check" ELSE "try"]
    BY <1>1, <1>2, <1>3, <2>2 DEF RequestRecord
  <2> QED
    BY <2>1, <2>2 DEF Mkdir
<1> QED
  BY <1>1, <1>2, <1>4, ListTrying

LEMMA ListTry ==
    ASSUME TruthInv, ListInv, Try("A"), ~Device
    PROVE  ListInv'
<1> DEFINE r == req["A"]
<1>1. /\ TypeOK /\ req \in [Request -> RequestRecord] /\ r \in RequestRecord /\ r.pc = "try" /\ r.i \in Nat /\ r.i # 0
      /\ "A" \in Request /\ "A" \in Path /\ conf' = conf /\ UNCHANGED <<health, unsteady>> /\ sp \in [Path -> SpawnRecord]
      /\ r.hosts \in Seq(HostRecord)
  BY DEF TruthInv, TypeOK, Try, srvVars, Request, Path, ListInv, TryingHosts, RequestRecord
<1>2. PICK s : s = req'["A"]
  OBVIOUS
<1>3. s \in RequestRecord
  BY TruthTry, <1>1, <1>2 DEF TruthInv, TypeOK
<1>4. CASE Ended("A", "fail")
  <2>1. s.hosts = r.hosts /\ s.sel = r.sel /\ s.pc = "done"
    BY <1>1, <1>2, <1>4 DEF Ended, RequestRecord
  <2> QED
    BY <1>1, <1>2, <1>3, <2>1, ListTrying
<1>5. CASE NextHost("A")
  <2>1. s.hosts = r.hosts /\ s.sel = r.sel /\ s.pc = "try" /\ s.i = r.i + 1
    BY <1>1, <1>2, <1>5 DEF NextHost, RequestRecord
  <2>2. s.i # 0
    BY <1>1, <2>1
  <2> QED
    BY <1>1, <1>2, <1>3, <2>1, <2>2, ListTrying
<1>6. ASSUME NEW prog, Spawn("A", prog), ~(r.i > Len(r.hosts)), prog = "bind" => Local(r.hosts[r.i])
      PROVE  ListInv'
  <2>1. s.hosts = r.hosts /\ s.sel = r.sel /\ s.pc = "wait" /\ s.i = r.i
    BY <1>1, <1>2, <1>6 DEF Spawn, Goto, RequestRecord
  <2>2. sp'["A"].prog = prog
    BY <1>1, <1>6 DEF Spawn, Call
  <2>3. s.i <= Len(s.hosts)
    BY <1>1, <1>6, <2>1
  <2> QED
    BY <1>1, <1>2, <1>3, <1>6, <2>1, <2>2, <2>3, ListTrying
<1>7. \/ Ended("A", "fail") \/ NextHost("A")
      \/ ~(r.i > Len(r.hosts)) /\ Local(r.hosts[r.i]) /\ Spawn("A", "bind")
      \/ ~(r.i > Len(r.hosts)) /\ Spawn("A", "mount")
  BY DEF Try
<1> QED
  BY <1>4, <1>5, <1>6, <1>7

LEMMA ListReturned ==
    ASSUME TruthInv, ListInv, Returned("A"), ~Device
    PROVE  ListInv'
<1> DEFINE r == req["A"]
<1>1. /\ TypeOK /\ req \in [Request -> RequestRecord] /\ r \in RequestRecord /\ r.pc = "wait" /\ r.i \in Nat /\ r.i # 0
      /\ "A" \in Request /\ "A" \in Path /\ conf' = conf /\ UNCHANGED <<health, unsteady>> /\ sp \in [Path -> SpawnRecord]
      /\ r.i <= Len(r.hosts)
  BY DEF TruthInv, TypeOK, Returned, srvVars, Request, Path, ListInv, TryingHosts, RequestRecord
<1>2. PICK s : s = req'["A"]
  OBVIOUS
<1>3. s \in RequestRecord
  BY TruthReturned, <1>1, <1>2 DEF TruthInv, TypeOK
<1>4. ASSUME NEW ret, Ended("A", ret) PROVE ListInv'
  <2>1. s.hosts = r.hosts /\ s.sel = r.sel /\ s.pc = "done"
    BY <1>1, <1>2, <1>4 DEF Ended, RequestRecord
  <2> QED
    BY <1>1, <1>2, <1>3, <2>1, ListTrying
<1>5. CASE NextHost("A")
  <2>1. s.hosts = r.hosts /\ s.sel = r.sel /\ s.pc = "try" /\ s.i = r.i + 1
    BY <1>1, <1>2, <1>5 DEF NextHost, RequestRecord
  <2>2. s.i # 0
    BY <1>1, <2>1
  <2> QED
    BY <1>1, <1>2, <1>3, <2>1, <2>2, ListTrying
<1>6. CASE Spawn("A", "mount")
  <2>1. s.hosts = r.hosts /\ s.sel = r.sel /\ s.pc = "wait" /\ s.i = r.i
    BY <1>1, <1>2, <1>6 DEF Spawn, Goto, RequestRecord
  <2>2. sp'["A"].prog # "bind"
    BY <1>1, <1>6 DEF Spawn, Call
  <2> QED
    BY <1>1, <1>2, <1>3, <2>1, <2>2, ListTrying
<1> QED
  BY <1>4, <1>5, <1>6 DEF Returned

\* A request that begins.
LEMMA ListBegin ==
    ASSUME TruthInv, req'["A"] = Begin("A"), conf' = conf
    PROVE  ListInv'
<1>0. PICK s : s = Begin("A")
  OBVIOUS
<1> SUFFICES ASSUME ~Device PROVE Pruning(s)' /\ ProbedNear(s)' /\ ProbedFar(s)' /\ TryingHosts(s)'
  BY <1>0, ListTo
<1>1. TypeOK /\ "A" \in Request
  BY DEF TruthInv, Request
<1>2. s.pc = "prune" /\ s.hosts = Parsed("A") /\ s.prev = 0 /\ s.sel = None
  BY <1>0, <1>1, BeginType
<1>3. Parsed("A")' = Parsed("A")
  BY StaticFrame
<1> QED
  BY <1>2, <1>3 DEF Pruning, ProbedNear, ProbedFar, TryingHosts

\* The steps that are not of the request for A or of a call it waits for, and
\* those of the calls.
Elsewhere ==
    /\ conf' = conf /\ req'["A"] = req["A"] /\ Steadier
    /\ sp'["A"] = sp["A"] /\ child'["A"] = child["A"] /\ hurt \subseteq hurt'
CallOfA == \/ Fork("A") \/ ChildOpen("A") \/ ChildOpened("A") \/ ChildExec("A") \/ ChildMtab("A")
           \/ TimedOut("A") \/ Reap("A")
RequestOfA == \/ prune_host_list("A") \/ ProbeNear("A") \/ Select("A") \/ ProbeFar("A")
              \/ Mkdir("A") \/ Try("A") \/ Returned("A")
BeginA == /\ req'["A"] = Begin("A") /\ ~Active("A") /\ unsteady' = {} /\ UNCHANGED <<conf, health, sp, hurt>>
          /\ child'["A"] = child["A"]

LEMMA RequestElsewhere ==
    ASSUME TruthInv,
           \/ prune_host_list("B") \/ ProbeNear("B") \/ Select("B") \/ ProbeFar("B")
           \/ Mkdir("B") \/ Check("B") \/ Try("B") \/ Returned("B") \/ mount_mount("B")
    PROVE  Elsewhere
<1>1. /\ req \in [Request -> RequestRecord] /\ sp \in [Path -> SpawnRecord] /\ "A" # "B"
      /\ "A" \in Request /\ "A" \in Path
  BY DEF TruthInv, TypeOK, Request, Path
<1>2. (UNCHANGED <<health, unsteady>>) => Steadier
  BY DEF Steadier
<1>3. CASE prune_host_list("B") \/ ProbeNear("B") \/ Select("B") \/ ProbeFar("B")
  <2>1. req'["A"] = req["A"]
    BY <1>1, <1>3, ProbingOwn
  <2>2. UNCHANGED <<conf, health, unsteady, sp, child, hurt>>
    BY <1>3, ProbingFrame
  <2> QED
    BY <1>2, <2>1, <2>2 DEF Elsewhere
<1>4. CASE Mkdir("B")
  BY <1>1, <1>2, <1>4 DEF Mkdir, Ended, Elsewhere, srvVars, spVars
<1>5. CASE Check("B")
  BY <1>1, <1>2, <1>5 DEF Check, fsck, swapCD, Goto, Ended, Elsewhere, srvVars, spVars
<1>6. CASE Try("B")
  BY <1>1, <1>2, <1>6 DEF Try, Ended, NextHost, Spawn, Goto, Elsewhere, srvVars, spVars
<1>7. CASE Returned("B")
  BY <1>1, <1>2, <1>7 DEF Returned, Ended, NextHost, Spawn, Goto, Elsewhere, srvVars, spVars
<1>8. CASE mount_mount("B")
  BY <1>1, <1>2, <1>8 DEF mount_mount, Elsewhere, srvVars, spVars
<1> QED
  BY <1>3, <1>4, <1>5, <1>6, <1>7, <1>8

LEMMA CallElsewhere ==
    ASSUME TruthInv, NEW p \in Path, p # "A",
           \/ Fork(p) \/ ChildOpen(p) \/ ChildOpened(p) \/ ChildExec(p) \/ ChildMtab(p) \/ TimedOut(p) \/ Reap(p)
    PROVE  Elsewhere \/ BeginA
<1>1. /\ req \in [Request -> RequestRecord] /\ sp \in [Path -> SpawnRecord] /\ "A" \in Path /\ "A" \in Request
      /\ DOMAIN child = Path
  BY DEF TruthInv, TypeOK, Path, Request
<1>2. (UNCHANGED <<health, unsteady>>) => Steadier
  BY DEF Steadier
<1>3. CASE Fork(p)
  BY <1>1, <1>2, <1>3 DEF Fork, Elsewhere, srvVars
<1>4. CASE ChildOpen(p)
  BY <1>1, <1>2, <1>4 DEF ChildOpen, Elsewhere, BeginA
<1>5. CASE ChildOpened(p)
  BY <1>1, <1>2, <1>5 DEF ChildOpened, Elsewhere, srvVars
<1>6. CASE ChildExec(p)
  <2>1. /\ UNCHANGED <<conf, health, unsteady, req, sp, hurt>>
        /\ child' = [child EXCEPT ![p] = "made"] \/ child' = [child EXCEPT ![p] = "fail"]
    BY <1>6 DEF ChildExec, srvVars
  <2> QED
    BY <1>1, <1>2, <2>1 DEF Elsewhere
<1>7. CASE ChildMtab(p)
  BY <1>1, <1>2, <1>7 DEF ChildMtab, Elsewhere, srvVars
<1>8. CASE TimedOut(p)
  BY <1>1, <1>2, <1>8 DEF TimedOut, Elsewhere, srvVars
<1>9. CASE Reap(p)
  BY <1>1, <1>2, <1>9 DEF Reap, spawn_umount, spawn_bind_mount, spawn_mount, MtabRetry, Elsewhere, srvVars
<1> QED
  BY <1>3, <1>4, <1>5, <1>6, <1>7, <1>8, <1>9

LEMMA StepsOfA ==
    ASSUME TruthInv, [Next]_vars, ~Device
    PROVE  RequestOfA \/ CallOfA \/ BeginA \/ Elsewhere
<1>1. /\ req \in [Request -> RequestRecord] /\ sp \in [Path -> SpawnRecord] /\ "A" \in Path /\ "A" \in Request
      /\ DOMAIN child = Path /\ unsteady \subseteq Servers /\ health \in [Servers -> Health]
  BY DEF TruthInv, TypeOK, Path, Request
<1>2. (UNCHANGED <<health, unsteady>>) => Steadier
  BY DEF Steadier
<1>3. CASE UNCHANGED vars
  BY <1>1, <1>2, <1>3 DEF vars, srvVars, spVars, Elsewhere
<1>4. ASSUME NEW p \in Request, mount_mount(p) PROVE Elsewhere \/ BeginA
  <2>1. CASE p = "B"
    BY <1>4, <2>1, RequestElsewhere
  <2>2. CASE p = "A"
    BY <1>1, <1>4, <2>2 DEF mount_mount, BeginA, Active, spVars
  <2> QED
    BY <2>1, <2>2 DEF Request
<1>5. CASE UmountStart
  BY <1>1, <1>2, <1>5 DEF UmountStart, Elsewhere, srvVars
<1>6. ASSUME NEW p \in Path, Thread(p) PROVE RequestOfA \/ CallOfA \/ BeginA \/ Elsewhere
  <2>1. CASE p = "C" /\ umount_ent
    BY <1>1, <1>2, <2>1 DEF umount_ent, Elsewhere, srvVars
  <2>2. CASE \/ Fork(p) \/ ChildOpen(p) \/ ChildOpened(p) \/ ChildExec(p) \/ ChildMtab(p) \/ Reap(p)
    BY <2>2, CallElsewhere DEF CallOfA
  <2>3. CASE /\ p \in Request
             /\ \/ prune_host_list(p) \/ ProbeNear(p) \/ Select(p) \/ ProbeFar(p)
                \/ Mkdir(p) \/ Check(p) \/ Try(p) \/ Returned(p)
    <3>1. CASE p = "B"
      BY <2>3, <3>1, RequestElsewhere
    <3>2. CASE p = "A"
      <4>1. ~Check("A")
        BY DEF Check, fsck, swapCD, Device
      <4> QED
        BY <2>3, <3>2, <4>1 DEF RequestOfA
    <3> QED
      BY <2>3, <3>1, <3>2 DEF Request
  <2> QED
    BY <1>6, <2>1, <2>2, <2>3 DEF Thread
<1>7. ASSUME NEW p \in Path, TimedOut(p) PROVE CallOfA \/ BeginA \/ Elsewhere
  BY <1>7, CallElsewhere DEF CallOfA
<1>8. ASSUME NEW s \in Servers, ServerChange(s) PROVE Elsewhere
  BY <1>1, <1>8 DEF ServerChange, Elsewhere, Steadier, spVars
<1> QED
  BY <1>3, <1>4, <1>5, <1>6, <1>7, <1>8 DEF Next

LEMMA CallOfAKeeps ==
    ASSUME TruthInv, CallOfA
    PROVE  /\ UNCHANGED <<conf, health, unsteady, req>> /\ sp'["A"].prog = sp["A"].prog /\ Steadier
           /\ req["A"].pc = "wait"
<1>1. /\ req \in [Request -> RequestRecord] /\ sp \in [Path -> SpawnRecord] /\ sp["A"] \in SpawnRecord
      /\ "A" \in Path /\ "A" \in Request /\ CallShape("A")
  BY DEF TruthInv, TypeOK, Path, Request, SpawnShape
<1>2. (UNCHANGED <<health, unsteady>>) => Steadier
  BY DEF Steadier
<1>3. CASE Fork("A")
  BY <1>1, <1>2, <1>3 DEF Fork, srvVars, SpawnRecord, CallShape, NoSpawn, Waiting
<1>4. ASSUME child["A"] # "none" PROVE req["A"].pc = "wait" /\ sp["A"].pc = "run"
  BY <1>1, <1>4 DEF CallShape, NoSpawn, Waiting
<1>5. CASE ChildOpen("A")
  BY <1>1, <1>2, <1>4, <1>5 DEF ChildOpen, Trigger
<1>6. CASE ChildOpened("A")
  BY <1>1, <1>2, <1>4, <1>6 DEF ChildOpened, srvVars
<1>7. CASE ChildExec("A")
  <2>1. UNCHANGED <<conf, health, unsteady, req, sp, hurt>> /\ child["A"] = "exec"
    BY <1>7 DEF ChildExec, srvVars
  <2> QED
    BY <1>2, <1>4, <2>1
<1>8. CASE ChildMtab("A")
  BY <1>1, <1>2, <1>4, <1>8 DEF ChildMtab, srvVars
<1>9. CASE TimedOut("A")
  BY <1>1, <1>2, <1>4, <1>9 DEF TimedOut, srvVars, CallShape
<1>10. CASE Reap("A")
  <2>1. UNCHANGED <<conf, health, unsteady, req>> /\ child["A"] # "none"
    BY <1>10 DEF Reap, srvVars, Exits
  <2>2. sp'["A"].prog = sp["A"].prog
    <3>1. CASE spawn_umount("A")
      BY <1>1, <3>1 DEF spawn_umount, SpawnRecord
    <3>2. ASSUME NEW fake, MtabRetry("A", fake) PROVE sp'["A"].prog = sp["A"].prog
      BY <1>1, <3>2 DEF MtabRetry, SpawnRecord
    <3> QED
      BY <1>10, <3>1, <3>2 DEF Reap, spawn_bind_mount, spawn_mount
  <2> QED
    BY <1>2, <1>4, <2>1, <2>2
<1> QED
  BY <1>3, <1>5, <1>6, <1>7, <1>8, <1>9, <1>10 DEF CallOfA

LEMMA ListInit == Init => ListInv
BY DEF Init, ListInv, NoReq, Pruning, ProbedNear, ProbedFar, TryingHosts, Request

LEMMA ConfKept == [Next]_vars => conf' = conf
<1>1. ASSUME NEW p, prune_host_list(p) \/ ProbeNear(p) \/ Select(p) \/ ProbeFar(p) PROVE conf' = conf
  BY <1>1, ProbingFrame
<1>2. ASSUME NEW p, Mkdir(p) \/ Check(p) \/ Try(p) \/ Returned(p) PROVE conf' = conf
  BY <1>2 DEF Mkdir, Check, Try, Returned
<1>3. ASSUME NEW p, Fork(p) \/ ChildOpen(p) \/ ChildOpened(p) \/ Reap(p) PROVE conf' = conf
  BY <1>3 DEF Fork, ChildOpen, ChildOpened, Reap
<1>4. ASSUME NEW p, ChildExec(p) \/ ChildMtab(p) \/ TimedOut(p) PROVE conf' = conf
  BY <1>4 DEF ChildExec, ChildMtab, TimedOut
<1>5. CASE UmountStart \/ umount_ent \/ UNCHANGED vars
  BY <1>5 DEF UmountStart, umount_ent, vars
<1>6. ASSUME NEW s, mount_mount(s) \/ ServerChange(s) PROVE conf' = conf
  BY <1>6 DEF mount_mount, ServerChange
<1> QED
  BY <1>1, <1>2, <1>3, <1>4, <1>5, <1>6 DEF Next, Thread

LEMMA ListNext ==
    ASSUME TruthInv, ListInv, [Next]_vars
    PROVE  ListInv'
<1>1. CASE Device
  BY <1>1, ConfKept, StaticFrame DEF ListInv
<1>2. CASE ~Device /\ RequestOfA
  BY <1>2, ListPrune, ListProbeNear, ListSelect, ListProbeFar, ListMkdir, ListTry, ListReturned DEF RequestOfA
<1>3. CASE ~Device /\ CallOfA
  BY <1>3, CallOfAKeeps, ListFrame
<1>4. CASE ~Device /\ BeginA
  BY <1>4, ListBegin DEF BeginA
<1>5. CASE ~Device /\ Elsewhere
  BY <1>5, ListFrame DEF Elsewhere
<1> QED
  BY <1>1, <1>2, <1>3, <1>4, <1>5, StepsOfA

\* replicated.c: a server is tried only after every closer one that has been up
\* all the time and has the version selected, for every location, any number of
\* servers, and whatever they do while they are probed.
THEOREM CloserTriedFirst == Spec => []ClosestFirst
<1>1. TruthInv /\ ListInv => ClosestFirst
  <2> SUFFICES ASSUME TruthInv, ListInv, Trying, req["A"].sel # None,
                      NEW h \in Hosts, Steady(h), h.prox < req["A"].hosts[req["A"].i].prox,
                      req["A"].sel \in Supports(h.srv)
               PROVE  \E g \in Tried : g.srv = h.srv \/ (conf.hostname /\ g.ent = h.ent)
    BY DEF ClosestFirst
  <2> DEFINE r == req["A"]
  <2>1. /\ TypeOK /\ ~Device /\ TryingHosts(r) /\ r.pc = "wait" /\ r \in RequestRecord
        /\ r.hosts \in Seq(HostRecord) /\ r.i \in Nat
    BY DEF TruthInv, TypeOK, ListInv, Trying, Request, RequestRecord
  <2>2. /\ Sorted(r.hosts) /\ r.i \in 1..Len(r.hosts) /\ DOMAIN r.hosts = 1..Len(r.hosts)
        /\ \A x \in Wanted : \E g \in ToSet(r.hosts) : StandsFor(g, x)
    BY <2>1 DEF TryingHosts
  <2>3. h \in Wanted
    BY DEF Wanted
  <2>4. PICK g \in ToSet(r.hosts) : StandsFor(g, h)
    BY <2>2, <2>3
  <2>5. PICK j \in 1..Len(r.hosts) : r.hosts[j] = g
    BY <2>2, <2>4 DEF ToSet
  <2>6. r.hosts[j].prox \in Nat /\ r.hosts[r.i].prox \in Nat /\ h.prox \in Nat
    <3>1. r.hosts[j] \in HostRecord /\ r.hosts[r.i] \in HostRecord
      <4>1. \A m \in 1..Len(r.hosts) : r.hosts[m] \in HostRecord
        BY <2>1
      <4> QED
        BY <2>2, <2>5, <4>1
    <3>2. h \in HostRecord
      BY <2>1, HostFacts
    <3>3. \A x \in HostRecord : x.prox \in Nat
      BY ProxFacts
    <3> QED
      BY <3>1, <3>2, <3>3
  <2>7. r.hosts[j].prox < r.hosts[r.i].prox
    BY <2>4, <2>5, <2>6 DEF StandsFor
  <2>8. j \in 1..r.i
    <3>1. r.i < j => r.hosts[r.i].prox <= r.hosts[j].prox
      BY <2>2, <2>5, Zenon DEF Sorted
    <3>2. ~(r.i < j)
      BY <2>6, <2>7, <3>1
    <3> QED
      BY <2>1, <2>5, <3>2
  <2>9. g \in Tried
    BY <2>5, <2>8 DEF Tried
  <2> QED
    BY <2>4, <2>9 DEF StandsFor
<1>2. Init => TruthInv /\ ListInv
  BY TruthInit, ListInit
<1>3. (TruthInv /\ ListInv) /\ [Next]_vars => (TruthInv /\ ListInv)'
  BY TruthNext, ListNext
<1> QED
  BY <1>1, <1>2, <1>3, PTL DEF Spec

-----------------------------------------------------------------------------
(***************************************************************************)
(* A server that is up all the time is not tried in vain.                  *)
(***************************************************************************)
\* Nothing is in the way of A, and what is true of its hosts then.
Unhurt == ~Device /\ ~conf.mtab /\ (\A x \in hurt : x[1] # "A")
StillToTry(r) == r.pc \in {"try", "wait"} =>
    \A h \in Serving : \E j \in r.i..Len(r.hosts) : StandsFor(r.hosts[j], h)
CallWorks(r) == r.pc = "wait" =>
    \A h \in Serving : StandsFor(r.hosts[r.i], h) =>
        child["A"] # "fail" /\ (sp["A"].pc = "returned" => sp["A"].ret = "ok")
FailedForNone(r) == r.pc = "done" /\ r.ret = "fail" => Serving = {}

LEMMA NotTriedParts ==
    NotTriedInVain <=> (Unhurt => StillToTry(req["A"]) /\ CallWorks(req["A"]) /\ FailedForNone(req["A"]))
BY DEF NotTriedInVain, Unhurt, StillToTry, CallWorks, FailedForNone

LEMMA NotTriedTo ==
    ASSUME NEW s, req'["A"] = s, Unhurt' => StillToTry(s)' /\ CallWorks(s)' /\ FailedForNone(s)'
    PROVE  NotTriedInVain'
BY DEF NotTriedInVain, Unhurt, StillToTry, CallWorks, FailedForNone

LEMMA UnhurtFacts ==
    ASSUME TruthInv, Unhurt
    PROVE  /\ Untouched("A") /\ <<"A", "kill">> \notin hurt
           /\ child["A"] # "notupdated" /\ sp["A"].ret # "force"
           /\ (req["A"].pc # "done" => mnt["A"] = IF Made("A") THEN 1 ELSE 0)
           /\ (sp["A"].pc \in {"lock", "run"} => (sp["A"].fake <=> sp["A"].left < MTAB_LOCK_RETRIES))
<1>1. <<"A", "kill">> \notin hurt /\ <<"A", "refork">> \notin hurt
  BY DEF Unhurt
<1>2. Untouched("A")
  BY <1>1 DEF Untouched, Unhurt
<1>3. Counted("A")
  BY DEF TruthInv, MountCount, Request
<1> QED
  BY <1>1, <1>2, <1>3 DEF Counted, Unhurt

\* What serves all that is asked for is wanted whatever is selected.
LEMMA ServingWanted ==
    ASSUME TypeOK, req["A"].sel \in Asked \cup {None}
    PROVE  Serving \subseteq Wanted
<1> SUFFICES ASSUME NEW h \in Serving PROVE h \in Wanted
  OBVIOUS
<1>1. h \in Hosts /\ Steady(h) /\ Asked \subseteq Supports(h.srv)
  BY DEF Serving
<1>2. PICK v \in conf.vers, pr \in conf.protos : TRUE
  BY DEF TypeOK
<1>3. \E vp \in Asked : vp \in Found(h.srv)
  <2>1. CASE v = 2 /\ 3 \in conf.vers
    <3>1. <<3, pr>> \in Asked /\ <<3, pr>>[1] # 2
      BY <1>2, <2>1 DEF Asked
    <3> QED
      BY <1>1, <3>1 DEF Found
  <2>2. CASE ~(v = 2 /\ 3 \in conf.vers)
    <3>1. <<v, pr>> \in Asked /\ <<v, pr>>[1] = v
      BY <1>2 DEF Asked
    <3> QED
      BY <1>1, <2>2, <3>1 DEF Found
  <2> QED
    BY <2>1, <2>2
<1> QED
  BY <1>1, <1>3 DEF Wanted

LEMMA TriedElsewhere ==
    ASSUME TruthInv, ListInv, NotTriedInVain, Elsewhere
    PROVE  NotTriedInVain'
<1>0. PICK s : s = req["A"]
  OBVIOUS
<1> SUFFICES ASSUME Unhurt' PROVE StillToTry(s)' /\ CallWorks(s)' /\ FailedForNone(s)'
  BY <1>0, NotTriedTo DEF Elsewhere
<1>1. conf' = conf /\ req'["A"] = req["A"] /\ Steadier /\ sp'["A"] = sp["A"] /\ child'["A"] = child["A"] /\ hurt \subseteq hurt'
  BY DEF Elsewhere
<1>2. Unhurt
  BY <1>1, StaticFrame DEF Unhurt
<1>3. StillToTry(s) /\ CallWorks(s) /\ FailedForNone(s) /\ TypeOK
  BY <1>0, <1>2, NotTriedParts DEF TruthInv
<1>4. Serving' \subseteq Serving
  BY <1>1, <1>2, <1>3, SteadyFrame DEF Unhurt
<1>5. \A x, y : StandsFor(x, y)' <=> StandsFor(x, y)
  BY <1>1 DEF StandsFor
<1> QED
  BY <1>1, <1>3, <1>4, <1>5 DEF StillToTry, CallWorks, FailedForNone

\* What a step of the thread of A leaves alone.
LEMMA ServingSame ==
    ASSUME conf' = conf, UNCHANGED <<health, unsteady>>
    PROVE  Serving' = Serving /\ \A x, y : StandsFor(x, y)' <=> StandsFor(x, y)
<1>1. Hosts' = Hosts /\ Asked' = Asked /\ \A s : Supports(s)' = Supports(s)
  BY StaticFrame
<1>2. \A h \in Hosts : Steady(h)' <=> Steady(h)
  BY DEF Steady
<1>3. \A x, y : StandsFor(x, y)' <=> StandsFor(x, y)
  BY DEF StandsFor
<1> QED
  BY <1>1, <1>2, <1>3 DEF Serving

LEMMA TriedMkdir ==
    ASSUME TruthInv, ListInv, NotTriedInVain, Mkdir("A")
    PROVE  NotTriedInVain'
<1> DEFINE r == req["A"]
<1>1. /\ TypeOK /\ r \in RequestRecord /\ r.pc = "mkdir" /\ conf' = conf /\ UNCHANGED <<health, unsteady>>
      /\ req \in [Request -> RequestRecord] /\ "A" \in Request /\ r.hosts \in Seq(HostRecord)
  BY DEF TruthInv, TypeOK, Mkdir, srvVars, Request, RequestRecord
<1>2. PICK s : s = req'["A"]
  OBVIOUS
<1> SUFFICES ASSUME Unhurt' PROVE StillToTry(s)' /\ CallWorks(s)' /\ FailedForNone(s)'
  BY <1>2, NotTriedTo
<1>3. ~Device /\ conf.kind \notin {"ext2", "changer"}
  BY <1>1, StaticFrame DEF Unhurt, Device
<1>4. TryingHosts(r) /\ Serving \subseteq Wanted
  BY <1>1, <1>3, ServingWanted DEF ListInv, TryingHosts
<1>5. \A h \in Serving : \E j \in 1..Len(r.hosts) : StandsFor(r.hosts[j], h)
  <2> TAKE h \in Serving
  <2>1. PICK g \in ToSet(r.hosts) : StandsFor(g, h)
    BY <1>1, <1>4 DEF TryingHosts
  <2>2. DOMAIN r.hosts = 1..Len(r.hosts)
    BY <1>1
  <2> QED
    BY <2>1, <2>2 DEF ToSet
<1>6. CASE r.hosts = <<>> /\ Ended("A", "fail")
  <2>1. s.pc = "done"
    BY <1>1, <1>2, <1>6 DEF Ended, RequestRecord
  <2>2. Serving = {}
    BY <1>5, <1>6
  <2> QED
    BY <1>1, <2>1, <2>2, ServingSame DEF StillToTry, CallWorks, FailedForNone
<1>7. CASE hurt' = hurt \cup {<<"A", "mkdir">>}
  <2>1. <<"A", "mkdir">> \in hurt' /\ <<"A", "mkdir">>[1] = "A"
    BY <1>7
  <2> QED
    BY <2>1 DEF Unhurt
<1>8. CASE req' = [req EXCEPT !["A"].existed = "A" \in dir, !["A"].i = 1,
                            !["A"].pc = IF "A" = "A" /\ conf.kind \in {"ext2", "changer"} THEN "check" ELSE "try"]
  <2>1. s.pc = "try" /\ s.i = 1 /\ s.hosts = r.hosts
    BY <1>1, <1>2, <1>3, <1>8 DEF RequestRecord
  <2> QED
    BY <1>1, <1>5, <2>1, ServingSame DEF StillToTry, CallWorks, FailedForNone
<1> QED
  BY <1>6, <1>7, <1>8 DEF Mkdir

\* One host is done with.
LEMMA TriedNext ==
    ASSUME TruthInv, NotTriedInVain, Unhurt, NEW r \in RequestRecord, r = req["A"], r.pc \in {"try", "wait"},
           conf' = conf, UNCHANGED <<health, unsteady>>, NextHost("A"),
           \A h \in Serving : ~StandsFor(r.hosts[r.i], h)
    PROVE  NotTriedInVain'
<1>1. /\ req \in [Request -> RequestRecord] /\ "A" \in Request /\ r.i \in Nat
      /\ StillToTry(r)
  BY NotTriedParts DEF TruthInv, TypeOK, Request, RequestRecord
<1>2. PICK s : s = req'["A"]
  OBVIOUS
<1>3. s.pc = "try" /\ s.i = r.i + 1 /\ s.hosts = r.hosts
  BY <1>1, <1>2 DEF NextHost, RequestRecord
<1>4. Len(r.hosts) \in Nat
  BY DEF RequestRecord
<1>5. StillToTry(s)'
  <2>1. ASSUME NEW h \in Serving PROVE \E j \in s.i..Len(s.hosts) : StandsFor(s.hosts[j], h)
    <3>1. PICK j \in r.i..Len(r.hosts) : StandsFor(r.hosts[j], h)
      BY <1>1 DEF StillToTry
    <3>2. j # r.i
      BY <3>1
    <3>3. j \in s.i..Len(s.hosts)
      BY <1>1, <1>3, <1>4, <3>2
    <3> QED
      BY <1>3, <3>1, <3>3
  <2> QED
    BY <2>1, ServingSame DEF StillToTry
<1>6. CallWorks(s)' /\ FailedForNone(s)'
  BY <1>3 DEF CallWorks, FailedForNone
<1> QED
  BY <1>2, <1>5, <1>6, NotTriedTo

\* A program is called for the host.
LEMMA TriedSpawn ==
    ASSUME TruthInv, NotTriedInVain, Unhurt, NEW r \in RequestRecord, r = req["A"], r.pc \in {"try", "wait"},
           conf' = conf, UNCHANGED <<health, unsteady, child>>, NEW prog, Spawn("A", prog), child["A"] = "none"
    PROVE  NotTriedInVain'
<1>1. /\ req \in [Request -> RequestRecord] /\ "A" \in Request /\ "A" \in Path /\ r.i \in Nat
      /\ StillToTry(r) /\ sp \in [Path -> SpawnRecord]
  BY NotTriedParts DEF TruthInv, TypeOK, Request, Path, RequestRecord
<1>2. PICK s : s = req'["A"]
  OBVIOUS
<1>3. s.pc = "wait" /\ s.i = r.i /\ s.hosts = r.hosts
  BY <1>1, <1>2 DEF Spawn, Goto, RequestRecord
<1>4. sp'["A"].pc = "lock"
  BY <1>1 DEF Spawn, Call
<1>5. StillToTry(s)'
  BY <1>1, <1>3, ServingSame DEF StillToTry
<1>6. CallWorks(s)' /\ FailedForNone(s)'
  BY <1>3, <1>4 DEF CallWorks, FailedForNone
<1> QED
  BY <1>2, <1>5, <1>6, NotTriedTo

LEMMA TriedTry ==
    ASSUME TruthInv, ListInv, NotTriedInVain, Try("A")
    PROVE  NotTriedInVain'
<1> DEFINE r == req["A"]
<1>1. /\ TypeOK /\ r \in RequestRecord /\ r.pc = "try" /\ conf' = conf /\ UNCHANGED <<health, unsteady, child, hurt>>
      /\ req \in [Request -> RequestRecord] /\ "A" \in Request /\ "A" \in Path /\ r.hosts \in Seq(HostRecord) /\ r.i \in Nat
  BY DEF TruthInv, TypeOK, Try, srvVars, Request, Path, RequestRecord
<1>2. PICK s : s = req'["A"]
  OBVIOUS
<1>3. CASE ~Unhurt'
  BY <1>2, <1>3, NotTriedTo
<1>4. CASE Unhurt'
  <2>1. Unhurt
    BY <1>1, <1>4, StaticFrame DEF Unhurt
  <2>2. StillToTry(r)
    BY <2>1, NotTriedParts
  <2>3. child["A"] = "none"
    <3>1. CallShape("A") /\ ~Waiting("A") /\ NoSpawn.pc # "run"
      BY <1>1 DEF TruthInv, SpawnShape, Waiting, NoSpawn
    <3> QED
      BY <3>1 DEF CallShape
  <2>4. CASE r.i > Len(r.hosts) /\ Ended("A", "fail")
    <3>1. s.pc = "done"
      BY <1>1, <1>2, <2>4 DEF Ended, RequestRecord
    <3>2. Serving = {}
      <4>1. Len(r.hosts) \in Nat
        BY <1>1
      <4>2. r.i..Len(r.hosts) = {}
        BY <1>1, <2>4, <4>1
      <4> QED
        BY <1>1, <2>2, <4>2 DEF StillToTry
    <3>3. StillToTry(s)' /\ CallWorks(s)' /\ FailedForNone(s)'
      BY <1>1, <3>1, <3>2, ServingSame DEF StillToTry, CallWorks, FailedForNone
    <3> QED
      BY <1>2, <3>3, NotTriedTo
  <2>5. CASE Local(r.hosts[r.i]) /\ NextHost("A")
    <3>1. \A h \in Serving : ~StandsFor(r.hosts[r.i], h)
      BY <2>5 DEF StandsFor
    <3> QED
      BY <1>1, <2>1, <2>5, <3>1, TriedNext
  <2>6. ASSUME NEW prog, Spawn("A", prog) PROVE NotTriedInVain'
    BY <1>1, <2>1, <2>3, <2>6, TriedSpawn
  <2> QED
    BY <2>4, <2>5, <2>6 DEF Try
<1> QED
  BY <1>3, <1>4

\* A bind mount is of a local host, which stands for no server.
LEMMA BindOfLocal ==
    ASSUME ListInv, ~Device, req["A"].pc = "wait", sp["A"].prog = "bind"
    PROVE  \A h : ~StandsFor(req["A"].hosts[req["A"].i], h)
BY DEF ListInv, TryingHosts, StandsFor

LEMMA TriedReturned ==
    ASSUME TruthInv, ListInv, NotTriedInVain, Returned("A")
    PROVE  NotTriedInVain'
<1> DEFINE r == req["A"]
           bind == sp["A"].prog = "bind"
           ret == IF bind THEN BindRet(sp["A"].ret) ELSE sp["A"].ret
<1>1. /\ TypeOK /\ r \in RequestRecord /\ r.pc = "wait" /\ conf' = conf /\ UNCHANGED <<health, unsteady, child, hurt>>
      /\ req \in [Request -> RequestRecord] /\ "A" \in Request /\ "A" \in Path /\ sp["A"].pc = "returned"
  BY DEF TruthInv, TypeOK, Returned, srvVars, Request, Path
<1>2. PICK s : s = req'["A"]
  OBVIOUS
<1>3. CASE ~Unhurt'
  BY <1>2, <1>3, NotTriedTo
<1>4. CASE Unhurt'
  <2>1. Unhurt /\ ~Device
    BY <1>1, <1>4, StaticFrame DEF Unhurt
  <2>2. CallWorks(r)
    BY <2>1, NotTriedParts
  <2>3. child["A"] = "none"
    BY <1>1 DEF TruthInv, SpawnShape, CallShape
  <2>4. CASE ret = "ok" /\ Ended("A", "ok")
    <3>1. s.pc = "done" /\ s.ret = "ok"
      BY <1>1, <1>2, <2>4 DEF Ended, RequestRecord
    <3>2. StillToTry(s)' /\ CallWorks(s)' /\ FailedForNone(s)'
      BY <3>1 DEF StillToTry, CallWorks, FailedForNone
    <3> QED
      BY <1>2, <3>2, NotTriedTo
  <2>5. ~(bind /\ ret = "force")
    BY <2>1, UnhurtFacts DEF BindRet
  <2>6. CASE Spawn("A", "mount")
    BY <1>1, <2>1, <2>3, <2>6, TriedSpawn
  <2>7. CASE ret # "ok" /\ NextHost("A")
    <3>1. \A h \in Serving : ~StandsFor(r.hosts[r.i], h)
      <4>1. CASE bind
        BY <1>1, <2>1, <4>1, BindOfLocal
      <4>2. CASE ~bind
        BY <1>1, <2>2, <2>7, <4>2 DEF CallWorks
      <4> QED
        BY <4>1, <4>2
    <3> QED
      BY <1>1, <2>1, <2>7, <3>1, TriedNext
  <2> QED
    BY <2>4, <2>5, <2>6, <2>7 DEF Returned
<1> QED
  BY <1>3, <1>4

\* The call of a host that stands for a server: it mounts it, if it is up.
LEMMA ServesStandsFor ==
    ASSUME TruthInv, ListInv, ~Device, req["A"].pc = "wait", NEW h \in Serving,
           StandsFor(req["A"].hosts[req["A"].i], h)
    PROVE  Serves("A", req["A"].hosts[req["A"].i]) /\ sp["A"].prog = "mount"
<1> DEFINE r == req["A"]
           g == r.hosts[r.i]
<1>1. TypeOK /\ TryingHosts(r) /\ r \in RequestRecord /\ r.hosts \in Seq(HostRecord) /\ "A" \in Path
      /\ CallShape("A")
  BY DEF TruthInv, TypeOK, ListInv, Request, RequestRecord, SpawnShape, Path
<1>2. r.i \in DOMAIN r.hosts
  <2>1. r.i \in Nat
    BY <1>1 DEF RequestRecord
  <2> QED
    BY <1>1, <2>1 DEF TryingHosts
<1>3. sp["A"].prog = "mount"
  <2>1. sp["A"].prog \in {"bind", "mount"}
    BY <1>1 DEF CallShape, Waiting, Programs
  <2> QED
    BY <2>1, BindOfLocal
<1>4. PICK k \in ToSet(Parsed("A")) : SameHost(g, k)
  BY <1>1, <1>2 DEF TryingHosts, OfLocation
<1>5. k \in Hosts
  BY <1>1, <1>4, HostFacts DEF SameHost, StandsFor, Local
<1>6. /\ h \in Hosts /\ health[h.srv] = "up" /\ Asked \subseteq Supports(h.srv) /\ g.ent = h.ent /\ g.ent = k.ent /\ g.srv = k.srv
      /\ (g.srv = h.srv \/ conf.hostname)
  BY <1>4 DEF Serving, Steady, StandsFor, SameHost
<1>7. Asked \cap Supports(h.srv) # {}
  <2>1. Asked # {}
    <3>1. PICK v \in conf.vers, pr \in conf.protos : TRUE
      BY <1>1 DEF TypeOK
    <3>2. <<v, pr>> \in Asked
      BY <3>1 DEF Asked
    <3> QED
      BY <3>2
  <2> QED
    BY <1>6, <2>1
<1>8. /\ g.ent # 0 /\ g.srv \in Servers
      /\ \E a \in ToSet(Location("A")[g.ent].addrs) : h.srv = a.srv
  BY <1>1, <1>5, <1>6, HostFacts
<1>9. Srv(g) = g.srv
  BY <1>8, MountNfsAssumption DEF Srv
<1> HIDE DEF g
<1>10. Serves("A", g)
  <2>1. CASE g.rr /\ ~conf.hostname
    BY <1>6, <1>7, <1>9, <2>1 DEF Serves
  <2>2. CASE ~(g.rr /\ ~conf.hostname)
    <3>1. h.srv \in {a.srv : a \in ToSet(Location("A")[g.ent].addrs)}
      BY <1>8
    <3> QED
      BY <1>6, <1>7, <1>8, <2>2, <3>1 DEF Serves
  <2> QED
    BY <2>1, <2>2
<1> QED
  BY <1>3, <1>10 DEF g

\* The processes of a call.
LEMMA TriedCall ==
    ASSUME TruthInv, ListInv, NotTriedInVain, CallOfA
    PROVE  NotTriedInVain'
<1> DEFINE r == req["A"]
<1>1. /\ TypeOK /\ conf' = conf /\ UNCHANGED <<health, unsteady, req>> /\ r.pc = "wait" /\ CallShape("A") /\ "A" \in Path
      /\ child \in [Path -> ChildState] /\ sp \in [Path -> SpawnRecord] /\ sp["A"] \in SpawnRecord
  <2>1. "A" \in Path /\ TypeOK /\ SpawnShape
    BY DEF TruthInv, Path, Request
  <2>2. child \in [Path -> ChildState] /\ sp \in [Path -> SpawnRecord]
    BY <2>1 DEF TypeOK, ChildState
  <2> QED
    BY <2>1, <2>2, CallOfAKeeps DEF SpawnShape
<1>2. PICK s : s = r
  OBVIOUS
<1>3. CASE ~Unhurt'
  <2>1. req'["A"] = s
    BY <1>1, <1>2
  <2> QED
    BY <1>3, <2>1, NotTriedTo
<1>4. CASE Unhurt' /\ ~Unhurt
  <2>1. hurt \subseteq hurt'
    BY DEF CallOfA, Fork, ChildOpen, ChildOpened, ChildExec, ChildMtab, TimedOut, Reap
  <2> QED
    BY <1>1, <1>4, <2>1, StaticFrame DEF Unhurt
<1>5. CASE Unhurt' /\ Unhurt
  <2>1. StillToTry(s) /\ CallWorks(s) /\ ~Device
    BY <1>2, <1>5, NotTriedParts DEF Unhurt
  <2>2. StillToTry(s)' /\ FailedForNone(s)'
    BY <1>1, <1>2, <2>1, ServingSame DEF StillToTry, FailedForNone
  <2>3. ASSUME NEW h \in Serving, StandsFor(s.hosts[s.i], h)
        PROVE  child'["A"] # "fail" /\ (sp'["A"].pc = "returned" => sp'["A"].ret = "ok")
    <3>1. child["A"] # "fail" /\ (sp["A"].pc = "returned" => sp["A"].ret = "ok")
      BY <1>1, <1>2, <2>1, <2>3 DEF CallWorks
    <3>2. Serves("A", r.hosts[r.i]) /\ sp["A"].prog = "mount"
      BY <1>1, <1>2, <2>1, <2>3, ServesStandsFor
    <3>3. /\ child["A"] # "notupdated" /\ <<"A", "kill">> \notin hurt
          /\ mnt["A"] = (IF Made("A") THEN 1 ELSE 0)
      BY <1>1, <1>5, UnhurtFacts
    <3>4. child["A"] # "none" => sp["A"].pc = "run"
      BY <1>1 DEF CallShape
    <3>5. CASE Fork("A")
      <4>1. CASE child' = [child EXCEPT !["A"] = "start"] /\ sp' = [sp EXCEPT !["A"].pc = "run"]
        BY <1>1, <4>1 DEF SpawnRecord
      <4>2. ASSUME NEW x, hurt' = hurt \cup {<<"A", x>>} PROVE FALSE
        <5>1. <<"A", x>> \in hurt' /\ <<"A", x>>[1] = "A"
          BY <4>2
        <5> QED
          BY <1>5, <5>1 DEF Unhurt
      <4> QED
        BY <3>5, <4>1, <4>2 DEF Fork
    <3>6. CASE ChildOpen("A")
      BY <1>1, <3>1, <3>4, <3>6 DEF ChildOpen
    <3>7. CASE ChildOpened("A")
      BY <1>1, <3>7 DEF ChildOpened, CallShape, Trigger
    <3>8. CASE ChildExec("A")
      <4>1. child["A"] = "exec" /\ sp' = sp /\ sp["A"].pc = "run"
        BY <3>4, <3>8 DEF ChildExec
      <4>2. ~sp["A"].fake => mnt["A"] = 0
        BY <3>3, <4>1 DEF Made
      <4>3. child' = [child EXCEPT !["A"] = "made"]
        BY <2>1, <3>2, <3>8, <4>2 DEF ChildExec
      <4> QED
        BY <1>1, <4>1, <4>3
    <3>9. CASE ChildMtab("A")
      BY <1>1, <3>1, <3>9 DEF ChildMtab
    <3>10. CASE TimedOut("A")
      <4>1. <<"A", "kill">> \in hurt' /\ <<"A", "kill">>[1] = "A"
        BY <3>10 DEF TimedOut
      <4> QED
        BY <1>5, <4>1 DEF Unhurt
    <3>11. CASE Reap("A")
      <4>1. child["A"] \in Exits /\ child["A"] # "term"
        BY <1>1, <3>3, <3>11 DEF Reap, CallShape
      <4>2. child["A"] = "ok"
        BY <3>1, <3>3, <4>1 DEF Exits
      <4>3. child'["A"] = "none"
        BY <1>1, <3>11 DEF Reap
      <4>4. sp' = [sp EXCEPT !["A"].pc = "returned", !["A"].ret = "ok"]
        BY <3>2, <3>11, <4>2 DEF Reap, spawn_mount, MtabRetry
      <4>5. sp'["A"].ret = "ok"
        BY <1>1, <4>4 DEF SpawnRecord
      <4> QED
        BY <4>3, <4>5
    <3> QED
      BY <3>5, <3>6, <3>7, <3>8, <3>9, <3>10, <3>11 DEF CallOfA
  <2>4. CallWorks(s)'
    BY <1>1, <2>3, ServingSame DEF CallWorks
  <2>5. req'["A"] = s
    BY <1>1, <1>2
  <2> QED
    BY <2>2, <2>4, <2>5, NotTriedTo
<1> QED
  BY <1>3, <1>4, <1>5

\* The steps before a host is tried.
LEMMA TriedBefore ==
    ASSUME TruthInv, prune_host_list("A") \/ ProbeNear("A") \/ Select("A") \/ ProbeFar("A")
    PROVE  NotTriedInVain'
<1> DEFINE r == req["A"]
<1>1. /\ r \in RequestRecord /\ req \in [Request -> RequestRecord] /\ "A" \in Request
  BY DEF TruthInv, TypeOK, Request
<1>2. PICK s : s = req'["A"]
  OBVIOUS
<1>3. s.pc \in {"near", "far", "mkdir"}
  <2>1. CASE prune_host_list("A")
    BY <1>1, <1>2, <2>1 DEF prune_host_list, Goto, RequestRecord
  <2>2. CASE ProbeNear("A")
    <3>1. r.pc = "near"
      BY <2>2, ProbeNearIs
    <3>2. [r EXCEPT !.hosts = RemoveAt(r.hosts, r.i)].pc = "near"
      BY <1>1, <3>1 DEF RequestRecord
    <3>3. ASSUME NEW h PROVE [r EXCEPT !.hosts[r.i] = h, !.i = @ + 1].pc = "near"
      BY <1>1, <3>1 DEF RequestRecord
    <3>4. PICK h : \/ req' = [req EXCEPT !["A"] = [r EXCEPT !.hosts[r.i] = h, !.i = @ + 1]]
                   \/ req' = [req EXCEPT !["A"] = [r EXCEPT !.hosts = RemoveAt(r.hosts, r.i)]]
      BY <2>2, ProbeNearIs
    <3>5. s = [r EXCEPT !.hosts[r.i] = h, !.i = @ + 1] \/ s = [r EXCEPT !.hosts = RemoveAt(r.hosts, r.i)]
      BY <1>1, <1>2, <3>4
    <3> QED
      BY <3>2, <3>3, <3>5
  <2>3. CASE Select("A")
    <3>1. CASE Goto("A", "mkdir")
      BY <1>1, <1>2, <3>1 DEF Goto, RequestRecord
    <3>2. ASSUME NEW v, NEW l, req' = [req EXCEPT !["A"] = [r EXCEPT !.pc = "far", !.sel = v, !.new = l]]
          PROVE  s.pc = "far"
      BY <1>1, <1>2, <3>2 DEF RequestRecord
    <3> QED
      BY <2>3, <3>1, <3>2 DEF Select
  <2>4. CASE ProbeFar("A")
    <3>1. PICK n, e : \/ req' = [req EXCEPT !["A"] = [r EXCEPT !.pc = "mkdir", !.hosts = r.new, !.new = <<>>, !.i = 0]]
                      \/ req' = [req EXCEPT !["A"] = [r EXCEPT !.i = @ + 1, !.new = n, !.prev = e]]
                      \/ req' = [req EXCEPT !["A"] = [r EXCEPT !.i = @ + 1]]
      BY <2>4, ProbeFarIs
    <3>2. r.pc = "far"
      BY <2>4, ProbeFarIs
    <3>3. \/ s = [r EXCEPT !.pc = "mkdir", !.hosts = r.new, !.new = <<>>, !.i = 0]
          \/ s = [r EXCEPT !.i = @ + 1, !.new = n, !.prev = e] \/ s = [r EXCEPT !.i = @ + 1]
      BY <1>1, <1>2, <3>1
    <3> QED
      BY <1>1, <3>2, <3>3 DEF RequestRecord
  <2> QED
    BY <2>1, <2>2, <2>3, <2>4
<1>4. StillToTry(s)' /\ CallWorks(s)' /\ FailedForNone(s)'
  BY <1>3 DEF StillToTry, CallWorks, FailedForNone
<1> QED
  BY <1>2, <1>4, NotTriedTo

LEMMA TriedBegin ==
    ASSUME TruthInv, BeginA
    PROVE  NotTriedInVain'
<1>1. PICK s : s = req'["A"]
  OBVIOUS
<1>2. s.pc \in {"prune", "mkdir"}
  BY <1>1 DEF BeginA, Begin, NoReq
<1>3. StillToTry(s)' /\ CallWorks(s)' /\ FailedForNone(s)'
  BY <1>2 DEF StillToTry, CallWorks, FailedForNone
<1> QED
  BY <1>1, <1>3, NotTriedTo

LEMMA TriedInit == Init => NotTriedInVain
<1> SUFFICES ASSUME Init PROVE NotTriedInVain
  OBVIOUS
<1>1. req["A"] = NoReq
  BY DEF Init, Request
<1>2. req["A"].pc = "idle"
  BY <1>1 DEF NoReq
<1>3. req["A"].pc \notin {"try", "wait", "done"}
  BY <1>2
<1> QED
  BY <1>3 DEF NotTriedInVain

LEMMA TriedNextStep ==
    ASSUME TruthInv, ListInv, NotTriedInVain, [Next]_vars
    PROVE  NotTriedInVain'
<1>1. CASE Device
  BY <1>1, ConfKept, StaticFrame DEF NotTriedInVain
<1>2. CASE ~Device
  BY <1>2, StepsOfA, TriedBefore, TriedMkdir, TriedTry, TriedReturned, TriedCall, TriedBegin, TriedElsewhere
     DEF RequestOfA
<1> QED
  BY <1>1, <1>2

\* mount_nfs.c with replicated.c and spawn.c: a request does not fail as long as
\* some server is up all the time and supports all that is asked for, with any
\* number of servers, which come and go, unless a process was killed or could not
\* be forked, the directory not made or the mtab not updated.
THEOREM ServerIsFound == Spec => []Available
<1>1. NotTriedInVain => Available
  BY DEF NotTriedInVain, Available, Serving
<1>2. Init => TruthInv /\ ListInv /\ NotTriedInVain
  BY TruthInit, ListInit, TriedInit
<1>3. (TruthInv /\ ListInv /\ NotTriedInVain) /\ [Next]_vars => (TruthInv /\ ListInv /\ NotTriedInVain)'
  BY TruthNext, ListNext, TriedNextStep
<1> QED
  BY <1>1, <1>2, <1>3, PTL DEF Spec

-----------------------------------------------------------------------------
(***************************************************************************)
(* As many of the closest servers are kept as support any one version.     *)
(***************************************************************************)
\* A host after its probe is that of one host of the location.
LEMMA SameOf ==
    ASSUME TypeOK, ~Device, NEW g, NEW h1 \in Hosts, NEW h2 \in Hosts, SameHost(g, h1), SameHost(g, h2)
    PROVE  h1 = h2
<1>1. /\ h1 \in HostRecord /\ h2 \in HostRecord /\ h1.cost = h2.cost /\ h1.vers = h2.vers
  BY HostFacts
<1>2. h1.srv = h2.srv /\ h1.ent = h2.ent /\ h1.prox = h2.prox /\ h1.weight = h2.weight /\ h1.rr = h2.rr
  BY DEF SameHost
<1> QED
  BY <1>1, <1>2 DEF HostRecord

\* When the closest hosts have been probed and nothing has changed, those that
\* have answered are the closest ones that a probe finds.
LEMMA ClosestAnswered ==
    ASSUME TypeOK, ~Device, NEW r \in RequestRecord, Cursor(r), r.pc = "near", ProbedNear(r),
           r.first < r.i, ~IsNear(r), unsteady = {}
    PROVE  /\ \A j \in r.first..(r.i - 1) : \E h \in Closest : SameHost(r.hosts[j], h)
           /\ \A h \in Closest : \E j \in r.first..(r.i - 1) : SameHost(r.hosts[j], h)
<1> DEFINE hs == r.hosts
           n == Len(hs)
           i == r.i
           first == r.first
<1>1. /\ hs \in Seq(HostRecord) /\ n \in Nat /\ i \in 1..(n + 1) /\ first \in 1..(i - 1) /\ first \in 1..n
      /\ DOMAIN hs = 1..n /\ \A j \in 1..n : hs[j] \in HostRecord
  BY DEF Cursor, RequestRecord
<1>2. /\ Sorted(hs) /\ OfLocation(hs)
      /\ \A j \in 1..n : Local(hs[j]) <=> j < first
      /\ \A j \in first..(i - 1) : /\ hs[j].prox = hs[first].prox
                                   /\ hs[j].vers = Found(hs[j].srv) /\ hs[j].vers # {}
                                   /\ health[hs[j].srv] = "up"
      /\ \A g \in Responding : \/ \E j \in first..(i - 1) : SameHost(hs[j], g)
                               \/ \E j \in i..n : hs[j] = g
      /\ i <= n => hs[i].prox # hs[first].prox
  BY <1>1 DEF ProbedNear, Proximity, IsNear
<1> HIDE DEF hs, n, i, first
<1>3. \A j \in 1..n : hs[j].prox \in Nat
  BY <1>1, ProxFacts
<1>4. \A j \in first..(i - 1) : \E k \in Responding : SameHost(hs[j], k) /\ k.prox = hs[first].prox
  <2> TAKE j \in first..(i - 1)
  <2>1. j \in 1..n /\ ~(j < first)
    BY <1>1
  <2>2. PICK k \in ToSet(Parsed("A")) : SameHost(hs[j], k)
    BY <1>1, <1>2, <2>1 DEF OfLocation
  <2>3. k \in Hosts
    BY <1>2, <2>1, <2>2, HostFacts DEF SameHost, Local
  <2>4. k \in Responding /\ k.prox = hs[first].prox
    BY <1>2, <2>2, <2>3 DEF Responding, Steady, SameHost
  <2> QED
    BY <2>2, <2>4
<1>5. \A j \in i..n : hs[first].prox < hs[j].prox
  <2> TAKE j \in i..n
  <2>1. i \in 1..n /\ j \in 1..n /\ first < i
    BY <1>1
  <2>2. hs[first].prox <= hs[i].prox /\ hs[first].prox # hs[i].prox
    BY <1>1, <1>2, <2>1 DEF Sorted
  <2>3. hs[i].prox <= hs[j].prox
    <3>1. CASE i = j
      BY <1>3, <2>1, <3>1
    <3>2. CASE i < j
      BY <1>1, <1>2, <2>1, <3>2 DEF Sorted
    <3> QED
      BY <2>1, <3>1, <3>2
  <2> QED
    BY <1>1, <1>3, <2>1, <2>2, <2>3
<1>6. \A g \in Responding : hs[first].prox <= g.prox
  <2> TAKE g \in Responding
  <2>1. CASE \E j \in first..(i - 1) : SameHost(hs[j], g)
    BY <1>1, <1>2, <1>3, <2>1 DEF SameHost
  <2>2. CASE \E j \in i..n : hs[j] = g
    <3>1. PICK j \in i..n : hs[j] = g
      BY <2>2
    <3>2. j \in 1..n
      BY <1>1
    <3> QED
      BY <1>1, <1>3, <1>5, <3>1, <3>2
  <2> QED
    BY <1>2, <2>1, <2>2
<1>7. \A j \in first..(i - 1) : \E h \in Closest : SameHost(hs[j], h)
  BY <1>4, <1>6 DEF Closest
<1>8. \A h \in Closest : \E j \in first..(i - 1) : SameHost(hs[j], h)
  <2> TAKE h \in Closest
  <2>1. PICK k \in Responding : k.prox = hs[first].prox
    <3>1. first \in first..(i - 1)
      BY <1>1
    <3> QED
      BY <1>4, <3>1
  <2>2. h \in Responding /\ h.prox <= hs[first].prox
    BY <2>1 DEF Closest
  <2>3. ~\E j \in i..n : hs[j] = h
    <3> SUFFICES ASSUME NEW j \in i..n, hs[j] = h PROVE FALSE
      OBVIOUS
    <3>1. j \in 1..n
      BY <1>1
    <3> QED
      BY <1>1, <1>3, <1>5, <2>2, <3>1
  <2> QED
    BY <1>2, <2>2, <2>3
<1> QED
  BY <1>7, <1>8 DEF hs, i, first

\* The version that most of the closest hosts have is selected, and those that
\* have it are chosen.
EnoughKept(hosts) == \A vp \in Asked : Cardinality(Supporting(vp)) <= Cardinality(KeptOf(hosts))
Near == {g \in HostRecord : \E h \in Closest : h.srv = g.srv}
LEMMA KeptAt ==
    ASSUME NEW hosts \in Seq(HostRecord)
    PROVE  KeptOf(hosts) = At(hosts, Near)
BY DEF KeptOf, At, Near

LEMMA MajoritySelected ==
    ASSUME TypeOK, ~Device, NEW r \in RequestRecord, Cursor(r), r.pc = "near", ProbedNear(r),
           r.first <= Len(r.hosts), ~IsNear(r), unsteady = {}
    PROVE  LET sel == Selected(SubSeq(r.hosts, r.first, r.i - 1))
           IN EnoughKept(Chosen(SubSeq(r.hosts, 1, r.i - 1), sel))
<1> DEFINE hs == r.hosts
           i == r.i
           first == r.first
           near == SubSeq(r.hosts, r.first, r.i - 1)
           sel == Selected(near)
           new == Chosen(SubSeq(r.hosts, 1, r.i - 1), sel)
           S(vp) == {m \in DOMAIN near : vp \in near[m].vers}
           C == {j \in 1..(i - 1) : Keep(hs, j, sel) /\ Taken(hs, j, sel) \in Near}
<1>1. /\ first < i /\ sel \in Asked /\ sel \in VP
      /\ \A vp \in VP : Supporters(near, vp) <= Supporters(near, sel)
      /\ ChosenFrom(hs, sel, i - 1, new)
  BY Answered
<1>2. /\ near \in Seq(HostRecord) /\ Len(near) = i - first
      /\ \A m \in 1..(i - first) : near[m] = hs[first + m - 1]
  BY SelectType
<1>3. /\ \A j \in first..(i - 1) : \E h \in Closest : SameHost(hs[j], h)
      /\ \A h \in Closest : \E j \in first..(i - 1) : SameHost(hs[j], h)
  BY <1>1, ClosestAnswered
<1>4. /\ first \in Nat \ {0} /\ i \in Nat /\ i <= Len(hs) + 1 /\ Len(hs) \in Nat /\ hs \in Seq(HostRecord)
      /\ \A j \in first..(i - 1) : hs[j].vers = Found(hs[j].srv)
  BY DEF Cursor, RequestRecord, ProbedNear
<1> SUFFICES ASSUME NEW vp \in Asked PROVE Cardinality(Supporting(vp)) <= Cardinality(KeptOf(new))
  BY DEF EnoughKept
<1> HIDE DEF near, sel, new, hs, i, first
<1>5. DOMAIN near = 1..(i - first) /\ \A m \in 1..(i - first) : first + m - 1 \in first..(i - 1) /\ first + m - 1 \in 1..(i - 1)
  BY <1>1, <1>2, <1>4
<1>6. \A x : IsFiniteSet(S(x)) /\ Supporters(near, x) = Cardinality(S(x)) /\ Cardinality(S(x)) \in Nat
  BY <1>2, SupportersNat DEF Supporters
<1>7. Cardinality(S(vp)) <= Cardinality(S(sel))
  <2>1. vp \in VP
    BY AskedType
  <2> QED
    BY <1>1, <1>6, <2>1
<1>8. IsFiniteSet(Supporting(vp)) /\ Cardinality(Supporting(vp)) <= Cardinality(S(vp))
  <2> DEFINE f == [h \in Supporting(vp) |-> CHOOSE m \in DOMAIN near : SameHost(near[m], h)]
  <2>1. ASSUME NEW h \in Supporting(vp)
        PROVE  f[h] \in S(vp) /\ SameHost(near[f[h]], h)
    <3>1. h \in Closest /\ vp \in Found(h.srv)
      BY DEF Supporting
    <3>2. PICK j \in first..(i - 1) : SameHost(hs[j], h)
      BY <1>3, <3>1
    <3>3. j - first + 1 \in DOMAIN near /\ near[j - first + 1] = hs[j]
      BY <1>1, <1>2, <1>4, <1>5, <3>2
    <3>4. f[h] \in DOMAIN near /\ SameHost(near[f[h]], h)
      BY <3>2, <3>3
    <3> HIDE DEF f
    <3>5. near[f[h]].vers = Found(near[f[h]].srv)
      <4>1. first + f[h] - 1 \in first..(i - 1) /\ near[f[h]] = hs[first + f[h] - 1]
        BY <1>2, <1>5, <3>4
      <4> QED
        BY <1>4, <4>1
    <3> QED
      BY <3>1, <3>4, <3>5 DEF SameHost
  <2>2. ASSUME NEW h1 \in Supporting(vp), NEW h2 \in Supporting(vp), f[h1] = f[h2]
        PROVE  h1 = h2
    <3>1. h1 \in Hosts /\ h2 \in Hosts
      BY DEF Supporting, Closest, Responding
    <3>2. SameHost(near[f[h1]], h1) /\ SameHost(near[f[h1]], h2)
      BY <2>1, <2>2
    <3> HIDE DEF f
    <3> QED
      BY <3>1, <3>2, SameOf
  <2>3. f \in [Supporting(vp) -> S(vp)]
    BY <2>1
  <2> HIDE DEF f, S
  <2>4. f \in Injection(Supporting(vp), S(vp))
    BY <2>2, <2>3 DEF Injection, IsInjective
  <2> QED
    BY <1>6, <2>4, FS_Injection
<1>9. IsFiniteSet(C) /\ Cardinality(S(sel)) <= Cardinality(C)
  <2> DEFINE f == [m \in S(sel) |-> first + m - 1]
  <2>0. i - 1 \in Int
    BY <1>4
  <2>1. C \in SUBSET (1..(i - 1)) /\ IsFiniteSet(1..(i - 1))
    <3>1. IsFiniteSet(1..(i - 1))
      BY <2>0, FS_Interval
    <3> QED
      BY <3>1
  <2>2. ASSUME NEW m \in S(sel) PROVE f[m] \in C
    <3>1. m \in 1..(i - first) /\ sel \in near[m].vers
      BY <1>5
    <3> DEFINE j == first + m - 1
    <3>2. j \in first..(i - 1) /\ j \in 1..(i - 1) /\ j \in 1..Len(hs) /\ near[m] = hs[j]
      BY <1>2, <1>4, <1>5, <3>1
    <3> HIDE DEF j
    <3>3. PICK h \in Closest : SameHost(hs[j], h)
      BY <1>3, <3>2
    <3>4. Taken(hs, j, sel) \in HostRecord /\ SameHost(Taken(hs, j, sel), hs[j])
      BY <1>1, <1>4, <3>2, TakenIs
    <3>5. Taken(hs, j, sel) \in Near
      BY <3>3, <3>4 DEF Near, SameHost
    <3>6. Keep(hs, j, sel)
      BY <3>1, <3>2 DEF Keep
    <3>7. j \in C
      BY <3>2, <3>5, <3>6
    <3> QED
      BY <3>7 DEF j
  <2>3. \A a, b \in S(sel) : f[a] = f[b] => a = b
    BY <1>4, <1>5
  <2>4. f \in [S(sel) -> C]
    BY <2>2
  <2> HIDE DEF f, S, C
  <2>5. f \in Injection(S(sel), C)
    BY <2>3, <2>4 DEF Injection, IsInjective
  <2>6. IsFiniteSet(C)
    BY <2>1, FS_Subset
  <2> QED
    BY <2>5, <2>6, FS_Injection
<1>10. Cardinality(KeptOf(new)) = Cardinality(C)
  <2>1. new \in Seq(HostRecord) /\ Near \in SUBSET HostRecord
    BY <1>1 DEF ChosenFrom, Near
  <2>2. Cardinality(At(new, Near)) = Cardinality(C)
    BY <1>1, <2>1 DEF ChosenFrom
  <2> QED
    BY <2>1, <2>2, KeptAt
<1>11. Cardinality(Supporting(vp)) \in Nat /\ Cardinality(C) \in Nat
  BY <1>8, <1>9, FS_CardinalityType
<1> HIDE DEF S, C
<1> QED
  BY <1>6, <1>7, <1>8, <1>9, <1>10, <1>11

\* Nothing changes as long as no server does.
LEMMA ClosestSame ==
    ASSUME TypeOK, ~Device, conf' = conf, Steadier, unsteady' = {}
    PROVE  /\ unsteady = {} /\ Asked' = Asked /\ ~Device'
           /\ \A hosts : EnoughKept(hosts)' <=> EnoughKept(hosts)
<1>1. /\ unsteady = {} /\ Hosts' = Hosts /\ Asked' = Asked /\ ~Device'
      /\ (\A x : Found(x)' = Found(x)) /\ \A x \in Servers : health'[x] = health[x]
  BY StaticFrame DEF Steadier
<1>2. \A h \in Hosts : Steady(h)' <=> Steady(h)
  BY <1>1, HostFacts DEF Steady
<1>3. Responding' = Responding
  BY <1>1, <1>2 DEF Responding
<1>4. Closest' = Closest
  BY <1>3 DEF Closest
<1>5. \A vp : Supporting(vp)' = Supporting(vp)
  BY <1>1, <1>4 DEF Supporting
<1>6. \A hosts : KeptOf(hosts)' = KeptOf(hosts)
  BY <1>4 DEF KeptOf
<1> QED
  BY <1>1, <1>5, <1>6 DEF EnoughKept

LEMMA KeptTo ==
    ASSUME NEW s, req'["A"] = s,
           ~Device' /\ unsteady' = {} /\ s.sel # None =>
               /\ s.pc = "far" => EnoughKept(s.new)'
               /\ s.pc \in {"mkdir", "try", "wait"} => EnoughKept(s.hosts)'
    PROVE  KeptSoFar'
BY DEF KeptSoFar, EnoughKept

LEMMA KeptNow ==
    ASSUME KeptSoFar, ~Device, unsteady = {}, req["A"].sel # None
    PROVE  /\ req["A"].pc = "far" => EnoughKept(req["A"].new)
           /\ req["A"].pc \in {"mkdir", "try", "wait"} => EnoughKept(req["A"].hosts)
BY DEF KeptSoFar, EnoughKept

\* The hosts of a location are finitely many.
LEMMA SupportingNat ==
    ASSUME TypeOK, ~Device, NEW vp
    PROVE  Cardinality(Supporting(vp)) \in Nat
<1> DEFINE list == Parsed("A")
<1>1. list \in Seq(HostRecord) /\ Hosts = {h \in ToSet(list) : ~Local(h)}
  BY HostFacts
<1> HIDE DEF list
<1>2. IsFiniteSet(ToSet(list))
  <2> DEFINE n == Len(list)
             f == [j \in 1..n |-> list[j]]
  <2>1. IsFiniteSet(1..n) /\ ToSet(list) = {f[j] : j \in 1..n} /\ DOMAIN list = 1..n
    BY <1>1, FS_Interval DEF ToSet
  <2>2. f \in Surjection(1..n, ToSet(list))
    BY <2>1 DEF Surjection
  <2> HIDE DEF f, n
  <2> QED
    BY <2>1, <2>2, FS_Surjection
<1>3. Supporting(vp) \in SUBSET ToSet(list)
  BY <1>1 DEF Supporting, Closest, Responding
<1> QED
  BY <1>2, <1>3, FS_Subset, FS_CardinalityType

\* A step that leaves the list as it is.
LEMMA KeptFrame ==
    ASSUME TypeOK, KeptSoFar, ~Device, conf' = conf, Steadier, NEW s, req'["A"] = s, s.sel = req["A"].sel,
           s.pc = "far" => req["A"].pc = "far" /\ s.new = req["A"].new,
           s.pc \in {"mkdir", "try", "wait"} =>
               \/ req["A"].pc \in {"mkdir", "try", "wait"} /\ s.hosts = req["A"].hosts
               \/ req["A"].pc = "far" /\ s.hosts = req["A"].new
    PROVE  KeptSoFar'
<1> SUFFICES ASSUME unsteady' = {}, s.sel # None
             PROVE  /\ s.pc = "far" => EnoughKept(s.new)'
                    /\ s.pc \in {"mkdir", "try", "wait"} => EnoughKept(s.hosts)'
  BY KeptTo
<1>1. unsteady = {} /\ \A hosts : EnoughKept(hosts)' <=> EnoughKept(hosts)
  BY ClosestSame
<1>2. /\ req["A"].pc = "far" => EnoughKept(req["A"].new)
      /\ req["A"].pc \in {"mkdir", "try", "wait"} => EnoughKept(req["A"].hosts)
  BY <1>1, KeptNow
<1> QED
  BY <1>1, <1>2

LEMMA KeptSelect ==
    ASSUME TruthInv, ListInv, ~Device, Select("A")
    PROVE  KeptSoFar'
<1>0. PICK s, r : s = req'["A"] /\ r = req["A"]
  OBVIOUS
<1>1. /\ TypeOK /\ req \in [Request -> RequestRecord] /\ r \in RequestRecord /\ r.pc = "near"
      /\ "A" \in Request /\ ProbedNear(r) /\ Cursor(r) /\ r.sel = None
      /\ conf' = conf /\ UNCHANGED <<health, unsteady>>
  BY <1>0 DEF TruthInv, TypeOK, ListInv, Select, srvVars, Request, Cursors, ProbedNear
<1> DEFINE sel == Selected(SubSeq(r.hosts, r.first, r.i - 1))
           new == Chosen(SubSeq(r.hosts, 1, r.i - 1), sel)
<1>2. CASE Goto("A", "mkdir")
  <2>1. s.sel = None
    BY <1>0, <1>1, <1>2 DEF Goto, RequestRecord
  <2> QED
    BY <1>0, <2>1, KeptTo
<1>3. CASE /\ ~(r.first > Len(r.hosts)) /\ ~IsNear(r)
           /\ req' = [req EXCEPT !["A"] = [r EXCEPT !.pc = "far", !.sel = sel, !.new = new]]
  <2>1. r.first <= Len(r.hosts)
    BY <1>1, <1>3 DEF RequestRecord
  <2>2. unsteady = {} => EnoughKept(new)
    BY <1>1, <1>3, <2>1, MajoritySelected
  <2> HIDE DEF sel, new
  <2>3. s.pc = "far" /\ s.new = new
    BY <1>0, <1>1, <1>3 DEF RequestRecord
  <2>4. unsteady' = {} => (EnoughKept(new)' <=> EnoughKept(new))
    <3>1. Steadier
      BY <1>1 DEF Steadier
    <3> QED
      BY <1>1, <3>1, ClosestSame
  <2> QED
    BY <1>0, <1>1, <2>2, <2>3, <2>4, KeptTo
<1> QED
  BY <1>0, <1>2, <1>3 DEF Select

LEMMA KeptProbeFar ==
    ASSUME TruthInv, ListInv, KeptSoFar, ~Device, ProbeFar("A")
    PROVE  KeptSoFar'
<1>0. PICK s, r : s = req'["A"] /\ r = req["A"]
  OBVIOUS
<1>1. /\ TypeOK /\ req \in [Request -> RequestRecord] /\ r \in RequestRecord /\ r.pc = "far"
      /\ "A" \in Request /\ Cursor(r) /\ conf' = conf /\ UNCHANGED <<health, unsteady>> /\ Steadier
      /\ r.hosts \in Seq(HostRecord) /\ r.new \in Seq(HostRecord) /\ r.i \in Nat /\ r.i # 0 /\ r.sel \in VP
  <2>1. r.pc = "far" /\ conf' = conf /\ UNCHANGED <<health, unsteady>>
    BY <1>0, ProbeFarIs, ProbingFrame
  <2>2. TypeOK /\ req \in [Request -> RequestRecord] /\ r \in RequestRecord /\ "A" \in Request /\ Cursor(r)
    BY <1>0 DEF TruthInv, TypeOK, Request, Cursors
  <2> QED
    BY <2>1, <2>2 DEF Cursor, RequestRecord, Steadier
<1> DEFINE h == r.hosts[r.i]
           probe(t) == get_supported_ver_and_cost(h, Answers(h.srv), r.sel, conf, t)
<1>2. PICK t \in 1..MaxTime : req' = [req EXCEPT !["A"] =
                IF r.i > Len(r.hosts) THEN [r EXCEPT !.pc = "mkdir", !.hosts = r.new, !.new = <<>>, !.i = 0]
                ELSE IF ~(conf.hostname /\ r.prev = h.ent) /\ probe(t).status
                     THEN [r EXCEPT !.i = @ + 1, !.new = add_host(r.new, probe(t).host), !.prev = h.ent]
                ELSE [r EXCEPT !.i = @ + 1]]
  BY <1>0, Zenon DEF ProbeFar
<1> DEFINE g == probe(t).host
<1>3. ~(r.i > Len(r.hosts)) => g \in HostRecord
  <2> SUFFICES ASSUME ~(r.i > Len(r.hosts)) PROVE g \in HostRecord
    OBVIOUS
  <2>1. h \in HostRecord /\ t \in Nat
    BY <1>1
  <2> QED
    BY <1>1, <2>1, SupportedVerAndCost
<1> HIDE DEF probe, h
<1>4. \/ s = [r EXCEPT !.pc = "mkdir", !.hosts = r.new, !.new = <<>>, !.i = 0]
      \/ ~(r.i > Len(r.hosts)) /\ s = [r EXCEPT !.i = @ + 1, !.new = add_host(r.new, g), !.prev = h.ent]
      \/ s = [r EXCEPT !.i = @ + 1]
  BY <1>0, <1>1, <1>2
<1>5. CASE s = [r EXCEPT !.pc = "mkdir", !.hosts = r.new, !.new = <<>>, !.i = 0]
  <2>1. s.pc = "mkdir" /\ s.hosts = r.new /\ s.sel = r.sel
    BY <1>1, <1>5 DEF RequestRecord
  <2> QED
    BY <1>0, <1>1, <2>1, KeptFrame
<1>6. CASE s = [r EXCEPT !.i = @ + 1]
  <2>1. s.pc = "far" /\ s.new = r.new /\ s.sel = r.sel
    BY <1>1, <1>6 DEF RequestRecord
  <2> QED
    BY <1>0, <1>1, <2>1, KeptFrame
<1>7. CASE ~(r.i > Len(r.hosts)) /\ s = [r EXCEPT !.i = @ + 1, !.new = add_host(r.new, g), !.prev = h.ent]
  <2> HIDE DEF g
  <2>0. PICK added : added = add_host(r.new, g)
    OBVIOUS
  <2>1. s.pc = "far" /\ s.new = added /\ s.sel = r.sel
    BY <1>1, <1>7, <2>0 DEF RequestRecord
  <2>2. g \in HostRecord
    BY <1>3, <1>7
  <2>3. PICK k \in 1..(Len(r.new) + 1) : added = InsertAt(r.new, k, g)
    BY <1>1, <2>0, <2>2, AddHostAt
  <2>4. /\ Cardinality(At(added, Near)) = Cardinality(At(r.new, Near)) + (IF g \in Near THEN 1 ELSE 0)
        /\ Cardinality(At(r.new, Near)) \in Nat
    BY <1>1, <2>2, <2>3, InsertAtCount
  <2>5. added \in Seq(HostRecord)
    BY <1>1, <2>0, <2>2, AddHost
  <2>6. /\ Cardinality(KeptOf(r.new)) <= Cardinality(KeptOf(added))
        /\ Cardinality(KeptOf(r.new)) \in Nat /\ Cardinality(KeptOf(added)) \in Nat
    BY <1>1, <2>4, <2>5, KeptAt
  <2>7. EnoughKept(r.new) => EnoughKept(added)
    <3> SUFFICES ASSUME EnoughKept(r.new), NEW vp \in Asked
                 PROVE  Cardinality(Supporting(vp)) <= Cardinality(KeptOf(added))
      BY DEF EnoughKept
    <3>1. Cardinality(Supporting(vp)) <= Cardinality(KeptOf(r.new))
      BY DEF EnoughKept
    <3>2. Cardinality(Supporting(vp)) \in Nat
      BY <1>1, SupportingNat
    <3> QED
      BY <2>6, <3>1, <3>2
  <2>8. unsteady' = {} /\ r.sel # None => EnoughKept(r.new)
    BY <1>0, <1>1, KeptNow
  <2>9. unsteady' = {} => (EnoughKept(added)' <=> EnoughKept(added))
    BY <1>1, ClosestSame
  <2> QED
    BY <1>0, <2>1, <2>7, <2>8, <2>9, KeptTo
<1> QED
  BY <1>4, <1>5, <1>6, <1>7

LEMMA KeptTrying ==
    ASSUME TruthInv, ListInv, KeptSoFar, ~Device, Mkdir("A") \/ Try("A") \/ Returned("A")
    PROVE  KeptSoFar'
<1>0. PICK s, r : s = req'["A"] /\ r = req["A"]
  OBVIOUS
<1>1. /\ TypeOK /\ req \in [Request -> RequestRecord] /\ r \in RequestRecord /\ r.pc \in {"mkdir", "try", "wait"}
      /\ "A" \in Request /\ conf' = conf /\ Steadier
  BY <1>0 DEF TruthInv, TypeOK, Mkdir, Try, Returned, srvVars, Request, Steadier
<1>2. s.hosts = r.hosts /\ s.sel = r.sel /\ s.pc \in {"try", "check", "wait", "done"}
  <2>1. ASSUME NEW ret, Ended("A", ret) PROVE s.hosts = r.hosts /\ s.sel = r.sel /\ s.pc = "done"
    BY <1>0, <1>1, <2>1 DEF Ended, RequestRecord
  <2>2. CASE NextHost("A")
    BY <1>0, <1>1, <2>2 DEF NextHost, RequestRecord
  <2>3. ASSUME NEW prog, Spawn("A", prog) PROVE s.hosts = r.hosts /\ s.sel = r.sel /\ s.pc = "wait"
    BY <1>0, <1>1, <2>3 DEF Spawn, Goto, RequestRecord
  <2>4. CASE req' = [req EXCEPT !["A"].existed = "A" \in dir, !["A"].i = 1,
                            !["A"].pc = IF "A" = "A" /\ conf.kind \in {"ext2", "changer"} THEN "check" ELSE "try"]
    BY <1>0, <1>1, <2>4 DEF RequestRecord
  <2>5. CASE Mkdir("A")
    BY <2>1, <2>4, <2>5 DEF Mkdir
  <2>6. CASE Try("A")
    BY <2>1, <2>2, <2>3, <2>6 DEF Try
  <2>7. CASE Returned("A")
    BY <2>1, <2>2, <2>3, <2>7 DEF Returned
  <2> QED
    BY <2>5, <2>6, <2>7
<1> QED
  BY <1>0, <1>1, <1>2, KeptFrame

\* Before a version is selected.
LEMMA KeptBefore ==
    ASSUME TruthInv, ListInv, ~Device, prune_host_list("A") \/ ProbeNear("A") \/ BeginA
    PROVE  KeptSoFar'
<1>0. PICK s, r : s = req'["A"] /\ r = req["A"]
  OBVIOUS
<1>1. req \in [Request -> RequestRecord] /\ r \in RequestRecord /\ "A" \in Request
  BY <1>0 DEF TruthInv, TypeOK, Request
<1>2. CASE prune_host_list("A")
  <2>1. r.sel = None
    <3>1. r.pc = "prune"
      BY <1>0, <1>2, Zenon DEF prune_host_list
    <3> QED
      BY <1>0, <3>1 DEF ListInv, Pruning
  <2>2. s.sel = None
    BY <1>0, <1>1, <1>2, <2>1 DEF prune_host_list, Goto, RequestRecord
  <2> QED
    BY <1>0, <2>2, KeptTo
<1>3. CASE ProbeNear("A")
  <2>1. r.sel = None
    BY <1>0, <1>3, ProbeNearIs DEF ListInv, ProbedNear
  <2>2. ASSUME NEW h PROVE [r EXCEPT !.hosts[r.i] = h, !.i = @ + 1].sel = None
    BY <1>1, <2>1 DEF RequestRecord
  <2>3. [r EXCEPT !.hosts = RemoveAt(r.hosts, r.i)].sel = None
    BY <1>1, <2>1 DEF RequestRecord
  <2>4. PICK h : s = [r EXCEPT !.hosts[r.i] = h, !.i = @ + 1] \/ s = [r EXCEPT !.hosts = RemoveAt(r.hosts, r.i)]
    <3>1. PICK h : \/ req' = [req EXCEPT !["A"] = [r EXCEPT !.hosts[r.i] = h, !.i = @ + 1]]
                   \/ req' = [req EXCEPT !["A"] = [r EXCEPT !.hosts = RemoveAt(r.hosts, r.i)]]
      BY <1>0, <1>3, ProbeNearIs
    <3> QED
      BY <1>0, <1>1, <3>1
  <2>5. s.sel = None
    BY <2>2, <2>3, <2>4
  <2> QED
    BY <1>0, <2>5, KeptTo
<1>4. CASE BeginA
  <2>1. s.sel = None
    BY <1>0, <1>4 DEF BeginA, Begin, NoReq
  <2> QED
    BY <1>0, <2>1, KeptTo
<1> QED
  BY <1>2, <1>3, <1>4

LEMMA KeptElsewhere ==
    ASSUME TruthInv, KeptSoFar, ~Device, Elsewhere \/ CallOfA
    PROVE  KeptSoFar'
<1>0. PICK s : s = req["A"]
  OBVIOUS
<1>1. TypeOK /\ conf' = conf /\ req'["A"] = s /\ Steadier
  BY <1>0, CallOfAKeeps DEF Elsewhere, TruthInv
<1> QED
  BY <1>0, <1>1, KeptFrame

LEMMA KeptInit == Init => KeptSoFar
<1> SUFFICES ASSUME Init PROVE KeptSoFar
  OBVIOUS
<1>1. req["A"] = NoReq
  BY DEF Init, Request
<1>2. req["A"].sel = None
  BY <1>1 DEF NoReq
<1> QED
  BY <1>2 DEF KeptSoFar

LEMMA KeptNext ==
    ASSUME TruthInv, ListInv, KeptSoFar, [Next]_vars
    PROVE  KeptSoFar'
<1>1. CASE Device
  BY <1>1, ConfKept, StaticFrame DEF KeptSoFar
<1>2. CASE ~Device
  BY <1>2, StepsOfA, KeptBefore, KeptSelect, KeptProbeFar, KeptTrying, KeptElsewhere DEF RequestOfA
<1> QED
  BY <1>1, <1>2

\* prune_host_list(): with nothing changing, as many of the closest servers that
\* answer are kept as are found to support any one version, for every location
\* and any number of servers.
THEOREM MajorityIsKept == Spec => []MajorityKept
<1>1. KeptSoFar => MajorityKept
  BY DEF KeptSoFar, MajorityKept, Trying
<1>2. Init => TruthInv /\ ListInv /\ KeptSoFar
  BY TruthInit, ListInit, KeptInit
<1>3. (TruthInv /\ ListInv /\ KeptSoFar) /\ [Next]_vars => (TruthInv /\ ListInv /\ KeptSoFar)'
  BY TruthNext, ListNext, KeptNext
<1> QED
  BY <1>1, <1>2, <1>3, PTL DEF Spec
=============================================================================
