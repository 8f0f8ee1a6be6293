-------------------------- MODULE OffsetTreeProofs --------------------------
(***************************************************************************)
(* Proofs about the offsets of a multi-mount, for any paths, any lists of  *)
(* exports and any number of requests and map reads: while no export is    *)
(* added above one that is in the tree, a trigger is nested in a trigger   *)
(* and the walk that umounts the multi-mount reaches all of them.          *)
(***************************************************************************)
EXTENDS OffsetTree, SequenceFacts

Entry == [age : 0..MaxClock, valid : BOOLEAN, parent : Node]

\* How the walks go down: the parent of an offset is above it, or the key.
Depth == [n \in Node |-> IF n = Root THEN 0 ELSE Rank[n]]

TreeTyped ==
    /\ tree \in [Node -> SUBSET Offset] /\ off \in [Offset -> Entry]
    /\ \A o \in Offset : off[o].parent \in Above[o] \cup {Root}
-----------------------------------------------------------------------------
\* The order of strcmp() numbers the nodes.
LEMMA RankFacts ==
    /\ Len(ByName) \in Nat /\ DOMAIN ByName = 1..Len(ByName)
    /\ Rank \in [Node -> 1..Len(ByName)]
    /\ \A n \in Node : ByName[Rank[n]] = n
    /\ \A i \in DOMAIN ByName : ByName[i] \in Node
<1>1. ByName \in Seq(Node) /\ ToSet(ByName) = Node
  BY OrderAssumption
<1>2. Len(ByName) \in Nat /\ DOMAIN ByName = 1..Len(ByName) /\ \A i \in DOMAIN ByName : ByName[i] \in Node
  BY <1>1
<1>3. \A n \in Node : \E i \in DOMAIN ByName : ByName[i] = n
  BY <1>1 DEF ToSet
<1>4. \A n \in Node : Rank[n] \in DOMAIN ByName /\ ByName[Rank[n]] = n
  BY <1>3, Zenon DEF Rank
<1>5. DOMAIN Rank = Node /\ Rank = [n \in Node |-> Rank[n]]
  BY DEF Rank
<1> QED
  BY <1>2, <1>4, <1>5

LEMMA DepthFacts ==
    /\ Len(ByName) \in Nat /\ Depth \in [Node -> 0..Len(ByName)]
    /\ \A o \in Offset : o \in Node /\ o # Root /\ \A p \in Above[o] : p \in Offset /\ p \in Node /\ Depth[p] < Depth[o]
    /\ \A o \in Offset : 0 < Depth[o]
    /\ Depth[Root] = 0 /\ Root \in Node
<1>1. Rank \in [Node -> 1..Len(ByName)] /\ Len(ByName) \in Nat
  BY RankFacts
<1>2. Root \notin Offset /\ Root \in Node /\ \A o \in Offset : o \in Node /\ o # Root
  BY NamesAssumption DEF Node
<1>3. \A o \in Offset : \A p \in Above[o] : p \in Offset /\ Rank[p] < Rank[o]
  BY AboveAssumption
<1>4. \A o \in Offset : Depth[o] = Rank[o]
  BY <1>2 DEF Depth
<1>5. Depth \in [Node -> 0..Len(ByName)] /\ Depth[Root] = 0
  BY <1>1, <1>2 DEF Depth
<1> QED
  BY <1>1, <1>2, <1>3, <1>4, <1>5

\* A set of nodes has a deepest one and one that is not below another.
LEMMA Deepest ==
    ASSUME NEW B \in SUBSET Node, B # {}
    PROVE  \E n \in B : \A m \in B : Depth[m] <= Depth[n]
<1> DEFINE D == {Len(ByName) - Depth[n] : n \in B}
<1>1. /\ \A n \in B : Depth[n] \in 0..Len(ByName) /\ Len(ByName) - Depth[n] \in D
      /\ Len(ByName) \in Nat
  BY DepthFacts
<1>2. D \in SUBSET Nat /\ D # {}
  BY <1>1
<1>3. PICK d \in D : \A e \in D : d <= e
  BY <1>2, Least
<1>4. PICK n \in B : d = Len(ByName) - Depth[n]
  BY <1>3
<1>5. \A m \in B : d <= Len(ByName) - Depth[m]
  BY <1>1, <1>3
<1>6. \A m \in B : Depth[m] <= Depth[n]
  <2> TAKE m \in B
  <2>1. Len(ByName) - Depth[n] <= Len(ByName) - Depth[m]
    BY <1>4, <1>5
  <2> QED
    BY <1>1, <2>1
<1> QED
  BY <1>6

LEMMA Shallowest ==
    ASSUME NEW B \in SUBSET Node, B # {}
    PROVE  \E n \in B : \A m \in B : Depth[n] <= Depth[m]
<1> DEFINE D == {Depth[n] : n \in B}
<1>1. \A n \in B : Depth[n] \in Nat /\ Depth[n] \in D
  BY DepthFacts
<1>2. D \in SUBSET Nat /\ D # {}
  BY <1>1
<1>3. PICK d \in D : \A e \in D : d <= e
  BY <1>2, Least
<1>4. PICK n \in B : d = Depth[n]
  BY <1>3
<1> QED
  BY <1>1, <1>3, <1>4

\* What a node is nested in comes before it.
LEMMA PartFacts ==
    ASSUME TreeTyped, NEW n \in Node, NEW c \in Part(n)
    PROVE  /\ c \in Offset /\ c \in Node /\ c # Slash /\ c \in tree[n] /\ off[c].parent = n
           /\ Depth[n] < Depth[c]
<1>1. c \in Offset /\ c # Slash /\ c \in tree[n] /\ off[c].parent = n
  BY DEF Part, TreeTyped
<1>2. n \in Above[c] \cup {Root}
  BY <1>1 DEF TreeTyped
<1> QED
  BY <1>1, <1>2, DepthFacts
-----------------------------------------------------------------------------
(* The orders of the walks are defined by recursion on the depth. *)

\* The walk below a node when w is what is visited for each offset there.
Walk(w, n) ==
    FlattenSeq([i \in DOMAIN ByName |-> IF ByName[i] \in Part(n) THEN w[ByName[i]] ELSE <<>>])

LEMMA WalkFacts ==
    ASSUME TreeTyped, NEW n \in Node, NEW w, \A c \in Part(n) : w[c] \in Seq(Offset)
    PROVE  /\ Walk(w, n) \in Seq(Offset)
           /\ \A y : y \in ToSet(Walk(w, n)) <=> \E c \in Part(n) : y \in ToSet(w[c])
<1> DEFINE ss == [i \in DOMAIN ByName |-> IF ByName[i] \in Part(n) THEN w[ByName[i]] ELSE <<>>]
<1>1. <<>> \in Seq(Offset) /\ ToSet(<<>>) = {}
  BY DEF ToSet
<1>2. \A i \in DOMAIN ByName : ss[i] \in Seq(Offset)
  BY <1>1
<1>3. ss \in Seq(Seq(Offset)) /\ Len(ss) = Len(ByName) /\ DOMAIN ByName = 1..Len(ByName)
  BY <1>2, RankFacts
<1>4. Walk(w, n) = FlattenSeq(ss)
  BY Zenon DEF Walk
<1>5. ASSUME NEW y PROVE (\E i \in 1..Len(ss) : y \in ToSet(ss[i])) <=> \E c \in Part(n) : y \in ToSet(w[c])
  <2>1. ASSUME NEW i \in 1..Len(ss), y \in ToSet(ss[i]) PROVE \E c \in Part(n) : y \in ToSet(w[c])
    BY <1>1, <1>3, <2>1
  <2>2. ASSUME NEW c \in Part(n), y \in ToSet(w[c]) PROVE \E i \in 1..Len(ss) : y \in ToSet(ss[i])
    <3>1. c \in Node
      BY PartFacts
    <3>2. Rank[c] \in 1..Len(ss) /\ ByName[Rank[c]] = c
      BY <1>3, <3>1, RankFacts
    <3>3. ss[Rank[c]] = w[c]
      BY <1>3, <3>2
    <3> QED
      BY <2>2, <3>2, <3>3
  <2> QED
    BY <2>1, <2>2
<1> HIDE DEF ss
<1>6. FlattenSeq(ss) \in Seq(Offset)
  BY <1>3, FlattenType
<1>7. \A y : y \in ToSet(FlattenSeq(ss)) <=> \E i \in 1..Len(ss) : y \in ToSet(ss[i])
  BY <1>3, FlattenElements
<1> QED
  BY <1>4, <1>5, <1>6, <1>7, Zenon

\* What is visited only matters for the offsets there.
LEMMA WalkSame ==
    ASSUME NEW n \in Node, NEW w, NEW x, \A c \in Part(n) : w[c] = x[c]
    PROVE  Walk(w, n) = Walk(x, n)
<1>1. \A i \in DOMAIN ByName :
        (IF ByName[i] \in Part(n) THEN w[ByName[i]] ELSE <<>>) = IF ByName[i] \in Part(n) THEN x[ByName[i]] ELSE <<>>
  OBVIOUS
<1>2. [i \in DOMAIN ByName |-> IF ByName[i] \in Part(n) THEN w[ByName[i]] ELSE <<>>]
      = [i \in DOMAIN ByName |-> IF ByName[i] \in Part(n) THEN x[ByName[i]] ELSE <<>>]
  BY <1>1, Zenon
<1> QED
  BY <1>2, Zenon DEF Walk

\* A walk that goes on below some of the nodes is defined: Pre and Post are what
\* is visited before and after, Deep the nodes it goes on below.
Visit(f, pre, post, deep) ==
    [o \in Offset |-> (pre[o] \o IF o \in deep THEN f[o] ELSE <<>>) \o post[o]]

LEMMA WalkExists ==
    ASSUME TreeTyped, NEW pre \in [Offset -> Seq(Offset)], NEW post \in [Offset -> Seq(Offset)], NEW deep
    PROVE  \E f \in [Node -> Seq(Offset)] : \A n \in Node : f[n] = Walk(Visit(f, pre, post, deep), n)
<1> DEFINE F == [Node -> Seq(Offset)]
           B == [p \in F \X Node |-> Walk(Visit(p[1], pre, post, deep), p[2])]
<1>1. \A f \in F : \A n \in Node : \A c \in Part(n) : Visit(f, pre, post, deep)[c] \in Seq(Offset)
  <2> TAKE f \in F
  <2> TAKE n \in Node
  <2> TAKE c \in Part(n)
  <2>1. c \in Offset /\ c \in Node
    BY PartFacts
  <2>2. f[c] \in Seq(Offset) /\ pre[c] \in Seq(Offset) /\ post[c] \in Seq(Offset) /\ <<>> \in Seq(Offset)
    BY <2>1
  <2>3. (pre[c] \o IF c \in deep THEN f[c] ELSE <<>>) \in Seq(Offset)
    BY <2>2
  <2>4. ((pre[c] \o IF c \in deep THEN f[c] ELSE <<>>) \o post[c]) \in Seq(Offset)
    BY <2>2, <2>3
  <2> QED
    BY <2>1, <2>4, Zenon DEF Visit
<1>2. \A f \in F : \A n \in Node : Walk(Visit(f, pre, post, deep), n) \in Seq(Offset)
  BY <1>1, WalkFacts, Zenon
<1>3. B \in [F \X Node -> Seq(Offset)]
  BY <1>2
<1>4. ASSUME NEW f \in F, NEW g \in F, NEW n \in Node,
             \A c \in Node : Depth[n] < Depth[c] => f[c] = g[c]
      PROVE  B[<<f, n>>] = B[<<g, n>>]
  <2>1. \A c \in Part(n) : c \in Offset /\ f[c] = g[c]
    BY <1>4, PartFacts
  <2>2. \A c \in Part(n) : Visit(f, pre, post, deep)[c] = Visit(g, pre, post, deep)[c]
    BY <2>1, Zenon DEF Visit
  <2>3. Walk(Visit(f, pre, post, deep), n) = Walk(Visit(g, pre, post, deep), n)
    BY <2>2, WalkSame, Zenon
  <2> QED
    BY <2>3
<1>5. \A f \in F : \A n \in Node : B[<<f, n>>] = Walk(Visit(f, pre, post, deep), n)
  OBVIOUS
<1> HIDE DEF B
<1>6. <<>> \in Seq(Offset)
  OBVIOUS
<1>7. \E f \in F : \A n \in Node : f[n] = B[<<f, n>>]
  <2>1. \A f, g \in [Node -> Seq(Offset)] : \A n \in Node :
          (\A c \in Node : Depth[n] < Depth[c] => f[c] = g[c]) => B[<<f, n>>] = B[<<g, n>>]
    BY <1>4, Zenon
  <2>2. B \in [[Node -> Seq(Offset)] \X Node -> Seq(Offset)]
    BY <1>3, Zenon
  <2>3. Depth \in [Node -> 0..Len(ByName)] /\ Len(ByName) \in Nat
    BY DepthFacts, Zenon
  <2> DEFINE T == Seq(Offset)
             z == <<>>
             m == Len(ByName)
  <2>4. Recursive(Node, T, z, m, Depth, B)
    BY <1>6, <2>1, <2>2, <2>3, Zenon DEF Recursive
  <2> HIDE DEF T, z, m
  <2>5. \E f \in [Node -> T] : \A n \in Node : f[n] = B[<<f, n>>]
    BY <2>4, RecursionExists
  <2> QED
    BY <2>5, Zenon DEF T
<1> QED
  BY <1>5, <1>7, Zenon

\* The order of the umounts is what its recursive definition says.
LEMMA UmountDefined ==
    ASSUME TreeTyped
    PROVE  \A n \in Node : /\ UmountOrder(n) \in Seq(Offset)
                           /\ UmountOrder(n) = Walk([o \in Offset |-> UmountOrder(o) \o <<o>>], n)
<1> DEFINE pre == [o \in Offset |-> <<>>]
           post == [o \in Offset |-> <<o>>]
           W(g) == [o \in Offset |-> g[o] \o <<o>>]
           Body(g) == [n \in Node |-> FlattenSeq([i \in DOMAIN ByName |->
                         IF ByName[i] \in Part(n) THEN g[ByName[i]] \o <<ByName[i]>> ELSE <<>>])]
           u == CHOOSE g : g = Body(g)
<1>1. PICK f \in [Node -> Seq(Offset)] : \A n \in Node : f[n] = Walk(Visit(f, pre, post, Offset), n)
  <2>1. pre \in [Offset -> Seq(Offset)] /\ post \in [Offset -> Seq(Offset)]
    OBVIOUS
  <2> HIDE DEF pre, post
  <2>2. \A deep : \E f \in [Node -> Seq(Offset)] :
          \A n \in Node : f[n] = Walk(Visit(f, pre, post, deep), n)
    BY <2>1, WalkExists
  <2> QED
    BY <2>2, Zenon
<1>2. \A n \in Node : f[n] = Walk(W(f), n)
  <2> TAKE n \in Node
  <2>1. ASSUME NEW c \in Part(n) PROVE Visit(f, pre, post, Offset)[c] = W(f)[c]
    <3>1. c \in Offset /\ c \in Node
      BY PartFacts
    <3>2. f[c] \in Seq(Offset)
      BY <3>1
    <3>3. <<>> \o f[c] = f[c]
      BY <3>2
    <3> QED
      BY <3>1, <3>3 DEF Visit
  <2>2. Walk(Visit(f, pre, post, Offset), n) = Walk(W(f), n)
    BY <2>1, WalkSame, Zenon
  <2> QED
    BY <1>1, <2>2, Zenon
<1>3. ASSUME NEW g, NEW n \in Node PROVE Body(g)[n] = Walk(W(g), n)
  <2>1. \A i \in DOMAIN ByName : ByName[i] \in Part(n) => g[ByName[i]] \o <<ByName[i]>> = W(g)[ByName[i]]
    BY PartFacts
  <2>2. [i \in DOMAIN ByName |-> IF ByName[i] \in Part(n) THEN g[ByName[i]] \o <<ByName[i]>> ELSE <<>>]
        = [i \in DOMAIN ByName |-> IF ByName[i] \in Part(n) THEN W(g)[ByName[i]] ELSE <<>>]
    BY <2>1, Zenon
  <2>3. Body(g)[n] = FlattenSeq([i \in DOMAIN ByName |->
                       IF ByName[i] \in Part(n) THEN g[ByName[i]] \o <<ByName[i]>> ELSE <<>>])
    BY Zenon
  <2> QED
    BY <2>2, <2>3, Zenon DEF Walk
<1>4. f = Body(f)
  <2>1. \A n \in Node : f[n] = Body(f)[n]
    BY <1>2, <1>3, Zenon
  <2>2. DOMAIN Body(f) = Node /\ Body(f) = [n \in Node |-> Body(f)[n]]
    OBVIOUS
  <2> HIDE DEF Body
  <2> QED
    BY <2>1, <2>2
<1>5. u = Body(u)
  BY <1>4, Zenon
<1>6. \A n \in Node : UmountOrder(n) = u[n]
  BY Zenon DEF UmountOrder, tree_mapent_traverse_subtree
<1> HIDE DEF u
<1>7. \A n \in Node : u[n] = Walk(W(u), n)
  <2>1. \A n \in Node : u[n] = Body(u)[n]
    BY <1>5, Zenon
  <2> QED
    BY <1>3, <2>1, Zenon
<1> HIDE DEF Body
<1>8. \A n \in Node : u[n] = f[n]
  <2> DEFINE Bad == {n \in Node : u[n] # f[n]}
  <2>1. SUFFICES ASSUME Bad # {} PROVE FALSE
    OBVIOUS
  <2>2. PICK n \in Bad : \A m \in Bad : Depth[m] <= Depth[n]
    BY <2>1, Deepest
  <2>3. ASSUME NEW c \in Part(n) PROVE W(u)[c] = W(f)[c]
    <3>1. c \in Offset /\ c \in Node /\ Depth[n] < Depth[c] /\ Depth[c] \in Nat /\ Depth[n] \in Nat
      BY PartFacts, DepthFacts
    <3>2. u[c] = f[c]
      BY <2>2, <3>1
    <3> QED
      BY <3>1, <3>2
  <2>4. Walk(W(u), n) = Walk(W(f), n)
    BY <2>3, WalkSame, Zenon
  <2> QED
    BY <1>2, <1>7, <2>4, Zenon
<1>9. ASSUME NEW n \in Node PROVE Walk(W(u), n) = Walk([o \in Offset |-> UmountOrder(o) \o <<o>>], n)
  <2> DEFINE x == [o \in Offset |-> UmountOrder(o) \o <<o>>]
  <2>1. \A c \in Part(n) : W(u)[c] = x[c]
    <3> TAKE c \in Part(n)
    <3>1. c \in Offset /\ c \in Node
      BY PartFacts
    <3>2. u[c] = UmountOrder(c)
      BY <1>6, <3>1, Zenon
    <3> QED
      BY <3>1, <3>2, Zenon
  <2> HIDE DEF x, W
  <2>2. Walk(W(u), n) = Walk(x, n)
    BY <2>1, WalkSame, Zenon
  <2> QED
    BY <2>2, Zenon DEF x
<1> QED
  <2> TAKE n \in Node
  <2>1. UmountOrder(n) = f[n] /\ f[n] \in Seq(Offset)
    BY <1>1, <1>6, <1>8, Zenon
  <2> QED
    BY <1>6, <1>7, <1>9, <2>1, Zenon

\* It has the offsets nested in the node, each after those nested in it.
LEMMA UmountElements ==
    ASSUME TreeTyped, NEW n \in Node
    PROVE  /\ UmountOrder(n) \in Seq(Offset)
           /\ \A y : y \in ToSet(UmountOrder(n))
                       <=> \E c \in Part(n) : y = c \/ y \in ToSet(UmountOrder(c))
<1> DEFINE x == [o \in Offset |-> UmountOrder(o) \o <<o>>]
<1>1. UmountOrder(n) \in Seq(Offset) /\ UmountOrder(n) = Walk(x, n)
  BY UmountDefined, Zenon
<1>2. ASSUME NEW c \in Part(n)
      PROVE  x[c] \in Seq(Offset) /\ \A y : y \in ToSet(x[c]) <=> y = c \/ y \in ToSet(UmountOrder(c))
  <2>1. c \in Offset /\ c \in Node
    BY PartFacts
  <2>2. UmountOrder(c) \in Seq(Offset)
    BY <2>1, UmountDefined
  <2> DEFINE s == UmountOrder(c)
  <2>3. x[c] = Append(s, c)
    BY <2>1, <2>2
  <2> HIDE DEF s, x
  <2>4. Append(s, c) \in Seq(Offset) /\ ToSet(Append(s, c)) = ToSet(s) \cup {c}
    BY <2>1, <2>2, AppendFacts DEF s
  <2> QED
    BY <2>3, <2>4 DEF s
<1> HIDE DEF x
<1>3. \A y : y \in ToSet(Walk(x, n)) <=> \E c \in Part(n) : y \in ToSet(x[c])
  BY <1>2, WalkFacts, Zenon
<1> QED
  BY <1>1, <1>2, <1>3, Zenon

\* An offset that is umounted is nested in the node, or in one that is.
LEMMA UmountNested ==
    ASSUME TreeTyped
    PROVE  \A n \in Node : \A y \in ToSet(UmountOrder(n)) :
             /\ y \in Offset /\ Depth[n] < Depth[y]
             /\ off[y].parent = n \/ off[y].parent \in ToSet(UmountOrder(n))
<1> DEFINE P(n, y) == /\ y \in Offset /\ Depth[n] < Depth[y]
                      /\ off[y].parent = n \/ off[y].parent \in ToSet(UmountOrder(n))
           Bad == {n \in Node : \E y \in ToSet(UmountOrder(n)) : ~P(n, y)}
<1>1. SUFFICES ASSUME Bad # {} PROVE FALSE
  OBVIOUS
<1>2. PICK n \in Bad : \A m \in Bad : Depth[m] <= Depth[n]
  BY <1>1, Deepest
<1>3. PICK y \in ToSet(UmountOrder(n)) : ~P(n, y)
  OBVIOUS
<1>4. PICK c \in Part(n) : y = c \/ y \in ToSet(UmountOrder(c))
  BY UmountElements, Zenon
<1>5. c \in Offset /\ c \in Node /\ off[c].parent = n /\ Depth[n] < Depth[c] /\ Depth[c] \in Nat /\ Depth[n] \in Nat
  BY PartFacts, DepthFacts
<1>6. c \in ToSet(UmountOrder(n)) /\ \A z \in ToSet(UmountOrder(c)) : z \in ToSet(UmountOrder(n))
  BY UmountElements, Zenon
<1>7. CASE y = c
  BY <1>3, <1>5, <1>7
<1>8. CASE y \in ToSet(UmountOrder(c))
  <2>1. c \notin Bad
    BY <1>2, <1>5
  <2>2. P(c, y)
    BY <1>5, <1>8, <2>1
  <2>3. off[y].parent \in ToSet(UmountOrder(n))
    BY <1>6, <2>2, Zenon
  <2>4. Depth[n] < Depth[y]
    <3>1. Depth[y] \in Nat
      BY <2>2, DepthFacts
    <3> QED
      BY <1>5, <2>2, <3>1
  <2> QED
    BY <1>3, <2>2, <2>3, <2>4
<1> QED
  BY <1>4, <1>7, <1>8

\* What is nested in an offset that is umounted is umounted.
LEMMA UmountDown ==
    ASSUME TreeTyped
    PROVE  \A n \in Node : \A y \in ToSet(UmountOrder(n)) : \A d \in Part(y) : d \in ToSet(UmountOrder(n))
<1> DEFINE Bad == {n \in Node : \E y \in ToSet(UmountOrder(n)) : \E d \in Part(y) : d \notin ToSet(UmountOrder(n))}
<1>1. SUFFICES ASSUME Bad # {} PROVE FALSE
  OBVIOUS
<1>2. PICK n \in Bad : \A m \in Bad : Depth[m] <= Depth[n]
  BY <1>1, Deepest
<1>3. PICK y \in ToSet(UmountOrder(n)) : \E d \in Part(y) : d \notin ToSet(UmountOrder(n))
  OBVIOUS
<1>4. PICK d \in Part(y) : d \notin ToSet(UmountOrder(n))
  BY <1>3
<1>5. PICK c \in Part(n) : y = c \/ y \in ToSet(UmountOrder(c))
  BY UmountElements, Zenon
<1>6. c \in Node /\ Depth[n] < Depth[c] /\ Depth[c] \in Nat /\ Depth[n] \in Nat
  BY PartFacts, DepthFacts
<1>7. \A z \in ToSet(UmountOrder(c)) : z \in ToSet(UmountOrder(n))
  BY UmountElements, Zenon
<1>8. CASE y = c
  <2>1. d \in ToSet(UmountOrder(c))
    BY <1>6, <1>8, UmountElements, Zenon
  <2> QED
    BY <1>4, <1>7, <2>1
<1>9. CASE y \in ToSet(UmountOrder(c))
  <2>1. c \notin Bad
    BY <1>2, <1>6
  <2>2. d \in ToSet(UmountOrder(c))
    BY <1>6, <1>9, <2>1
  <2> QED
    BY <1>4, <1>7, <2>2
<1> QED
  BY <1>5, <1>8, <1>9

\* A set of offsets each of which is in its place, nested in one of the set or
\* in the key, is umounted with the key.
LEMMA UmountReaches ==
    ASSUME TreeTyped, NEW T \in SUBSET Offset,
           \A o \in T : o \in Part(off[o].parent) /\ off[o].parent \in T \cup {Root}
    PROVE  T \subseteq ToSet(UmountOrder(Root))
<1> DEFINE Bad == {o \in T : o \notin ToSet(UmountOrder(Root))}
<1>1. SUFFICES ASSUME Bad # {} PROVE FALSE
  OBVIOUS
<1>2. PICK o \in Bad : \A m \in Bad : Depth[o] <= Depth[m]
  <2>1. Bad \in SUBSET Node
    BY DepthFacts
  <2> QED
    BY <1>1, <2>1, Shallowest
<1> DEFINE p == off[o].parent
<1>3. o \in Part(p) /\ p \in T \cup {Root} /\ p \in Node /\ Root \in Node
  BY DepthFacts
<1>4. CASE p = Root
  BY <1>3, <1>4, UmountElements, Zenon
<1>5. CASE p \in T
  <2>1. Depth[p] < Depth[o] /\ Depth[p] \in Nat /\ Depth[o] \in Nat
    BY <1>3, PartFacts, DepthFacts
  <2>2. p \in ToSet(UmountOrder(Root))
    BY <1>2, <1>5, <2>1
  <2>3. o \in ToSet(UmountOrder(Root))
    BY <1>3, <2>2, UmountDown, Zenon
  <2> QED
    BY <2>3
<1> QED
  BY <1>3, <1>4, <1>5
-----------------------------------------------------------------------------
\* The offsets a walk that mounts goes on below.
Into(deep) == {o \in Offset : deep /\ o \in real /\ off[o].valid /\ off[o].age = root.age}

\* The order of the mounts is what its recursive definition says.
LEMMA MountDefined ==
    ASSUME TreeTyped, NEW deep
    PROVE  \A n \in Node :
             /\ MountOrder(n, deep) \in Seq(Offset)
             /\ MountOrder(n, deep) = Walk([o \in Offset |-> <<o>> \o IF o \in Into(deep)
                                              THEN MountOrder(o, deep) ELSE <<>>], n)
<1> DEFINE into(o) == deep /\ o \in real /\ off[o].valid /\ off[o].age = root.age
           pre == [o \in Offset |-> <<o>>]
           post == [o \in Offset |-> <<>>]
           W(g) == [o \in Offset |-> <<o>> \o IF o \in Into(deep) THEN g[o] ELSE <<>>]
           Body(g) == [n \in Node |-> FlattenSeq([i \in DOMAIN ByName |->
                         IF ByName[i] \in Part(n)
                         THEN <<ByName[i]>> \o IF into(ByName[i]) THEN g[ByName[i]] ELSE <<>>
                         ELSE <<>>])]
           u == CHOOSE g : g = Body(g)
<1>1. PICK f \in [Node -> Seq(Offset)] : \A n \in Node : f[n] = Walk(Visit(f, pre, post, Into(deep)), n)
  <2>1. pre \in [Offset -> Seq(Offset)] /\ post \in [Offset -> Seq(Offset)]
    OBVIOUS
  <2> HIDE DEF pre, post
  <2>2. \A x : \E f \in [Node -> Seq(Offset)] :
          \A n \in Node : f[n] = Walk(Visit(f, pre, post, x), n)
    BY <2>1, WalkExists
  <2> QED
    BY <2>2, Zenon
<1>2. \A n \in Node : f[n] = Walk(W(f), n)
  <2> TAKE n \in Node
  <2>1. ASSUME NEW c \in Part(n) PROVE Visit(f, pre, post, Into(deep))[c] = W(f)[c]
    <3>1. c \in Offset /\ c \in Node
      BY PartFacts
    <3> DEFINE t == IF c \in Into(deep) THEN f[c] ELSE <<>>
    <3>2. t \in Seq(Offset) /\ <<c>> \in Seq(Offset)
      BY <3>1
    <3>3. Visit(f, pre, post, Into(deep))[c] = (<<c>> \o t) \o <<>> /\ W(f)[c] = <<c>> \o t
      BY <3>1, Zenon DEF Visit
    <3> HIDE DEF t
    <3>4. (<<c>> \o t) \o <<>> = <<c>> \o t
      BY <3>2
    <3> QED
      BY <3>3, <3>4, Zenon
  <2>2. Walk(Visit(f, pre, post, Into(deep)), n) = Walk(W(f), n)
    BY <2>1, WalkSame, Zenon
  <2> QED
    BY <1>1, <2>2, Zenon
<1>3. ASSUME NEW g, NEW n \in Node PROVE Body(g)[n] = Walk(W(g), n)
  <2>1. \A i \in DOMAIN ByName : ByName[i] \in Part(n) =>
          <<ByName[i]>> \o (IF into(ByName[i]) THEN g[ByName[i]] ELSE <<>>) = W(g)[ByName[i]]
    <3> SUFFICES ASSUME NEW i \in DOMAIN ByName, ByName[i] \in Part(n)
                 PROVE  <<ByName[i]>> \o (IF into(ByName[i]) THEN g[ByName[i]] ELSE <<>>) = W(g)[ByName[i]]
      OBVIOUS
    <3>1. ByName[i] \in Offset
      BY PartFacts
    <3>2. into(ByName[i]) <=> ByName[i] \in Into(deep)
      BY <3>1 DEF Into
    <3> HIDE DEF into
    <3> QED
      BY <3>1, <3>2
  <2>2. [i \in DOMAIN ByName |-> IF ByName[i] \in Part(n)
                                 THEN <<ByName[i]>> \o IF into(ByName[i]) THEN g[ByName[i]] ELSE <<>>
                                 ELSE <<>>]
        = [i \in DOMAIN ByName |-> IF ByName[i] \in Part(n) THEN W(g)[ByName[i]] ELSE <<>>]
    BY <2>1, Zenon
  <2>3. Body(g)[n] = FlattenSeq([i \in DOMAIN ByName |-> IF ByName[i] \in Part(n)
                                 THEN <<ByName[i]>> \o IF into(ByName[i]) THEN g[ByName[i]] ELSE <<>>
                                 ELSE <<>>])
    BY Zenon
  <2> QED
    BY <2>2, <2>3, Zenon DEF Walk
<1>4. f = Body(f)
  <2>1. \A n \in Node : f[n] = Body(f)[n]
    BY <1>2, <1>3, Zenon
  <2>2. DOMAIN Body(f) = Node /\ Body(f) = [n \in Node |-> Body(f)[n]]
    OBVIOUS
  <2> HIDE DEF Body
  <2> QED
    BY <2>1, <2>2
<1>5. u = Body(u)
  BY <1>4, Zenon
<1>6. \A n \in Node : MountOrder(n, deep) = u[n]
  BY Zenon DEF MountOrder, tree_mapent_traverse_subtree
<1> HIDE DEF u
<1>7. \A n \in Node : u[n] = Walk(W(u), n)
  <2>1. \A n \in Node : u[n] = Body(u)[n]
    BY <1>5, Zenon
  <2> QED
    BY <1>3, <2>1, Zenon
<1> HIDE DEF Body
<1>8. \A n \in Node : u[n] = f[n]
  <2> DEFINE Bad == {n \in Node : u[n] # f[n]}
  <2>1. SUFFICES ASSUME Bad # {} PROVE FALSE
    OBVIOUS
  <2>2. PICK n \in Bad : \A m \in Bad : Depth[m] <= Depth[n]
    BY <2>1, Deepest
  <2>3. ASSUME NEW c \in Part(n) PROVE W(u)[c] = W(f)[c]
    <3>1. c \in Offset /\ c \in Node /\ Depth[n] < Depth[c] /\ Depth[c] \in Nat /\ Depth[n] \in Nat
      BY PartFacts, DepthFacts
    <3>2. u[c] = f[c]
      BY <2>2, <3>1
    <3> QED
      BY <3>1, <3>2, Zenon
  <2>4. Walk(W(u), n) = Walk(W(f), n)
    BY <2>3, WalkSame, Zenon
  <2> QED
    BY <1>2, <1>7, <2>4, Zenon
<1>9. ASSUME NEW n \in Node
      PROVE  Walk(W(u), n) = Walk([o \in Offset |-> <<o>> \o IF o \in Into(deep)
                                              THEN MountOrder(o, deep) ELSE <<>>], n)
  <2> DEFINE x == [o \in Offset |-> <<o>> \o IF o \in Into(deep) THEN MountOrder(o, deep) ELSE <<>>]
  <2>1. \A c \in Part(n) : W(u)[c] = x[c]
    <3> TAKE c \in Part(n)
    <3>1. c \in Offset /\ c \in Node
      BY PartFacts
    <3>2. u[c] = MountOrder(c, deep)
      BY <1>6, <3>1, Zenon
    <3> QED
      BY <3>1, <3>2, Zenon
  <2> HIDE DEF x, W
  <2>2. Walk(W(u), n) = Walk(x, n)
    BY <2>1, WalkSame, Zenon
  <2> QED
    BY <2>2, Zenon DEF x
<1> QED
  <2> TAKE n \in Node
  <2>1. MountOrder(n, deep) = f[n] /\ f[n] \in Seq(Offset)
    BY <1>1, <1>6, <1>8, Zenon
  <2> QED
    BY <1>6, <1>7, <1>9, <2>1, Zenon

LEMMA MountElements ==
    ASSUME TreeTyped, NEW deep, NEW n \in Node
    PROVE  /\ MountOrder(n, deep) \in Seq(Offset)
           /\ \A y : y \in ToSet(MountOrder(n, deep))
                <=> \E c \in Part(n) : y = c \/ (c \in Into(deep) /\ y \in ToSet(MountOrder(c, deep)))
<1> DEFINE x == [o \in Offset |-> <<o>> \o IF o \in Into(deep) THEN MountOrder(o, deep) ELSE <<>>]
<1>1. MountOrder(n, deep) \in Seq(Offset) /\ MountOrder(n, deep) = Walk(x, n)
  BY MountDefined, Zenon
<1>2. ASSUME NEW c \in Part(n)
      PROVE  /\ x[c] \in Seq(Offset)
             /\ \A y : y \in ToSet(x[c]) <=> y = c \/ (c \in Into(deep) /\ y \in ToSet(MountOrder(c, deep)))
  <2>1. c \in Offset /\ c \in Node
    BY PartFacts
  <2>2. MountOrder(c, deep) \in Seq(Offset)
    BY <2>1, MountDefined
  <2> DEFINE s == IF c \in Into(deep) THEN MountOrder(c, deep) ELSE <<>>
             h == <<c>>
  <2>3. x[c] = h \o s /\ s \in Seq(Offset) /\ h \in Seq(Offset)
    BY <2>1, <2>2
  <2>4. ToSet(h) = {c} /\ ToSet(<<>>) = {}
    BY DEF ToSet
  <2>5. \A y : y \in ToSet(s) <=> (c \in Into(deep) /\ y \in ToSet(MountOrder(c, deep)))
    BY <2>4, Zenon
  <2> HIDE DEF s, x, h
  <2>6. h \o s \in Seq(Offset) /\ ToSet(h \o s) = ToSet(h) \cup ToSet(s)
    BY <2>3, ConcatFacts
  <2> QED
    BY <2>3, <2>4, <2>5, <2>6, Zenon
<1> HIDE DEF x
<1>3. \A y : y \in ToSet(Walk(x, n)) <=> \E c \in Part(n) : y \in ToSet(x[c])
  BY <1>2, WalkFacts, Zenon
<1> QED
  BY <1>1, <1>2, <1>3, Zenon

\* The nodes a walk that mounts comes to: what it visits is nested in them.
Visited(base, deep) == {base} \cup (ToSet(MountOrder(base, deep)) \cap Into(deep))

LEMMA MountNested ==
    ASSUME TreeTyped, NEW deep
    PROVE  \A n \in Node : \A y \in ToSet(MountOrder(n, deep)) :
             /\ y \in Offset /\ Depth[n] < Depth[y] /\ y \in Part(off[y].parent)
             /\ off[y].parent \in Visited(n, deep)
<1> DEFINE P(n, y) == /\ y \in Offset /\ Depth[n] < Depth[y] /\ y \in Part(off[y].parent)
                      /\ off[y].parent \in Visited(n, deep)
           Bad == {n \in Node : \E y \in ToSet(MountOrder(n, deep)) : ~P(n, y)}
<1>1. SUFFICES ASSUME Bad # {} PROVE FALSE
  OBVIOUS
<1>2. PICK n \in Bad : \A m \in Bad : Depth[m] <= Depth[n]
  BY <1>1, Deepest
<1>3. PICK y \in ToSet(MountOrder(n, deep)) : ~P(n, y)
  OBVIOUS
<1>4. PICK c \in Part(n) : y = c \/ (c \in Into(deep) /\ y \in ToSet(MountOrder(c, deep)))
  BY MountElements, Zenon
<1>5. c \in Offset /\ c \in Node /\ off[c].parent = n /\ Depth[n] < Depth[c] /\ Depth[c] \in Nat /\ Depth[n] \in Nat
  BY PartFacts, DepthFacts
<1>6. c \in ToSet(MountOrder(n, deep))
  BY MountElements, Zenon
<1>7. CASE y = c
  BY <1>3, <1>5, <1>7 DEF Visited
<1>8. CASE c \in Into(deep) /\ y \in ToSet(MountOrder(c, deep))
  <2>0. \A z \in ToSet(MountOrder(c, deep)) : z \in ToSet(MountOrder(n, deep))
    BY <1>8, MountElements, Zenon
  <2>1. c \notin Bad
    BY <1>2, <1>5
  <2>2. P(c, y)
    BY <1>5, <1>8, <2>1
  <2>3. Visited(c, deep) \subseteq Visited(n, deep)
    BY <1>6, <1>8, <2>0 DEF Visited
  <2>4. Depth[n] < Depth[y]
    <3>1. Depth[y] \in Nat
      BY <2>2, DepthFacts
    <3> QED
      BY <1>5, <2>2, <3>1
  <2> QED
    BY <1>3, <2>2, <2>3, <2>4
<1> QED
  BY <1>4, <1>7, <1>8

\* An offset that the walk visits and does not go on below, and what is nested in
\* it, is apart from the nodes the walk comes to.
LEMMA MountApart ==
    ASSUME TreeTyped, NEW deep, NEW base \in Node, NEW o \in ToSet(MountOrder(base, deep)), o \notin Into(deep)
    PROVE  o \notin Visited(base, deep) /\ ToSet(UmountOrder(o)) \cap Visited(base, deep) = {}
<1>1. o \in Offset /\ o \in Node /\ Depth[base] < Depth[o] /\ Depth[base] \in Nat /\ Depth[o] \in Nat
  BY MountNested, DepthFacts
<1>2. o # base
  BY <1>1
<1>3. o \notin Visited(base, deep)
  BY <1>2 DEF Visited
<1> DEFINE Bad == ToSet(UmountOrder(o)) \cap Visited(base, deep)
<1>4. SUFFICES ASSUME Bad # {} PROVE FALSE
  BY <1>3
<1>5. PICK y \in Bad : \A m \in Bad : Depth[y] <= Depth[m]
  <2>1. Bad \in SUBSET Node
    BY <1>1, UmountNested, DepthFacts
  <2> QED
    BY <1>4, <2>1, Shallowest
<1>6. /\ y \in Offset /\ Depth[o] < Depth[y] /\ Depth[y] \in Nat
      /\ off[y].parent = o \/ off[y].parent \in ToSet(UmountOrder(o))
  BY <1>1, UmountNested, DepthFacts
<1>7. y # base
  BY <1>1, <1>6
<1>8. y \in ToSet(MountOrder(base, deep))
  BY <1>7 DEF Visited
<1>9. off[y].parent \in Visited(base, deep) /\ y \in Part(off[y].parent)
  BY <1>8, MountNested, Zenon
<1>10. off[y].parent \in Bad
  BY <1>3, <1>6, <1>9
<1>11. off[y].parent \in Node
  BY <1>6 DEF TreeTyped, Entry
<1>12. Depth[off[y].parent] < Depth[y] /\ Depth[off[y].parent] \in Nat
  BY <1>9, <1>11, PartFacts, DepthFacts
<1> QED
  BY <1>5, <1>6, <1>10, <1>12
-----------------------------------------------------------------------------
(* What a walk changes, step by step. *)

WalkState == [off : [Offset -> Entry], trig : SUBSET Offset, covered : SUBSET Offset,
              real : SUBSET Node, failed : SUBSET Offset, stop : BOOLEAN]

\* A walk may make an offset invalid and leaves the rest of its entry.
Typed(s) ==
    /\ s \in WalkState
    /\ \A o \in Offset : s.off[o].parent = off[o].parent /\ s.off[o].age = off[o].age

\* The triggers are in their places, nested in each other, and none is under
\* another one; what is mounted or walked on has its trigger.
InPlace(s) ==
    /\ s.covered = {}
    /\ \A o \in s.trig : o \in Part(off[o].parent) /\ off[o].parent \in s.trig \cup {Root}
    /\ s.real \subseteq s.trig \cup {Root}
    /\ \A o \in Offset : th[o].pc # "idle" => o \in s.trig

\* What a walk does to the triggers and the failures of the offsets of C alone;
\* it mounts nothing and makes no entry valid.
Only(s, r, C) ==
    \A c \in Offset \ C : (c \in r.trig <=> c \in s.trig) /\ (c \in r.failed <=> c \in s.failed)
Shrinks(s, r) == r.real \subseteq s.real /\ \A c \in Offset : r.off[c].valid => s.off[c].valid

LEMMA InvalidTyped ==
    ASSUME NEW s, Typed(s), NEW o \in Offset
    PROVE  LET r == [s EXCEPT !.off[o].valid = FALSE]
           IN Typed(r) /\ ~r.off[o].valid /\ \A c \in Offset : r.off[c].valid => s.off[c].valid
<1> DEFINE e == [s.off[o] EXCEPT !.valid = FALSE]
           es == [s.off EXCEPT ![o] = e]
<1>1. s \in WalkState /\ s.off \in [Offset -> Entry]
  BY DEF Typed, WalkState
<1>2. s.off[o] \in Entry
  BY <1>1
<1>3. e \in Entry /\ e.parent = s.off[o].parent /\ e.age = s.off[o].age /\ e.valid = FALSE
  BY <1>2 DEF Entry
<1> HIDE DEF e
<1>4. /\ es \in [Offset -> Entry] /\ es[o] = e
      /\ \A x \in Offset : /\ es[x].parent = s.off[x].parent /\ es[x].age = s.off[x].age
                           /\ x # o => es[x] = s.off[x]
  BY <1>1, <1>3
<1> HIDE DEF es
<1>5. [s EXCEPT !.off = es] \in WalkState /\ [s EXCEPT !.off = es].off = es
  BY <1>1, <1>4 DEF WalkState
<1>6. Typed([s EXCEPT !.off = es])
  BY <1>4, <1>5 DEF Typed
<1>7. [s EXCEPT !.off[o].valid = FALSE] = [s EXCEPT !.off = es]
  BY <1>1 DEF es, e, WalkState
<1>8. ~es[o].valid /\ \A c \in Offset : es[c].valid => s.off[c].valid
  BY <1>3, <1>4
<1> QED
  BY <1>5, <1>6, <1>7, <1>8

\* The umount of one offset: it goes when nothing is nested in it and nobody
\* walks on it, or the walk stops.
LEMMA UmountStep ==
    ASSUME TreeTyped, NEW s, Typed(s), NEW o \in Offset, NEW out,
           NEW r, r = tree_mapent_umount_offset(s, o, out)
    PROVE  /\ Typed(r)
           /\ InPlace(s) => /\ InPlace(r)
                            /\ r.trig \subseteq s.trig /\ s.trig \ {o} \subseteq r.trig
                            /\ ~r.stop => ~s.stop /\ o \notin r.trig
                            /\ Only(s, r, {o}) /\ Shrinks(s, r)
                            /\ o \in r.trig => o \in r.failed
                            /\ s.failed \ s.trig \subseteq r.failed
<1> DEFINE busy == Under(s.trig, o) # {}
           r1 == [s EXCEPT !.failed = @ \cup ({o} \cap s.trig)]
           r2 == [s EXCEPT !.stop = TRUE, !.off[o].valid = FALSE, !.failed = @ \cup {o}]
           r3 == [s EXCEPT !.stop = TRUE, !.real = @ \ {o}, !.failed = @ \cup {o}]
           r4 == [s EXCEPT !.real = @ \ {o}]
           r5 == [s EXCEPT !.real = @ \ {o}, !.trig = (@ \ {o}) \cup Under(s.covered, o),
                           !.covered = @ \ Under(@, o), !.failed = @ \ {o}]
<1>1. /\ s \in WalkState /\ s.trig \subseteq Offset /\ s.covered \subseteq Offset
      /\ s.real \subseteq Node /\ s.failed \subseteq Offset /\ s.stop \in BOOLEAN
      /\ \A x \in Offset : s.off[x].parent = off[x].parent /\ s.off[x].age = off[x].age
  BY DEF Typed, WalkState
<1>2. CASE s.stop
  <2>1. r = r1
    BY <1>2, Zenon DEF tree_mapent_umount_offset
  <2>2. /\ r1 \in WalkState /\ r1.off = s.off /\ r1.trig = s.trig /\ r1.covered = s.covered
        /\ r1.real = s.real /\ r1.stop = s.stop /\ r1.failed = s.failed \cup ({o} \cap s.trig)
    BY <1>1 DEF WalkState
  <2> HIDE DEF r1
  <2>3. Typed(r1)
    BY <1>1, <2>2 DEF Typed
  <2>4. (InPlace(s) => InPlace(r1)) /\ Only(s, r1, {o}) /\ Shrinks(s, r1)
    BY <2>2 DEF InPlace, Only, Shrinks
  <2> QED
    BY <1>2, <2>1, <2>2, <2>3, <2>4
<1>3. CASE ~s.stop /\ o \in s.real /\ (busy \/ out[o] = "fail")
  <2>1. r = r2
    BY <1>3, Zenon DEF tree_mapent_umount_offset
  <2> DEFINE q == [s EXCEPT !.off[o].valid = FALSE]
  <2>2. Typed(q) /\ \A c \in Offset : q.off[c].valid => s.off[c].valid
    BY InvalidTyped, Zenon
  <2>3. /\ q.trig = s.trig /\ q.covered = s.covered /\ q.real = s.real /\ q.failed = s.failed
    BY <1>1 DEF WalkState
  <2>4. r2 = [q EXCEPT !.stop = TRUE, !.failed = s.failed \cup {o}]
    BY <1>1 DEF WalkState
  <2> HIDE DEF q
  <2>5. /\ r2 \in WalkState /\ r2.off = q.off /\ r2.trig = s.trig /\ r2.covered = s.covered
        /\ r2.real = s.real /\ r2.stop = TRUE /\ r2.failed = s.failed \cup {o}
    BY <1>1, <2>2, <2>3, <2>4 DEF Typed, WalkState
  <2> HIDE DEF r2
  <2>6. Typed(r2)
    BY <2>2, <2>5 DEF Typed
  <2>7. (InPlace(s) => InPlace(r2)) /\ Only(s, r2, {o}) /\ Shrinks(s, r2)
    BY <2>2, <2>5 DEF InPlace, Only, Shrinks
  <2> QED
    BY <2>1, <2>5, <2>6, <2>7
<1>4. CASE ~s.stop /\ ~(o \in s.real /\ (busy \/ out[o] = "fail"))
           /\ o \in s.trig /\ (busy \/ th[o].pc # "idle" \/ out[o] = "other")
  <2>1. r = r3
    BY <1>4, Zenon DEF tree_mapent_umount_offset
  <2>2. /\ r3 \in WalkState /\ r3.off = s.off /\ r3.trig = s.trig /\ r3.covered = s.covered
        /\ r3.real \subseteq s.real /\ r3.stop = TRUE /\ r3.failed = s.failed \cup {o}
    BY <1>1 DEF WalkState
  <2> HIDE DEF r3
  <2>3. Typed(r3)
    BY <1>1, <2>2 DEF Typed
  <2>4. (InPlace(s) => InPlace(r3)) /\ Only(s, r3, {o}) /\ Shrinks(s, r3)
    BY <2>2 DEF InPlace, Only, Shrinks
  <2> QED
    BY <2>1, <2>2, <2>3, <2>4
<1>5. CASE ~s.stop /\ ~(o \in s.real /\ (busy \/ out[o] = "fail"))
           /\ ~(o \in s.trig /\ (busy \/ th[o].pc # "idle" \/ out[o] = "other"))
  <2>1. r = umount_autofs_offset(s, o)
    BY <1>5, Zenon DEF tree_mapent_umount_offset
  <2>2. CASE o \notin s.trig
    <3>1. r = r4
      BY <2>1, <2>2, Zenon DEF umount_autofs_offset
    <3>2. /\ r4 \in WalkState /\ r4.off = s.off /\ r4.trig = s.trig /\ r4.covered = s.covered
          /\ r4.real \subseteq s.real /\ r4.stop = s.stop /\ r4.failed = s.failed
      BY <1>1 DEF WalkState
    <3> HIDE DEF r4
    <3>3. Typed(r4)
      BY <1>1, <3>2 DEF Typed
    <3>4. (InPlace(s) => InPlace(r4)) /\ Only(s, r4, {o}) /\ Shrinks(s, r4)
      BY <3>2 DEF InPlace, Only, Shrinks
    <3> QED
      BY <1>5, <2>2, <3>1, <3>2, <3>3, <3>4
  <2>3. CASE o \in s.trig
    <3>1. r = r5
      BY <2>1, <2>3, Zenon DEF umount_autofs_offset
    <3>2. Under(s.covered, o) \subseteq Offset
      BY DEF Under
    <3>3. /\ r5 \in WalkState /\ r5.off = s.off /\ r5.trig = (s.trig \ {o}) \cup Under(s.covered, o)
          /\ r5.covered \subseteq s.covered /\ r5.real = s.real \ {o} /\ r5.stop = s.stop
          /\ r5.failed = s.failed \ {o}
      BY <1>1, <3>2 DEF WalkState
    <3> HIDE DEF r5
    <3>4. Typed(r5)
      BY <1>1, <3>3 DEF Typed
    <3>5. ASSUME InPlace(s)
          PROVE  InPlace(r5) /\ r5.trig = s.trig \ {o} /\ Only(s, r5, {o}) /\ Shrinks(s, r5)
      <4>1. Under(s.covered, o) = {} /\ r5.trig = s.trig \ {o} /\ r5.covered = {}
        BY <3>3, <3>5 DEF InPlace, Under
      <4>2. th[o].pc = "idle" /\ Under(s.trig, o) = {}
        BY <1>5, <2>3
      <4>3. \A x \in s.trig : off[x].parent # o
        <5> SUFFICES ASSUME NEW x \in s.trig, off[x].parent = o PROVE FALSE
          OBVIOUS
        <5>1. x \in Offset /\ o # Root
          BY <1>1, DepthFacts
        <5>2. o \in Above[x]
          BY <5>1 DEF TreeTyped
        <5> QED
          BY <4>2, <5>1, <5>2 DEF Under
      <4>4. \A x \in r5.trig : x \in Part(off[x].parent) /\ off[x].parent \in r5.trig \cup {Root}
        BY <3>5, <4>1, <4>3 DEF InPlace
      <4>5. r5.real \subseteq r5.trig \cup {Root}
        BY <3>3, <3>5, <4>1 DEF InPlace
      <4>6. \A x \in Offset : th[x].pc # "idle" => x \in r5.trig
        BY <3>5, <4>1, <4>2 DEF InPlace
      <4>7. Only(s, r5, {o}) /\ Shrinks(s, r5)
        BY <3>3, <4>1 DEF Only, Shrinks
      <4> QED
        BY <4>1, <4>4, <4>5, <4>6, <4>7 DEF InPlace
    <3>6. s.failed \ s.trig \subseteq r5.failed
      BY <2>3, <3>3
    <3> QED
      BY <1>5, <3>1, <3>3, <3>4, <3>5, <3>6
  <2> QED
    BY <2>2, <2>3
<1> QED
  BY <1>2, <1>3, <1>4, <1>5

\* A sequence of umounts is one after the other.
LEMMA UmountRun ==
    ASSUME TreeTyped, NEW s, Typed(s), NEW seq \in Seq(Offset), NEW out,
           NEW r, r = UmountSeq(s, seq, out)
    PROVE  \E h : /\ r = h[Len(seq)] /\ h[0] = s
                  /\ \A i \in 1..Len(seq) : h[i] = tree_mapent_umount_offset(h[i - 1], seq[i], out)
<1> DEFINE n == Len(seq)
           S == {x \in WalkState : Typed(x)}
           step == [p \in S \X (1..n) |-> tree_mapent_umount_offset(p[1], seq[p[2]], out)]
           Body(g) == [i \in 0..Len(seq) |->
                         IF i = 0 THEN s ELSE tree_mapent_umount_offset(g[i - 1], seq[i], out)]
           h == CHOOSE g : g = Body(g)
<1>1. n \in Nat /\ \A i \in 1..n : seq[i] \in Offset
  OBVIOUS
<1>2. s \in S
  BY DEF Typed
<1>3. \A x \in S : \A i \in 1..n : tree_mapent_umount_offset(x, seq[i], out) \in S
  <2> TAKE x \in S
  <2> TAKE i \in 1..n
  <2> DEFINE y == tree_mapent_umount_offset(x, seq[i], out)
             o == seq[i]
  <2>1. y = tree_mapent_umount_offset(x, o, out) /\ o \in Offset /\ Typed(x)
    BY <1>1
  <2> HIDE DEF y, o
  <2>2. Typed(y)
    BY <2>1, UmountStep
  <2> QED
    BY <2>2 DEF Typed, y
<1>4. PICK f \in [0..n -> S] : f[0] = s /\ \A i \in 1..n : f[i] = step[<<f[i - 1], i>>]
  <2>1. step \in [S \X (1..n) -> S]
    BY <1>3
  <2> HIDE DEF step, S, n
  <2>2. Steps(S, s, step, n)
    BY <1>1, <1>2, <2>1, StepsExist
  <2> QED
    BY <2>2 DEF Steps
<1>5. f = Body(f)
  <2>1. \A i \in 1..n : i - 1 \in 0..n /\ f[i - 1] \in S
    BY <1>1, <1>4
  <2>2. \A i \in 1..n : f[i] = tree_mapent_umount_offset(f[i - 1], seq[i], out)
    BY <1>4, <2>1
  <2>3. \A i \in 0..n : f[i] = Body(f)[i]
    BY <1>1, <1>4, <2>2
  <2> QED
    BY <1>4, <2>3
<1>6. h = Body(h)
  BY <1>5, Zenon
<1>7. r = h[n]
  BY Zenon DEF UmountSeq
<1> HIDE DEF h
<1>8. h[0] = s /\ \A i \in 1..n : h[i] = tree_mapent_umount_offset(h[i - 1], seq[i], out)
  <2>1. \A i \in 0..n : h[i] = Body(h)[i]
    BY <1>6, Zenon
  <2> QED
    BY <1>1, <2>1
<1> QED
  BY <1>7, <1>8

\* Only what is in it goes, and when it is not stopped all of that has gone; a
\* trigger that is left is a failure.
LEMMA UmountSeqFacts ==
    ASSUME TreeTyped, NEW s, Typed(s), NEW seq \in Seq(Offset), NEW out,
           NEW r, r = UmountSeq(s, seq, out)
    PROVE  /\ Typed(r)
           /\ InPlace(s) => /\ InPlace(r)
                            /\ r.trig \subseteq s.trig /\ s.trig \ ToSet(seq) \subseteq r.trig
                            /\ ~r.stop => r.trig \cap ToSet(seq) = {}
                            /\ Only(s, r, ToSet(seq)) /\ Shrinks(s, r)
                            /\ r.trig \cap ToSet(seq) \subseteq r.failed
                            /\ s.failed \ s.trig \subseteq r.failed
<1> DEFINE n == Len(seq)
<1>1. n \in Nat /\ \A i \in 1..n : seq[i] \in Offset
  OBVIOUS
<1>2. PICK h : /\ r = h[n] /\ h[0] = s
               /\ \A i \in 1..n : h[i] = tree_mapent_umount_offset(h[i - 1], seq[i], out)
  BY UmountRun
<1> DEFINE Done(i) == {seq[j] : j \in 1..i}
           Run(x, C) == /\ InPlace(x)
                        /\ x.trig \subseteq s.trig /\ s.trig \ C \subseteq x.trig
                        /\ ~x.stop => x.trig \cap C = {}
                        /\ Only(s, x, C) /\ Shrinks(s, x)
                        /\ x.trig \cap C \subseteq x.failed
                        /\ s.failed \ s.trig \subseteq x.failed
           P == {i \in 0..n : Typed(h[i]) /\ (InPlace(s) => Run(h[i], Done(i)))}
<1>3. Run(s, {}) <=> InPlace(s)
  BY DEF Only, Shrinks
<1>4. ASSUME NEW a, NEW b, NEW e \in Offset, NEW C, Typed(a), InPlace(s), Run(a, C),
             b = tree_mapent_umount_offset(a, e, out)
      PROVE  Run(b, C \cup {e})
  <2>1. /\ InPlace(b) /\ b.trig \subseteq a.trig /\ a.trig \ {e} \subseteq b.trig
        /\ ~b.stop => ~a.stop /\ e \notin b.trig
        /\ Only(a, b, {e}) /\ Shrinks(a, b)
        /\ e \in b.trig => e \in b.failed
        /\ a.failed \ a.trig \subseteq b.failed
    BY <1>4, UmountStep
  <2>2. a.trig \subseteq Offset /\ b.trig \subseteq Offset /\ s.trig \subseteq Offset /\ s.failed \subseteq Offset
    BY <1>4, <2>1 DEF Typed, WalkState
  <2>3. Only(s, b, C \cup {e})
    BY <1>4, <2>1 DEF Only
  <2>4. Shrinks(s, b)
    BY <1>4, <2>1 DEF Shrinks
  <2>5. b.trig \cap (C \cup {e}) \subseteq b.failed
    <3> SUFFICES ASSUME NEW c \in b.trig, c \in C, c # e PROVE c \in b.failed
      BY <2>1
    <3>1. c \in a.trig /\ c \in a.failed /\ c \in Offset \ {e}
      BY <1>4, <2>1, <2>2
    <3> QED
      BY <2>1, <3>1 DEF Only
  <2>6. s.failed \ s.trig \subseteq b.failed
    BY <1>4, <2>1
  <2>7. ~b.stop => b.trig \cap (C \cup {e}) = {}
    BY <1>4, <2>1
  <2>8. b.trig \subseteq s.trig /\ s.trig \ (C \cup {e}) \subseteq b.trig
    BY <1>4, <2>1
  <2> QED
    BY <2>1, <2>3, <2>4, <2>5, <2>6, <2>7, <2>8
<1> HIDE DEF Run
<1>5. 0 \in P
  <2>1. Done(0) = {}
    OBVIOUS
  <2> HIDE DEF Done
  <2>2. Typed(h[0]) /\ (InPlace(s) => Run(h[0], Done(0)))
    BY <1>2, <1>3, <2>1
  <2> QED
    BY <1>1, <2>2
<1>6. ASSUME NEW i \in 1..n, i - 1 \in P PROVE i \in P
  <2> DEFINE a == h[i - 1]
             b == h[i]
             e == seq[i]
             C == Done(i - 1)
  <2>1. Typed(a) /\ (InPlace(s) => Run(a, C)) /\ e \in Offset /\ b = tree_mapent_umount_offset(a, e, out)
    BY <1>1, <1>2, <1>6
  <2>2. Done(i) = C \cup {e}
    BY <1>1
  <2> HIDE DEF a, b, e, C, Done
  <2>3. Typed(b)
    BY <2>1, UmountStep
  <2>4. InPlace(s) => Run(b, C \cup {e})
    BY <1>4, <2>1
  <2>5. Typed(h[i]) /\ (InPlace(s) => Run(h[i], Done(i)))
    BY <2>2, <2>3, <2>4 DEF b
  <2>6. i \in 0..n
    BY <1>1
  <2> QED
    BY <2>5, <2>6
<1>7. Typed(h[n]) /\ (InPlace(s) => Run(h[n], Done(n)))
  <2> HIDE DEF P, n
  <2>1. \A i \in 0..n : i \in P
    BY <1>1, <1>5, <1>6, UpTo, Zenon
  <2>2. n \in P
    BY <1>1, <2>1
  <2> QED
    BY <2>2 DEF P
<1>8. Done(n) = ToSet(seq)
  BY DEF ToSet
<1> QED
  BY <1>2, <1>7, <1>8 DEF Run
-----------------------------------------------------------------------------
\* An offset in the tree knows the nearest one above it that has an entry.
Entered ==
    \A o \in tree[Root] : \A p \in Above[o] :
      off[p].age # 0 => off[o].parent # Root /\ (p = off[o].parent \/ p \in Above[off[o].parent])

InTree ==
    /\ \A n \in Node : tree[n] \subseteq tree[Root]
    /\ \A o \in tree[Root] :
         /\ off[o].age # 0
         /\ off[o].parent # Root => off[off[o].parent].age # 0

\* Of a set of offsets nested in each other, what is above one is one of them.
LEMMA UpClosed ==
    ASSUME TreeTyped, Entered, NEW T \in SUBSET tree[Root],
           \A o \in T : off[o].parent \in T \cup {Root}
    PROVE  \A o \in T : \A p \in Above[o] : off[p].age # 0 => p \in T
<1> DEFINE Bad == {o \in T : \E p \in Above[o] : off[p].age # 0 /\ p \notin T}
<1>1. SUFFICES ASSUME Bad # {} PROVE FALSE
  OBVIOUS
<1>2. T \subseteq Offset /\ Bad \in SUBSET Node
  BY DepthFacts DEF TreeTyped
<1>3. PICK o \in Bad : \A m \in Bad : Depth[o] <= Depth[m]
  BY <1>1, <1>2, Shallowest
<1>4. PICK p \in Above[o] : off[p].age # 0 /\ p \notin T
  OBVIOUS
<1>5. off[o].parent # Root /\ (p = off[o].parent \/ p \in Above[off[o].parent])
  BY <1>4 DEF Entered
<1>6. off[o].parent \in T /\ off[o].parent \in Above[o]
  BY <1>2, <1>5 DEF TreeTyped
<1>7. p \in Above[off[o].parent]
  BY <1>4, <1>5, <1>6
<1>8. off[o].parent \in Bad
  BY <1>4, <1>6, <1>7
<1>9. Depth[off[o].parent] < Depth[o] /\ Depth[off[o].parent] \in Nat /\ Depth[o] \in Nat
  BY <1>2, <1>6, DepthFacts
<1> QED
  BY <1>3, <1>8, <1>9

\* The mount of a trigger where all that is above it has its own.
LEMMA MountOne ==
    ASSUME TreeTyped, NEW s, Typed(s), NEW o \in Offset, NEW out,
           NEW r, r = mount_autofs_offset(s, o, out)
    PROVE  /\ Typed(r)
           /\ InPlace(s) /\ Entered /\ InTree /\ o \in Part(off[o].parent) /\ off[o].parent \in s.trig \cup {Root}
                => /\ InPlace(r) /\ s.trig \subseteq r.trig /\ Only(s, r, {o}) /\ Shrinks(s, r)
                   /\ r.off[o].valid => o \in r.trig \cup r.failed
<1> DEFINE r1 == [s EXCEPT !.failed = @ \ {o}]
           r2 == [s EXCEPT !.off[o].valid = FALSE]
           r3 == [s EXCEPT !.failed = @ \cup {o}]
           r4 == [s EXCEPT !.trig = (@ \ Under(@, o)) \cup {o},
                           !.covered = @ \cup Under(s.trig, o), !.failed = @ \ {o}]
<1>1. /\ s \in WalkState /\ s.trig \subseteq Offset /\ s.covered \subseteq Offset
      /\ s.real \subseteq Node /\ s.failed \subseteq Offset /\ s.stop \in BOOLEAN
      /\ \A x \in Offset : s.off[x].parent = off[x].parent /\ s.off[x].age = off[x].age
  BY DEF Typed, WalkState
<1>2. ASSUME NEW q \in WalkState, q.off = s.off, q.trig = s.trig, q.covered = s.covered, q.real = s.real,
             q.failed \in {s.failed \ {o}, s.failed \cup {o}}
      PROVE  Typed(q) /\ (InPlace(s) => InPlace(q)) /\ Only(s, q, {o}) /\ Shrinks(s, q)
  BY <1>1, <1>2 DEF Typed, InPlace, Only, Shrinks
<1>3. CASE o \in s.trig
  <2>1. r = r1
    BY <1>3, Zenon DEF mount_autofs_offset, try_remount
  <2>2. /\ r1 \in WalkState /\ r1.off = s.off /\ r1.trig = s.trig /\ r1.covered = s.covered /\ r1.real = s.real
        /\ r1.failed = s.failed \ {o}
    BY <1>1 DEF WalkState
  <2> HIDE DEF r1
  <2> QED
    BY <1>2, <1>3, <2>1, <2>2
<1>4. CASE o \notin s.trig /\ out[o] = "other" /\ s.off[o].parent \in s.real
  <2>1. r = r2
    BY <1>4, Zenon DEF mount_autofs_offset
  <2>2. Typed(r2) /\ ~r2.off[o].valid /\ \A c \in Offset : r2.off[c].valid => s.off[c].valid
    BY InvalidTyped, Zenon
  <2>3. r2.trig = s.trig /\ r2.covered = s.covered /\ r2.real = s.real /\ r2.failed = s.failed
    BY <1>1 DEF WalkState
  <2> HIDE DEF r2
  <2>4. (InPlace(s) => InPlace(r2)) /\ Only(s, r2, {o}) /\ Shrinks(s, r2)
    BY <2>2, <2>3 DEF InPlace, Only, Shrinks
  <2> QED
    BY <2>1, <2>2, <2>3, <2>4
<1>5. CASE o \notin s.trig /\ ~(out[o] = "other" /\ s.off[o].parent \in s.real) /\ out[o] # "ok"
  <2>1. r = r3
    BY <1>5, Zenon DEF mount_autofs_offset
  <2>2. /\ r3 \in WalkState /\ r3.off = s.off /\ r3.trig = s.trig /\ r3.covered = s.covered /\ r3.real = s.real
        /\ r3.failed = s.failed \cup {o}
    BY <1>1 DEF WalkState
  <2> HIDE DEF r3
  <2> QED
    BY <1>2, <2>1, <2>2
<1>6. CASE o \notin s.trig /\ ~(out[o] = "other" /\ s.off[o].parent \in s.real) /\ out[o] = "ok"
  <2>1. r = r4
    BY <1>6, Zenon DEF mount_autofs_offset
  <2>2. Under(s.trig, o) \subseteq Offset
    BY DEF Under
  <2>3. /\ r4 \in WalkState /\ r4.off = s.off /\ r4.trig = (s.trig \ Under(s.trig, o)) \cup {o}
        /\ r4.covered = s.covered \cup Under(s.trig, o) /\ r4.real = s.real /\ r4.failed = s.failed \ {o}
    BY <1>1, <2>2 DEF WalkState
  <2> HIDE DEF r4
  <2>4. Typed(r4)
    BY <1>1, <2>3 DEF Typed
  <2>5. ASSUME InPlace(s), Entered, InTree, o \in Part(off[o].parent), off[o].parent \in s.trig \cup {Root}
        PROVE  /\ InPlace(r4) /\ s.trig \subseteq r4.trig /\ Only(s, r4, {o}) /\ Shrinks(s, r4)
               /\ o \in r4.trig
    <3>1. \A x \in Offset : off[x].parent \in Node
      BY DepthFacts DEF TreeTyped, Entry
    <3>2. \A x \in s.trig \cup {o} : x \in tree[Root]
      <4>1. \A x \in s.trig \cup {o} : x \in Offset /\ x \in Part(off[x].parent)
        BY <1>1, <2>5 DEF InPlace
      <4>2. \A x \in s.trig \cup {o} : x \in tree[off[x].parent]
        BY <4>1 DEF Part
      <4> QED
        BY <3>1, <4>1, <4>2, <2>5 DEF InTree
    <3>3. off[o].age # 0
      BY <2>5, <3>2 DEF InTree
    <3>4. \A x \in s.trig : \A p \in Above[x] : off[p].age # 0 => p \in s.trig
      <4>1. s.trig \in SUBSET tree[Root]
        BY <3>2
      <4>2. \A x \in s.trig : off[x].parent \in s.trig \cup {Root}
        BY <2>5 DEF InPlace
      <4> DEFINE T == s.trig
      <4> HIDE DEF T
      <4>3. \A x \in T : \A p \in Above[x] : off[p].age # 0 => p \in T
        BY <2>5, <4>1, <4>2, UpClosed DEF T
      <4> QED
        BY <4>3 DEF T
    <3>5. Under(s.trig, o) = {}
      BY <1>6, <3>3, <3>4 DEF Under
    <3>6. r4.trig = s.trig \cup {o} /\ r4.covered = {}
      BY <2>3, <2>5, <3>5 DEF InPlace
    <3>7. InPlace(r4)
      BY <2>3, <2>5, <3>6 DEF InPlace
    <3> QED
      BY <2>3, <3>6, <3>7 DEF Only, Shrinks
  <2> QED
    BY <2>1, <2>4, <2>5
<1> QED
  BY <1>3, <1>4, <1>5, <1>6

\* The triggers that are taken away with an offset that is no longer listed.
Stale(base, deep) ==
    UNION {ToSet(UmountOrder(o)) : o \in {p \in ToSet(MountOrder(base, deep)) : off[p].age # root.age}}

\* None of them is one that the walk visits.
LEMMA StaleApart ==
    ASSUME TreeTyped, NEW base \in Node, NEW deep
    PROVE  ToSet(MountOrder(base, deep)) \cap Stale(base, deep) = {}
<1> SUFFICES ASSUME NEW c \in ToSet(MountOrder(base, deep)), NEW o \in ToSet(MountOrder(base, deep)),
                    off[o].age # root.age, c \in ToSet(UmountOrder(o))
             PROVE  FALSE
  BY DEF Stale
<1>1. o \in Offset /\ o \in Node /\ off[c].parent \in Visited(base, deep)
  BY MountNested, DepthFacts
<1>2. o \notin Into(deep)
  BY DEF Into
<1>3. o \notin Visited(base, deep) /\ ToSet(UmountOrder(o)) \cap Visited(base, deep) = {}
  BY <1>2, MountApart
<1>4. off[c].parent = o \/ off[c].parent \in ToSet(UmountOrder(o))
  BY <1>1, UmountNested
<1> QED
  BY <1>1, <1>3, <1>4

\* What a walk owes to an offset it comes to: a trigger if it is listed, and none
\* if it is not, or a failure.
Due(s, c) ==
    s.off[c].valid => IF off[c].age = root.age THEN c \in s.trig \cup s.failed
                      ELSE c \in s.trig => c \in s.failed

LEMMA DueStays ==
    ASSUME NEW s, NEW r, NEW C, NEW c \in Offset \ C, Only(s, r, C), Shrinks(s, r), Due(s, c)
    PROVE  Due(r, c)
BY DEF Only, Shrinks, Due

\* A walk that mounts triggers: the nodes it comes to keep theirs.
Mounting(s, base, deep) == InPlace(s) /\ Visited(base, deep) \subseteq s.trig \cup {Root}

LEMMA MountStep ==
    ASSUME TreeTyped, NEW s, Typed(s), NEW base \in Node, NEW deep,
           NEW o \in ToSet(MountOrder(base, deep)), NEW out,
           NEW r, r = tree_mapent_mount_offsets_work(s, o, out)
    PROVE  /\ Typed(r)
           /\ Entered /\ InTree /\ Mounting(s, base, deep) =>
                /\ Mounting(r, base, deep) /\ Shrinks(s, r) /\ Due(r, o)
                /\ Only(s, r, {o} \cup Stale(base, deep)) /\ r.trig \subseteq s.trig \cup {o}
<1>1. o \in Offset /\ o \in Node /\ o \in Part(off[o].parent) /\ off[o].parent \in Visited(base, deep)
  BY MountNested, DepthFacts
<1>0. \A x \in Offset : s.off[x].age = off[x].age
  BY DEF Typed
<1>2. CASE ~s.off[o].valid
  <2>1. r = s
    BY <1>2 DEF tree_mapent_mount_offsets_work
  <2> QED
    BY <1>2, <2>1 DEF Only, Shrinks, Due
<1>3. CASE s.off[o].valid /\ s.off[o].age # root.age
  <2> DEFINE seq == UmountOrder(o) \o <<o>>
             q == UmountSeq(s, seq, out)
  <2>1. r = [q EXCEPT !.stop = FALSE]
    BY <1>3, Zenon DEF tree_mapent_mount_offsets_work
  <2>2. seq \in Seq(Offset) /\ ToSet(seq) = ToSet(UmountOrder(o)) \cup {o}
    <3>1. UmountOrder(o) \in Seq(Offset)
      BY <1>1, UmountDefined
    <3> DEFINE u == UmountOrder(o)
    <3>2. seq = Append(u, o)
      BY <3>1
    <3> HIDE DEF u, seq
    <3>3. Append(u, o) \in Seq(Offset) /\ ToSet(Append(u, o)) = ToSet(u) \cup {o}
      BY <1>1, <3>1, AppendFacts DEF u
    <3> QED
      BY <3>2, <3>3 DEF u
  <2> HIDE DEF seq
  <2>3. /\ Typed(q)
        /\ InPlace(s) => /\ InPlace(q) /\ q.trig \subseteq s.trig /\ s.trig \ ToSet(seq) \subseteq q.trig
                         /\ Only(s, q, ToSet(seq)) /\ Shrinks(s, q) /\ q.trig \cap ToSet(seq) \subseteq q.failed
    <3>1. \A z : z = UmountSeq(s, seq, out) =>
            /\ Typed(z)
            /\ InPlace(s) => /\ InPlace(z) /\ z.trig \subseteq s.trig /\ s.trig \ ToSet(seq) \subseteq z.trig
                             /\ Only(s, z, ToSet(seq)) /\ Shrinks(s, z) /\ z.trig \cap ToSet(seq) \subseteq z.failed
      BY <2>2, UmountSeqFacts
    <3> QED
      BY <3>1, Zenon
  <2> HIDE DEF q
  <2>4. /\ r \in WalkState /\ r.off = q.off /\ r.trig = q.trig /\ r.covered = q.covered /\ r.real = q.real
        /\ r.failed = q.failed
    BY <2>1, <2>3 DEF Typed, WalkState
  <2>5. Typed(r) /\ (InPlace(q) => InPlace(r))
    BY <2>3, <2>4 DEF Typed, InPlace
  <2>6. o \notin Into(deep)
    BY <1>1, <1>3 DEF Into, Typed
  <2>7. o \notin Visited(base, deep) /\ ToSet(UmountOrder(o)) \cap Visited(base, deep) = {}
    BY <2>6, MountApart
  <2>8. ASSUME Mounting(s, base, deep)
        PROVE  Visited(base, deep) \subseteq r.trig \cup {Root}
    BY <2>2, <2>3, <2>4, <2>7, <2>8 DEF Mounting
  <2>9. ASSUME Mounting(s, base, deep)
        PROVE  /\ Shrinks(s, r) /\ Due(r, o) /\ Only(s, r, {o} \cup Stale(base, deep))
               /\ r.trig \subseteq s.trig
    <3>1. Shrinks(s, r) /\ Only(s, r, ToSet(seq)) /\ (o \in r.trig => o \in r.failed)
      BY <2>2, <2>3, <2>4, <2>9 DEF Mounting, Shrinks, Only
    <3>2. off[o].age # root.age
      BY <1>0, <1>1, <1>3
    <3>3. ToSet(seq) \subseteq {o} \cup Stale(base, deep)
      BY <2>2, <3>2 DEF Stale
    <3>4. r.trig \subseteq s.trig
      BY <2>3, <2>4, <2>9 DEF Mounting
    <3> QED
      BY <3>1, <3>2, <3>3, <3>4 DEF Only, Due
  <2> QED
    BY <2>3, <2>5, <2>8, <2>9 DEF Mounting
<1>4. CASE s.off[o].valid /\ s.off[o].age = root.age
  <2>1. r = mount_autofs_offset(s, o, out)
    BY <1>4, Zenon DEF tree_mapent_mount_offsets_work
  <2>2. Mounting(s, base, deep) => off[o].parent \in s.trig \cup {Root}
    BY <1>1 DEF Mounting
  <2>3. /\ Typed(r)
        /\ InPlace(s) /\ Entered /\ InTree /\ o \in Part(off[o].parent) /\ off[o].parent \in s.trig \cup {Root}
                => /\ InPlace(r) /\ s.trig \subseteq r.trig /\ Only(s, r, {o}) /\ Shrinks(s, r)
                   /\ r.off[o].valid => o \in r.trig \cup r.failed
    BY <1>1, <2>1, MountOne
  <2>4. off[o].age = root.age
    BY <1>0, <1>1, <1>4
  <2>5. ASSUME Entered, InTree, Mounting(s, base, deep)
        PROVE  /\ InPlace(r) /\ s.trig \subseteq r.trig /\ Only(s, r, {o}) /\ Shrinks(s, r) /\ Due(r, o)
    BY <1>1, <2>2, <2>3, <2>4, <2>5 DEF Mounting, Due
  <2>6. Only(s, r, {o}) => Only(s, r, {o} \cup Stale(base, deep)) /\ r.trig \subseteq s.trig \cup {o}
    BY <2>3 DEF Only, Typed, WalkState
  <2> QED
    BY <2>3, <2>5, <2>6 DEF Mounting
<1> QED
  BY <1>2, <1>3, <1>4

\* A walk that mounts is one offset after the other.
LEMMA MountRun ==
    ASSUME TreeTyped, NEW s, Typed(s), NEW base \in Node, NEW deep, NEW out,
           NEW r, r = tree_mapent_mount_offsets(s, base, deep, out),
           NEW seq, seq = MountOrder(base, deep)
    PROVE  \E h : /\ r = h[Len(seq)] /\ h[0] = [s EXCEPT !.stop = FALSE] /\ Typed(h[0])
                  /\ \A i \in 1..Len(seq) : h[i] = tree_mapent_mount_offsets_work(h[i - 1], seq[i], out)
<1> DEFINE n == Len(seq)
           s0 == [s EXCEPT !.stop = FALSE]
           S == {x \in WalkState : Typed(x)}
           step == [p \in S \X (1..n) |-> tree_mapent_mount_offsets_work(p[1], seq[p[2]], out)]
           Body(g) == [i \in 0..Len(seq) |->
                         IF i = 0 THEN [s EXCEPT !.stop = FALSE]
                         ELSE tree_mapent_mount_offsets_work(g[i - 1], seq[i], out)]
           h == CHOOSE g : g = Body(g)
<1>0. seq \in Seq(Offset)
  BY MountDefined
<1>1. n \in Nat /\ \A i \in 1..n : seq[i] \in ToSet(seq)
  BY <1>0 DEF ToSet
<1>2. s0 \in S
  <2>1. /\ s0 \in WalkState /\ s0.off = s.off /\ s0.trig = s.trig /\ s0.covered = s.covered /\ s0.real = s.real
    BY DEF Typed, WalkState
  <2> HIDE DEF s0
  <2> QED
    BY <2>1 DEF Typed
<1>3. \A x \in S : \A i \in 1..n : tree_mapent_mount_offsets_work(x, seq[i], out) \in S
  <2> TAKE x \in S
  <2> TAKE i \in 1..n
  <2> DEFINE y == tree_mapent_mount_offsets_work(x, seq[i], out)
             o == seq[i]
  <2>1. Typed(x) /\ o \in ToSet(MountOrder(base, deep)) /\ y = tree_mapent_mount_offsets_work(x, o, out)
    BY <1>1
  <2> HIDE DEF y, o
  <2>2. Typed(y)
    BY <2>1, MountStep
  <2> QED
    BY <2>2 DEF y, Typed
<1>4. PICK f \in [0..n -> S] : f[0] = s0 /\ \A i \in 1..n : f[i] = step[<<f[i - 1], i>>]
  <2>1. step \in [S \X (1..n) -> S]
    BY <1>3
  <2> HIDE DEF step, S, n, s0
  <2>2. Steps(S, s0, step, n)
    BY <1>1, <1>2, <2>1, StepsExist
  <2> QED
    BY <2>2 DEF Steps
<1>5. f = Body(f)
  <2>1. \A i \in 1..n : i - 1 \in 0..n /\ f[i - 1] \in S
    BY <1>1, <1>4
  <2>2. \A i \in 1..n : f[i] = tree_mapent_mount_offsets_work(f[i - 1], seq[i], out)
    BY <1>4, <2>1
  <2>3. \A i \in 0..n : f[i] = Body(f)[i]
    BY <1>1, <1>4, <2>2
  <2> QED
    BY <1>4, <2>3
<1>6. h = Body(h)
  BY <1>5, Zenon
<1>7. r = h[n]
  BY Zenon DEF tree_mapent_mount_offsets
<1> HIDE DEF h
<1>8. h[0] = s0 /\ \A i \in 1..n : h[i] = tree_mapent_mount_offsets_work(h[i - 1], seq[i], out)
  <2>1. \A i \in 0..n : h[i] = IF i = 0 THEN s0 ELSE tree_mapent_mount_offsets_work(h[i - 1], seq[i], out)
    <3>1. \A i \in 0..n : h[i] = Body(h)[i]
      BY <1>6, Zenon
    <3> QED
      BY <3>1, Zenon
  <2> HIDE DEF s0, n
  <2> QED
    BY <1>1, <2>1
<1>9. Typed(h[0])
  BY <1>2, <1>8
<1> QED
  BY <1>7, <1>8, <1>9

\* The nodes it comes to keep their triggers, and what is nested in them is done;
\* it changes nothing else.
LEMMA MountWalk ==
    ASSUME TreeTyped, NEW s, Typed(s), NEW base \in Node, NEW deep, NEW out,
           NEW r, r = tree_mapent_mount_offsets(s, base, deep, out)
    PROVE  /\ Typed(r)
           /\ Entered /\ InTree /\ Mounting(s, base, deep) =>
                /\ Mounting(r, base, deep) /\ Shrinks(s, r)
                /\ r.trig \subseteq s.trig \cup ToSet(MountOrder(base, deep))
                /\ \A c \in ToSet(MountOrder(base, deep)) : Due(r, c)
                /\ Only(s, r, ToSet(MountOrder(base, deep)) \cup Stale(base, deep))
<1> DEFINE seq == MountOrder(base, deep)
           n == Len(seq)
           A == ToSet(seq)
           Z == Stale(base, deep)
<1>0. seq \in Seq(Offset)
  BY MountDefined
<1>1. n \in Nat /\ (\A i \in 1..n : seq[i] \in A) /\ A = {seq[i] : i \in 1..n} /\ A \subseteq Offset
  BY <1>0 DEF ToSet
<1>2. PICK h : /\ r = h[n] /\ h[0] = [s EXCEPT !.stop = FALSE] /\ Typed(h[0])
               /\ \A i \in 1..n : h[i] = tree_mapent_mount_offsets_work(h[i - 1], seq[i], out)
  <2> HIDE DEF seq
  <2>1. seq = MountOrder(base, deep)
    BY DEF seq
  <2> QED
    BY <2>1, MountRun
<1>3. A \cap Z = {}
  BY StaleApart
<1> DEFINE Start == Entered /\ InTree /\ Mounting(s, base, deep)
           Done(i) == {seq[j] : j \in 1..i}
           Run(x, C) == /\ Mounting(x, base, deep) /\ Shrinks(s, x) /\ x.trig \subseteq s.trig \cup A
                        /\ \A c \in C : Due(x, c)
                        /\ Only(s, x, A \cup Z)
           P == {i \in 0..n : Typed(h[i]) /\ (Start => Run(h[i], Done(i)))}
<1>4. Start => Run(h[0], {})
  <2> DEFINE s0 == h[0]
  <2>1. /\ s0.off = s.off /\ s0.trig = s.trig /\ s0.covered = s.covered /\ s0.real = s.real
        /\ s0.failed = s.failed
    BY <1>2 DEF Typed, WalkState
  <2> HIDE DEF s0
  <2>2. Start => Mounting(s0, base, deep)
    BY <2>1 DEF Mounting, InPlace
  <2>3. Only(s, s0, A \cup Z) /\ Shrinks(s, s0) /\ s0.trig \subseteq s.trig \cup A
    BY <2>1 DEF Only, Shrinks
  <2> QED
    BY <2>2, <2>3 DEF s0
<1>5. ASSUME NEW a, NEW b, NEW o \in A, NEW C \in SUBSET A, Typed(a), Start, Run(a, C),
             b = tree_mapent_mount_offsets_work(a, o, out)
      PROVE  Run(b, C \cup {o})
  <2>1. /\ Mounting(b, base, deep) /\ Shrinks(a, b) /\ Due(b, o)
        /\ Only(a, b, {o} \cup Z) /\ b.trig \subseteq a.trig \cup {o}
    BY <1>5, MountStep
  <2>2. Shrinks(s, b) /\ b.trig \subseteq s.trig \cup A
    BY <1>5, <2>1 DEF Shrinks
  <2>3. Only(s, b, A \cup Z)
    BY <1>5, <2>1 DEF Only
  <2>4. ASSUME NEW c \in C, c # o PROVE Due(b, c)
    <3>1. c \in Offset \ ({o} \cup Z)
      BY <1>1, <1>3, <2>4
    <3>2. Due(a, c)
      BY <1>5
    <3> DEFINE Y == {o} \cup Z
    <3> HIDE DEF Y, Z
    <3>3. c \in Offset \ Y /\ Only(a, b, Y)
      BY <2>1, <3>1 DEF Y
    <3> QED
      BY <2>1, <3>2, <3>3, DueStays
  <2> QED
    BY <2>1, <2>2, <2>3, <2>4
<1> HIDE DEF Run, Start, A, Z
<1>6. 0 \in P
  <2>1. Done(0) = {}
    OBVIOUS
  <2> HIDE DEF Done
  <2>2. Typed(h[0]) /\ (Start => Run(h[0], Done(0)))
    BY <1>2, <1>4, <2>1
  <2> QED
    BY <1>1, <2>2
<1>7. ASSUME NEW i \in 1..n, i - 1 \in P PROVE i \in P
  <2> DEFINE a == h[i - 1]
             b == h[i]
             e == seq[i]
             C == Done(i - 1)
  <2>1. Typed(a) /\ (Start => Run(a, C)) /\ e \in A /\ b = tree_mapent_mount_offsets_work(a, e, out)
    BY <1>1, <1>2, <1>7
  <2>2. Done(i) = C \cup {e} /\ C \in SUBSET A
    BY <1>1
  <2> HIDE DEF a, b, e, C, Done
  <2>3. Typed(b)
    <3>1. e \in ToSet(MountOrder(base, deep))
      BY <2>1 DEF A
    <3> QED
      BY <2>1, <3>1, MountStep
  <2>4. Start => Run(b, C \cup {e})
    BY <1>5, <2>1, <2>2
  <2>5. Typed(h[i]) /\ (Start => Run(h[i], Done(i)))
    BY <2>2, <2>3, <2>4 DEF b
  <2>6. i \in 0..n
    BY <1>1
  <2> QED
    BY <2>5, <2>6
<1>8. Typed(h[n]) /\ (Start => Run(h[n], Done(n)))
  <2> HIDE DEF P, n
  <2>1. \A i \in 0..n : i \in P
    BY <1>1, <1>6, <1>7, UpTo, Zenon
  <2>2. n \in P
    BY <1>1, <2>1
  <2> QED
    BY <2>2 DEF P
<1>9. Done(n) = A
  BY <1>1
<1> QED
  BY <1>2, <1>8, <1>9 DEF Run, Start, A, Z
-----------------------------------------------------------------------------
(* A list of offsets is added to the tree. *)

Trees == {tr \in [Node -> SUBSET Offset] : \A n \in Node : tr[n] \subseteq tr[Root]}

LEMMA AddNode ==
    ASSUME NEW tr \in Trees, NEW o \in Offset
    PROVE  /\ tree_add_node(tr, o) \in Trees
           /\ \A n \in Node : tr[n] \subseteq tree_add_node(tr, o)[n] /\ tree_add_node(tr, o)[n] \subseteq tr[n] \cup {o}
<1> DEFINE t2 == [n \in Node |-> IF OnPath(tr, o, n) THEN tr[n] \cup {o} ELSE tr[n]]
<1>1. CASE o \in tr[Root]
  <2>1. tree_add_node(tr, o) = tr
    BY <1>1, Zenon DEF tree_add_node
  <2> QED
    BY <2>1
<1>2. CASE o \notin tr[Root]
  <2>1. tree_add_node(tr, o) = t2
    BY <1>2, Zenon DEF tree_add_node
  <2>2. tr \in [Node -> SUBSET Offset] /\ Root \in Node /\ Root \notin Offset
        /\ \A n \in Node : tr[n] \subseteq tr[Root]
    BY NamesAssumption DEF Trees, Node
  <2>3. OnPath(tr, o, Root)
    BY <2>2 DEF OnPath
  <2>4. \A n \in Node : t2[n] \in {tr[n], tr[n] \cup {o}}
    BY Zenon
  <2>5. t2[Root] = tr[Root] \cup {o} /\ DOMAIN t2 = Node /\ t2 = [n \in Node |-> t2[n]]
    BY <2>2, <2>3
  <2> HIDE DEF t2
  <2>6. \A n \in Node : t2[n] \in SUBSET Offset
    BY <2>2, <2>4
  <2>7. \A n \in Node : tr[n] \subseteq t2[n] /\ t2[n] \subseteq tr[n] \cup {o}
    BY <2>4
  <2>8. \A n \in Node : t2[n] \subseteq t2[Root]
    BY <2>2, <2>5, <2>7
  <2>9. t2 \in [Node -> SUBSET Offset]
    BY <2>5, <2>6
  <2> QED
    BY <2>1, <2>7, <2>8, <2>9 DEF Trees
<1> QED
  BY <1>1, <1>2

LEMMA AddNodes ==
    ASSUME tree \in Trees, NEW list \in SUBSET Offset, tree_mapent_add_nodes(list)
    PROVE  /\ tree' \in Trees
           /\ \A n \in Node : tree[n] \subseteq tree'[n] /\ tree'[n] \subseteq tree[n] \cup list
<1> DEFINE n == Len(ByLength)
           Step(t, i) == IF ByLength[i] \in list THEN tree_add_node(t, ByLength[i]) ELSE t
           step == [p \in Trees \X (1..n) |-> Step(p[1], p[2])]
           Body(g) == [i \in 0..Len(ByLength) |->
                         IF i = 0 THEN tree
                         ELSE IF ByLength[i] \in list THEN tree_add_node(g[i - 1], ByLength[i])
                         ELSE g[i - 1]]
           h == CHOOSE g : g = Body(g)
           Grown(t) == \A m \in Node : tree[m] \subseteq t[m] /\ t[m] \subseteq tree[m] \cup list
<1>1. n \in Nat /\ \A i \in 1..n : ByLength[i] \in Offset
  BY OrderAssumption
<1>2. ASSUME NEW t \in Trees, NEW i \in 1..n
      PROVE  Step(t, i) \in Trees /\ (Grown(t) => Grown(Step(t, i)))
  <2>1. CASE ByLength[i] \in list
    <3> DEFINE o == ByLength[i]
               t2 == tree_add_node(t, o)
    <3>1. o \in Offset /\ o \in list /\ Step(t, i) = t2
      BY <1>1, <2>1
    <3> HIDE DEF o
    <3>2. t2 \in Trees /\ \A m \in Node : t[m] \subseteq t2[m] /\ t2[m] \subseteq t[m] \cup {o}
      BY <3>1, AddNode
    <3> HIDE DEF t2, Step
    <3> QED
      BY <3>1, <3>2
  <2>2. CASE ByLength[i] \notin list
    BY <2>2
  <2> QED
    BY <2>1, <2>2
<1>3. PICK f \in [0..n -> Trees] : f[0] = tree /\ \A i \in 1..n : f[i] = step[<<f[i - 1], i>>]
  <2>1. step \in [Trees \X (1..n) -> Trees]
    BY <1>2
  <2> HIDE DEF step, n
  <2>2. Steps(Trees, tree, step, n)
    BY <1>1, <2>1, StepsExist
  <2> QED
    BY <2>2 DEF Steps
<1>4. f = Body(f)
  <2>1. \A i \in 1..n : i - 1 \in 0..n /\ f[i - 1] \in Trees
    BY <1>1, <1>3
  <2>2. \A i \in 1..n : f[i] = Step(f[i - 1], i)
    BY <1>3, <2>1
  <2>3. \A i \in 0..n : f[i] = Body(f)[i]
    BY <1>1, <1>3, <2>2
  <2> QED
    BY <1>3, <2>3
<1>5. h = Body(h)
  BY <1>4, Zenon
<1>6. tree' = h[n]
  BY Zenon DEF tree_mapent_add_nodes
<1> HIDE DEF h
<1>7. h[0] = tree /\ \A i \in 1..n : h[i] = Step(h[i - 1], i)
  <2>1. \A i \in 0..n : h[i] = IF i = 0 THEN tree ELSE Step(h[i - 1], i)
    <3>1. \A i \in 0..n : h[i] = Body(h)[i]
      BY <1>5, Zenon
    <3> QED
      BY <3>1, Zenon
  <2> HIDE DEF Step, n
  <2> QED
    BY <1>1, <2>1
<1> DEFINE P == {i \in 0..n : h[i] \in Trees /\ Grown(h[i])}
<1> HIDE DEF n, Step
<1>8. 0 \in P
  BY <1>1, <1>7
<1>9. ASSUME NEW i \in 1..n, i - 1 \in P PROVE i \in P
  <2>1. h[i] = Step(h[i - 1], i) /\ h[i - 1] \in Trees /\ Grown(h[i - 1])
    BY <1>7, <1>9
  <2> HIDE DEF Grown
  <2>2. h[i] \in Trees /\ Grown(h[i])
    BY <1>2, <2>1
  <2> QED
    BY <1>1, <2>2
<1>10. n \in P
  <2> HIDE DEF P
  <2>1. \A i \in 0..n : i \in P
    BY <1>1, <1>8, <1>9, UpTo, Zenon
  <2> QED
    BY <1>1, <2>1
<1> QED
  BY <1>6, <1>10

\* Of the offsets above one that have an entry there is a nearest.
LEMMA ParentFacts ==
    ASSUME NEW o \in Offset, NEW es
    PROVE  LET ps == {p \in Above[o] : es[p].age # 0}
               q == cache_get_offset_parent(es, o)
           IN /\ q \in Above[o] \cup {Root}
              /\ q = Root <=> ps = {}
              /\ q # Root => q \in ps
              /\ \A p \in ps : p = q \/ p \in Above[q]
<1> DEFINE ps == {p \in Above[o] : es[p].age # 0}
           q == cache_get_offset_parent(es, o)
<1>1. Above[o] \subseteq Offset /\ Root \notin Offset
  BY NamesAssumption, AboveAssumption
<1>2. CASE ps = {}
  <2>1. q = Root
    BY <1>2, Zenon DEF cache_get_offset_parent
  <2> QED
    BY <1>2, <2>1
<1>3. CASE ps # {}
  <2>1. PICK d \in ps : \A p \in ps : Depth[p] <= Depth[d]
    <3>1. ps \in SUBSET Node
      BY <1>1 DEF Node
    <3> QED
      BY <1>3, <3>1, Deepest
  <2>2. \A p \in ps : p = d \/ p \in Above[d]
    <3> SUFFICES ASSUME NEW p \in ps, p # d, p \notin Above[d] PROVE FALSE
      OBVIOUS
    <3>1. d \in Above[p]
      BY AboveAssumption
    <3>2. Depth[d] < Depth[p] /\ Depth[d] \in Nat /\ Depth[p] \in Nat
      BY <1>1, <3>1, DepthFacts
    <3> QED
      BY <2>1, <3>2
  <2>3. q = CHOOSE p \in ps : \A x \in ps : x = p \/ x \in Above[p]
    BY <1>3, Zenon DEF cache_get_offset_parent
  <2>4. q \in ps /\ \A x \in ps : x = q \/ x \in Above[q]
    BY <2>2, <2>3, Zenon
  <2> QED
    BY <1>1, <1>3, <2>4
<1> QED
  BY <1>2, <1>3
-----------------------------------------------------------------------------
(* The inductive invariant. *)

Parents == \A o \in Offset : off[o].parent \in Above[o] \cup {Root}

\* What a parse_mount() lists has an entry, and only it lists.
Listed ==
    \A w \in {Root, Reader} :
      /\ work[w] # {} => th[w].pc = "offsets"
      /\ \A o \in work[w] : off[o].age # 0

\* No entry is made with the age of none.
Aged ==
    /\ th[Root].pc \in {"list", "update"} => th[Root].age # 0
    /\ \A w \in {Root, Reader} : /\ th[w].pc = "offsets" => th[w].age # 0
                                 /\ th[w].pc = "parse" => root.age # 0

\* Only an entry that is a root has a tree.
Rooted ==
    /\ ~root.mm => tree[Root] = {}
    /\ \A w \in {Root, Reader} : th[w].pc = "offsets" => root.mm

\* InPlace() of the state.
Placed ==
    /\ covered = {}
    /\ \A o \in trig : o \in Part(off[o].parent) /\ off[o].parent \in trig \cup {Root}
    /\ real \subseteq trig \cup {Root}
    /\ \A o \in Offset : th[o].pc # "idle" => o \in trig

Inv ==
    /\ TypeOK /\ Parents /\ InTree /\ Listed /\ Aged /\ Rooted
    /\ ~late => Entered /\ Placed

PCs == {"idle", "list", "update", "parse", "offsets", "base", "triggers", "end"}
Activity == [pc : PCs, age : 0..MaxClock, todo : SUBSET Offset]

LEMMA NodeFacts ==
    /\ Root \in Node /\ Root \in Thread /\ Reader \in Thread /\ Root # Reader
    /\ Root \notin Offset /\ Reader \notin Offset /\ Offset \subseteq Node /\ Offset \subseteq Thread
    /\ Node \subseteq Thread /\ MaxClock \in Nat
BY NamesAssumption DEF Node, Thread

LEMMA TypeFacts ==
    ASSUME TypeOK
    PROVE  /\ th \in [Thread -> Activity] /\ off \in [Offset -> Entry]
           /\ \A x \in Thread : th[x] \in Activity
           /\ \A o \in Offset : off[o].parent \in Node
BY DEF TypeOK, Activity, PCs, Entry

LEMMA InvTree ==
    ASSUME Inv
    PROVE  TreeTyped
BY DEF Inv, TypeOK, Parents, TreeTyped, Entry

LEMMA NowTyped ==
    ASSUME TypeOK
    PROVE  Typed(Now) /\ (Placed <=> InPlace(Now))
<1>1. Now \in WalkState
  BY DEF TypeOK, Now, WalkState, Entry
<1>2. Now.off = off /\ Now.trig = trig /\ Now.covered = covered /\ Now.real = real
  BY DEF Now
<1> QED
  BY <1>1, <1>2 DEF Typed, Placed, InPlace

\* Steps that leave the entries, the tree and the triggers alone.
LEMMA SameEntries ==
    ASSUME TypeOK, tree' = tree,
           \A o \in Offset : off'[o].parent = off[o].parent /\ off'[o].age = off[o].age
    PROVE  /\ Parents => Parents' /\ (InTree => InTree')
           /\ Entered => Entered'
<1>1. tree[Root] \subseteq Offset /\ \A o \in Offset : \A p \in Above[o] : p \in Offset
  BY NodeFacts, AboveAssumption DEF TypeOK
<1>2. Parents => Parents'
  BY DEF Parents
<1>3. ASSUME Parents, InTree PROVE InTree'
  <2>1. \A o \in tree[Root] : off[o].parent # Root => off[o].parent \in Offset
    BY <1>1, <1>3 DEF Parents
  <2> QED
    BY <1>1, <1>3, <2>1 DEF InTree
<1>4. Entered => Entered'
  BY <1>1 DEF Entered
<1> QED
  BY <1>2, <1>3, <1>4

LEMMA StillPlaced ==
    ASSUME TypeOK, Placed, trig' = trig, covered' = covered,
           \A o \in trig : off'[o].parent = off[o].parent,
           \A n \in Node : tree[n] \subseteq tree'[n],
           real' \subseteq real \cup trig \cup {Root},
           \A o \in Offset : th'[o].pc # "idle" => th[o].pc # "idle" \/ o \in trig
    PROVE  Placed'
<1>1. trig \subseteq Offset /\ \A o \in trig : off[o].parent \in Node
  BY TypeFacts DEF TypeOK
<1>2. \A o \in trig : o \in tree[off[o].parent] /\ o # Slash
  BY DEF Placed, Part
<1>3. \A o \in trig : o \in Part(off[o].parent)'
  BY <1>1, <1>2 DEF Part
<1> QED
  BY <1>1, <1>3 DEF Placed

LEMMA ThreadStep ==
    ASSUME Inv, TypeOK', UNCHANGED <<off, tree, work, trig, covered, late>>, root'.mm = root.mm,
           real' \subseteq real \cup trig \cup {Root},
           \A o \in Offset : th'[o].pc # "idle" => th[o].pc # "idle" \/ o \in trig,
           Aged', \A w \in {Root, Reader} : th'[w].pc = "offsets" <=> th[w].pc = "offsets"
    PROVE  Inv'
<1>1. Parents' /\ InTree' /\ (Entered => Entered')
  BY SameEntries DEF Inv
<1>2. Listed'
  BY DEF Inv, Listed
<1>3. Rooted'
  BY DEF Inv, Rooted
<1>4. Placed => Placed'
  BY StillPlaced DEF Inv
<1> QED
  BY <1>1, <1>2, <1>3, <1>4 DEF Inv

\* One thread goes on.
LEMMA OneThread ==
    ASSUME TypeOK, NEW x \in Thread, NEW e \in Activity, th' = [th EXCEPT ![x] = e]
    PROVE  /\ th' \in [Thread -> Activity] /\ th'[x] = e
           /\ \A y \in Thread : y # x => th'[y] = th[y]
BY TypeFacts

LEMMA RootRequestStep ==
    ASSUME Inv, RootRequest
    PROVE  Inv'
<1> DEFINE e == [th[Root] EXCEPT !.pc = "list", !.age = clock']
<1>1. /\ th[Root].pc = "idle" /\ clock < MaxClock /\ clock' = clock + 1
      /\ th' = [th EXCEPT ![Root] = e]
      /\ raced' = (raced \/ th[Reader].pc # "idle")
      /\ root' = root /\ off' = off /\ tree' = tree /\ work' = work /\ trig' = trig /\ covered' = covered
      /\ real' = real /\ remount' = remount /\ failed' = failed /\ late' = late /\ crashed' = crashed
  BY Zenon DEF RootRequest, cacheVars
<1>2. TypeOK
  BY DEF Inv
<1>3. clock' \in 0..MaxClock /\ clock' # 0
  BY <1>1, <1>2, NodeFacts DEF TypeOK
<1>4. e \in Activity /\ e.pc = "list" /\ e.age = clock'
  <2>1. th[Root] \in Activity
    BY <1>2, TypeFacts, NodeFacts
  <2> QED
    BY <1>3, <2>1 DEF Activity, PCs
<1> HIDE DEF e
<1>5. th' \in [Thread -> Activity] /\ th'[Root] = e /\ \A y \in Thread : y # Root => th'[y] = th[y]
  BY <1>1, <1>2, <1>4, OneThread, NodeFacts
<1>6. TypeOK'
  BY <1>1, <1>2, <1>3, <1>5 DEF TypeOK, Activity, PCs
<1>7. Aged'
  BY <1>1, <1>3, <1>4, <1>5, NodeFacts DEF Inv, Aged
<1> QED
  BY <1>1, <1>4, <1>5, <1>6, <1>7, ThreadStep, NodeFacts

LEMMA GetExportsStep ==
    ASSUME Inv, NEW list \in Lists, get_exports(list)
    PROVE  Inv'
<1> DEFINE e == IF list = {} THEN Idle ELSE [th[Root] EXCEPT !.pc = "update", !.todo = list]
<1>1. /\ th[Root].pc = "list" /\ th' = [th EXCEPT ![Root] = e]
      /\ clock' = clock /\ raced' = raced
      /\ root' = root /\ off' = off /\ tree' = tree /\ work' = work /\ trig' = trig /\ covered' = covered
      /\ real' = real /\ remount' = remount /\ failed' = failed /\ late' = late /\ crashed' = crashed
  BY Zenon DEF get_exports, cacheVars
<1>2. TypeOK /\ list \subseteq Offset
  BY NamesAssumption DEF Inv
<1>3. e \in Activity /\ e.pc \in {"idle", "update"} /\ (e.pc = "update" => e.age = th[Root].age)
  <2>1. th[Root] \in Activity
    BY <1>2, TypeFacts, NodeFacts
  <2>2. CASE list = {}
    BY <2>2, NodeFacts DEF Activity, PCs, Idle
  <2>3. CASE list # {}
    <3>1. e = [th[Root] EXCEPT !.pc = "update", !.todo = list]
      BY <2>3
    <3> HIDE DEF e
    <3> QED
      BY <1>2, <2>1, <3>1 DEF Activity, PCs
  <2> QED
    BY <2>2, <2>3
<1> HIDE DEF e
<1>4. th' \in [Thread -> Activity] /\ th'[Root] = e /\ \A y \in Thread : y # Root => th'[y] = th[y]
  BY <1>1, <1>2, <1>3, OneThread, NodeFacts
<1>5. TypeOK'
  BY <1>1, <1>2, <1>4 DEF TypeOK, Activity, PCs
<1>6. Aged'
  BY <1>1, <1>3, <1>4, NodeFacts DEF Inv, Aged
<1> QED
  BY <1>1, <1>3, <1>4, <1>5, <1>6, ThreadStep, NodeFacts

LEMMA RootUpdateStep ==
    ASSUME Inv, RootUpdate
    PROVE  Inv'
<1> DEFINE e == [th[Root] EXCEPT !.pc = "parse"]
<1>1. /\ th[Root].pc = "update" /\ th' = [th EXCEPT ![Root].pc = "parse"]
      /\ root' = [root EXCEPT !.age = th[Root].age]
      /\ clock' = clock /\ raced' = raced
      /\ off' = off /\ tree' = tree /\ work' = work /\ trig' = trig /\ covered' = covered
      /\ real' = real /\ remount' = remount /\ failed' = failed /\ late' = late /\ crashed' = crashed
  BY Zenon DEF RootUpdate
<1>2. TypeOK
  BY DEF Inv
<1>3. e \in Activity /\ e.pc = "parse"
  BY <1>2, TypeFacts, NodeFacts DEF Activity, PCs
<1>4. th' = [th EXCEPT ![Root] = e]
  BY <1>1, <1>2, TypeFacts, NodeFacts
<1> HIDE DEF e
<1>5. th' \in [Thread -> Activity] /\ th'[Root] = e /\ \A y \in Thread : y # Root => th'[y] = th[y]
  BY <1>2, <1>3, <1>4, OneThread, NodeFacts
<1>6. /\ root' \in [age : 0..MaxClock, mm : BOOLEAN] /\ root'.mm = root.mm
      /\ root'.age = th[Root].age /\ th[Root].age # 0
  BY <1>1, <1>2, TypeFacts, NodeFacts DEF Inv, Aged, TypeOK, Activity
<1>7. TypeOK'
  BY <1>1, <1>2, <1>5, <1>6 DEF TypeOK, Activity, PCs
<1>8. Aged'
  BY <1>1, <1>3, <1>5, <1>6, NodeFacts DEF Inv, Aged
<1> QED
  BY <1>1, <1>3, <1>5, <1>6, <1>7, <1>8, ThreadStep, NodeFacts

LEMMA UpdateHostsStep ==
    ASSUME Inv, NEW list \in Lists, update_hosts_mounts(list)
    PROVE  Inv'
<1> DEFINE e == [Idle EXCEPT !.pc = "parse", !.todo = list]
<1>1. /\ th[Reader].pc = "idle" /\ clock < MaxClock /\ clock' = clock + 1
      /\ th' = [th EXCEPT ![Reader] = e]
      /\ root' = [root EXCEPT !.age = clock'] /\ remount' = TRUE
      /\ raced' = (raced \/ th[Root].pc # "idle")
      /\ off' = off /\ tree' = tree /\ work' = work /\ trig' = trig /\ covered' = covered
      /\ real' = real /\ failed' = failed /\ late' = late /\ crashed' = crashed
  BY Zenon DEF update_hosts_mounts
<1>2. TypeOK /\ list \subseteq Offset
  BY NamesAssumption DEF Inv
<1>3. clock' \in 0..MaxClock /\ clock' # 0
  BY <1>1, <1>2, NodeFacts DEF TypeOK
<1>4. e \in Activity /\ e.pc = "parse"
  <2>1. Idle \in Activity
    BY NodeFacts DEF Activity, PCs, Idle
  <2> QED
    BY <1>2, <2>1 DEF Activity, PCs
<1> HIDE DEF e
<1>5. th' \in [Thread -> Activity] /\ th'[Reader] = e /\ \A y \in Thread : y # Reader => th'[y] = th[y]
  BY <1>1, <1>2, <1>4, OneThread, NodeFacts
<1>6. root' \in [age : 0..MaxClock, mm : BOOLEAN] /\ root'.mm = root.mm /\ root'.age = clock'
  BY <1>1, <1>2, <1>3 DEF TypeOK
<1>7. TypeOK'
  BY <1>1, <1>2, <1>3, <1>5, <1>6 DEF TypeOK, Activity, PCs
<1>8. Aged'
  BY <1>1, <1>3, <1>4, <1>5, <1>6, NodeFacts DEF Inv, Aged
<1> QED
  BY <1>1, <1>4, <1>5, <1>6, <1>7, <1>8, ThreadStep, NodeFacts

LEMMA UpdateEndStep ==
    ASSUME Inv, UpdateEnd
    PROVE  Inv'
<1>1. /\ th[Reader].pc = "end" /\ th' = [th EXCEPT ![Reader] = Idle] /\ remount' = FALSE
      /\ clock' = clock /\ raced' = raced
      /\ root' = root /\ off' = off /\ tree' = tree /\ work' = work /\ trig' = trig /\ covered' = covered
      /\ real' = real /\ failed' = failed /\ late' = late /\ crashed' = crashed
  BY Zenon DEF UpdateEnd, cacheVars
<1>2. TypeOK
  BY DEF Inv
<1>3. Idle \in Activity /\ Idle.pc = "idle"
  BY NodeFacts DEF Activity, PCs, Idle
<1>4. th' \in [Thread -> Activity] /\ th'[Reader] = Idle /\ \A y \in Thread : y # Reader => th'[y] = th[y]
  BY <1>1, <1>2, <1>3, OneThread, NodeFacts
<1>5. TypeOK'
  BY <1>1, <1>2, <1>4 DEF TypeOK, Activity, PCs
<1>6. Aged'
  BY <1>1, <1>3, <1>4, NodeFacts DEF Inv, Aged
<1> QED
  BY <1>1, <1>3, <1>4, <1>5, <1>6, ThreadStep, NodeFacts

LEMMA MountRootOffsetStep ==
    ASSUME Inv, NEW w \in {Root, Reader}, MountRootOffset(w)
    PROVE  Inv'
<1> DEFINE e == [th[w] EXCEPT !.pc = "triggers"]
<1>1. /\ th[w].pc = "base" /\ th' = [th EXCEPT ![w].pc = "triggers"]
      /\ clock' = clock /\ raced' = raced
      /\ root' = root /\ off' = off /\ tree' = tree /\ work' = work /\ trig' = trig /\ covered' = covered
      /\ remount' = remount /\ failed' = failed /\ late' = late /\ crashed' = crashed
  BY Zenon DEF MountRootOffset, cacheVars
<1>2. real' = real \/ real' = real \cup {Root}
  BY Zenon DEF MountRootOffset, sun_mount
<1>3. TypeOK /\ w \in Thread
  BY NodeFacts DEF Inv
<1>4. e \in Activity /\ e.pc = "triggers"
  BY <1>3, TypeFacts DEF Activity, PCs
<1>5. th' = [th EXCEPT ![w] = e]
  BY <1>1, <1>3, TypeFacts
<1> HIDE DEF e
<1>6. th' \in [Thread -> Activity] /\ th'[w] = e /\ \A y \in Thread : y # w => th'[y] = th[y]
  BY <1>3, <1>4, <1>5, OneThread
<1>7. TypeOK'
  BY <1>1, <1>2, <1>3, <1>6, NodeFacts DEF TypeOK, Activity, PCs
<1>8. Aged'
  BY <1>1, <1>4, <1>6, NodeFacts DEF Inv, Aged
<1> QED
  BY <1>1, <1>2, <1>4, <1>6, <1>7, <1>8, ThreadStep, NodeFacts

LEMMA OffsetRequestStep ==
    ASSUME Inv, NEW o \in Offset, OffsetRequest(o)
    PROVE  Inv'
<1> DEFINE e == [th[o] EXCEPT !.pc = "base"]
<1>1. /\ o \in trig /\ th[o].pc = "idle"
      /\ th' = IF off[o].valid THEN [th EXCEPT ![o].pc = "base"] ELSE th
      /\ crashed' = ~off[o].valid
      /\ clock' = clock /\ raced' = raced /\ real' = real
      /\ root' = root /\ off' = off /\ tree' = tree /\ work' = work /\ trig' = trig /\ covered' = covered
      /\ remount' = remount /\ failed' = failed /\ late' = late
  BY Zenon DEF OffsetRequest, cacheVars
<1>2. TypeOK /\ o \in Thread /\ off[o].valid \in BOOLEAN
  BY NodeFacts, TypeFacts DEF Inv, TypeOK
<1>3. e \in Activity /\ e.pc = "base"
  BY <1>2, TypeFacts DEF Activity, PCs
<1>4. th' = [th EXCEPT ![o] = e] \/ th' = th
  BY <1>1, <1>2, TypeFacts
<1> HIDE DEF e
<1>5. th' \in [Thread -> Activity] /\ \A y \in Thread : y # o => th'[y] = th[y]
  BY <1>2, <1>3, <1>4, OneThread, TypeFacts
<1>6. TypeOK'
  BY <1>1, <1>2, <1>5 DEF TypeOK, Activity, PCs
<1>7. Aged'
  BY <1>1, <1>5, NodeFacts DEF Inv, Aged
<1>8. \A y \in Offset : th'[y].pc # "idle" => th[y].pc # "idle" \/ y \in trig
  BY <1>1, <1>5, NodeFacts
<1> QED
  BY <1>1, <1>5, <1>6, <1>7, <1>8, ThreadStep, NodeFacts

LEMMA MountOffsetStep ==
    ASSUME Inv, NEW o \in Offset, MountOffset(o)
    PROVE  Inv'
<1> DEFINE e == [th[o] EXCEPT !.pc = "triggers"]
<1>1. /\ th[o].pc = "base" /\ th' = [th EXCEPT ![o].pc = "triggers"]
      /\ clock' = clock /\ raced' = raced
      /\ root' = root /\ off' = off /\ tree' = tree /\ work' = work /\ trig' = trig /\ covered' = covered
      /\ remount' = remount /\ failed' = failed /\ late' = late /\ crashed' = crashed
  BY Zenon DEF MountOffset, cacheVars
<1>2. real' = real \/ real' = real \cup {o}
  BY Zenon DEF MountOffset, sun_mount
<1>3. TypeOK /\ o \in Thread
  BY NodeFacts DEF Inv
<1>4. e \in Activity /\ e.pc = "triggers"
  BY <1>3, TypeFacts DEF Activity, PCs
<1>5. th' = [th EXCEPT ![o] = e]
  BY <1>1, <1>3, TypeFacts
<1> HIDE DEF e
<1>6. th' \in [Thread -> Activity] /\ th'[o] = e /\ \A y \in Thread : y # o => th'[y] = th[y]
  BY <1>3, <1>4, <1>5, OneThread
<1>7. TypeOK'
  BY <1>1, <1>2, <1>3, <1>6, NodeFacts DEF TypeOK, Activity, PCs
<1>8. Aged'
  BY <1>1, <1>4, <1>6, NodeFacts DEF Inv, Aged
<1>9. CASE o \in trig
  BY <1>1, <1>2, <1>6, <1>7, <1>8, <1>9, ThreadStep, NodeFacts
<1>10. CASE o \notin trig
  <2>1. late
    BY <1>1, <1>10 DEF Inv, Placed
  <2>2. Parents' /\ InTree'
    BY <1>1, <1>3, SameEntries DEF Inv
  <2>3. Listed' /\ Rooted'
    BY <1>1, <1>6, NodeFacts DEF Inv, Listed, Rooted
  <2> QED
    BY <1>1, <1>7, <1>8, <2>1, <2>2, <2>3 DEF Inv
<1> QED
  BY <1>9, <1>10

LEMMA ParseRootStep ==
    ASSUME Inv, NEW w \in {Root, Reader}, ParseRoot(w)
    PROVE  Inv'
<1> DEFINE e == [th[w] EXCEPT !.pc = "offsets", !.age = root.age]
<1>1. /\ th[w].pc = "parse" /\ th' = [th EXCEPT ![w].pc = "offsets", ![w].age = root.age]
      /\ root' = [root EXCEPT !.mm = TRUE]
      /\ tree' = IF root.mm THEN tree ELSE [tree EXCEPT ![Root] = {}]
      /\ clock' = clock /\ raced' = raced /\ real' = real
      /\ off' = off /\ work' = work /\ trig' = trig /\ covered' = covered
      /\ remount' = remount /\ failed' = failed /\ late' = late /\ crashed' = crashed
  BY Zenon DEF ParseRoot
<1>2. TypeOK /\ w \in Thread
  BY NodeFacts DEF Inv
<1>3. /\ root' \in [age : 0..MaxClock, mm : BOOLEAN] /\ root'.mm = TRUE /\ root'.age = root.age
      /\ root.age \in 0..MaxClock
  BY <1>1, <1>2 DEF TypeOK
<1>4. e \in Activity /\ e.pc = "offsets" /\ e.age = root.age
  <2>1. th[w] \in Activity
    BY <1>2, TypeFacts
  <2> QED
    BY <1>3, <2>1 DEF Activity, PCs
<1>5. th' = [th EXCEPT ![w] = e]
  BY <1>1, <1>2, TypeFacts
<1> HIDE DEF e
<1>6. th' \in [Thread -> Activity] /\ th'[w] = e /\ \A y \in Thread : y # w => th'[y] = th[y]
  BY <1>2, <1>4, <1>5, OneThread
<1>7. tree' = tree
  <2>1. tree \in [Node -> SUBSET Offset] /\ (~root.mm => tree[Root] = {})
    BY <1>2 DEF TypeOK, Inv, Rooted
  <2> QED
    BY <1>1, <2>1, NodeFacts
<1>8. TypeOK'
  BY <1>1, <1>2, <1>3, <1>6, <1>7 DEF TypeOK, Activity, PCs
<1>9. Parents' /\ InTree' /\ (Entered => Entered')
  BY <1>1, <1>2, <1>7, SameEntries DEF Inv
<1>10. Listed'
  BY <1>1, <1>4, <1>6, NodeFacts DEF Inv, Listed
<1>11. Aged'
  BY <1>1, <1>3, <1>4, <1>6, NodeFacts DEF Inv, Aged
<1>12. Rooted'
  BY <1>3 DEF Rooted
<1>13. Placed => Placed'
  BY <1>1, <1>2, <1>6, <1>7, StillPlaced, NodeFacts
<1> QED
  BY <1>1, <1>8, <1>9, <1>10, <1>11, <1>12, <1>13 DEF Inv

\* The first offset of a list is one of it.
LEMMA FirstIn ==
    ASSUME NEW S \in SUBSET Offset, S # {}
    PROVE  First(S) \in S
<1> DEFINE I == {i \in DOMAIN ByLength : ByLength[i] \in S}
<1>1. DOMAIN ByLength = 1..Len(ByLength) /\ Len(ByLength) \in Nat
  BY OrderAssumption
<1>2. I # {} /\ I \in SUBSET Nat
  <2>1. PICK o \in S : TRUE
    OBVIOUS
  <2>2. \E i \in DOMAIN ByLength : ByLength[i] = o
    BY OrderAssumption DEF ToSet
  <2> QED
    BY <1>1, <2>2
<1>3. PICK i \in I : \A j \in I : i <= j
  BY <1>2, Least
<1>4. \E k \in DOMAIN ByLength : ByLength[k] \in S /\ \A j \in 1..(k - 1) : ByLength[j] \notin S
  BY <1>1, <1>3
<1> QED
  BY <1>4, Zenon DEF First

LEMMA ParseOffsetStep ==
    ASSUME Inv, NEW w \in {Root, Reader}, ParseOffset(w)
    PROVE  Inv'
<1> DEFINE o == First(th[w].todo)
           e == [th[w] EXCEPT !.todo = @ \ {o}]
           n == [off[o] EXCEPT !.age = th[w].age, !.valid = TRUE]
<1>1. /\ th[w].pc = "offsets" /\ th[w].todo # {}
      /\ off' = [off EXCEPT ![o].age = th[w].age, ![o].valid = TRUE]
      /\ work' = IF \E x \in DOMAIN work : o \in work[x] THEN work ELSE [work EXCEPT ![w] = @ \cup {o}]
      /\ th' = [th EXCEPT ![w].todo = @ \ {o}]
      /\ late' = (late \/ (off[o].age = 0 /\ \E q \in tree[Root] : o \in Above[q]))
      /\ clock' = clock /\ root' = root /\ tree' = tree /\ trig' = trig /\ covered' = covered /\ real' = real
      /\ remount' = remount /\ failed' = failed /\ raced' = raced /\ crashed' = crashed
  BY Zenon DEF ParseOffset, update_offset_entry
<1>2. TypeOK /\ w \in Thread /\ th[w] \in Activity
  BY NodeFacts, TypeFacts DEF Inv
<1>3. o \in th[w].todo /\ o \in Offset /\ th[w].age \in 0..MaxClock /\ th[w].age # 0
  <2>1. th[w].todo \in SUBSET Offset /\ th[w].age \in 0..MaxClock
    BY <1>2 DEF Activity
  <2>2. th[w].age # 0
    BY <1>1 DEF Inv, Aged
  <2> DEFINE S == th[w].todo
  <2> HIDE DEF S
  <2>3. First(S) \in S
    BY <1>1, <2>1, FirstIn DEF S
  <2> QED
    BY <2>1, <2>2, <2>3 DEF S
<1> HIDE DEF o
<1>4. e \in Activity /\ e.pc = "offsets" /\ e.age = th[w].age
  BY <1>1, <1>2 DEF Activity, PCs
<1>5. th' = [th EXCEPT ![w] = e]
  BY <1>1, <1>2, TypeFacts
<1> HIDE DEF e
<1>6. th' \in [Thread -> Activity] /\ th'[w] = e /\ \A y \in Thread : y # w => th'[y] = th[y]
  BY <1>2, <1>4, <1>5, OneThread
<1>7. n \in Entry /\ n.parent = off[o].parent /\ n.age = th[w].age
  <2>1. off[o] \in Entry
    BY <1>2, <1>3, TypeFacts
  <2> QED
    BY <1>3, <2>1 DEF Entry
<1>8. off' = [off EXCEPT ![o] = n]
  BY <1>1, <1>2, <1>3, TypeFacts
<1> HIDE DEF n
<1>9. /\ off' \in [Offset -> Entry] /\ off'[o] = n
      /\ \A x \in Offset : off'[x].parent = off[x].parent /\ (x # o => off'[x] = off[x])
  BY <1>2, <1>3, <1>7, <1>8, TypeFacts
<1>10. \A x \in Offset : (off[x].age # 0 => off'[x].age # 0) /\ (off'[x].age # 0 => off[x].age # 0 \/ x = o)
  BY <1>3, <1>7, <1>9
<1>11. work' \in [{Root, Reader} -> SUBSET Offset] /\ \A x \in {Root, Reader} :
         work'[x] = work[x] \/ (x = w /\ work'[x] = work[x] \cup {o})
  <2>1. work \in [{Root, Reader} -> SUBSET Offset]
    BY <1>2 DEF TypeOK
  <2> QED
    BY <1>1, <1>3, <2>1
<1>12. TypeOK'
  <2>1. late' \in BOOLEAN
    BY <1>1, <1>2 DEF TypeOK
  <2> QED
    BY <1>1, <1>2, <1>6, <1>9, <1>11, <2>1 DEF TypeOK, Activity, PCs, Entry
<1>13. tree[Root] \subseteq Offset /\ \A x \in Offset : \A p \in Above[x] : p \in Offset
  BY <1>2, NodeFacts, AboveAssumption DEF TypeOK
<1>14. Parents'
  BY <1>9 DEF Inv, Parents
<1>15. InTree'
  <2>1. \A x \in tree[Root] : x \in Offset /\ (off[x].parent # Root => off[x].parent \in Offset)
    BY <1>13 DEF Inv, Parents
  <2> QED
    BY <1>1, <1>9, <1>10, <2>1 DEF Inv, InTree
<1>16. Listed'
  <2>1. ASSUME NEW x \in {Root, Reader} PROVE work'[x] # {} => th'[x].pc = "offsets"
    BY <1>4, <1>6, <1>11, NodeFacts DEF Inv, Listed
  <2>2. ASSUME NEW x \in {Root, Reader}, NEW y \in work'[x] PROVE off'[y].age # 0
    <3>1. y = o \/ y \in work[x]
      BY <1>11
    <3>2. y \in Offset
      BY <1>11
    <3>3. y \in work[x] => off[y].age # 0
      BY DEF Inv, Listed
    <3> QED
      BY <1>3, <1>7, <1>9, <1>10, <3>1, <3>2, <3>3
  <2> QED
    BY <2>1, <2>2 DEF Listed
<1>17. Aged'
  BY <1>1, <1>3, <1>4, <1>6, NodeFacts DEF Inv, Aged
<1>18. Rooted'
  BY <1>1, <1>4, <1>6, NodeFacts DEF Inv, Rooted
<1>19. ASSUME ~late' PROVE ~late /\ Entered'
  <2>1. ~late /\ Entered
    BY <1>1, <1>19 DEF Inv
  <2>2. SUFFICES ASSUME NEW x \in tree[Root], NEW p \in Above[x], off'[p].age # 0
                 PROVE  off[x].parent # Root /\ (p = off[x].parent \/ p \in Above[off[x].parent])
    BY <1>1, <1>9, <1>13, <2>1 DEF Entered
  <2>3. x \in Offset /\ p \in Offset
    BY <1>13
  <2>4. off[p].age # 0
    BY <1>1, <1>10, <1>19, <2>2, <2>3
  <2> QED
    BY <2>1, <2>4 DEF Entered
<1>20. ASSUME Placed PROVE Placed'
  <2>1. \A x \in trig : off'[x].parent = off[x].parent
    BY <1>2, <1>9 DEF TypeOK
  <2>2. \A x \in Offset : th'[x].pc # "idle" => th[x].pc # "idle" \/ x \in trig
    BY <1>6, NodeFacts
  <2> QED
    BY <1>1, <1>2, <1>20, <2>1, <2>2, StillPlaced
<1> QED
  BY <1>12, <1>14, <1>15, <1>16, <1>17, <1>18, <1>19, <1>20 DEF Inv

\* The nearest offset above one that is in the tree is the same as before.
LEMMA SameParent ==
    ASSUME TypeOK, Parents, InTree, Entered, NEW o \in tree[Root]
    PROVE  cache_get_offset_parent(off, o) = off[o].parent
<1> DEFINE ps == {p \in Above[o] : off[p].age # 0}
           q == cache_get_offset_parent(off, o)
           r == off[o].parent
<1>1. o \in Offset
  BY NodeFacts DEF TypeOK
<1>2. /\ q \in Above[o] \cup {Root}
      /\ q = Root <=> ps = {}
      /\ q # Root => q \in ps
      /\ \A p \in ps : p = q \/ p \in Above[q]
  BY <1>1, ParentFacts
<1>3. r \in Above[o] \cup {Root} /\ (r # Root => r \in ps)
  BY <1>1 DEF Parents, InTree
<1>4. \A p \in ps : r # Root /\ (p = r \/ p \in Above[r])
  BY DEF Entered
<1> HIDE DEF q
<1>5. CASE ps = {}
  <2>1. q = Root /\ r = Root
    BY <1>2, <1>3, <1>5
  <2> QED
    BY <2>1 DEF q
<1>6. CASE ps # {}
  <2>1. q \in ps /\ r \in ps
    BY <1>2, <1>3, <1>4, <1>6
  <2>2. r = q \/ (r \in Above[q] /\ q \in Above[r])
    BY <1>2, <1>4, <2>1
  <2>3. q \in Offset /\ r \in Offset
    BY <1>1, <2>1, DepthFacts
  <2>4. ~(r \in Above[q] /\ q \in Above[r])
    <3> SUFFICES ASSUME r \in Above[q], q \in Above[r] PROVE FALSE
      OBVIOUS
    <3> HIDE DEF r
    <3>1. Depth[r] < Depth[q] /\ Depth[q] < Depth[r] /\ Depth[q] \in Nat /\ Depth[r] \in Nat
      BY <2>3, DepthFacts
    <3> QED
      BY <3>1
  <2> QED
    BY <2>2, <2>4 DEF q
<1> QED
  BY <1>5, <1>6

LEMMA ParseTreeStep ==
    ASSUME Inv, NEW w \in {Root, Reader}, ParseTree(w)
    PROVE  Inv'
<1> DEFINE list == work[w]
           e == [th[w] EXCEPT !.pc = "base"]
<1>1. /\ th[w].pc = "offsets" /\ tree_mapent_add_nodes(list)
      /\ off' = [o \in Offset |-> IF o \in list
                                  THEN [off[o] EXCEPT !.parent = cache_get_offset_parent(off, o)]
                                  ELSE off[o]]
      /\ work' = [work EXCEPT ![w] = {}] /\ th' = [th EXCEPT ![w].pc = "base"]
      /\ clock' = clock /\ root' = root /\ trig' = trig /\ covered' = covered /\ real' = real
      /\ remount' = remount /\ failed' = failed /\ raced' = raced /\ late' = late /\ crashed' = crashed
  BY Zenon DEF ParseTree, tree_mapent_add_nodes
<1>2. TypeOK /\ w \in Thread /\ th[w] \in Activity /\ list \in SUBSET Offset
  BY NodeFacts, TypeFacts DEF Inv, TypeOK
<1>3. \A o \in list : off[o].age # 0
  BY DEF Inv, Listed
<1> HIDE DEF list
<1>4. e \in Activity /\ e.pc = "base"
  BY <1>2 DEF Activity, PCs
<1>5. th' = [th EXCEPT ![w] = e]
  BY <1>1, <1>2, TypeFacts
<1> HIDE DEF e
<1>6. th' \in [Thread -> Activity] /\ th'[w] = e /\ \A y \in Thread : y # w => th'[y] = th[y]
  BY <1>2, <1>4, <1>5, OneThread
<1>7. /\ tree' \in [Node -> SUBSET Offset] /\ \A n \in Node : tree'[n] \subseteq tree'[Root]
      /\ \A n \in Node : tree[n] \subseteq tree'[n] /\ tree'[n] \subseteq tree[n] \cup list
  <2>1. tree \in Trees
    BY <1>2 DEF Inv, InTree, TypeOK, Trees
  <2>2. tree' \in Trees /\ \A n \in Node : tree[n] \subseteq tree'[n] /\ tree'[n] \subseteq tree[n] \cup list
    BY <1>1, <1>2, <2>1, AddNodes
  <2> QED
    BY <2>2 DEF Trees
<1> DEFINE P(o) == IF o \in list THEN cache_get_offset_parent(off, o) ELSE off[o].parent
<1>8. \A o \in Offset : P(o) \in Above[o] \cup {Root}
  <2> TAKE o \in Offset
  <2>1. cache_get_offset_parent(off, o) \in Above[o] \cup {Root}
    BY ParentFacts
  <2>2. off[o].parent \in Above[o] \cup {Root}
    BY DEF Inv, Parents
  <2> QED
    BY <2>1, <2>2
<1>9. /\ off' \in [Offset -> Entry]
      /\ \A o \in Offset : off'[o].age = off[o].age /\ off'[o].parent = P(o)
  <2>1. ASSUME NEW o \in Offset
        PROVE  off'[o] \in Entry /\ off'[o].age = off[o].age /\ off'[o].parent = P(o)
    <3>1. off[o] \in Entry /\ P(o) \in Node
      BY <1>2, <1>8, TypeFacts, DepthFacts
    <3>2. off'[o] = IF o \in list THEN [off[o] EXCEPT !.parent = cache_get_offset_parent(off, o)] ELSE off[o]
      BY <1>1, Zenon
    <3> QED
      BY <3>1, <3>2 DEF Entry
  <2>2. DOMAIN off' = Offset /\ off' = [o \in Offset |-> off'[o]]
    BY <1>1
  <2> HIDE DEF P
  <2> QED
    BY <2>1, <2>2
<1>10. /\ work' \in [{Root, Reader} -> SUBSET Offset] /\ work'[w] = {}
       /\ \A x \in {Root, Reader} : x # w => work'[x] = work[x]
  <2>1. work \in [{Root, Reader} -> SUBSET Offset]
    BY <1>2 DEF TypeOK
  <2> QED
    BY <1>1, <2>1
<1>11. TypeOK'
  BY <1>1, <1>2, <1>6, <1>7, <1>9, <1>10 DEF TypeOK, Activity, PCs, Entry
<1>12. Parents'
  BY <1>8, <1>9 DEF Parents
<1>13. /\ tree[Root] \subseteq Offset /\ tree'[Root] \subseteq tree[Root] \cup list
       /\ \A o \in Offset : \A p \in Above[o] : p \in Offset
  BY <1>2, <1>7, NodeFacts, AboveAssumption DEF TypeOK
<1>14. InTree'
  <2>1. SUFFICES ASSUME NEW o \in tree'[Root]
                 PROVE  off'[o].age # 0 /\ (off'[o].parent # Root => off'[off'[o].parent].age # 0)
    BY <1>7 DEF InTree
  <2>2. o \in Offset /\ (o \in list \/ o \in tree[Root])
    BY <1>2, <1>13
  <2>3. off[o].age # 0
    BY <1>3, <2>2 DEF Inv, InTree
  <2>4. P(o) # Root => P(o) \in Offset /\ off[P(o)].age # 0
    <3>1. CASE o \in list
      BY <1>13, <2>2, <3>1, ParentFacts
    <3>2. CASE o \notin list
      BY <1>13, <2>2, <3>2 DEF Inv, InTree, Parents
    <3> QED
      BY <3>1, <3>2
  <2> HIDE DEF P
  <2> QED
    BY <1>9, <2>2, <2>3, <2>4
<1>15. Listed'
  <2>1. ASSUME NEW x \in {Root, Reader} PROVE work'[x] # {} => th'[x].pc = "offsets"
    BY <1>6, <1>10, NodeFacts DEF Inv, Listed
  <2>2. ASSUME NEW x \in {Root, Reader}, NEW y \in work'[x] PROVE off'[y].age # 0
    BY <1>9, <1>10 DEF Inv, Listed
  <2> QED
    BY <2>1, <2>2 DEF Listed
<1>16. Aged'
  BY <1>1, <1>4, <1>6, NodeFacts DEF Inv, Aged
<1>17. Rooted'
  BY <1>1, <1>4, <1>6, NodeFacts DEF Inv, Rooted
<1>18. ASSUME ~late PROVE Entered'
  <2>1. SUFFICES ASSUME NEW o \in tree'[Root], NEW p \in Above[o], off'[p].age # 0
                 PROVE  off'[o].parent # Root /\ (p = off'[o].parent \/ p \in Above[off'[o].parent])
    BY DEF Entered
  <2>2. o \in Offset /\ (o \in list \/ o \in tree[Root]) /\ p \in Offset
    BY <1>2, <1>13
  <2>3. off[p].age # 0
    BY <1>9, <2>1, <2>2
  <2>4. P(o) # Root /\ (p = P(o) \/ p \in Above[P(o)])
    <3>1. CASE o \in list
      <4> DEFINE q == cache_get_offset_parent(off, o)
                 ps == {x \in Above[o] : off[x].age # 0}
      <4>1. (q = Root <=> ps = {}) /\ \A x \in ps : x = q \/ x \in Above[q]
        BY <2>2, ParentFacts
      <4>2. p \in ps /\ P(o) = q
        BY <2>3, <3>1
      <4> HIDE DEF q, ps, P
      <4> QED
        BY <4>1, <4>2
    <3>2. CASE o \notin list
      BY <1>18, <2>2, <2>3, <3>2 DEF Inv, Entered
    <3> QED
      BY <3>1, <3>2
  <2> HIDE DEF P
  <2> QED
    BY <1>9, <2>2, <2>4
<1>19. ASSUME ~late PROVE Placed'
  <2>1. Entered /\ Placed
    BY <1>19 DEF Inv
  <2>2. \A o \in trig : off'[o].parent = off[o].parent
    <3> TAKE o \in trig
    <3>1. o \in Offset /\ off[o].parent \in Node
      BY <1>2, TypeFacts DEF TypeOK
    <3>2. o \in tree[Root]
      BY <2>1, <3>1 DEF Placed, Part, Inv, InTree
    <3>3. cache_get_offset_parent(off, o) = off[o].parent
      BY <1>2, <2>1, <3>2, SameParent DEF Inv
    <3> QED
      BY <1>9, <3>1, <3>3
  <2>3. \A x \in Offset : th'[x].pc # "idle" => th[x].pc # "idle" \/ x \in trig
    BY <1>6, NodeFacts
  <2> QED
    BY <1>1, <1>2, <1>7, <2>1, <2>2, <2>3, StillPlaced
<1> QED
  BY <1>1, <1>11, <1>12, <1>14, <1>15, <1>16, <1>17, <1>18, <1>19 DEF Inv
-----------------------------------------------------------------------------
\* A walk of the tree has been made, and the threads go on.
LEMMA ApplyStep ==
    ASSUME Inv, NEW r, Typed(r), ~late => InPlace(r), Apply(r),
           UNCHANGED <<clock, root, tree, work, remount, raced, late, crashed>>,
           th' \in [Thread -> Activity],
           \A w \in {Root, Reader} : th'[w] = th[w] \/ (th[w].pc = "triggers" /\ th'[w].pc \in {"idle", "end"}),
           \A o \in Offset : th'[o].pc # "idle" => th[o].pc # "idle"
    PROVE  Inv'
<1>1. off' = r.off /\ trig' = r.trig /\ covered' = r.covered /\ real' = r.real /\ failed' = r.failed
  BY DEF Apply
<1>2. r \in WalkState /\ \A o \in Offset : off'[o].parent = off[o].parent /\ off'[o].age = off[o].age
  BY <1>1 DEF Typed
<1>3. TypeOK'
  BY <1>1, <1>2 DEF Inv, TypeOK, WalkState, Activity, PCs, Entry
<1>4. Parents' /\ InTree' /\ (Entered => Entered')
  BY <1>2, SameEntries DEF Inv
<1>5. Listed'
  <2>1. \A w \in {Root, Reader} : work[w] \subseteq Offset
    BY DEF Inv, TypeOK
  <2> QED
    BY <1>2, <2>1 DEF Inv, Listed
<1>6. Aged'
  <2>1. \A w \in {Root, Reader} : th'[w] = th[w] \/ th'[w].pc \in {"idle", "end"}
    OBVIOUS
  <2> QED
    BY <2>1 DEF Inv, Aged
<1>7. Rooted'
  <2>1. \A w \in {Root, Reader} : th'[w] = th[w] \/ th'[w].pc \in {"idle", "end"}
    OBVIOUS
  <2> QED
    BY <2>1 DEF Inv, Rooted
<1>8. ASSUME ~late PROVE Placed'
  <2>1. InPlace(r) /\ r.trig \subseteq Offset
    BY <1>2, <1>8 DEF WalkState
  <2>2. \A n \in Node : Part(n)' = Part(n)
    <3> TAKE n \in Node
    <3>1. tree[n] \subseteq Offset
      BY DEF Inv, TypeOK
    <3> QED
      BY <1>2, <3>1 DEF Part
  <2>3. \A o \in trig' : /\ o \in Part(off[o].parent) /\ off'[o].parent = off[o].parent
                         /\ off[o].parent \in Node
    BY <1>1, <1>2, <2>1, TypeFacts DEF InPlace, Inv
  <2> QED
    BY <1>1, <2>1, <2>2, <2>3 DEF Placed, InPlace
<1> QED
  BY <1>3, <1>4, <1>5, <1>6, <1>7, <1>8 DEF Inv

LEMMA MountTriggersStep ==
    ASSUME Inv, NEW x \in Thread, MountTriggers(x)
    PROVE  Inv'
<1> DEFINE base == IF x = Reader THEN Root ELSE x
           e == IF x = Reader THEN [th[x] EXCEPT !.pc = "end"] ELSE Idle
<1>1. /\ th[x].pc = "triggers" /\ th' = [th EXCEPT ![x] = e]
      /\ \E out \in Outcomes(Offset) : Apply(tree_mapent_mount_offsets(Now, base, remount, out))
      /\ UNCHANGED <<clock, root, tree, work, remount, raced, late, crashed>>
  BY Zenon DEF MountTriggers
<1>2. PICK out \in Outcomes(Offset) : Apply(tree_mapent_mount_offsets(Now, base, remount, out))
  BY <1>1
<1>3. TypeOK /\ TreeTyped /\ base \in Node
  BY NodeFacts, InvTree DEF Inv, Thread
<1>4. e \in Activity /\ e.pc \in {"idle", "end"} /\ (x \in Offset => e.pc = "idle")
  <2>1. th[x] \in Activity /\ Idle \in Activity /\ Idle.pc = "idle"
    BY <1>3, TypeFacts, NodeFacts DEF Activity, PCs, Idle
  <2>2. CASE x = Reader
    BY <2>1, <2>2, NodeFacts DEF Activity, PCs
  <2>3. CASE x # Reader
    BY <2>1, <2>3
  <2> QED
    BY <2>2, <2>3
<1>5. (~late => Placed) /\ (x \in Offset \/ base = Root)
  BY NodeFacts DEF Inv, Thread, Node
<1> DEFINE r == tree_mapent_mount_offsets(Now, base, remount, out)
<1>6. ~late => (x \in Offset => x \in trig)
  BY <1>1, <1>5 DEF Placed
<1>7. base \in Offset => base = x
  BY NodeFacts
<1>8. ASSUME ~late PROVE Mounting(Now, base, remount)
  <2>1. Placed /\ InPlace(Now) /\ Now.trig = trig
    BY <1>3, <1>5, <1>8, NowTyped DEF Now
  <2>2. base \in trig \cup {Root}
    BY <1>5, <1>6, <1>8, NodeFacts
  <2>3. Into(remount) \subseteq trig \cup {Root}
    BY <2>1 DEF Into, Placed
  <2> HIDE DEF base
  <2> QED
    BY <2>1, <2>2, <2>3 DEF Mounting, Visited
<1> HIDE DEF e, base
<1>9. th' \in [Thread -> Activity] /\ th'[x] = e /\ \A y \in Thread : y # x => th'[y] = th[y]
  BY <1>1, <1>3, <1>4, OneThread
<1>10. Typed(r) /\ (~late => InPlace(r))
  <2>1. Typed(Now)
    BY <1>3, NowTyped
  <2> DEFINE s == Now
             deep == remount
  <2>2. Typed(s) /\ (~late => Mounting(s, base, deep)) /\ r = tree_mapent_mount_offsets(s, base, deep, out)
    BY <1>8, <2>1
  <2>3. (~late => Entered) /\ InTree
    BY DEF Inv
  <2> HIDE DEF s, deep, r
  <2>4. Typed(r) /\ (Entered /\ InTree /\ Mounting(s, base, deep) => Mounting(r, base, deep))
    BY <1>3, <2>2, MountWalk
  <2> QED
    BY <2>2, <2>3, <2>4 DEF Mounting
<1>11. Apply(r)
  BY <1>2
<1> HIDE DEF r
<1>12. \A w \in {Root, Reader} : th'[w] = th[w] \/ (th[w].pc = "triggers" /\ th'[w].pc \in {"idle", "end"})
  BY <1>1, <1>4, <1>9, NodeFacts
<1>13. \A o \in Offset : th'[o].pc # "idle" => th[o].pc # "idle"
  BY <1>4, <1>9, NodeFacts
<1> QED
  BY <1>1, <1>9, <1>10, <1>11, <1>12, <1>13, ApplyStep

\* The umounts of a subtree.
LEMMA UmountWalk ==
    ASSUME Inv, NEW base \in Node, NEW out, NEW s, s = tree_mapent_umount_offsets(base, out)
    PROVE  /\ Typed(s)
           /\ ~late => /\ InPlace(s) /\ s.trig \subseteq trig
                       /\ base = Root /\ ~s.stop => s.trig = {}
<1> DEFINE seq == UmountOrder(base)
           n == Now
<1>1. TreeTyped /\ TypeOK
  BY InvTree DEF Inv
<1>2. seq \in Seq(Offset)
  BY <1>1, UmountDefined
<1>3. s = UmountSeq(n, seq, out)
  BY DEF tree_mapent_umount_offsets
<1>4. Typed(n) /\ (~late => InPlace(n)) /\ n.trig = trig
  BY <1>1, NowTyped DEF Inv, Now
<1> HIDE DEF seq, n
<1>5. /\ Typed(s)
      /\ InPlace(n) => /\ InPlace(s)
                       /\ s.trig \subseteq n.trig /\ n.trig \ ToSet(seq) \subseteq s.trig
                       /\ ~s.stop => s.trig \cap ToSet(seq) = {}
  BY <1>1, <1>2, <1>3, <1>4, UmountSeqFacts
<1>6. ASSUME ~late, base = Root, ~s.stop PROVE s.trig = {}
  <2> DEFINE T == trig
  <2>1. T \in SUBSET Offset
    BY <1>1 DEF TypeOK
  <2>2. \A o \in T : o \in Part(off[o].parent) /\ off[o].parent \in T \cup {Root}
    BY <1>6 DEF Inv, Placed
  <2> HIDE DEF T
  <2>3. T \subseteq ToSet(UmountOrder(Root))
    BY <1>1, <2>1, <2>2, UmountReaches
  <2> QED
    BY <1>4, <1>5, <1>6, <2>3 DEF T, seq
<1> QED
  BY <1>4, <1>5, <1>6

\* What an expire adds to the failures is a trigger.
LEMMA BareTyped ==
    ASSUME TypeOK, NEW s, Typed(s)
    PROVE  Typed(Bare(s)) /\ (InPlace(s) => InPlace(Bare(s)))
<1>1. s \in WalkState /\ trig \ s.trig \subseteq Offset
  BY DEF Typed, TypeOK
<1>2. /\ Bare(s) \in WalkState /\ Bare(s).off = s.off /\ Bare(s).trig = s.trig
      /\ Bare(s).covered = s.covered /\ Bare(s).real = s.real
  BY <1>1 DEF Bare, WalkState
<1> QED
  BY <1>2 DEF Typed, InPlace

\* A mount that goes.
LEMMA GoneTyped ==
    ASSUME NEW s, Typed(s), NEW n
    PROVE  LET r == [s EXCEPT !.real = @ \ {n}]
           IN /\ Typed(r) /\ (InPlace(s) => InPlace(r))
              /\ r.off = s.off /\ r.trig = s.trig /\ r.covered = s.covered /\ r.real = s.real \ {n}
              /\ r.failed = s.failed
<1> DEFINE r == [s EXCEPT !.real = @ \ {n}]
<1>1. s \in WalkState
  BY DEF Typed
<1>2. /\ r \in WalkState /\ r.off = s.off /\ r.trig = s.trig /\ r.failed = s.failed
      /\ r.covered = s.covered /\ r.real = s.real \ {n}
  BY <1>1 DEF WalkState
<1> HIDE DEF r
<1>3. Typed(r) /\ (InPlace(s) => InPlace(r))
  BY <1>2 DEF Typed, InPlace
<1> QED
  BY <1>2, <1>3 DEF r

LEMMA ExpireOffsetStep ==
    ASSUME Inv, NEW o \in Offset, ExpireOffset(o)
    PROVE  Inv'
<1>1. /\ \E out \in Outcomes(trig \cup real) :
           LET s == tree_mapent_umount_offsets(o, out)
           IN Apply(Bare(s)) \/ Apply([s EXCEPT !.real = @ \ {o}])
      /\ UNCHANGED <<clock, root, tree, work, remount, raced, late, crashed>> /\ th' = th
  BY Zenon DEF ExpireOffset
<1>2. PICK out : LET s == tree_mapent_umount_offsets(o, out)
                 IN Apply(Bare(s)) \/ Apply([s EXCEPT !.real = @ \ {o}])
  BY <1>1, Zenon
<1> DEFINE s == tree_mapent_umount_offsets(o, out)
           g == [s EXCEPT !.real = @ \ {o}]
<1>3. TypeOK /\ o \in Node
  BY NodeFacts DEF Inv
<1>4. Apply(Bare(s)) \/ Apply(g)
  BY <1>2, Zenon
<1>5. Typed(s) /\ (~late => InPlace(s))
  <2>1. \A z : z = tree_mapent_umount_offsets(o, out) => Typed(z) /\ (~late => InPlace(z))
    BY <1>3, UmountWalk
  <2> QED
    BY <2>1, Zenon
<1> HIDE DEF s
<1>6. Typed(Bare(s)) /\ (~late => InPlace(Bare(s))) /\ Typed(g) /\ (~late => InPlace(g))
  <2>1. Typed(Bare(s)) /\ (~late => InPlace(Bare(s)))
    BY <1>3, <1>5, BareTyped
  <2>2. Typed(g) /\ (~late => InPlace(g))
    BY <1>5, GoneTyped, Zenon
  <2> QED
    BY <2>1, <2>2
<1> HIDE DEF g
<1>7. \E r : Typed(r) /\ (~late => InPlace(r)) /\ Apply(r)
  BY <1>4, <1>6, Zenon
<1>8. PICK r : Typed(r) /\ (~late => InPlace(r)) /\ Apply(r)
  BY <1>7
<1>9. th' \in [Thread -> Activity]
  BY <1>1, <1>3, TypeFacts
<1> QED
  BY <1>1, <1>8, <1>9, ApplyStep

LEMMA ExpireRootStep ==
    ASSUME Inv, ExpireRoot
    PROVE  Inv'
<1> DEFINE D(s) == /\ root' = [root EXCEPT !.mm = FALSE] /\ tree' = [n \in Node |-> {}] /\ raced' = FALSE
                   /\ Apply(tree_mapent_delete_offsets([s EXCEPT !.real = @ \ {Root}]))
<1>1. /\ \A x \in Thread : th[x].pc = "idle"
      /\ \E out : LET s == tree_mapent_umount_offsets(Root, out)
           IN \/ Apply(Bare(s)) /\ UNCHANGED <<root, tree, raced>>
              \/ /\ \E again : Apply(tree_mapent_mount_offsets(s, Root, FALSE, again))
                 /\ UNCHANGED <<root, tree, raced>>
              \/ ~s.stop /\ D(s)
      /\ UNCHANGED <<clock, work, remount, late, crashed>> /\ th' = th
  BY Zenon DEF ExpireRoot, Kept
<1>2. PICK out : LET s == tree_mapent_umount_offsets(Root, out)
           IN \/ Apply(Bare(s)) /\ UNCHANGED <<root, tree, raced>>
              \/ /\ \E again : Apply(tree_mapent_mount_offsets(s, Root, FALSE, again))
                 /\ UNCHANGED <<root, tree, raced>>
              \/ ~s.stop /\ D(s)
  BY <1>1, Zenon
<1> DEFINE s == tree_mapent_umount_offsets(Root, out)
<1>3. TypeOK /\ TreeTyped /\ Root \in Node
  BY NodeFacts, InvTree DEF Inv
<1>4. \/ Apply(Bare(s)) /\ UNCHANGED <<root, tree, raced>>
      \/ /\ \E again : Apply(tree_mapent_mount_offsets(s, Root, FALSE, again))
         /\ UNCHANGED <<root, tree, raced>>
      \/ ~s.stop /\ D(s)
  BY <1>2, Zenon
<1>5. Typed(s) /\ (~late => InPlace(s) /\ s.trig \subseteq trig /\ (~s.stop => s.trig = {}))
  <2>1. \A z : z = tree_mapent_umount_offsets(Root, out) =>
          Typed(z) /\ (~late => InPlace(z) /\ z.trig \subseteq trig /\ (~z.stop => z.trig = {}))
    BY <1>3, UmountWalk
  <2> QED
    BY <2>1, Zenon
<1>6. th' \in [Thread -> Activity]
  BY <1>1, <1>3, TypeFacts
<1> HIDE DEF s, D
<1>7. CASE Apply(Bare(s)) /\ UNCHANGED <<root, tree, raced>>
  <2> DEFINE r == Bare(s)
  <2>1. Typed(r) /\ (~late => InPlace(r)) /\ Apply(r)
    BY <1>3, <1>5, <1>7, BareTyped
  <2> HIDE DEF r
  <2> QED
    BY <1>1, <1>6, <1>7, <2>1, ApplyStep
<1>8. CASE /\ \E again : Apply(tree_mapent_mount_offsets(s, Root, FALSE, again))
           /\ UNCHANGED <<root, tree, raced>>
  <2>1. PICK again : Apply(tree_mapent_mount_offsets(s, Root, FALSE, again))
    BY <1>8
  <2> DEFINE r == tree_mapent_mount_offsets(s, Root, FALSE, again)
             deep == FALSE
  <2>2. (~late => Entered) /\ InTree
    BY DEF Inv
  <2>3. Visited(Root, deep) = {Root}
    BY DEF Visited, Into
  <2>4. ~late => Mounting(s, Root, deep)
    BY <1>5, <2>3 DEF Mounting
  <2>5. r = tree_mapent_mount_offsets(s, Root, deep, again) /\ Apply(r)
    BY <2>1
  <2> HIDE DEF r, deep
  <2>6. Typed(r) /\ (Entered /\ InTree /\ Mounting(s, Root, deep) => Mounting(r, Root, deep))
    BY <1>3, <1>5, <2>5, MountWalk
  <2>7. ~late => InPlace(r)
    BY <2>2, <2>4, <2>6 DEF Mounting
  <2> QED
    BY <1>1, <1>6, <1>8, <2>5, <2>6, <2>7, ApplyStep
<1>9. CASE ~s.stop /\ D(s)
  <2> DEFINE g == [s EXCEPT !.real = @ \ {Root}]
             gone == tree[Root]
             es == [o \in Offset |-> IF o \in gone THEN NoEntry ELSE g.off[o]]
             r == [g EXCEPT !.off = es, !.failed = @ \ gone]
  <2>1. /\ root' = [root EXCEPT !.mm = FALSE] /\ tree' = [n \in Node |-> {}] /\ raced' = FALSE
        /\ Apply(tree_mapent_delete_offsets(g))
    BY <1>9, Zenon DEF D
  <2>2. /\ Typed(g) /\ (InPlace(s) => InPlace(g))
        /\ g.off = s.off /\ g.trig = s.trig /\ g.covered = s.covered /\ g.real = s.real \ {Root}
    BY <1>5, GoneTyped, Zenon
  <2> HIDE DEF g
  <2>3. tree_mapent_delete_offsets(g) = r
    BY DEF tree_mapent_delete_offsets
  <2>4. NoEntry \in Entry /\ NoEntry.parent = Root
    BY NodeFacts DEF NoEntry, Entry
  <2>5. /\ es \in [Offset -> Entry] /\ \A o \in Offset : es[o].parent \in {Root, off[o].parent}
    <3>1. g.off \in [Offset -> Entry] /\ \A o \in Offset : g.off[o].parent = off[o].parent
      BY <2>2 DEF Typed, WalkState
    <3> QED
      BY <2>4, <3>1
  <2> HIDE DEF es, gone
  <2>6. /\ r \in WalkState /\ r.off = es /\ r.trig = g.trig /\ r.covered = g.covered /\ r.real = g.real
    BY <2>2, <2>5 DEF Typed, WalkState
  <2> HIDE DEF r
  <2>7. off' = es /\ trig' = g.trig /\ covered' = g.covered /\ real' = g.real /\ failed' = r.failed
    BY <2>1, <2>3, <2>6 DEF Apply
  <2>8. /\ root' \in [age : 0..MaxClock, mm : BOOLEAN] /\ tree' \in [Node -> SUBSET Offset]
        /\ \A n \in Node : tree'[n] = {}
    BY <1>3, <2>1 DEF TypeOK
  <2>9. TypeOK'
    BY <1>1, <1>3, <1>6, <2>1, <2>5, <2>6, <2>7, <2>8 DEF TypeOK, WalkState, Activity, PCs, Entry
  <2>10. Parents'
    BY <2>5, <2>7 DEF Inv, Parents
  <2>11. InTree' /\ Entered'
    BY <2>8, NodeFacts DEF InTree, Entered
  <2>12. Listed' /\ Aged' /\ Rooted'
    <3>1. \A w \in {Root, Reader} : th[w].pc = "idle" /\ th'[w] = th[w] /\ work'[w] = {}
      BY <1>1, NodeFacts DEF Inv, Listed
    <3> QED
      BY <2>8, <3>1, NodeFacts DEF Listed, Aged, Rooted
  <2>13. ASSUME ~late PROVE Placed'
    <3>1. trig' = {} /\ covered' = {} /\ real' = {}
      BY <1>5, <1>9, <2>2, <2>7, <2>13 DEF InPlace
    <3> QED
      BY <1>1, <3>1, NodeFacts DEF Placed
  <2> QED
    BY <1>1, <2>9, <2>10, <2>11, <2>12, <2>13 DEF Inv
<1> QED
  BY <1>4, <1>7, <1>8, <1>9
-----------------------------------------------------------------------------
LEMMA InvInit ==
    ASSUME Init
    PROVE  Inv
<1>1. /\ clock = 0 /\ root = [age |-> 0, mm |-> FALSE] /\ off = [o \in Offset |-> NoEntry]
      /\ tree = [n \in Node |-> {}] /\ work = [w \in {Root, Reader} |-> {}]
      /\ trig = {} /\ covered = {} /\ real = {} /\ failed = {}
      /\ remount = FALSE /\ raced = FALSE /\ late = FALSE /\ crashed = FALSE
      /\ th = [x \in Thread |-> Idle]
  BY Zenon DEF Init
<1>2. NoEntry \in Entry /\ NoEntry.parent = Root /\ Idle \in Activity /\ Idle.pc = "idle"
  BY NodeFacts DEF NoEntry, Entry, Idle, Activity, PCs
<1>3. \A x \in Thread : th[x].pc = "idle"
  BY <1>1, <1>2
<1>4. off \in [Offset -> Entry] /\ th \in [Thread -> Activity] /\ \A o \in Offset : off[o].parent = Root
  BY <1>1, <1>2
<1>5. TypeOK
  <2>1. clock \in 0..MaxClock /\ root \in [age : 0..MaxClock, mm : BOOLEAN]
    BY <1>1, NodeFacts
  <2>2. tree \in [Node -> SUBSET Offset] /\ work \in [{Root, Reader} -> SUBSET Offset]
    BY <1>1
  <2>3. {remount, raced, late, crashed} \subseteq BOOLEAN
    BY <1>1
  <2> QED
    BY <1>1, <1>4, <2>1, <2>2, <2>3 DEF TypeOK, Entry, Activity, PCs
<1>6. Parents /\ InTree /\ Listed /\ Aged /\ Rooted
  BY <1>1, <1>3, <1>4, NodeFacts DEF Parents, InTree, Listed, Aged, Rooted
<1>7. Entered /\ Placed
  BY <1>1, <1>3, NodeFacts DEF Entered, Placed
<1> QED
  BY <1>5, <1>6, <1>7 DEF Inv

LEMMA InvNext ==
    ASSUME Inv, [Next]_vars
    PROVE  Inv'
<1>1. CASE UNCHANGED vars
  <2>1. UNCHANGED <<clock, root, off, tree, work, trig, covered, real, remount, th, failed, raced, late, crashed>>
    BY <1>1 DEF vars, cacheVars
  <2>2. TypeOK'
    BY <2>1 DEF Inv, TypeOK
  <2>3. Aged'
    BY <2>1 DEF Inv, Aged
  <2> QED
    BY <2>1, <2>2, <2>3, ThreadStep
<1>2. CASE Next
  <2>1. CASE RootRequest
    BY <2>1, RootRequestStep
  <2>2. CASE RootUpdate
    BY <2>2, RootUpdateStep
  <2>3. CASE \E list \in Lists : get_exports(list) \/ update_hosts_mounts(list) \/ UpdateEnd
    BY <2>3, GetExportsStep, UpdateHostsStep, UpdateEndStep
  <2>4. ASSUME NEW w \in {Root, Reader}, Parse(w) PROVE Inv'
    <3>1. w \in Thread
      BY NodeFacts
    <3> QED
      BY <2>4, <3>1, ParseRootStep, ParseOffsetStep, ParseTreeStep, MountRootOffsetStep, MountTriggersStep DEF Parse
  <2>5. ASSUME NEW o \in Offset, OffsetRequest(o) \/ MountOffset(o) \/ MountTriggers(o) \/ ExpireOffset(o)
        PROVE  Inv'
    <3>1. o \in Thread
      BY NodeFacts
    <3> QED
      BY <2>5, <3>1, OffsetRequestStep, MountOffsetStep, MountTriggersStep, ExpireOffsetStep
  <2>6. CASE ExpireRoot
    BY <2>6, ExpireRootStep
  <2> QED
    BY <1>2, <2>1, <2>2, <2>3, <2>4, <2>5, <2>6, Zenon DEF Next
<1> QED
  BY <1>1, <1>2

\* The states of the entries, the tree, the triggers and the threads are those
\* that the code's types and walks allow.
THEOREM InvHolds == Spec => []Inv
<1>1. Init => Inv
  BY InvInit
<1>2. Inv /\ [Next]_vars => Inv'
  BY InvNext
<1> QED
  BY <1>1, <1>2, PTL DEF Spec

\* Every variable has its type, whatever the paths and the lists of exports.
THEOREM TypeOKHolds == Spec => []TypeOK
<1>1. Inv => TypeOK
  BY DEF Inv
<1> QED
  BY <1>1, InvHolds, PTL

\* tree_mapent_traverse_subtree(), umount_subtree_mounts(): every trigger has its
\* entry and is come to by the walk that umounts the multi-mount, for any paths
\* and lists, while no export is added above one that is in the tree.
THEOREM NoOrphanHolds == Spec => []NoOrphan
<1>1. ASSUME Inv, ~late
      PROVE  \A o \in trig \cup covered : off[o].age # 0 /\ o \in ToSet(UmountOrder(Root))
  <2> DEFINE T == trig
  <2>1. TypeOK /\ TreeTyped /\ Placed /\ InTree
    BY <1>1, InvTree DEF Inv
  <2>2. T \in SUBSET Offset /\ trig \cup covered = T
    BY <2>1 DEF TypeOK, Placed
  <2>3. \A o \in T : o \in Part(off[o].parent) /\ off[o].parent \in T \cup {Root}
    BY <2>1 DEF Placed
  <2> HIDE DEF T
  <2>4. T \subseteq ToSet(UmountOrder(Root))
    BY <2>1, <2>2, <2>3, UmountReaches
  <2>5. \A o \in T : off[o].parent \in Node
    BY <2>1, <2>2, TypeFacts
  <2>6. \A o \in T : off[o].age # 0
    BY <2>1, <2>3, <2>5 DEF Part, InTree
  <2> QED
    BY <2>2, <2>4, <2>6
<1>2. Inv => NoOrphan
  BY <1>1 DEF NoOrphan
<1> QED
  BY <1>2, InvHolds, PTL

\* tree_mapent_mount_offsets(), tree_mapent_umount_offsets(): a trigger is nested
\* in a trigger, for any paths and lists, whatever mounts and umounts fail, while
\* no export is added above one that is in the tree.
THEOREM NestedHolds == Spec => []Nested
<1>1. Inv => Nested
  BY DEF Inv, Placed, Nested
<1> QED
  BY <1>1, InvHolds, PTL
-----------------------------------------------------------------------------
(* What a walk of the tree from the key comes to. *)

\* A walk goes on below the offset when it comes to it.
Reached(n) == n \in real /\ off[n].valid /\ off[n].age = root.age /\ n \in Part(off[n].parent)

WalkedIs ==
    /\ Walked \subseteq Node /\ Root \in Walked
    /\ \A n \in Offset : n \in Walked <=> Reached(n) /\ off[n].parent \in Walked

\* The set is what its recursive definition says.
LEMMA WalkedDefined == TypeOK /\ Parents => WalkedIs
<1> SUFFICES ASSUME TypeOK, Parents PROVE WalkedIs
  OBVIOUS
<1> DEFINE F == [Node -> BOOLEAN]
           Val(f, n) == n = Root \/ (n \in real /\ off[n].valid /\ off[n].age = root.age
                                     /\ n \in Part(off[n].parent) /\ f[off[n].parent])
           B == [p \in F \X Node |-> Val(p[1], p[2])]
           rk == [n \in Node |-> Len(ByName) - Depth[n]]
           Body(g) == [n \in Node |-> \/ n = Root
                                      \/ /\ n \in real /\ off[n].valid /\ off[n].age = root.age
                                         /\ n \in Part(off[n].parent) /\ g[off[n].parent]]
           w == CHOOSE g : g = Body(g)
<1>1. TreeTyped
  BY DEF TreeTyped, TypeOK, Parents, Entry
<1>2. B \in [F \X Node -> BOOLEAN]
  <2>1. \A f \in F : \A n \in Node : Val(f, n) \in BOOLEAN
    BY Zenon
  <2> HIDE DEF Val
  <2> QED
    BY <2>1
<1>3. \A f \in F : \A n \in Node : B[<<f, n>>] = Val(f, n)
  OBVIOUS
<1>4. /\ rk \in [Node -> 0..Len(ByName)] /\ Len(ByName) \in Nat
      /\ \A n \in Node : Depth[n] \in 0..Len(ByName) /\ rk[n] = Len(ByName) - Depth[n]
  BY DepthFacts
<1>5. ASSUME NEW f \in F, NEW g \in F, NEW n \in Node,
             \A c \in Node : rk[n] < rk[c] => f[c] = g[c]
      PROVE  B[<<f, n>>] = B[<<g, n>>]
  <2>1. CASE n = Root \/ n \notin Part(off[n].parent)
    <3>1. Val(f, n) = Val(g, n)
      BY <2>1, Zenon
    <3> QED
      BY <1>3, <3>1, Zenon
  <2>2. CASE n # Root /\ n \in Part(off[n].parent)
    <3> DEFINE p == off[n].parent
    <3>1. n \in Offset /\ p \in Node
      BY <2>2, TypeFacts DEF Node
    <3>2. Depth[p] < Depth[n] /\ Depth[p] \in 0..Len(ByName) /\ Depth[n] \in 0..Len(ByName)
      BY <1>1, <1>4, <2>2, <3>1, PartFacts
    <3>3. rk[n] < rk[p]
      <4> HIDE DEF rk, p
      <4> QED
        BY <1>4, <3>1, <3>2
    <3>4. f[p] = g[p]
      BY <1>5, <3>1, <3>3
    <3>5. f[p] <=> g[p]
      BY <3>4
    <3>6. Val(f, n) <=> Val(g, n)
      BY <3>5, Zenon
    <3>7. Val(f, n) = Val(g, n)
      BY <3>6, Zenon
    <3> QED
      BY <1>3, <3>7, Zenon
  <2> QED
    BY <2>1, <2>2
<1>6. PICK f \in F : \A n \in Node : f[n] = Val(f, n)
  <2> DEFINE T == BOOLEAN
             z == FALSE
             m == Len(ByName)
  <2>1. \A f, g \in [Node -> T] : \A n \in Node :
          (\A c \in Node : rk[n] < rk[c] => f[c] = g[c]) => B[<<f, n>>] = B[<<g, n>>]
    BY <1>5, Zenon
  <2>2. Recursive(Node, T, z, m, rk, B)
    <3>1. z \in T
      OBVIOUS
    <3> HIDE DEF rk, B
    <3> QED
      BY <1>2, <1>4, <2>1, <3>1, Zenon DEF Recursive
  <2> HIDE DEF T, z, m, rk, B
  <2>3. \E f \in [Node -> T] : \A n \in Node : f[n] = B[<<f, n>>]
    BY <2>2, RecursionExists
  <2>4. PICK f \in F : \A n \in Node : f[n] = B[<<f, n>>]
    BY <2>3, Zenon DEF T
  <2> HIDE DEF Val, F
  <2>5. \A n \in Node : f[n] = Val(f, n)
    BY <1>3, <2>4, Zenon
  <2> QED
    BY <2>5, Zenon
<1>7. f = Body(f)
  <2>1. \A n \in Node : f[n] = Body(f)[n]
    BY <1>6, Zenon
  <2>2. DOMAIN Body(f) = Node /\ Body(f) = [n \in Node |-> Body(f)[n]]
    OBVIOUS
  <2> HIDE DEF Body
  <2> QED
    BY <2>1, <2>2
<1>8. w = Body(w)
  BY <1>7, Zenon
<1>9. Walked = {n \in Node : w[n]}
  BY Zenon DEF Walked
<1> HIDE DEF w
<1>10. \A n \in Node : w[n] = Val(w, n)
  BY <1>8, Zenon
<1>11. \A n \in Node : n \in Walked <=> Val(w, n)
  BY <1>9, <1>10, Zenon
<1>12. Walked \subseteq Node /\ Root \in Walked
  <2>1. Root \in Node
    BY NodeFacts
  <2> QED
    BY <1>9, <1>11, <2>1, Zenon
<1>13. ASSUME NEW n \in Offset PROVE n \in Walked <=> Reached(n) /\ off[n].parent \in Walked
  <2>1. n \in Node /\ n # Root /\ off[n].parent \in Node
    BY NodeFacts, TypeFacts
  <2>2. off[n].parent \in Walked <=> w[off[n].parent]
    BY <1>9, <2>1, Zenon
  <2> QED
    BY <1>11, <2>1, <2>2, Zenon DEF Reached
<1> QED
  BY <1>12, <1>13, Zenon DEF WalkedIs

LEMMA WalkedNext == (TypeOK /\ Parents)' => WalkedIs'
  BY WalkedDefined, PTL

\* What is nested in a node the walk comes to is visited.
LEMMA MountDown ==
    ASSUME TreeTyped, NEW deep
    PROVE  \A n \in Node : \A y \in Visited(n, deep) : \A d \in Part(y) : d \in ToSet(MountOrder(n, deep))
<1> DEFINE Bad == {n \in Node : \E y \in Visited(n, deep) : \E d \in Part(y) : d \notin ToSet(MountOrder(n, deep))}
<1>1. SUFFICES ASSUME Bad # {} PROVE FALSE
  OBVIOUS
<1>2. PICK n \in Bad : \A m \in Bad : Depth[m] <= Depth[n]
  BY <1>1, Deepest
<1>3. PICK y \in Visited(n, deep) : \E d \in Part(y) : d \notin ToSet(MountOrder(n, deep))
  OBVIOUS
<1>4. PICK d \in Part(y) : d \notin ToSet(MountOrder(n, deep))
  BY <1>3
<1>5. CASE y = n
  BY <1>4, <1>5, MountElements, Zenon
<1>6. CASE y \in ToSet(MountOrder(n, deep)) /\ y \in Into(deep)
  <2>1. PICK c \in Part(n) : y = c \/ (c \in Into(deep) /\ y \in ToSet(MountOrder(c, deep)))
    BY <1>6, MountElements, Zenon
  <2>2. c \in Node /\ Depth[n] < Depth[c] /\ Depth[c] \in Nat /\ Depth[n] \in Nat
    BY PartFacts, DepthFacts
  <2>3. c \in Into(deep) /\ y \in Visited(c, deep)
    BY <1>6, <2>1 DEF Visited
  <2>4. c \notin Bad
    BY <1>2, <2>2
  <2>5. d \in ToSet(MountOrder(c, deep))
    BY <2>2, <2>3, <2>4
  <2>6. d \in ToSet(MountOrder(n, deep))
    BY <2>3, <2>5, MountElements, Zenon
  <2> QED
    BY <1>4, <2>6
<1> QED
  BY <1>5, <1>6 DEF Visited

\* A set of nodes that holds what its members are nested in has none that is
\* nested in a node it does not hold.
LEMMA NotUnder ==
    ASSUME TreeTyped, NEW W, NEW o \in Node, o \notin W, \A n \in W \cap Offset : off[n].parent \in W
    PROVE  ToSet(UmountOrder(o)) \cap W = {}
<1> DEFINE Bad == ToSet(UmountOrder(o)) \cap W
<1>1. SUFFICES ASSUME Bad # {} PROVE FALSE
  OBVIOUS
<1>2. \A y \in Bad : /\ y \in Offset /\ y \in Node
                     /\ off[y].parent = o \/ off[y].parent \in ToSet(UmountOrder(o))
  BY UmountNested, DepthFacts
<1>3. PICK y \in Bad : \A m \in Bad : Depth[y] <= Depth[m]
  <2>1. Bad \in SUBSET Node
    BY <1>2
  <2> QED
    BY <1>1, <2>1, Shallowest
<1>4. off[y].parent \in W /\ off[y].parent \in Bad
  BY <1>2, <1>3
<1>5. off[y].parent \in Above[y]
  <2>1. off[y].parent # Root
    BY <1>2, <1>4, DepthFacts
  <2> QED
    BY <1>2, <2>1 DEF TreeTyped
<1>6. Depth[off[y].parent] < Depth[y] /\ Depth[off[y].parent] \in Nat /\ Depth[y] \in Nat
  BY <1>2, <1>5, DepthFacts
<1> QED
  BY <1>3, <1>4, <1>6

\* The nodes that are come to are those a walk with MOUNT_FLAG_REMOUNT comes to.
LEMMA WalkedVisited ==
    ASSUME TypeOK, Parents, NEW deep, deep = TRUE
    PROVE  Walked \subseteq Visited(Root, deep)
<1> DEFINE Bad == Walked \ Visited(Root, deep)
<1>1. SUFFICES ASSUME Bad # {} PROVE FALSE
  OBVIOUS
<1>2. TreeTyped /\ WalkedIs
  BY WalkedDefined DEF TreeTyped, TypeOK, Parents, Entry
<1>3. PICK n \in Bad : \A m \in Bad : Depth[n] <= Depth[m]
  <2>1. Bad \in SUBSET Node
    BY <1>2 DEF WalkedIs
  <2> QED
    BY <1>1, <2>1, Shallowest
<1>4. n \in Offset
  <2>1. n # Root
    BY DEF Visited
  <2> QED
    BY <1>2, <2>1 DEF WalkedIs, Node
<1> DEFINE p == off[n].parent
<1>5. Reached(n) /\ p \in Walked /\ p \in Node
  BY <1>2, <1>4, TypeFacts DEF WalkedIs
<1>6. n \in Part(p) /\ n \in Into(deep)
  BY <1>4, <1>5 DEF Reached, Into
<1>7. Depth[p] < Depth[n] /\ Depth[p] \in Nat /\ Depth[n] \in Nat
  BY <1>2, <1>5, <1>6, PartFacts, DepthFacts
<1>8. p \in Visited(Root, deep)
  <2> SUFFICES ASSUME p \notin Visited(Root, deep) PROVE FALSE
    OBVIOUS
  <2>1. p \in Bad
    BY <1>5
  <2> HIDE DEF Bad
  <2>2. Depth[n] <= Depth[p]
    BY <1>3, <2>1
  <2> QED
    BY <1>7, <2>2
<1>9. n \in ToSet(MountOrder(Root, deep))
  BY <1>2, <1>6, <1>8, MountDown, NodeFacts
<1> QED
  BY <1>6, <1>9 DEF Visited

\* A step after which a walk comes to what it came to before and to X.
LEMMA WalkedGrows ==
    ASSUME WalkedIs, WalkedIs', TypeOK, Parents, NEW X,
           \A n \in Offset \ X : Reached(n)' => /\ Reached(n) /\ off'[n].parent = off[n].parent
                                                /\ off[n].parent \notin X
    PROVE  Walked' \subseteq Walked \cup X
<1> DEFINE Bad == Walked' \ (Walked \cup X)
<1>1. SUFFICES ASSUME Bad # {} PROVE FALSE
  OBVIOUS
<1>2. PICK n \in Bad : \A m \in Bad : Depth[n] <= Depth[m]
  <2>1. Bad \in SUBSET Node
    BY DEF WalkedIs
  <2> QED
    BY <1>1, <2>1, Shallowest
<1>3. n \in Offset \ X
  <2>1. n \in Node /\ n # Root
    BY DEF WalkedIs
  <2> QED
    BY <2>1 DEF Node
<1> DEFINE p == off[n].parent
<1>4. Reached(n)' /\ off'[n].parent \in Walked'
  BY <1>3 DEF WalkedIs
<1>5. Reached(n) /\ p \in Walked' /\ p \notin X
  BY <1>3, <1>4
<1>6. p \notin Walked
  BY <1>3, <1>5 DEF WalkedIs
<1>7. p \in Bad /\ n \in Part(p) /\ p \in Node
  BY <1>3, <1>5, <1>6, TypeFacts DEF Reached
<1>8. Depth[p] < Depth[n] /\ Depth[p] \in Nat /\ Depth[n] \in Nat
  <2>1. TreeTyped
    BY DEF TreeTyped, TypeOK, Parents, Entry
  <2> QED
    BY <1>7, <2>1, PartFacts, DepthFacts
<1> QED
  BY <1>2, <1>7, <1>8
-----------------------------------------------------------------------------
(* The invariant for Complete: what the walks leave undone. *)

\* A parse_mount() has changed the age of the key, and its walk is to come.
Pending == \E w \in {Root, Reader} : th[w].pc \in {"parse", "offsets", "base", "triggers"}

Owed(c) ==
    off[c].valid => IF off[c].age = root.age THEN c \in trig \cup failed ELSE c \in trig => c \in failed
Satisfied(n) == \A c \in Part(n) : Owed(c)

\* A map read walks with MOUNT_FLAG_REMOUNT.
Reading == th[Reader].pc # "idle" => remount

Alone == ~raced => th[Root].pc = "idle" \/ th[Reader].pc = "idle"

\* A request for the key finds nothing below it.
Empty ==
    ~raced /\ th[Root].pc # "idle" =>
      trig = {} /\ real \subseteq {Root} /\ \A o \in Offset : th[o].pc = "idle"

\* Nor does one for an offset.
Bottom ==
    ~late => \A o \in Offset : th[o].pc = "base" => o \notin real /\ Under(trig \cup real, o) = {}

\* Else each node a walk comes to has what it owes, or its own walk is to come.
AllDone ==
    ~raced /\ ~late /\ ~Pending =>
      \A n \in Walked : Satisfied(n) \/ (n \in Offset /\ th[n].pc = "triggers")

CInv == Reading /\ Alone /\ Empty /\ Bottom /\ AllDone

LEMMA WalkedBoth ==
    ASSUME Inv, Inv'
    PROVE  WalkedIs /\ WalkedIs'
BY WalkedDefined, WalkedNext DEF Inv

\* Steps of threads on the way to their walks and after them.
LEMMA CalmStep ==
    ASSUME Inv, Inv', CInv, UNCHANGED <<root, off, tree, trig, failed, real, late>>,
           raced' \/ ~raced, Pending' \/ ~Pending,
           \A n \in Offset : th[n].pc = "triggers" => th'[n].pc = "triggers"
    PROVE  AllDone'
<1>1. WalkedIs /\ WalkedIs'
  BY WalkedBoth
<1>2. \A n \in Offset : Reached(n)' => Reached(n) /\ off'[n].parent = off[n].parent
  BY DEF Reached, Part
<1>3. Walked' \subseteq Walked
  <2> DEFINE X == {}
  <2>1. \A n \in Offset \ X : Reached(n)' => Reached(n) /\ off'[n].parent = off[n].parent /\ off[n].parent \notin X
    BY <1>2
  <2> HIDE DEF X
  <2>2. Walked' \subseteq Walked \cup X
    BY <1>1, <2>1, WalkedGrows DEF Inv
  <2> QED
    BY <2>2 DEF X
<1>4. \A n : Satisfied(n) => Satisfied(n)'
  BY DEF Satisfied, Owed, Part
<1> QED
  BY <1>3, <1>4 DEF CInv, AllDone

LEMMA PendingStep ==
    ASSUME CInv, Pending', trig' = trig, real' \subseteq real \cup {Root}, late' \/ ~late,
           raced' = raced, remount' = remount,
           \A o \in Offset : th'[o] = th[o],
           \A w \in {Root, Reader} : th'[w].pc # "idle" <=> th[w].pc # "idle"
    PROVE  CInv'
<1>1. Reading' /\ Alone' /\ Empty' /\ AllDone'
  BY DEF CInv, Reading, Alone, Empty, AllDone
<1>2. Bottom'
  <2> SUFFICES ASSUME ~late', NEW o \in Offset, th'[o].pc = "base"
               PROVE  o \notin real' /\ Under(trig' \cup real', o) = {}
    BY DEF Bottom
  <2>1. o \notin real /\ Under(trig \cup real, o) = {} /\ o # Root /\ Root \notin Offset
    BY NodeFacts DEF CInv, Bottom
  <2> QED
    BY <2>1 DEF Under
<1> QED
  BY <1>1, <1>2 DEF CInv

LEMMA CRootRequest ==
    ASSUME Inv, Inv', CInv, RootRequest
    PROVE  CInv'
<1>1. /\ th[Root].pc = "idle" /\ trig = {} /\ real = {} /\ \A o \in Offset : th[o].pc = "idle"
      /\ th' = [th EXCEPT ![Root] = [th[Root] EXCEPT !.pc = "list", !.age = clock']]
      /\ raced' = (raced \/ th[Reader].pc # "idle")
      /\ UNCHANGED <<root, off, tree, trig, failed, real, late, remount>>
  BY Zenon DEF RootRequest, cacheVars
<1>2. /\ th'[Root].pc = "list" /\ \A y \in Thread : y # Root => th'[y] = th[y]
  BY <1>1, TypeFacts, NodeFacts DEF Inv, Activity
<1>3. Reading' /\ Alone' /\ Empty' /\ Bottom'
  BY <1>1, <1>2, NodeFacts DEF CInv, Reading, Alone, Empty, Bottom
<1>4. (raced' \/ ~raced) /\ (Pending' \/ ~Pending)
  BY <1>1, <1>2, NodeFacts DEF Pending
<1>5. AllDone'
  BY <1>1, <1>2, <1>4, CalmStep, NodeFacts
<1> QED
  BY <1>3, <1>5 DEF CInv

LEMMA CGetExports ==
    ASSUME Inv, Inv', CInv, NEW list \in Lists, get_exports(list)
    PROVE  CInv'
<1>1. /\ th[Root].pc = "list"
      /\ th' = [th EXCEPT ![Root] = IF list = {} THEN Idle
                                    ELSE [th[Root] EXCEPT !.pc = "update", !.todo = list]]
      /\ UNCHANGED <<root, off, tree, trig, failed, real, late, remount, raced>>
  BY Zenon DEF get_exports, cacheVars
<1>2. /\ th'[Root].pc \in {"idle", "update"} /\ \A y \in Thread : y # Root => th'[y] = th[y]
  BY <1>1, TypeFacts, NodeFacts DEF Inv, Activity, Idle
<1>3. Reading' /\ Alone' /\ Empty' /\ Bottom'
  BY <1>1, <1>2, NodeFacts DEF CInv, Reading, Alone, Empty, Bottom
<1>4. Pending' \/ ~Pending
  BY <1>1, <1>2, NodeFacts DEF Pending
<1>5. AllDone'
  BY <1>1, <1>2, <1>4, CalmStep, NodeFacts
<1> QED
  BY <1>3, <1>5 DEF CInv

LEMMA CRootUpdate ==
    ASSUME Inv, Inv', CInv, RootUpdate
    PROVE  CInv'
<1>1. /\ th[Root].pc = "update" /\ th' = [th EXCEPT ![Root].pc = "parse"]
      /\ UNCHANGED <<trig, real, late, remount, raced>>
  BY Zenon DEF RootUpdate
<1>2. /\ th'[Root].pc = "parse" /\ \A y \in Thread : y # Root => th'[y] = th[y]
  BY <1>1, TypeFacts, NodeFacts DEF Inv, Activity
<1>3. Pending' /\ (\A o \in Offset : th'[o] = th[o]) /\ th'[Reader] = th[Reader]
  BY <1>2, NodeFacts DEF Pending
<1> QED
  BY <1>1, <1>2, <1>3, PendingStep

LEMMA CUpdateHosts ==
    ASSUME Inv, Inv', CInv, NEW list \in Lists, update_hosts_mounts(list)
    PROVE  CInv'
<1>1. /\ th[Reader].pc = "idle" /\ th' = [th EXCEPT ![Reader] = [Idle EXCEPT !.pc = "parse", !.todo = list]]
      /\ remount' = TRUE /\ raced' = (raced \/ th[Root].pc # "idle")
      /\ UNCHANGED <<trig, real, late>>
  BY Zenon DEF update_hosts_mounts
<1>2. /\ th'[Reader].pc = "parse" /\ \A y \in Thread : y # Reader => th'[y] = th[y]
  BY <1>1, TypeFacts, NodeFacts DEF Inv, Activity, Idle
<1>3. Pending'
  BY <1>2, NodeFacts DEF Pending
<1>4. Reading' /\ Alone' /\ Empty' /\ AllDone' /\ Bottom'
  BY <1>1, <1>2, <1>3, NodeFacts DEF CInv, Reading, Alone, Empty, Bottom, AllDone
<1> QED
  BY <1>4 DEF CInv

LEMMA CUpdateEnd ==
    ASSUME Inv, Inv', CInv, UpdateEnd
    PROVE  CInv'
<1>1. /\ th[Reader].pc = "end" /\ th' = [th EXCEPT ![Reader] = Idle]
      /\ UNCHANGED <<root, off, tree, trig, failed, real, late, raced>>
  BY Zenon DEF UpdateEnd, cacheVars
<1>2. /\ th'[Reader].pc = "idle" /\ \A y \in Thread : y # Reader => th'[y] = th[y]
  BY <1>1, TypeFacts, NodeFacts DEF Inv, Idle
<1>3. Reading' /\ Alone' /\ Empty' /\ Bottom'
  BY <1>1, <1>2, NodeFacts DEF CInv, Reading, Alone, Empty, Bottom
<1>4. Pending' \/ ~Pending
  BY <1>1, <1>2, NodeFacts DEF Pending
<1>5. AllDone'
  BY <1>1, <1>2, <1>4, CalmStep, NodeFacts
<1> QED
  BY <1>3, <1>5 DEF CInv

\* The steps of parse_mount() before its walk.
LEMMA CParse ==
    ASSUME Inv, Inv', CInv, NEW w \in {Root, Reader},
           ParseRoot(w) \/ ParseOffset(w) \/ ParseTree(w) \/ MountRootOffset(w)
    PROVE  CInv'
<1>1. /\ trig' = trig /\ raced' = raced /\ remount' = remount /\ th[w].pc # "idle"
      /\ real' = real \/ real' = real \cup {Root}
  BY Zenon DEF ParseRoot, ParseOffset, ParseTree, MountRootOffset, sun_mount, cacheVars
<1>2. late' \/ ~late
  BY Zenon DEF ParseRoot, ParseOffset, ParseTree, MountRootOffset, update_offset_entry
<1>3. /\ th'[w].pc \in {"offsets", "base", "triggers"} /\ \A y \in Thread : y # w => th'[y] = th[y]
  <2>0. TypeOK /\ w \in Thread
    BY NodeFacts DEF Inv
  <2>1. CASE ParseRoot(w)
    <3>1. th' = [th EXCEPT ![w].pc = "offsets", ![w].age = root.age]
      BY <2>1, Zenon DEF ParseRoot
    <3> QED
      BY <2>0, <3>1, TypeFacts DEF Activity
  <2>2. CASE ParseOffset(w)
    <3>1. th[w].pc = "offsets" /\ \E o : th' = [th EXCEPT ![w].todo = @ \ {o}]
      BY <2>2, Zenon DEF ParseOffset, update_offset_entry
    <3> QED
      BY <2>0, <3>1, TypeFacts DEF Activity
  <2>3. CASE ParseTree(w)
    <3>1. th' = [th EXCEPT ![w].pc = "base"]
      BY <2>3, Zenon DEF ParseTree
    <3> QED
      BY <2>0, <3>1, TypeFacts DEF Activity
  <2>4. CASE MountRootOffset(w)
    <3>1. th' = [th EXCEPT ![w].pc = "triggers"]
      BY <2>4, Zenon DEF MountRootOffset
    <3> QED
      BY <2>0, <3>1, TypeFacts DEF Activity
  <2> QED
    BY <2>1, <2>2, <2>3, <2>4
<1>4. Pending' /\ \A o \in Offset : th'[o] = th[o]
  BY <1>3, NodeFacts DEF Pending
<1>5. \A x \in {Root, Reader} : th'[x].pc # "idle" <=> th[x].pc # "idle"
  BY <1>1, <1>3, NodeFacts
<1> QED
  BY <1>1, <1>2, <1>4, <1>5, PendingStep

LEMMA COffsetRequest ==
    ASSUME Inv, Inv', CInv, NEW o \in Offset, OffsetRequest(o)
    PROVE  CInv'
<1>1. /\ o \notin real /\ Under(trig \cup real, o) = {} /\ th[o].pc = "idle" /\ th[Root].pc = "idle"
      /\ th' = IF off[o].valid THEN [th EXCEPT ![o].pc = "base"] ELSE th
      /\ UNCHANGED <<root, off, tree, trig, failed, real, late, remount, raced>>
  BY Zenon DEF OffsetRequest, cacheVars
<1>2. \A y \in Thread : y # o => th'[y] = th[y]
  BY <1>1, TypeFacts, NodeFacts DEF Inv
<1>3. Reading' /\ Alone' /\ Empty' /\ Bottom'
  BY <1>1, <1>2, NodeFacts DEF CInv, Reading, Alone, Empty, Bottom
<1>4. Pending' \/ ~Pending
  BY <1>2, NodeFacts DEF Pending
<1>5. AllDone'
  BY <1>1, <1>2, <1>4, CalmStep, NodeFacts
<1> QED
  BY <1>3, <1>5 DEF CInv

LEMMA CMountOffset ==
    ASSUME Inv, Inv', CInv, NEW o \in Offset, MountOffset(o)
    PROVE  CInv'
<1>1. /\ th[o].pc = "base" /\ th' = [th EXCEPT ![o].pc = "triggers"]
      /\ real' = real \/ real' = real \cup {o}
      /\ UNCHANGED <<root, off, tree, trig, failed, late, remount, raced>>
  BY Zenon DEF MountOffset, sun_mount, cacheVars
<1>2. th'[o].pc = "triggers" /\ \A y \in Thread : y # o => th'[y] = th[y]
  BY <1>1, TypeFacts, NodeFacts DEF Inv, Activity
<1>3. Reading' /\ Alone' /\ Empty'
  BY <1>1, <1>2, NodeFacts DEF CInv, Reading, Alone, Empty
<1>4. ASSUME ~late PROVE o \in trig /\ Under(trig \cup real, o) = {}
  BY <1>1, <1>4 DEF Inv, Placed, CInv, Bottom
<1>5. Bottom'
  <2> SUFFICES ASSUME ~late, NEW p \in Offset, th'[p].pc = "base"
               PROVE  p \notin real' /\ Under(trig' \cup real', p) = {}
    BY <1>1 DEF Bottom
  <2>1. p # o /\ th[p].pc = "base"
    BY <1>2, NodeFacts
  <2>2. p \notin real /\ Under(trig \cup real, p) = {}
    BY <2>1 DEF CInv, Bottom
  <2>3. p \notin Above[o]
    BY <1>4, <2>2 DEF Under
  <2> QED
    BY <1>1, <2>1, <2>2, <2>3 DEF Under
<1>6. AllDone'
  <2> SUFFICES ASSUME ~raced, ~late, ~Pending', NEW n \in Walked'
               PROVE  Satisfied(n)' \/ (n \in Offset /\ th'[n].pc = "triggers")
    BY <1>1 DEF AllDone
  <2>1. ~Pending
    BY <1>2, NodeFacts DEF Pending
  <2>2. WalkedIs /\ WalkedIs'
    BY WalkedBoth
  <2> DEFINE X == {o}
  <2>3. \A m \in Offset \ X : Reached(m)' => /\ Reached(m) /\ off'[m].parent = off[m].parent
                                             /\ off[m].parent \notin X
    <3> SUFFICES ASSUME NEW m \in Offset, m # o, Reached(m)'
                 PROVE  Reached(m) /\ off[m].parent # o
      BY <1>1
    <3>1. Reached(m) /\ m \in real
      BY <1>1 DEF Reached, Part
    <3>2. off[m].parent # o
      <4> SUFFICES ASSUME off[m].parent = o PROVE FALSE
        OBVIOUS
      <4>1. o \in Above[m]
        BY NodeFacts DEF Inv, Parents
      <4> QED
        BY <1>4, <3>1, <4>1 DEF Under
    <3> QED
      BY <3>1, <3>2
  <2> HIDE DEF X
  <2>4. Walked' \subseteq Walked \cup X
    BY <2>2, <2>3, WalkedGrows DEF Inv
  <2>5. CASE n = o
    BY <1>2, <2>5
  <2>6. CASE n # o
    <3>1. n \in Walked
      BY <2>4, <2>6 DEF X
    <3>2. Satisfied(n) \/ (n \in Offset /\ th[n].pc = "triggers")
      BY <2>1, <3>1 DEF CInv, AllDone
    <3>3. Satisfied(n) => Satisfied(n)'
      BY <1>1 DEF Satisfied, Owed, Part
    <3>4. n \in Offset => th'[n] = th[n]
      BY <1>2, <2>6, NodeFacts
    <3> QED
      BY <3>2, <3>3, <3>4
  <2> QED
    BY <2>5, <2>6
<1> QED
  BY <1>3, <1>5, <1>6 DEF CInv

\* After a walk that mounts nothing real, the tree is as it was.
LEMMA AppliedFacts ==
    ASSUME Inv, Inv', NEW r, Typed(r), Apply(r), Shrinks(Now, r), root' = root, tree' = tree
    PROVE  /\ Walked' \subseteq Walked /\ real' \subseteq real
           /\ \A c \in Offset : (Owed(c)' <=> Due(r, c)) /\ (Owed(c) <=> Due(Now, c))
           /\ \A n \in Node : Part(n)' = Part(n)
           /\ \A n \in Walked' \cap Offset : off[n].parent \in Walked' /\ off[n].age = root.age /\ n \in real'
<1>1. off' = r.off /\ trig' = r.trig /\ covered' = r.covered /\ real' = r.real /\ failed' = r.failed
  BY DEF Apply
<1>2. \A o \in Offset : off'[o].parent = off[o].parent /\ off'[o].age = off[o].age
  BY <1>1 DEF Typed
<1>3. Now.off = off /\ Now.trig = trig /\ Now.covered = covered /\ Now.real = real /\ Now.failed = failed
  BY DEF Now
<1>4. real' \subseteq real /\ \A c \in Offset : off'[c].valid => off[c].valid
  BY <1>1, <1>3 DEF Shrinks
<1>5. \A n \in Node : Part(n)' = Part(n)
  <2> TAKE n \in Node
  <2>1. tree[n] \subseteq Offset
    BY DEF Inv, TypeOK
  <2> QED
    BY <1>2, <2>1 DEF Part
<1>6. \A c \in Offset : (Owed(c)' <=> Due(r, c)) /\ (Owed(c) <=> Due(Now, c))
  BY <1>1, <1>2, <1>3 DEF Owed, Due
<1>7. WalkedIs /\ WalkedIs'
  BY WalkedBoth
<1>8. Walked' \subseteq Walked
  <2> DEFINE X == {}
  <2>1. \A n \in Offset \ X : Reached(n)' => Reached(n) /\ off'[n].parent = off[n].parent /\ off[n].parent \notin X
    <3> SUFFICES ASSUME NEW n \in Offset, Reached(n)' PROVE Reached(n)
      BY <1>2
    <3>1. off[n].parent \in Node
      BY TypeFacts DEF Inv
    <3> QED
      BY <1>2, <1>4, <1>5, <3>1 DEF Reached
  <2> HIDE DEF X
  <2>2. Walked' \subseteq Walked \cup X
    BY <1>7, <2>1, WalkedGrows DEF Inv
  <2> QED
    BY <2>2 DEF X
<1>9. \A n \in Walked' \cap Offset : off[n].parent \in Walked' /\ off[n].age = root.age /\ n \in real'
  BY <1>2, <1>7 DEF WalkedIs, Reached
<1> QED
  BY <1>4, <1>5, <1>6, <1>8, <1>9

\* No trigger is mounted below an offset that is about to be mounted.
LEMMA BottomWalk ==
    ASSUME Inv, CInv, ~late, NEW base \in Node, NEW deep, NEW p \in Offset, th[p].pc = "base", p # base,
           base \in trig \cup {Root}
    PROVE  \A c \in ToSet(MountOrder(base, deep)) : p \notin Above[c]
<1> SUFFICES ASSUME NEW c \in ToSet(MountOrder(base, deep)), p \in Above[c] PROVE FALSE
  OBVIOUS
<1>1. TreeTyped /\ Entered /\ Placed /\ InTree /\ TypeOK
  BY InvTree DEF Inv
<1>2. p \in trig /\ p \notin real /\ Under(trig \cup real, p) = {}
  BY <1>1 DEF Placed, CInv, Bottom
<1>3. c \in Offset /\ c \in Part(off[c].parent) /\ off[c].parent \in Visited(base, deep)
  BY <1>1, MountNested
<1>4. off[c].parent \in Node /\ off[p].parent \in Node
  BY <1>1, <1>3, TypeFacts
<1>5. c \in tree[Root] /\ off[p].age # 0
  BY <1>1, <1>2, <1>3, <1>4 DEF Part, InTree, Placed
<1> DEFINE q == off[c].parent
<1>6. q # Root /\ (p = q \/ p \in Above[q])
  BY <1>1, <1>5 DEF Entered
<1>7. q \in Offset
  BY <1>4, <1>6 DEF Node
<1>8. q = base \/ q \in real
  BY <1>3 DEF Visited, Into
<1>9. q \in trig \cup real
  BY <1>6, <1>8
<1>10. p # q
  BY <1>2, <1>8
<1> QED
  BY <1>2, <1>6, <1>7, <1>9, <1>10 DEF Under

LEMMA CMountTriggers ==
    ASSUME Inv, Inv', CInv, NEW x \in Thread, MountTriggers(x)
    PROVE  CInv'
<1> DEFINE base == IF x = Reader THEN Root ELSE x
           e == IF x = Reader THEN [th[x] EXCEPT !.pc = "end"] ELSE Idle
           deep == remount
           s == Now
<1>1. /\ th[x].pc = "triggers" /\ th' = [th EXCEPT ![x] = e]
      /\ \E out \in Outcomes(Offset) : Apply(tree_mapent_mount_offsets(s, base, deep, out))
      /\ UNCHANGED <<clock, root, tree, work, remount, raced, late, crashed>>
  BY Zenon DEF MountTriggers
<1>2. PICK out : Apply(tree_mapent_mount_offsets(s, base, deep, out))
  BY <1>1
<1>3. TypeOK /\ TreeTyped /\ base \in Node /\ InTree
  BY NodeFacts, InvTree DEF Inv, Thread
<1>4. e.pc \in {"idle", "end"} /\ (x # Reader => e.pc = "idle")
  BY <1>3, TypeFacts DEF Activity, Idle
<1> HIDE DEF e
<1>5. th'[x] = e /\ \A y \in Thread : y # x => th'[y] = th[y]
  BY <1>1, <1>3, TypeFacts
<1>6. Reading' /\ Alone' /\ Empty'
  <2>1. Reading'
    BY <1>1, <1>4, <1>5, NodeFacts DEF CInv, Reading
  <2>2. Alone'
    BY <1>1, <1>4, <1>5, NodeFacts DEF CInv, Alone
  <2>3. ASSUME ~raced, th'[Root].pc # "idle" PROVE FALSE
    <3>1. x # Root /\ th[Root].pc # "idle"
      BY <1>4, <1>5, <2>3, NodeFacts
    <3>2. th[Reader].pc = "idle" /\ \A o \in Offset : th[o].pc = "idle"
      BY <2>3, <3>1 DEF CInv, Alone, Empty
    <3> QED
      BY <1>1, <3>1, <3>2 DEF Thread, Node
  <2> QED
    BY <1>1, <2>1, <2>2, <2>3 DEF Empty
<1> SUFFICES ASSUME ~late PROVE Bottom' /\ AllDone'
  BY <1>1, <1>6 DEF CInv, Bottom, AllDone
<1>7. Entered /\ Placed
  BY DEF Inv
<1>8. base \in trig \cup {Root} /\ (base # Root => base = x /\ x \in Offset)
  <2>1. base = Root \/ (base = x /\ x \in Offset)
    BY NodeFacts DEF Thread, Node
  <2> QED
    BY <1>1, <1>7, <2>1 DEF Placed
<1> DEFINE r == tree_mapent_mount_offsets(s, base, deep, out)
           A == ToSet(MountOrder(base, deep))
           Z == Stale(base, deep)
<1>9. Typed(s) /\ s.trig = trig /\ s.failed = failed /\ Mounting(s, base, deep)
  <2>1. InPlace(Now) /\ Typed(Now) /\ Now.trig = trig /\ Now.failed = failed
    BY <1>3, <1>7, NowTyped DEF Now
  <2>2. Into(remount) \subseteq trig \cup {Root}
    BY <1>7 DEF Into, Placed
  <2> HIDE DEF base
  <2> QED
    BY <1>8, <2>1, <2>2 DEF Mounting, Visited
<1>10. r = tree_mapent_mount_offsets(s, base, deep, out) /\ Apply(r) /\ s = Now /\ deep = remount
  BY <1>2
<1> HIDE DEF r, s, deep, base
<1>11. /\ Typed(r) /\ Mounting(r, base, deep) /\ Shrinks(s, r) /\ r.trig \subseteq s.trig \cup A
       /\ \A c \in A : Due(r, c)
       /\ Only(s, r, A \cup Z)
  BY <1>3, <1>7, <1>9, <1>10, MountWalk
<1>12. A \subseteq Offset
  BY <1>3, MountNested
<1>13. /\ Walked' \subseteq Walked /\ real' \subseteq real
       /\ \A c \in Offset : (Owed(c)' <=> Due(r, c)) /\ (Owed(c) <=> Due(s, c))
       /\ \A n \in Node : Part(n)' = Part(n)
       /\ \A n \in Walked' \cap Offset : off[n].parent \in Walked' /\ off[n].age = root.age /\ n \in real'
  BY <1>1, <1>10, <1>11, AppliedFacts
<1>14. trig' = r.trig
  BY <1>10 DEF Apply
<1>15. Bottom'
  <2> SUFFICES ASSUME NEW p \in Offset, th'[p].pc = "base"
               PROVE  p \notin real' /\ Under(trig' \cup real', p) = {}
    BY DEF Bottom
  <2>1. p # x /\ th[p].pc = "base"
    BY <1>4, <1>5, NodeFacts
  <2>2. p \notin real /\ Under(trig \cup real, p) = {}
    BY <2>1 DEF CInv, Bottom
  <2>3. p # base
    BY <1>8, <2>1, NodeFacts
  <2>4. \A c \in A : p \notin Above[c]
    BY <1>3, <1>8, <2>1, <2>3, BottomWalk
  <2> HIDE DEF A
  <2> QED
    BY <1>9, <1>11, <1>13, <1>14, <2>2, <2>4 DEF Under
<1>16. ASSUME ~raced, ~Pending', NEW n \in Walked'
       PROVE  Satisfied(n)' \/ (n \in Offset /\ th'[n].pc = "triggers")
  <2>0. n \in Node
    BY WalkedBoth DEF WalkedIs
  <2>1. ASSUME n \in Visited(base, deep) PROVE Satisfied(n)'
    <3>1. \A c \in Part(n) : c \in A
      BY <1>3, <2>1, MountDown
    <3> HIDE DEF A
    <3> QED
      BY <1>11, <1>12, <1>13, <2>0, <3>1 DEF Satisfied
  <2>2. CASE x = Root
    <3>1. real \subseteq {Root}
      BY <1>1, <1>16, <2>2 DEF CInv, Empty
    <3>2. n = Root
      BY <1>13, <2>0, <3>1, NodeFacts DEF Node
    <3>3. base = Root
      BY <2>2, NodeFacts DEF base
    <3> QED
      BY <2>1, <3>2, <3>3 DEF Visited
  <2>3. CASE x = Reader
    <3>1. remount = TRUE
      BY <1>1, <2>3 DEF CInv, Reading, Inv, TypeOK
    <3>2. Walked \subseteq Visited(Root, deep)
      BY <1>3, <1>10, <3>1, WalkedVisited DEF Inv
    <3>3. base = Root
      BY <2>3 DEF base
    <3> QED
      BY <1>13, <2>1, <3>2, <3>3
  <2>4. CASE x \in Offset
    <3>1. base = x /\ x # Root /\ x # Reader
      BY <2>4, NodeFacts DEF base
    <3>2. CASE n = x
      BY <2>1, <3>1, <3>2 DEF Visited
    <3>3. CASE n # x
      <4>1. ~Pending
        BY <1>5, <1>16, <3>1, NodeFacts DEF Pending
      <4>2. n \in Walked /\ (Satisfied(n) \/ (n \in Offset /\ th[n].pc = "triggers"))
        BY <1>13, <1>16, <4>1 DEF CInv, AllDone
      <4>3. CASE n \in Offset /\ th[n].pc = "triggers"
        BY <1>5, <3>3, <4>3, NodeFacts
      <4>4. CASE Satisfied(n)
        <5> SUFFICES ASSUME NEW c \in Part(n) PROVE Owed(c)'
          BY <1>13, <2>0 DEF Satisfied
        <5>1. c \in Offset /\ off[c].parent = n
          BY <1>3, <2>0, PartFacts
        <5>2. CASE c \in A
          BY <1>11, <1>13, <5>1, <5>2
        <5>3. CASE c \in Z
          <6>1. PICK o \in A : off[o].age # root.age /\ c \in ToSet(UmountOrder(o))
            BY <5>3 DEF Stale
          <6>2. o \in Offset /\ o \in Node /\ o \notin Walked'
            BY <1>12, <1>13, <6>1, NodeFacts
          <6>3. n = o \/ n \in ToSet(UmountOrder(o))
            BY <1>3, <5>1, <6>1, <6>2, UmountNested
          <6> DEFINE W == Walked'
          <6>4. o \notin W /\ \A m \in W \cap Offset : off[m].parent \in W
            BY <1>13, <6>2
          <6> HIDE DEF W
          <6>5. ToSet(UmountOrder(o)) \cap W = {}
            BY <1>3, <6>2, <6>4, NotUnder
          <6> QED
            BY <1>16, <6>2, <6>3, <6>5 DEF W
        <5>4. CASE c \notin A \cup Z
          <6> DEFINE C == A \cup Z
          <6>1. Only(s, r, C) /\ c \in Offset \ C
            BY <1>11, <5>1, <5>4
          <6>2. Due(s, c)
            BY <1>13, <4>4, <5>1 DEF Satisfied
          <6> HIDE DEF C
          <6>3. Due(r, c)
            BY <1>11, <6>1, <6>2, DueStays
          <6> QED
            BY <1>13, <5>1, <6>3
        <5> QED
          BY <5>2, <5>3, <5>4
      <4> QED
        BY <4>2, <4>3, <4>4
    <3> QED
      BY <3>2, <3>3
  <2> QED
    BY <2>2, <2>3, <2>4 DEF Thread, Node
<1> QED
  BY <1>1, <1>15, <1>16 DEF AllDone

\* An expire leaves what it did not come to, and a trigger it could not umount is
\* a failure.
LEMMA UmountLeaves ==
    ASSUME Inv, ~late, NEW base \in Node, NEW out, NEW s, s = tree_mapent_umount_offsets(base, out)
    PROVE  /\ Only(Now, s, ToSet(UmountOrder(base))) /\ Shrinks(Now, s)
           /\ s.trig \cap ToSet(UmountOrder(base)) \subseteq s.failed
           /\ failed \ trig \subseteq s.failed
<1> DEFINE seq == UmountOrder(base)
           n == Now
<1>1. TreeTyped /\ TypeOK
  BY InvTree DEF Inv
<1>2. seq \in Seq(Offset)
  BY <1>1, UmountDefined
<1>3. s = UmountSeq(n, seq, out)
  BY DEF tree_mapent_umount_offsets
<1>4. Typed(n) /\ InPlace(n) /\ n.trig = trig /\ n.failed = failed
  BY <1>1, NowTyped DEF Inv, Now
<1> HIDE DEF seq, n
<1>5. /\ Only(n, s, ToSet(seq)) /\ Shrinks(n, s)
      /\ s.trig \cap ToSet(seq) \subseteq s.failed
      /\ n.failed \ n.trig \subseteq s.failed
  BY <1>1, <1>2, <1>3, <1>4, UmountSeqFacts
<1> QED
  BY <1>4, <1>5 DEF seq, n

\* An expire that is given up owes no more than before.
LEMMA BareDue ==
    ASSUME TypeOK, NEW s, Typed(s), NEW C, Only(Now, s, C), Shrinks(Now, s),
           s.trig \cap C \subseteq s.failed, failed \ trig \subseteq s.failed
    PROVE  /\ Shrinks(Now, Bare(s)) /\ Bare(s).trig = s.trig
           /\ \A c \in Offset : Due(Now, c) => Due(Bare(s), c)
<1> DEFINE r == Bare(s)
           n == Now
<1>1. s \in WalkState
  BY DEF Typed
<1>2. /\ r.off = s.off /\ r.trig = s.trig /\ r.real = s.real
      /\ r.failed = s.failed \cup (trig \ s.trig)
  BY <1>1 DEF Bare, WalkState
<1>3. n.off = off /\ n.trig = trig /\ n.failed = failed
  BY DEF Now
<1>4. Only(n, s, C) /\ Shrinks(n, s)
  OBVIOUS
<1> HIDE DEF r, n
<1>5. ASSUME NEW c \in Offset, Due(n, c) PROVE Due(r, c)
  <2>1. CASE c \in C
    BY <1>2, <1>3, <1>4, <1>5, <2>1 DEF Due, Shrinks
  <2>2. CASE c \notin C
    <3>1. c \in Offset \ C
      BY <2>2
    <3>2. Due(s, c)
      BY <1>4, <1>5, <3>1, DueStays
    <3> QED
      BY <1>2, <3>2 DEF Due
  <2> QED
    BY <2>1, <2>2
<1>6. Shrinks(n, r)
  BY <1>2, <1>4 DEF Shrinks
<1> QED
  BY <1>2, <1>5, <1>6 DEF r, n

LEMMA CExpireOffset ==
    ASSUME Inv, Inv', CInv, NEW o \in Offset, ExpireOffset(o)
    PROVE  CInv'
<1>1. /\ \E out \in Outcomes(trig \cup real) :
           LET s == tree_mapent_umount_offsets(o, out)
           IN Apply(Bare(s)) \/ Apply([s EXCEPT !.real = @ \ {o}])
      /\ UNCHANGED <<root, tree, remount, raced, late>> /\ th' = th
      /\ th[Root].pc = "idle"
  BY Zenon DEF ExpireOffset
<1>2. PICK out : LET s == tree_mapent_umount_offsets(o, out)
                 IN Apply(Bare(s)) \/ Apply([s EXCEPT !.real = @ \ {o}])
  BY <1>1, Zenon
<1> DEFINE s == tree_mapent_umount_offsets(o, out)
           g == [s EXCEPT !.real = @ \ {o}]
           C == ToSet(UmountOrder(o))
           n == Now
<1>3. TypeOK /\ TreeTyped /\ o \in Node
  BY NodeFacts, InvTree DEF Inv
<1>4. Apply(Bare(s)) \/ Apply(g)
  BY <1>2, Zenon
<1>5. Typed(s) /\ (~late => s.trig \subseteq trig)
  <2>1. \A z : z = tree_mapent_umount_offsets(o, out) => Typed(z) /\ (~late => z.trig \subseteq trig)
    BY <1>3, UmountWalk
  <2> QED
    BY <2>1, Zenon
<1>6. Reading' /\ Alone' /\ Empty'
  BY <1>1 DEF CInv, Reading, Alone, Empty
<1> SUFFICES ASSUME ~late PROVE Bottom' /\ AllDone'
  BY <1>1, <1>6 DEF CInv, Bottom, AllDone
<1>7. Only(n, s, C) /\ Shrinks(n, s) /\ s.trig \cap C \subseteq s.failed /\ failed \ trig \subseteq s.failed
  <2>1. \A z : z = tree_mapent_umount_offsets(o, out) =>
          /\ Only(n, z, C) /\ Shrinks(n, z) /\ z.trig \cap C \subseteq z.failed /\ failed \ trig \subseteq z.failed
    BY <1>3, UmountLeaves
  <2> QED
    BY <2>1, Zenon
<1> HIDE DEF s
<1>8. /\ Shrinks(n, Bare(s)) /\ Bare(s).trig = s.trig /\ Typed(Bare(s))
      /\ \A c \in Offset : Due(n, c) => Due(Bare(s), c)
  <2>1. Typed(Bare(s))
    BY <1>3, <1>5, BareTyped
  <2> HIDE DEF C
  <2> QED
    BY <1>3, <1>5, <1>7, <2>1, BareDue
<1>9. /\ Typed(g) /\ g.off = s.off /\ g.trig = s.trig /\ g.real = s.real \ {o} /\ g.failed = s.failed
  BY <1>5, GoneTyped, Zenon
<1> HIDE DEF g
<1>10. Shrinks(n, g) /\ Only(n, g, C)
  BY <1>7, <1>9 DEF Shrinks, Only
<1>11. PICK r : /\ r = Bare(s) \/ r = g
                /\ Apply(r) /\ Typed(r) /\ Shrinks(n, r) /\ r.trig = s.trig
  BY <1>4, <1>8, <1>9, <1>10
<1>12. /\ Walked' \subseteq Walked /\ real' \subseteq real
       /\ \A c \in Offset : (Owed(c)' <=> Due(r, c)) /\ (Owed(c) <=> Due(n, c))
       /\ \A m \in Node : Part(m)' = Part(m)
       /\ \A m \in Walked' \cap Offset : off[m].parent \in Walked' /\ off[m].age = root.age /\ m \in real'
  BY <1>1, <1>11, AppliedFacts
<1>13. trig' \subseteq trig /\ real' = r.real
  BY <1>5, <1>11 DEF Apply
<1>14. Bottom'
  BY <1>1, <1>12, <1>13 DEF CInv, Bottom, Under
<1>15. ASSUME ~raced, ~Pending', NEW m \in Walked'
       PROVE  Satisfied(m)' \/ (m \in Offset /\ th'[m].pc = "triggers")
  <2>0. m \in Node
    BY WalkedBoth DEF WalkedIs
  <2>1. ~Pending
    BY <1>1, <1>15 DEF Pending
  <2>2. m \in Walked /\ (Satisfied(m) \/ (m \in Offset /\ th[m].pc = "triggers"))
    BY <1>12, <1>15, <2>1 DEF CInv, AllDone
  <2>3. ASSUME Satisfied(m), NEW c \in Part(m) PROVE Owed(c)'
    <3>1. c \in Offset /\ off[c].parent = m
      BY <1>3, <2>0, PartFacts
    <3>2. Due(n, c)
      BY <1>12, <2>3, <3>1 DEF Satisfied
    <3>3. CASE r = Bare(s)
      BY <1>8, <1>12, <3>1, <3>2, <3>3
    <3>4. CASE r = g
      <4> DEFINE W == Walked'
      <4>1. o \notin W
        BY <1>9, <1>12, <1>13, <3>4
      <4>2. \A k \in W \cap Offset : off[k].parent \in W
        BY <1>12
      <4>3. m \in W
        BY <1>15
      <4> HIDE DEF W
      <4>4. C \cap W = {}
        BY <1>3, <4>1, <4>2, NotUnder
      <4>5. c \notin C
        <5> SUFFICES ASSUME c \in C PROVE FALSE
          OBVIOUS
        <5>1. m = o \/ m \in C
          BY <1>3, <3>1, UmountNested
        <5> QED
          BY <4>1, <4>3, <4>4, <5>1
      <4>6. c \in Offset \ C
        BY <3>1, <4>5
      <4> HIDE DEF C
      <4>7. Due(r, c)
        BY <1>10, <3>2, <3>4, <4>6, DueStays
      <4> QED
        BY <1>12, <3>1, <4>7
    <3> QED
      BY <1>11, <3>3, <3>4
  <2> QED
    BY <1>1, <1>12, <2>0, <2>2, <2>3 DEF Satisfied
<1> QED
  BY <1>1, <1>14, <1>15 DEF AllDone

LEMMA CExpireRoot ==
    ASSUME Inv, Inv', CInv, ExpireRoot
    PROVE  CInv'
<1> DEFINE n == Now
           C == ToSet(UmountOrder(Root))
           Same == UNCHANGED <<root, tree>> /\ raced' = raced
<1>1. /\ \A x \in Thread : th[x].pc = "idle"
      /\ \E out : LET s == tree_mapent_umount_offsets(Root, out)
           IN \/ Apply(Bare(s)) /\ Same
              \/ ~s.stop /\ (\E again : Apply(tree_mapent_mount_offsets(s, Root, FALSE, again))) /\ Same
              \/ tree' = [k \in Node |-> {}]
      /\ UNCHANGED <<remount, late>> /\ th' = th
  BY Zenon DEF ExpireRoot, Kept
<1>2. PICK out : LET s == tree_mapent_umount_offsets(Root, out)
           IN \/ Apply(Bare(s)) /\ Same
              \/ ~s.stop /\ (\E again : Apply(tree_mapent_mount_offsets(s, Root, FALSE, again))) /\ Same
              \/ tree' = [k \in Node |-> {}]
  BY <1>1, Zenon
<1> DEFINE s == tree_mapent_umount_offsets(Root, out)
<1>3. TypeOK /\ TreeTyped /\ Root \in Node
  BY NodeFacts, InvTree DEF Inv
<1>4. \/ Apply(Bare(s)) /\ Same
      \/ ~s.stop /\ (\E again : Apply(tree_mapent_mount_offsets(s, Root, FALSE, again))) /\ Same
      \/ tree' = [k \in Node |-> {}]
  BY <1>2, Zenon
<1>5. Typed(s) /\ (~late => InPlace(s) /\ s.trig \subseteq trig /\ (~s.stop => s.trig = {}))
  <2>1. \A z : z = tree_mapent_umount_offsets(Root, out) =>
          Typed(z) /\ (~late => InPlace(z) /\ z.trig \subseteq trig /\ (~z.stop => z.trig = {}))
    BY <1>3, UmountWalk
  <2> QED
    BY <2>1, Zenon
<1>6. /\ \A x \in Thread : th'[x].pc = "idle"
      /\ Reading' /\ Alone' /\ Empty' /\ Bottom'
  BY <1>1, NodeFacts DEF Reading, Alone, Empty, Bottom
<1> SUFFICES ASSUME ~raced', ~late, NEW m \in Walked' PROVE Satisfied(m)'
  BY <1>1, <1>6 DEF CInv, AllDone
<1>7. m \in Node /\ WalkedIs /\ WalkedIs' /\ ~Pending
  BY <1>1, WalkedBoth, NodeFacts DEF WalkedIs, Pending
<1>8. Only(n, s, C) /\ Shrinks(n, s) /\ s.trig \cap C \subseteq s.failed /\ failed \ trig \subseteq s.failed
  <2>1. \A z : z = tree_mapent_umount_offsets(Root, out) =>
          /\ Only(n, z, C) /\ Shrinks(n, z) /\ z.trig \cap C \subseteq z.failed /\ failed \ trig \subseteq z.failed
    BY <1>3, UmountLeaves
  <2> QED
    BY <2>1, Zenon
<1> HIDE DEF s, C
<1>9. CASE Apply(Bare(s)) /\ Same
  <2> DEFINE r == Bare(s)
  <2>1. /\ Shrinks(n, r) /\ Typed(r) /\ Apply(r)
        /\ \A c \in Offset : Due(n, c) => Due(r, c)
    BY <1>3, <1>5, <1>8, <1>9, BareTyped, BareDue
  <2> HIDE DEF r
  <2>2. /\ Walked' \subseteq Walked
        /\ \A c \in Offset : (Owed(c)' <=> Due(r, c)) /\ (Owed(c) <=> Due(n, c))
        /\ Part(m)' = Part(m)
    BY <1>7, <1>9, <2>1, AppliedFacts
  <2>3. Satisfied(m)
    <3>1. ~raced /\ m \in Walked
      BY <1>9, <2>2
    <3>2. Satisfied(m) \/ (m \in Offset /\ th[m].pc = "triggers")
      BY <1>7, <3>1 DEF CInv, AllDone
    <3> QED
      BY <1>1, <3>2, NodeFacts
  <2>4. Part(m) \subseteq Offset
    BY <1>3, <1>7, PartFacts
  <2> QED
    BY <2>1, <2>2, <2>3, <2>4 DEF Satisfied
<1>10. CASE ~s.stop /\ (\E again : Apply(tree_mapent_mount_offsets(s, Root, FALSE, again))) /\ Same
  <2>1. PICK again : Apply(tree_mapent_mount_offsets(s, Root, FALSE, again))
    BY <1>10
  <2> DEFINE r == tree_mapent_mount_offsets(s, Root, FALSE, again)
             deep == FALSE
  <2>2. Visited(Root, deep) = {Root}
    BY DEF Visited, Into
  <2>3. Mounting(s, Root, deep) /\ Entered /\ InTree
    BY <1>5, <2>2 DEF Mounting, Inv
  <2>4. r = tree_mapent_mount_offsets(s, Root, deep, again) /\ Apply(r)
    BY <2>1
  <2> HIDE DEF r, deep
  <2>5. /\ Typed(r) /\ Shrinks(s, r)
        /\ \A c \in ToSet(MountOrder(Root, deep)) : Due(r, c)
    BY <1>3, <1>5, <2>3, <2>4, MountWalk
  <2>6. Shrinks(n, r)
    BY <1>8, <2>5 DEF Shrinks
  <2>7. /\ \A c \in Offset : Owed(c)' <=> Due(r, c)
        /\ Part(m)' = Part(m)
        /\ \A k \in Walked' \cap Offset : k \in real'
    BY <1>7, <1>10, <2>4, <2>5, <2>6, AppliedFacts
  <2>8. real' \subseteq {Root}
    <3>1. s.real \subseteq {Root} /\ real' = r.real
      BY <1>5, <1>10, <2>4 DEF InPlace, Apply
    <3> QED
      BY <2>5, <3>1 DEF Shrinks
  <2>9. m = Root
    BY <1>7, <2>7, <2>8, NodeFacts DEF Node
  <2>10. \A c \in Part(m) : c \in Offset /\ c \in ToSet(MountOrder(Root, deep))
    BY <1>3, <2>2, <2>9, MountDown, PartFacts
  <2> QED
    BY <2>5, <2>7, <2>10 DEF Satisfied
<1>11. CASE tree' = [k \in Node |-> {}]
  BY <1>7, <1>11 DEF Satisfied, Part
<1> QED
  BY <1>4, <1>9, <1>10, <1>11

LEMMA CInit ==
    ASSUME Init
    PROVE  CInv
<1>1. Inv /\ tree = [n \in Node |-> {}] /\ th = [x \in Thread |-> Idle]
  BY InvInit, Zenon DEF Init
<1>2. (\A x \in Thread : th[x].pc = "idle") /\ WalkedIs
  BY <1>1, WalkedDefined DEF Idle, Inv
<1>3. \A n \in Node : Part(n) = {}
  BY <1>1 DEF Part
<1> QED
  BY <1>2, <1>3, NodeFacts DEF CInv, Reading, Alone, Empty, Bottom, AllDone, Satisfied, WalkedIs

LEMMA CNext ==
    ASSUME Inv, Inv', CInv, [Next]_vars
    PROVE  CInv'
<1>1. CASE UNCHANGED vars
  <2>1. UNCHANGED <<root, off, tree, trig, real, remount, th, failed, raced, late>>
    BY <1>1 DEF vars, cacheVars
  <2>2. Pending' \/ ~Pending
    BY <2>1 DEF Pending
  <2>3. AllDone'
    BY <2>1, <2>2, CalmStep
  <2>4. Reading' /\ Alone' /\ Empty' /\ Bottom'
    BY <2>1 DEF CInv, Reading, Alone, Empty, Bottom
  <2> QED
    BY <2>3, <2>4 DEF CInv
<1>2. CASE Next
  <2>1. CASE RootRequest
    BY <2>1, CRootRequest
  <2>2. CASE RootUpdate
    BY <2>2, CRootUpdate
  <2>3. CASE \E list \in Lists : get_exports(list) \/ update_hosts_mounts(list) \/ UpdateEnd
    BY <2>3, CGetExports, CUpdateHosts, CUpdateEnd
  <2>4. ASSUME NEW w \in {Root, Reader}, Parse(w) PROVE CInv'
    <3>1. w \in Thread
      BY NodeFacts
    <3>2. (ParseRoot(w) \/ ParseOffset(w) \/ ParseTree(w) \/ MountRootOffset(w)) \/ MountTriggers(w)
      BY <2>4 DEF Parse
    <3> QED
      BY <3>1, <3>2, CParse, CMountTriggers
  <2>5. ASSUME NEW o \in Offset, OffsetRequest(o) \/ MountOffset(o) \/ MountTriggers(o) \/ ExpireOffset(o)
        PROVE  CInv'
    <3>1. o \in Thread
      BY NodeFacts
    <3> QED
      BY <2>5, <3>1, COffsetRequest, CMountOffset, CMountTriggers, CExpireOffset
  <2>6. CASE ExpireRoot
    BY <2>6, CExpireRoot
  <2> QED
    BY <1>2, <2>1, <2>2, <2>3, <2>4, <2>5, <2>6, Zenon DEF Next
<1> QED
  BY <1>1, <1>2

\* tree_mapent_mount_offsets(), umount_subtree_mounts(): between requests each
\* offset that a walk comes to has the trigger it is owed, and a stale one has
\* none, or the failure is known, for any paths and lists, while the key is not
\* requested during a map read and no export is added above one in the tree.
THEOREM CompleteHolds == Spec => []Complete
<1>1. Init => Inv /\ CInv
  BY InvInit, CInit
<1>2. Inv /\ CInv /\ [Next]_vars => Inv' /\ CInv'
  BY InvNext, CNext
<1>3. Inv /\ CInv => Complete
  <2> SUFFICES ASSUME Inv, CInv, Quiet, NEW n \in Walked PROVE Satisfied(n)
    BY DEF Complete, Satisfied, Owed
  <2>1. ~raced /\ ~late /\ \A x \in Thread : th[x].pc = "idle"
    BY DEF Quiet
  <2>2. ~Pending
    BY <2>1, NodeFacts DEF Pending
  <2>3. Satisfied(n) \/ (n \in Offset /\ th[n].pc = "triggers")
    BY <2>1, <2>2 DEF CInv, AllDone
  <2> QED
    BY <2>1, <2>3, NodeFacts
<1> QED
  BY <1>1, <1>2, <1>3, PTL DEF Spec
=============================================================================
