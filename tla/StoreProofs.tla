----------------------------- MODULE StoreProofs -----------------------------
(***************************************************************************)
(* FAT32 implements FileStore, for every value of the constants.           *)
(*                                                                         *)
(* A chain is followed by a recursive function.  What is needed of one is  *)
(* shown by looking at the last cluster where it might fail (LastCluster), *)
(* for chains run forward; what is needed of the chains that lead to a     *)
(* cluster, at the first (FirstCluster).  The parts:                       *)
(*   walks        a chain as a sequence of clusters (Walks, IsPath)        *)
(*   Unseen       the steps that leave what the abstract store sees alone  *)
(*   Stored       what write() stores and read() copies (StoredInvCorrect) *)
(*   Tree         the directories, reached from the root or from an entry  *)
(*   Space        blocks of the abstract store against allocated clusters  *)
(*   Codes        each call is refused with the abstract store's code      *)
(*   refinement   step by step                                             *)
(*   laws         what any abstract store promises, of the driver's tree   *)
(***************************************************************************)
EXTENDS FAT32StoreInv, FAT32Proofs

(* A search among the clusters ends: a set of them has a last one.         *)
LEMMA LastCluster ==
  ASSUME NEW B \in SUBSET DataClusters, B # {}
  PROVE  \E c \in B : \A d \in B : d <= c
<1> DEFINE Up == {CLUSTER_MAP_SIZE - c : c \in B}
<1>1. Up \subseteq 0 .. CLUSTER_MAP_SIZE /\ Up # {}
  <2>1. \A c \in DataClusters : CLUSTER_MAP_SIZE - c \in 0 .. CLUSTER_MAP_SIZE
    BY SizeAssumption DEF DataClusters, ROOT
  <2> QED
    BY <2>1
<1>2. Min(Up) \in Up /\ \A y \in Up : Min(Up) <= y
  <2>1. Up \in SUBSET Nat
    BY <1>1, SizeAssumption
  <2>2. IsFiniteSet(0 .. CLUSTER_MAP_SIZE)
    BY FS_Interval, SizeAssumption
  <2>3. IsFiniteSet(Up)
    BY <1>1, <2>2, FS_Subset
  <2> HIDE DEF Up
  <2> QED
    BY <2>1, <2>3, <1>1, MinIsLeast
<1>3. PICK c \in B : Min(Up) = CLUSTER_MAP_SIZE - c
  BY <1>2
<1>4. \A d \in B : Min(Up) <= CLUSTER_MAP_SIZE - d
  BY <1>2
<1>5. \A d \in B : d <= c
  BY <1>3, <1>4, SizeAssumption DEF DataClusters, ROOT
<1> QED
  BY <1>5

LEMMA FirstCluster ==
  ASSUME NEW B \in SUBSET DataClusters, B # {}
  PROVE  \E c \in B : \A d \in B : c <= d
<1>1. B \in SUBSET Nat
  BY ConstantTypes
<1>2. IsFiniteSet(DataClusters)
  BY FS_Interval, SizeAssumption DEF DataClusters, ROOT
<1>3. IsFiniteSet(B)
  BY <1>2, FS_Subset
<1> QED
  BY <1>1, <1>3, MinIsLeast

-----------------------------------------------------------------------------
(* A walk: the values v of a cluster and of those its links lead to.       *)
Links(f, c) == f[c] \in DataClusters /\ f[c] > c

IsWalk(f, v, W) ==
  \A c \in DataClusters : W[c] = <<v[c]>> \o IF Links(f, c) THEN W[f[c]] ELSE << >>

(* Every recursive definition of a walk is well defined.                   *)
LEMMA WalkExists ==
  ASSUME NEW V, NEW f, NEW v \in [DataClusters -> V]
  PROVE  \E W \in [DataClusters -> Seq(V)] : IsWalk(f, v, W)
<1> DEFINE From(c) == {d \in DataClusters : d >= c}
           Body(W, c) == <<v[c]>> \o IF Links(f, c) THEN W[f[c]] ELSE << >>
           Good(c) == \E W \in [From(c) -> Seq(V)] : \A d \in From(c) : W[d] = Body(W, d)
           Bad == {c \in DataClusters : ~Good(c)}
<1>1. DataClusters \subseteq Nat
  BY ConstantTypes
<1>2. ASSUME NEW c \in Bad, \A d \in Bad : d <= c
      PROVE  FALSE
  <2>0. c \in DataClusters /\ ~Good(c) /\ From(c) \subseteq DataClusters
    OBVIOUS
  <2>1. PICK W : /\ \A d \in From(c) \ {c} : W[d] \in Seq(V) /\ W[d] = Body(W, d)
    <3>1. CASE From(c) = {c}
      BY <3>1
    <3>2. CASE From(c) # {c}
      <4>1. c + 1 \in DataClusters
        <5>1. PICK d \in DataClusters : d > c
          <6>1. c \in From(c)
            BY <1>1, <2>0
          <6>2. PICK d \in From(c) : d # c
            BY <6>1, <3>2
          <6> QED
            BY <6>2, <1>1, <2>0
        <5> QED
          BY <5>1, <2>0, SizeAssumption DEF DataClusters, ROOT
      <4>2. Good(c + 1)
        <5>1. c + 1 \notin Bad
          <6> HIDE DEF Bad
          <6> QED
            BY <1>1, <1>2, <2>0
        <5> QED
          BY <4>1, <5>1
      <4>3. From(c + 1) = From(c) \ {c}
        <5>1. \A d \in DataClusters : d >= c + 1 <=> d >= c /\ d # c
          BY <1>1, <2>0
        <5> QED
          BY <5>1
      <4>4. PICK W \in [From(c + 1) -> Seq(V)] : \A d \in From(c + 1) : W[d] = Body(W, d)
        BY <4>2
      <4> HIDE DEF From, Body
      <4> QED
        BY <4>3, <4>4
    <3> QED
      BY <3>1, <3>2
  <2> DEFINE X == [d \in From(c) |-> IF d = c THEN Body(W, c) ELSE W[d]]
  <2>2. \A d \in From(c) : Links(f, d) => f[d] \in From(c) \ {c}
    <3> SUFFICES ASSUME NEW d \in From(c), Links(f, d) PROVE f[d] \in From(c) \ {c}
      OBVIOUS
    <3>1. d \in DataClusters /\ d >= c /\ f[d] \in DataClusters /\ f[d] > d
      BY DEF Links
    <3> QED
      BY <3>1, <1>1, <2>0
  <2>3. \A d \in From(c) : X[d] = Body(X, d)
    <3>1. \A d \in From(c) : Body(X, d) = Body(W, d)
      BY <2>2
    <3>2. \A d \in From(c) : X[d] = Body(W, d)
      BY <2>1
    <3> HIDE DEF X, Body, From
    <3> QED
      BY <3>1, <3>2
  <2>4. \A d \in From(c) : X[d] \in Seq(V)
    <3>1. c \in From(c)
      BY <1>1, <2>0
    <3>2. Body(W, c) \in Seq(V)
      <4>1. v[c] \in V
        BY <2>0
      <4>2. CASE Links(f, c)
        <5>1. W[f[c]] \in Seq(V)
          BY <4>2, <3>1, <2>2, <2>1
        <5> QED
          BY <5>1, <4>1, <4>2
      <4>3. CASE ~Links(f, c)
        BY <4>1, <4>3
      <4> QED
        BY <4>2, <4>3
    <3> HIDE DEF Body
    <3> QED
      BY <3>2, <2>1
  <2>5. X \in [From(c) -> Seq(V)]
    <3> HIDE DEF Body, From
    <3> QED
      BY <2>4
  <2> HIDE DEF X, Body, From
  <2> QED
    BY <2>0, <2>3, <2>5
<1>3. Bad = {}
  <2> HIDE DEF Good
  <2> SUFFICES ASSUME Bad # {} PROVE FALSE
    OBVIOUS
  <2>1. Bad \in SUBSET DataClusters
    OBVIOUS
  <2> HIDE DEF Bad
  <2> QED
    BY <1>2, <2>1, LastCluster
<1>4. ROOT \in DataClusters /\ From(ROOT) = DataClusters
  BY <1>1, SizeAssumption DEF DataClusters, ROOT
<1>5. Good(ROOT)
  <2> HIDE DEF Good
  <2> QED
    BY <1>3, <1>4
<1>6. PICK W \in [DataClusters -> Seq(V)] : \A d \in DataClusters : W[d] = Body(W, d)
  <2> HIDE DEF From, Body
  <2> USE DEF Good
  <2> QED
    BY <1>4, <1>5
<1> QED
  BY <1>6 DEF IsWalk

(* Walks agree on a set of clusters that no link leaves, if the links and  *)
(* the values do.                                                          *)
LEMMA WalksAgree ==
  ASSUME NEW f, NEW g, NEW v, NEW w, NEW V, NEW W, IsWalk(f, v, V), IsWalk(g, w, W),
         NEW S \in SUBSET DataClusters,
         \A c \in S : g[c] = f[c] /\ w[c] = v[c] /\ (Links(f, c) => f[c] \in S)
  PROVE  \A c \in S : W[c] = V[c]
<1> DEFINE Bad == {c \in S : W[c] # V[c]}
<1> SUFFICES ASSUME Bad # {} PROVE FALSE
  OBVIOUS
<1>1. DataClusters \subseteq Nat
  BY ConstantTypes
<1>2. PICK c \in Bad : \A d \in Bad : d <= c
  <2>1. Bad \in SUBSET DataClusters
    OBVIOUS
  <2> HIDE DEF Bad
  <2> QED
    BY <2>1, LastCluster
<1>3. c \in S /\ c \in DataClusters
  OBVIOUS
<1>4. Links(f, c) => W[f[c]] = V[f[c]]
  <2> SUFFICES ASSUME Links(f, c) PROVE W[f[c]] = V[f[c]]
    OBVIOUS
  <2>1. f[c] \in S /\ f[c] \in Nat /\ c \in Nat /\ f[c] > c
    BY <1>1, <1>3 DEF Links
  <2>2. f[c] \notin Bad
    BY <1>2, <2>1
  <2> QED
    BY <2>1, <2>2
<1>5. Links(g, c) <=> Links(f, c)
  BY <1>3 DEF Links
<1>6. /\ W[c] = <<w[c]>> \o IF Links(g, c) THEN W[g[c]] ELSE << >>
      /\ V[c] = <<v[c]>> \o IF Links(f, c) THEN V[f[c]] ELSE << >>
  BY <1>3 DEF IsWalk
<1>7. g[c] = f[c] /\ w[c] = v[c]
  BY <1>3
<1>8. W[c] = V[c]
  BY <1>4, <1>5, <1>6, <1>7
<1> QED
  BY <1>8

(* A walk is as long as the clusters it passes: at its k-th step it is at  *)
(* the k-th of them.  s names the clusters in order.                       *)
LEMMA WalkAlong ==
  ASSUME NEW f, NEW v, NEW W, IsWalk(f, v, W), NEW n \in Nat \ {0}, NEW s \in [1 .. n -> DataClusters],
         \A k \in 1 .. n : k < n => f[s[k]] = s[k + 1] /\ s[k] < s[k + 1],
         ~Links(f, s[n])
  PROVE  W[s[1]] = [k \in 1 .. n |-> v[s[k]]]
<1> DEFINE Rest(k) == [j \in 1 .. n - k + 1 |-> v[s[k + j - 1]]]
           Bad == {k \in 1 .. n : W[s[k]] # Rest(k)}
           Up == {n - k : k \in Bad}
<1>1. Bad = {}
  <2> SUFFICES ASSUME Bad # {} PROVE FALSE
    OBVIOUS
  <2>1. Bad \subseteq 1 .. n
    OBVIOUS
  <2>2. Min(Up) \in Up /\ \A y \in Up : Min(Up) <= y
    <3> HIDE DEF Bad
    <3>0. Up \subseteq 0 .. n /\ Up # {}
      <4>1. \A k \in 1 .. n : n - k \in 0 .. n
        OBVIOUS
      <4>2. PICK b \in Bad : TRUE
        BY <2>1
      <4>3. n - b \in Up
        BY <4>2
      <4>4. Up \subseteq 0 .. n
        BY <2>1, <4>1
      <4> QED
        BY <4>3, <4>4
    <3>1. Up \in SUBSET Nat /\ IsFiniteSet(0 .. n)
      BY <3>0, FS_Interval
    <3>2. IsFiniteSet(Up)
      BY <3>0, <3>1, FS_Subset
    <3> HIDE DEF Up
    <3> QED
      BY <3>0, <3>1, <3>2, MinIsLeast
  <2>3. PICK k \in Bad : \A j \in Bad : j <= k
    <3>1. PICK k \in Bad : Min(Up) = n - k
      BY <2>2
    <3>2. \A j \in Bad : Min(Up) <= n - j
      BY <2>2
    <3> HIDE DEF Bad, Up
    <3> QED
      BY <3>1, <3>2, <2>1
  <2>4. k \in 1 .. n /\ s[k] \in DataClusters
    OBVIOUS
  <2>5. W[s[k]] = <<v[s[k]]>> \o IF Links(f, s[k]) THEN W[f[s[k]]] ELSE << >>
    BY <2>4 DEF IsWalk
  <2>6. CASE k = n
    <3>1. W[s[k]] = <<v[s[k]]>>
      BY <2>5, <2>6
    <3>2. Rest(k) = <<v[s[k]]>>
      BY <2>6
    <3> QED
      BY <3>1, <3>2
  <2>7. CASE k # n
    <3>1. k < n /\ k + 1 \in 1 .. n /\ k \in Nat
      BY <2>4, <2>7
    <3>2. f[s[k]] = s[k + 1] /\ s[k] < s[k + 1] /\ s[k + 1] \in DataClusters
      BY <3>1, <2>4
    <3>3. Links(f, s[k])
      BY <3>2, <2>4, ConstantTypes DEF Links
    <3>4. k + 1 \notin Bad
      <4> HIDE DEF Bad
      <4> QED
        BY <2>3, <3>1
    <3>5. W[s[k + 1]] = Rest(k + 1)
      BY <3>4, <3>1
    <3>6. W[s[k]] = <<v[s[k]]>> \o Rest(k + 1)
      BY <2>5, <3>2, <3>3, <3>5
    <3>7. <<v[s[k]]>> \o Rest(k + 1) = Rest(k)
      BY <3>1
    <3> QED
      BY <3>6, <3>7
  <2> QED
    BY <2>6, <2>7
<1>2. W[s[1]] = Rest(1)
  <2> HIDE DEF Rest
  <2> QED
    BY <1>1
<1> QED
  BY <1>2

(* The clusters of a walk, in order.                                       *)
Numbers == [c \in DataClusters |-> c]

IsPath(f, s) ==
  /\ Len(s) >= 1
  /\ \A k \in 1 .. Len(s) - 1 : Links(f, s[k]) /\ f[s[k]] = s[k + 1]
  /\ ~Links(f, s[Len(s)])

LEMMA WalkGoesOn ==
  ASSUME NEW f, NEW v, NEW W, IsWalk(f, v, W), NEW c \in DataClusters, Links(f, c)
  PROVE  f[c] \in DataClusters /\ W[c] = <<v[c]>> \o W[f[c]]
<1>1. W[c] = <<v[c]>> \o IF Links(f, c) THEN W[f[c]] ELSE << >>
  BY DEF IsWalk
<1>2. f[c] \in DataClusters
  BY DEF Links
<1> QED
  BY <1>1, <1>2

LEMMA WalkEnds ==
  ASSUME NEW f, NEW v, NEW W, IsWalk(f, v, W), NEW c \in DataClusters, ~Links(f, c)
  PROVE  W[c] = <<v[c]>>
<1>1. W[c] = <<v[c]>> \o IF Links(f, c) THEN W[f[c]] ELSE << >>
  BY DEF IsWalk
<1>2. <<v[c]>> \o << >> = <<v[c]>>
  OBVIOUS
<1> QED
  BY <1>1, <1>2

(* U is the walk of the values v, and W that of the clusters themselves.   *)
Walks(f, V, v, U, W) ==
  /\ v \in [DataClusters -> V] /\ U \in [DataClusters -> Seq(V)] /\ IsWalk(f, v, U)
  /\ W \in [DataClusters -> Seq(DataClusters)] /\ IsWalk(f, Numbers, W)

LEMMA WalkOfClusters ==
  ASSUME NEW f, NEW V, NEW v, NEW U, NEW W, Walks(f, V, v, U, W)
  PROVE  \A c \in DataClusters :
           /\ W[c] \in Seq(DataClusters) /\ W[c][1] = c /\ IsPath(f, W[c])
           /\ Len(U[c]) = Len(W[c])
<1> /\ v \in [DataClusters -> V] /\ U \in [DataClusters -> Seq(V)] /\ IsWalk(f, v, U)
    /\ W \in [DataClusters -> Seq(DataClusters)] /\ IsWalk(f, Numbers, W)
  BY DEF Walks
<1> DEFINE Good(c) == /\ W[c][1] = c /\ IsPath(f, W[c])
                      /\ Len(U[c]) = Len(W[c])
           Bad == {c \in DataClusters : ~Good(c)}
<1> SUFFICES ASSUME Bad # {} PROVE FALSE
  OBVIOUS
<1>1. PICK c \in Bad : \A d \in Bad : d <= c
  <2>1. Bad \in SUBSET DataClusters
    OBVIOUS
  <2> HIDE DEF Bad
  <2> QED
    BY <2>1, LastCluster
<1>2. c \in DataClusters /\ ~Good(c) /\ Numbers[c] = c /\ v[c] \in V
  BY DEF Numbers
<1>3. CASE ~Links(f, c)
  <2>1. W[c] = <<Numbers[c]>> /\ U[c] = <<v[c]>>
    <3>1. W[c] = <<Numbers[c]>>
      BY <1>2, <1>3, WalkEnds
    <3>2. U[c] = <<v[c]>>
      BY <1>2, <1>3, WalkEnds
    <3> QED
      BY <3>1, <3>2
  <2>2. Good(c)
    BY <2>1, <1>2, <1>3 DEF IsPath
  <2> QED
    BY <2>2, <1>2
<1>4. CASE Links(f, c)
  <2>1. f[c] \in DataClusters /\ W[c] = <<c>> \o W[f[c]] /\ U[c] = <<v[c]>> \o U[f[c]]
    <3>1. f[c] \in DataClusters /\ W[c] = <<Numbers[c]>> \o W[f[c]]
      BY <1>2, <1>4, WalkGoesOn
    <3>2. U[c] = <<v[c]>> \o U[f[c]]
      BY <1>2, <1>4, WalkGoesOn
    <3> QED
      BY <3>1, <3>2, <1>2
  <2>2. Good(f[c])
    <3>1. f[c] \in Nat /\ c \in Nat /\ f[c] > c
      BY <1>2, <1>4, <2>1, ConstantTypes DEF Links
    <3>2. f[c] \notin Bad
      <4> HIDE DEF Bad
      <4> QED
        BY <1>1, <3>1
    <3> HIDE DEF Good
    <3> QED
      BY <3>2, <2>1
  <2> DEFINE t == W[f[c]]
             n == Len(t)
  <2>3. t \in Seq(DataClusters) /\ U[f[c]] \in Seq(V) /\ n \in Nat /\ n >= 1
    BY <2>1, <2>2 DEF IsPath
  <2>4. /\ Len(W[c]) = n + 1 /\ Len(U[c]) = Len(W[c])
        /\ W[c][1] = c
        /\ \A k \in 1 .. n : W[c][k + 1] = t[k]
    <3> HIDE DEF t
    <3>1. W[c] = <<c>> \o t
      BY <2>1 DEF t
    <3>2. Len(U[f[c]]) = n
      BY <2>2 DEF t
    <3>3. Len(U[c]) = n + 1
      BY <2>1, <2>3, <3>2, <1>2
    <3> QED
      BY <3>1, <3>3, <2>3, <1>2
  <2>5. ASSUME NEW k \in 1 .. n
        PROVE  Links(f, W[c][k]) /\ f[W[c][k]] = W[c][k + 1]
    <3>1. CASE k = 1
      <4>1. W[c][1] = c /\ W[c][2] = t[1] /\ t[1] = f[c]
        <5>1. 1 \in 1 .. n
          BY <2>3
        <5> QED
          BY <2>2, <2>4, <5>1
      <4>2. k + 1 = 2
        BY <3>1
      <4>3. Links(f, W[c][1]) /\ f[W[c][1]] = W[c][2]
        BY <4>1, <1>4, Zenon
      <4> QED
        BY <4>2, <4>3, <3>1, Zenon
    <3>2. CASE k # 1
      <4>1. k - 1 \in 1 .. n - 1 /\ (k - 1) + 1 = k /\ k - 1 \in 1 .. n
        <5>1. n \in Nat /\ n >= 1
          BY <2>3
        <5> HIDE DEF n
        <5> QED
          BY <3>2, <5>1
      <4>2. Links(f, t[k - 1]) /\ f[t[k - 1]] = t[k]
        BY <2>2, <4>1 DEF IsPath
      <4>3. W[c][k] = t[k - 1] /\ W[c][k + 1] = t[k]
        BY <2>4, <4>1
      <4> QED
        BY <4>2, <4>3
    <3> QED
      BY <3>1, <3>2
  <2>6. ~Links(f, W[c][n + 1])
    <3>1. ~Links(f, t[n])
      BY <2>2 DEF IsPath
    <3>2. W[c][n + 1] = t[n]
      <4> n \in 1 .. n
        BY <2>3
      <4> QED
        BY <2>4
    <3> QED
      BY <3>1, <3>2
  <2>7. IsPath(f, W[c])
    <3>1. Len(W[c]) >= 1 /\ Len(W[c]) - 1 = n
      BY <2>3, <2>4
    <3> HIDE DEF n, t
    <3> QED
      BY <3>1, <2>4, <2>5, <2>6 DEF IsPath
  <2> QED
    BY <2>7, <2>4, <1>2
<1> QED
  BY <1>3, <1>4

-----------------------------------------------------------------------------
(* What the disk holds.                                                    *)
Data == [c \in DataClusters |-> disk[c].data]

LEMMA StoredIsWalk ==
  TypeOK => /\ IsWalk(dfat, Data, StoredFrom)
            /\ StoredFrom \in [DataClusters -> Seq(Tokens)]
<1> SUFFICES ASSUME TypeOK
             PROVE  IsWalk(dfat, Data, StoredFrom) /\ StoredFrom \in [DataClusters -> Seq(Tokens)]
  OBVIOUS
<1> DEFINE Body(g) == [c \in DataClusters |-> <<disk[c].data>> \o
                         IF dfat[c] \in DataClusters /\ dfat[c] > c THEN g[dfat[c]] ELSE << >>]
<1>1. Data \in [DataClusters -> Tokens]
  BY DEF TypeOK, Image, Data
<1>2. PICK W \in [DataClusters -> Seq(Tokens)] : IsWalk(dfat, Data, W)
  BY <1>1, WalkExists
<1>3. \E g : g = Body(g)
  <2>1. \A c \in DataClusters : W[c] = Body(W)[c]
    BY <1>2 DEF IsWalk, Links, Data
  <2>2. W = Body(W)
    <3> HIDE DEF Body
    <3>1. DOMAIN Body(W) = DataClusters /\ Body(W) = [c \in DataClusters |-> Body(W)[c]]
      BY DEF Body
    <3> QED
      BY <2>1, <3>1
  <2> QED
    BY <2>2
<1>4. StoredFrom = Body(StoredFrom)
  BY <1>3 DEF StoredFrom
<1>5. IsWalk(dfat, Data, StoredFrom)
  <2>1. \A c \in DataClusters : StoredFrom[c] = Body(StoredFrom)[c]
    BY <1>4
  <2> QED
    BY <2>1 DEF IsWalk, Links, Data
<1>6. \A c \in DataClusters : StoredFrom[c] = W[c]
  <2>1. \A c \in DataClusters : Links(dfat, c) => dfat[c] \in DataClusters
    BY DEF Links
  <2> QED
    BY <2>1, <1>2, <1>5, WalksAgree
<1>7. StoredFrom = [c \in DataClusters |-> StoredFrom[c]]
  BY <1>4
<1> QED
  BY <1>2, <1>5, <1>6, <1>7

LEMMA StoredIsWalkNext ==
  (TypeOK => /\ IsWalk(dfat, Data, StoredFrom)
             /\ StoredFrom \in [DataClusters -> Seq(Tokens)])'
BY StoredIsWalk, PTL

(* What is stored from a cluster on begins with its data and goes on with  *)
(* what is stored from the next cluster on.                                *)
LEMMA StoredUnfold ==
  TypeOK =>
    \A c \in DataClusters :
      /\ StoredFrom[c] \in Seq(Tokens) /\ Len(StoredFrom[c]) >= 1
      /\ StoredFrom[c][1] = disk[c].data
      /\ Links(dfat, c) =>
           /\ dfat[c] \in DataClusters
           /\ Len(StoredFrom[c]) = Len(StoredFrom[dfat[c]]) + 1
           /\ \A k \in 1 .. Len(StoredFrom[dfat[c]]) :
                StoredFrom[c][k + 1] = StoredFrom[dfat[c]][k]
      /\ ~Links(dfat, c) => StoredFrom[c] = <<disk[c].data>>
<1> SUFFICES ASSUME TypeOK, NEW c \in DataClusters
             PROVE  /\ StoredFrom[c] \in Seq(Tokens) /\ Len(StoredFrom[c]) >= 1
                    /\ StoredFrom[c][1] = disk[c].data
                    /\ Links(dfat, c) =>
                         /\ dfat[c] \in DataClusters
                         /\ Len(StoredFrom[c]) = Len(StoredFrom[dfat[c]]) + 1
                         /\ \A k \in 1 .. Len(StoredFrom[dfat[c]]) :
                              StoredFrom[c][k + 1] = StoredFrom[dfat[c]][k]
                    /\ ~Links(dfat, c) => StoredFrom[c] = <<disk[c].data>>
  OBVIOUS
<1>1. IsWalk(dfat, Data, StoredFrom) /\ StoredFrom \in [DataClusters -> Seq(Tokens)]
  BY StoredIsWalk
<1>2. Data[c] = disk[c].data /\ disk[c].data \in Tokens /\ StoredFrom[c] \in Seq(Tokens)
  BY <1>1 DEF Data, TypeOK, Image
<1>3. CASE Links(dfat, c)
  <2>1. dfat[c] \in DataClusters /\ StoredFrom[c] = <<Data[c]>> \o StoredFrom[dfat[c]]
    BY <1>1, <1>3, WalkGoesOn
  <2>2. StoredFrom[dfat[c]] \in Seq(Tokens)
    BY <1>1, <2>1
  <2> QED
    BY <1>2, <1>3, <2>1, <2>2
<1>4. CASE ~Links(dfat, c)
  <2>1. StoredFrom[c] = <<Data[c]>>
    BY <1>1, <1>4, WalkEnds
  <2> QED
    BY <1>2, <1>4, <2>1
<1> QED
  BY <1>3, <1>4

(* A step keeps what is stored in clusters that it leaves alone, if no     *)
(* link leads from them elsewhere.                                         *)
LEMMA StoredStays ==
  ASSUME TypeOK, TypeOK', NEW S \in SUBSET DataClusters,
         \A c \in S : /\ dfat'[c] = dfat[c] /\ disk'[c].data = disk[c].data
                      /\ Links(dfat, c) => dfat[c] \in S
  PROVE  \A c \in S : StoredFrom'[c] = StoredFrom[c]
<1>1. IsWalk(dfat, Data, StoredFrom) /\ IsWalk(dfat', Data', StoredFrom')
  BY StoredIsWalk, StoredIsWalkNext DEF IsWalk, Links
<1>2. \A c \in S : Data'[c] = Data[c]
  BY DEF Data
<1> HIDE DEF Data
<1> QED
  BY <1>1, <1>2, WalksAgree

-----------------------------------------------------------------------------
(* What a step keeps of an entry and of the file or folder it names.       *)
Same(e) ==
  /\ disk'[e[1]].table[e[2]] = disk[e[1]].table[e[2]]
  /\ StoredFrom'[Start(e)] = StoredFrom[Start(e)]
  /\ dfat'[Start(e)] = dfat[Start(e)]
  /\ disk'[Start(e)].dir = disk[Start(e)].dir
  /\ disk[Start(e)].dir \/ disk'[Start(e)] = disk[Start(e)]

RootHome == dfat[ROOT] = EOF /\ disk[ROOT].dir

(* A step that the abstract store does not see.                            *)
Unseen == /\ Visible' = Visible
          /\ \A e \in Visible : Same(e)
          /\ RootHome' <=> RootHome

LEMMA VisibleType ==
  FAT32Inv => /\ Visible \subseteq Live(dfat)
              /\ \A e \in Visible : /\ e[1] \in DataClusters /\ e[2] \in Slots
                                    /\ dfat[e[1]] = EOF /\ disk[e[1]].dir
                                    /\ disk[e[1]].table[e[2]].used
                                    /\ disk[e[1]] \in Image
                                    /\ disk[e[1]].table[e[2]] \in Entry
                                    /\ Start(e) \in DataClusters \ {ROOT}
                                    /\ dfat[Start(e)] # EMPTY
              /\ pc \notin DeleteSteps => Visible = Live(dfat)
<1> SUFFICES ASSUME FAT32Inv
             PROVE  /\ Visible \subseteq Live(dfat)
                    /\ \A e \in Visible : /\ e[1] \in DataClusters /\ e[2] \in Slots
                                          /\ dfat[e[1]] = EOF /\ disk[e[1]].dir
                                          /\ disk[e[1]].table[e[2]].used
                                          /\ disk[e[1]] \in Image
                                          /\ disk[e[1]].table[e[2]] \in Entry
                                          /\ Start(e) \in DataClusters \ {ROOT}
                                          /\ dfat[Start(e)] # EMPTY
                    /\ pc \notin DeleteSteps => Visible = Live(dfat)
  OBVIOUS
<1>1. Visible \subseteq Live(dfat) /\ \A e \in Visible : e \notin Doomed
  BY DEF Visible
<1>2. \A e \in Visible : Start(e) \in DataClusters \ {ROOT} /\ dfat[Start(e)] # EMPTY
  BY <1>1 DEF FAT32Inv, ImageInv, NoDangling
<1>3. \A e \in Visible : /\ e[1] \in DataClusters /\ e[2] \in Slots
                         /\ dfat[e[1]] = EOF /\ disk[e[1]].dir
                         /\ disk[e[1]].table[e[2]].used
  BY <1>1 DEF Live
<1>4. \A c \in DataClusters, s \in Slots : disk[c] \in Image /\ disk[c].table[s] \in Entry
  BY DEF FAT32Inv, TypeOK, Image
<1>5. pc \notin DeleteSteps => Visible = Live(dfat)
  BY DEF Visible, Doomed, DeleteSteps
<1> QED
  BY <1>1, <1>2, <1>3, <1>4, <1>5

LEMMA VisibleTypeNext ==
  ASSUME FAT32Inv'
  PROVE  /\ Visible' \subseteq Live(dfat)'
         /\ \A e \in Visible' : /\ e[1] \in DataClusters /\ e[2] \in Slots
                                /\ dfat'[e[1]] = EOF /\ disk'[e[1]].dir
                                /\ disk'[e[1]].table[e[2]].used
                                /\ disk'[e[1]] \in Image
                                /\ disk'[e[1]].table[e[2]] \in Entry
                                /\ Start(e)' \in DataClusters \ {ROOT}
                                /\ dfat'[Start(e)'] # EMPTY
         /\ pc' \notin DeleteSteps => Visible' = Live(dfat)'
<1>1. (FAT32Inv => /\ Visible \subseteq Live(dfat)
                   /\ \A e \in Visible : /\ e[1] \in DataClusters /\ e[2] \in Slots
                                         /\ dfat[e[1]] = EOF /\ disk[e[1]].dir
                                         /\ disk[e[1]].table[e[2]].used
                                         /\ disk[e[1]] \in Image
                                         /\ disk[e[1]].table[e[2]] \in Entry
                                         /\ Start(e) \in DataClusters \ {ROOT}
                                         /\ dfat[Start(e)] # EMPTY
                   /\ pc \notin DeleteSteps => Visible = Live(dfat))'
  BY VisibleType, PTL
<1> QED
  BY <1>1

(* The clusters of a FAT that are in use are closed under links.           *)
LEMMA LinksInUse ==
  ASSUME FAT32Inv, NEW c \in DataClusters, Links(dfat, c)
  PROVE  dfat[c] \in DataClusters /\ dfat[c] # EMPTY /\ dfat[dfat[c]] # EMPTY
<1>1. dfat[c] \in DataClusters
  BY DEF Links
<1>2. dfat[c] # EMPTY /\ dfat[c] # EOF
  BY <1>1, ConstantTypes DEF DataClusters, ROOT, EMPTY
<1> QED
  BY <1>1, <1>2 DEF FAT32Inv, ImageInv, LinksForward

LEMMA QuietUnseen ==
  ASSUME FAT32Inv, FAT32Inv', UNCHANGED <<dfat, disk>>, Doomed' = Doomed
  PROVE  Unseen /\ StoredFrom' = StoredFrom
<1>1. Visible' = Visible
  BY DEF Visible, Live
<1>2. \A c \in DataClusters : StoredFrom'[c] = StoredFrom[c]
  BY StoredStays DEF FAT32Inv, Links
<1>3. \A e \in Visible : Same(e)
  BY <1>2, VisibleType DEF Same
<1>4. RootHome' <=> RootHome
  BY DEF RootHome
<1>5. StoredFrom' = StoredFrom
  BY <1>2, StoredIsWalk, StoredIsWalkNext DEF FAT32Inv
<1> QED
  BY <1>1, <1>3, <1>4, <1>5 DEF Unseen

LEMMA FormatFatUnseen ==
  ASSUME FAT32Inv, FAT32Inv', FormatFat
  PROVE  Unseen
<1>1. pc = "format_fat" /\ disk' = disk
  BY DEF FormatFat
<1>2. \A c \in DataClusters : ~disk[c].dir
  BY <1>1 DEF FAT32Inv, FormatOK, FormatSteps
<1>3. Visible = {} /\ Visible' = {}
  BY <1>1, <1>2 DEF Visible, Live
<1>4. ~RootHome /\ ~RootHome'
  BY <1>1, <1>2, ConstantTypes DEF RootHome
<1> QED
  BY <1>3, <1>4 DEF Unseen

(* Clusters that are free on the disk do not show.                         *)
LEMMA FreeStays ==
  ASSUME FAT32Inv, FAT32Inv',
         \A c \in DataClusters : dfat[c] # EMPTY => dfat'[c] = dfat[c] /\ disk'[c].data = disk[c].data
  PROVE  \A c \in DataClusters : dfat[c] # EMPTY => StoredFrom'[c] = StoredFrom[c]
<1> DEFINE S == {c \in DataClusters : dfat[c] # EMPTY}
<1>1. S \in SUBSET DataClusters
  OBVIOUS
<1>2. \A c \in S : /\ dfat'[c] = dfat[c] /\ disk'[c].data = disk[c].data
                   /\ Links(dfat, c) => dfat[c] \in S
  BY LinksInUse
<1>3. \A c \in S : StoredFrom'[c] = StoredFrom[c]
  <2> HIDE DEF S
  <2> QED
    BY <1>1, <1>2, StoredStays DEF FAT32Inv
<1> QED
  BY <1>3

LEMMA WriteBlockUnseen ==
  ASSUME FAT32Inv, FAT32Inv', WriteBlock
  PROVE  Unseen
<1>1. PICK f : f = Min(EmptyFrom(cursor))
  OBVIOUS
<1>2. /\ pc = "write" /\ pc' \in {"write", "write_fat"} /\ dfat' = dfat /\ sig
  BY DEF WriteBlock, FAT32Inv, CallOK, WriteSteps
<1>3. /\ f \in DataClusters /\ dfat[f] = EMPTY
      /\ \A c \in DataClusters : c # f => disk'[c] = disk[c]
      /\ Live(dfat)' = Live(dfat)
      /\ \A e \in Live(dfat) : disk'[e[1]].table[e[2]] = disk[e[1]].table[e[2]]
  BY <1>1, WriteBlockImage DEF FAT32Inv, MemoryInv
<1>4. Visible = Live(dfat) /\ Visible' = Live(dfat)'
  BY <1>2, VisibleType, VisibleTypeNext DEF DeleteSteps
<1>5. \A c \in DataClusters : dfat[c] # EMPTY => StoredFrom'[c] = StoredFrom[c]
  BY <1>2, <1>3, FreeStays
<1>6. \A e \in Visible : Same(e)
  <2> SUFFICES ASSUME NEW e \in Visible PROVE Same(e)
    OBVIOUS
  <2>1. Start(e) \in DataClusters /\ dfat[Start(e)] # EMPTY
    BY VisibleType
  <2>2. disk'[Start(e)] = disk[Start(e)]
    BY <2>1, <1>3
  <2> QED
    BY <2>1, <2>2, <1>2, <1>3, <1>4, <1>5 DEF Same
<1>7. RootHome' <=> RootHome
  <2>1. RootHome /\ RootHome'
    BY <1>2 DEF RootHome, FAT32Inv, ImageInv, RootIntact, CallOK, WriteSteps
  <2> QED
    BY <2>1
<1> QED
  BY <1>3, <1>4, <1>6, <1>7 DEF Unseen

LEMMA WriteFatUnseen ==
  ASSUME FAT32Inv, FAT32Inv', WriteFat
  PROVE  Unseen
<1>2. /\ pc = "write_fat" /\ pc' = "write_dir" /\ disk' = disk
  BY DEF WriteFat
<1>3. /\ \A c \in DataClusters : dfat[c] # EMPTY => dfat'[c] = dfat[c]
      /\ Live(dfat)' = Live(dfat)
  BY WriteFatImage DEF FAT32Inv, MemoryInv
<1>4. Visible = Live(dfat) /\ Visible' = Live(dfat)'
  BY <1>2, VisibleType, VisibleTypeNext DEF DeleteSteps
<1>5. \A c \in DataClusters : dfat[c] # EMPTY => StoredFrom'[c] = StoredFrom[c]
  BY <1>2, <1>3, FreeStays
<1>6. \A e \in Visible : Same(e)
  BY <1>2, <1>3, <1>5, VisibleType DEF Same
<1>7. RootHome' <=> RootHome
  <2>1. RootHome /\ RootHome'
    BY <1>2 DEF RootHome, FAT32Inv, ImageInv, RootIntact, CallOK, WriteSteps
  <2> QED
    BY <2>1
<1> QED
  BY <1>3, <1>4, <1>6, <1>7 DEF Unseen

(* What delete() has freed does not show any more; no directory goes with  *)
(* it.                                                                     *)
LEMMA DeleteFatSame ==
  ASSUME FAT32Inv, FAT32Inv', DeleteFat
  PROVE  /\ Visible' \subseteq Visible
         /\ \A e \in Visible : Same(e)
<1>1. pc = "delete_fat" /\ dfat' = fat /\ UNCHANGED <<disk, req, slot>> /\ pc' = "delete_dir"
  BY DEF DeleteFat, callVars
<1>2. /\ \A c \in DataClusters : fat[c] \in {dfat[c], EMPTY}
      /\ \A c \in DataClusters :
           dfat[c] \in DataClusters /\ fat[dfat[c]] = EMPTY => fat[c] = EMPTY
      /\ \A e \in Live(dfat) : e \notin Doomed => fat[Start(e)] # EMPTY
  BY <1>1, ConstantTypes DEF FAT32Inv, MemoryInv, FreedOK
<1>3. Visible' \subseteq Visible
  BY <1>1, <1>2 DEF Visible, Live, Doomed, EMPTY, EOF
<1> DEFINE S == {c \in DataClusters : fat[c] # EMPTY}
<1>4. \A c \in S : StoredFrom'[c] = StoredFrom[c]
  <2>1. S \in SUBSET DataClusters
    OBVIOUS
  <2>2. \A c \in S : /\ dfat'[c] = dfat[c] /\ disk'[c].data = disk[c].data
                     /\ Links(dfat, c) => dfat[c] \in S
    BY <1>1, <1>2 DEF Links
  <2> HIDE DEF S
  <2> QED
    BY <2>1, <2>2, StoredStays DEF FAT32Inv
<1>5. \A e \in Visible : Same(e)
  <2> SUFFICES ASSUME NEW e \in Visible PROVE Same(e)
    OBVIOUS
  <2>1. e \in Live(dfat) /\ e \notin Doomed
    BY DEF Visible
  <2>2. Start(e) \in DataClusters
    BY VisibleType
  <2>3. Start(e) \in S /\ dfat'[Start(e)] = dfat[Start(e)]
    BY <2>1, <2>2, <1>1, <1>2
  <2> HIDE DEF S
  <2> QED
    BY <2>3, <1>1, <1>4 DEF Same
<1> QED
  BY <1>3, <1>5

LEMMA DeleteFatUnseen ==
  ASSUME FAT32Inv, FAT32Inv', OwnersInv, DeleteFat
  PROVE  Unseen
<1>1. pc = "delete_fat" /\ pc' = "delete_dir" /\ dfat' = fat /\ UNCHANGED <<disk, req, slot>>
  BY DEF DeleteFat, callVars
<1>2. \A c \in DataClusters : fat[c] \in {dfat[c], EMPTY}
  BY <1>1, ConstantTypes DEF FAT32Inv, MemoryInv, FreedOK
<1>3. \A e \in Live(dfat) : fat[e[1]] # EMPTY
  BY <1>1 DEF OwnersInv, FreedOwnersOK
<1>4. Visible \subseteq Visible'
  <2>1. ASSUME NEW e \in Live(dfat) PROVE e \in Live(dfat)'
    <3>1. e[1] \in DataClusters
      BY DEF Live
    <3>2. dfat'[e[1]] = dfat[e[1]]
      BY <3>1, <1>1, <1>2, <1>3
    <3> QED
      BY <3>2, <1>1 DEF Live
  <2>2. Doomed' = Doomed
    BY <1>1 DEF Doomed
  <2> QED
    BY <2>1, <2>2 DEF Visible
<1>5. RootHome' <=> RootHome
  <2>1. RootHome /\ RootHome'
    BY <1>1 DEF RootHome, FAT32Inv, ImageInv, RootIntact, CallOK, DeleteSteps
  <2> QED
    BY <2>1
<1> QED
  BY <1>4, <1>5, DeleteFatSame DEF Unseen

(* A directory table is written over the parent's: the entries but for the *)
(* slot, and what else the cluster shows, stay.                            *)
LEMMA TableWritten ==
  ASSUME FAT32Inv, FAT32Inv', RequestOK, pc \in WriteSteps \cup DeleteSteps,
         dfat' = dfat, disk' = [disk EXCEPT ![req.parent] = dirbuf]
  PROVE  /\ \A e \in Visible : Same(e)
         /\ \A c \in DataClusters : StoredFrom'[c] = StoredFrom[c] /\ disk'[c].dir = disk[c].dir
         /\ \A c \in DataClusters : c # req.parent => disk'[c] = disk[c]
         /\ disk'[req.parent] = dirbuf
<1>1. /\ slot \in Slots /\ req.parent \in DataClusters /\ disk \in [DataClusters -> Image]
      /\ dirbuf.dir /\ disk[req.parent].dir /\ dirbuf.data = disk[req.parent].data
      /\ \A s \in Slots : s # slot => dirbuf.table[s] = disk[req.parent].table[s]
  BY DEF FAT32Inv, TypeOK, CallOK, MemoryInv, BufferOK, RequestOK
<1>2. /\ \A c \in DataClusters : c # req.parent => disk'[c] = disk[c]
      /\ disk'[req.parent] = dirbuf
  BY <1>1
<1>3. \A c \in DataClusters : disk'[c].data = disk[c].data /\ (disk'[c].dir <=> disk[c].dir)
  BY <1>1, <1>2
<1>4. \A c \in DataClusters : disk'[c].dir = disk[c].dir
  <2>1. \A c \in DataClusters : disk'[c].dir \in BOOLEAN /\ disk[c].dir \in BOOLEAN
    BY DEF FAT32Inv, TypeOK, Image
  <2> QED
    BY <2>1, <1>3
<1>5. \A c \in DataClusters : StoredFrom'[c] = StoredFrom[c]
  BY <1>3, StoredStays DEF FAT32Inv, Links
<1>6. \A e \in Visible : e # <<req.parent, slot>>
  <2>1. CASE pc \in WriteSteps
    <3>1. ~disk[req.parent].table[slot].used
      BY <2>1 DEF FAT32Inv, MemoryInv, NewSlotOK
    <3> QED
      BY <3>1 DEF Visible, Live
  <2>2. CASE pc \in DeleteSteps
    BY <2>2 DEF Visible, Doomed, DeleteSteps
  <2> QED
    BY <2>1, <2>2
<1>7. \A e \in Visible : Same(e)
  <2> SUFFICES ASSUME NEW e \in Visible PROVE Same(e)
    OBVIOUS
  <2>1. Start(e) \in DataClusters /\ e[1] \in DataClusters /\ e[2] \in Slots /\ e = <<e[1], e[2]>>
    BY VisibleType DEF Visible, Live
  <2>2. disk'[e[1]].table[e[2]] = disk[e[1]].table[e[2]]
    BY <2>1, <1>1, <1>2, <1>6
  <2>3. disk[Start(e)].dir \/ disk'[Start(e)] = disk[Start(e)]
    BY <2>1, <1>1, <1>2
  <2> QED
    BY <2>1, <2>2, <2>3, <1>4, <1>5 DEF Same
<1> QED
  BY <1>2, <1>4, <1>5, <1>7

LEMMA DeleteDirUnseen ==
  ASSUME FAT32Inv, FAT32Inv', RequestOK, DeleteDir
  PROVE  Unseen
<1>1. /\ pc = "delete_dir" /\ pc' = "idle" /\ dfat' = dfat
      /\ disk' = [disk EXCEPT ![req.parent] = dirbuf]
  BY DEF DeleteDir, Return
<1>2. /\ \A e \in Visible : Same(e)
      /\ \A c \in DataClusters : disk'[c].dir = disk[c].dir
      /\ \A c \in DataClusters : c # req.parent => disk'[c] = disk[c]
      /\ disk'[req.parent] = dirbuf
  BY <1>1, TableWritten DEF DeleteSteps
<1>3. /\ req.parent \in DataClusters /\ slot \in Slots /\ ~dirbuf.table[slot].used
      /\ \A s \in Slots : s # slot => dirbuf.table[s] = disk[req.parent].table[s]
  BY <1>1 DEF FAT32Inv, CallOK, MemoryInv, FreedOK, BufferOK, DeleteSteps
<1>4. Doomed = {<<req.parent, slot>>} /\ Doomed' = {}
  BY <1>1 DEF Doomed
<1>5. Visible' \subseteq Visible
  <2> SUFFICES ASSUME NEW c \in DataClusters, NEW s \in Slots, <<c, s>> \in Live(dfat)'
               PROVE  <<c, s>> \in Live(dfat) /\ <<c, s>> # <<req.parent, slot>>
    BY <1>4 DEF Visible, Live
  <2>1. dfat[c] = EOF /\ disk'[c].dir /\ disk'[c].table[s].used
    BY <1>1 DEF Live
  <2>2. CASE c = req.parent
    BY <2>1, <2>2, <1>2, <1>3 DEF Live
  <2>3. CASE c # req.parent
    BY <2>1, <2>3, <1>2 DEF Live
  <2> QED
    BY <2>2, <2>3
<1>6. Visible \subseteq Visible'
  <2> SUFFICES ASSUME NEW e \in Visible PROVE e \in Live(dfat)'
    BY <1>4 DEF Visible
  <2>1. /\ e \in DataClusters \X Slots /\ dfat[e[1]] = EOF /\ disk[e[1]].dir
        /\ disk[e[1]].table[e[2]].used
    BY DEF Visible, Live
  <2>2. disk'[e[1]].dir /\ disk'[e[1]].table[e[2]].used
    BY <2>1, <1>2 DEF Same
  <2> QED
    BY <2>1, <2>2, <1>1 DEF Live
<1>7. RootHome' <=> RootHome
  BY <1>1, <1>2, ConstantTypes DEF RootHome
<1> QED
  BY <1>2, <1>5, <1>6, <1>7 DEF Unseen

-----------------------------------------------------------------------------
(* The call in progress.                                                   *)

LEMMA Halves ==
  ASSUME NEW k \in Nat
  PROVE  /\ (k + 1) \div 2 \in Nat /\ k \div 2 \in Nat
         /\ k % 2 = 1 => 2 * ((k + 1) \div 2) = k + 1 /\ (k + 2) \div 2 = (k + 1) \div 2
         /\ k % 2 # 1 => 2 * ((k + 1) \div 2) = k /\ (k + 2) \div 2 = (k + 1) \div 2 + 1
         /\ (k + 1) % 2 = 1 <=> k % 2 # 1
         /\ (k + 2) \div 2 = k \div 2 + 1
OBVIOUS

(* Nothing is written or read between two calls.                           *)
LEMMA NoCall ==
  pc \notin WriteSteps \cup DeleteSteps \cup {"read"} => RequestOK /\ NewFileOK /\ ReadOK
BY DEF RequestOK, NewFileOK, ReadOK, WriteSteps, DeleteSteps

LEMMA NoCallNext ==
  (pc \notin WriteSteps \cup DeleteSteps \cup {"read"} => RequestOK /\ NewFileOK /\ ReadOK)'
BY NoCall, PTL

(* What of the invariant the writing of a file rests on, a machine that     *)
(* loses power keeps as well.                                              *)
Working == TypeOK /\ CallOK /\ NewSlotOK /\ NewChainOK

LEMMA InvWorks == FAT32Inv => Working
BY DEF FAT32Inv, MemoryInv, Working

LEMMA InvTyped == (FAT32Inv => TypeOK)'
BY DEF FAT32Inv

LEMMA WriteStartRequest ==
  ASSUME Working, NEW n \in Names, NEW e \in Exts, NEW p \in Clusters, NEW l \in Loads,
         WriteStart(n, e, p, l)
  PROVE  RequestOK' /\ NewFileOK' /\ ReadOK'
<1>1. /\ pc' = "write" /\ i' = 0 /\ UNCHANGED disk /\ req' = Request(n, e, p, l.size, l.buf)
      /\ dirbuf' = PutEntry(disk[p], Min(FreeSlots(disk[p])),
                     NewEntry(disk[p].table[Min(FreeSlots(disk[p]))], n, e, l.size))
      /\ ParentOK(p) /\ FreeSlots(disk[p]) # {}
  BY DEF WriteStart, WriteCode, diskVars
<1>2. /\ req'.name = n /\ req'.ext = e /\ req'.parent = p
      /\ req'.size = l.size /\ req'.buf = l.buf
  BY <1>1 DEF Request
<1>3. disk[p] \in Image /\ Min(FreeSlots(disk[p])) \in Slots
  BY <1>1, ParentType, SlotFound DEF Working
<1>4. dirbuf'.data = disk[p].data
  BY <1>1, <1>3, PutEntryValue
<1>5. RequestOK'
  BY <1>1, <1>2, <1>4 DEF RequestOK, WriteSteps
<1> QED
  BY <1>1, <1>5 DEF NewFileOK, ReadOK

LEMMA DeleteStartRequest ==
  ASSUME NEW n \in Names, NEW e \in Exts, NEW p \in Clusters, DeleteStart(n, e, p)
  PROVE  RequestOK' /\ NewFileOK' /\ ReadOK'
<1>1. pc' = "delete" /\ dirbuf' = disk[p] /\ req'.parent = p /\ UNCHANGED disk
  BY DEF DeleteStart, Request, diskVars
<1> QED
  BY <1>1 DEF RequestOK, NewFileOK, ReadOK, WriteSteps, DeleteSteps

(* The entry that read() finds is the one asked for.                       *)
LEMMA ReadStartRequest ==
  ASSUME FAT32Inv, FAT32Inv', NEW n \in Names, NEW e \in Exts, NEW p \in Clusters,
         NEW size \in ReadSizes, ReadStart(n, e, p, size)
  PROVE  RequestOK' /\ NewFileOK' /\ ReadOK'
<1>0. PICK s : s = Min(Matches(disk[p], n, e))
  OBVIOUS
<1>1. /\ pc = "idle" /\ pc' = "read" /\ UNCHANGED <<disk, dfat>>
      /\ req' = Request(n, e, p, size, << >>)
      /\ cursor' = disk[p].table[s].first /\ slot' = s /\ i' = 0
  BY <1>0 DEF ReadStart, Found, diskVars
<1>2. ParentOK(p) /\ Matches(disk[p], n, e) # {} /\ ~(size < disk[p].table[s].size)
  BY <1>0 DEF ReadStart, ReadCode, Found
<1>3. p \in DataClusters /\ disk[p] \in Image /\ disk[p].dir /\ fat[p] = EOF
  BY <1>2, ParentType DEF FAT32Inv
<1>4. /\ s \in Slots /\ disk[p].table[s] \in Entry
      /\ disk[p].table[s].used /\ disk[p].table[s].name = n /\ disk[p].table[s].ext = e
  BY <1>0, <1>2, <1>3, MatchFound
<1>5. req'.name = n /\ req'.ext = e /\ req'.parent = p /\ req'.size = size
  BY <1>1 DEF Request
<1>6. fat = dfat
  BY <1>1 DEF FAT32Inv, MemoryInv, CacheCoherent
<1>7. disk[p].table[s].size <= size
  BY <1>2, <1>4, CallerAssumption DEF Entry
<1>16. PICK t : t = <<p, s>>
  OBVIOUS
<1>8. /\ t \in Live(dfat)' /\ KeyOf(t)' = <<n, e>> /\ Start(t)' = cursor'
      /\ disk'[t[1]].table[t[2]] = disk[p].table[s]
      /\ <<req.parent, slot>>' = t
  BY <1>1, <1>3, <1>4, <1>5, <1>6, <1>16 DEF Live, KeyOf, Start
<1>9. cursor' \in DataClusters
  BY <1>1 DEF FAT32Inv, MemoryInv, WalkOnChain
<1>10. StoredFrom'[cursor'] \in Seq(Tokens)
  BY <1>9, StoredIsWalkNext DEF FAT32Inv
<1>11. /\ Len(StoredFrom'[Start(t)']) = i' + Len(StoredFrom'[cursor'])
       /\ \A k \in 1 .. Len(StoredFrom'[cursor']) :
            StoredFrom'[Start(t)'][i' + k] = StoredFrom'[cursor'][k]
  BY <1>1, <1>8, <1>10
<1>12. disk'[t[1]].table[t[2]].size <= req'.size
  BY <1>5, <1>7, <1>8
<1>13. <<req'.parent, slot'>> = t
  BY <1>8
<1>14. ReadOK'
  BY <1>5, <1>8, <1>11, <1>12, <1>13 DEF ReadOK
<1>15. RequestOK'
  BY <1>1, <1>5 DEF RequestOK, WriteSteps, DeleteSteps
<1> QED
  BY <1>1, <1>14, <1>15 DEF NewFileOK

LEMMA ReadBlockRequest ==
  ASSUME FAT32Inv, FAT32Inv', RequestOK, ReadOK, ReadBlock
  PROVE  RequestOK' /\ NewFileOK' /\ ReadOK'
<1>1. pc = "read" /\ cursor \in DataClusters /\ UNCHANGED <<disk, dfat, fat>>
  BY DEF ReadBlock, diskVars
<1>2. fat = dfat
  BY <1>1 DEF FAT32Inv, MemoryInv, CacheCoherent
<1>3. CASE fat[cursor] = EOF
  <2>1. pc' = "idle"
    BY <1>3 DEF ReadBlock, Return
  <2> QED
    BY <2>1, NoCallNext DEF WriteSteps, DeleteSteps
<1>4. CASE fat[cursor] # EOF
  <2>1. cursor' = dfat[cursor] /\ i' = i + 1 /\ UNCHANGED <<pc, req, slot>>
    BY <1>2, <1>4 DEF ReadBlock, NextOf
  <2>2. Doomed' = Doomed
    BY <2>1 DEF Doomed
  <2>3. StoredFrom' = StoredFrom /\ Live(dfat)' = Live(dfat)
    BY <2>2, <1>1, QuietUnseen DEF Live
  <2>4. PICK e : e = <<req.parent, slot>>
    OBVIOUS
  <2>5. /\ e \in Live(dfat) /\ KeyOf(e) = <<req.name, req.ext>>
        /\ disk[e[1]].table[e[2]].size <= req.size
        /\ Len(StoredFrom[Start(e)]) = i + Len(StoredFrom[cursor])
        /\ \A k \in 1 .. Len(StoredFrom[cursor]) :
             StoredFrom[Start(e)][i + k] = StoredFrom[cursor][k]
    BY <2>4, <1>1 DEF ReadOK
  <2>6. Links(dfat, cursor)
    <3>1. dfat[cursor] \notin {EMPTY, EOF}
      BY <1>1, <1>2, <1>4 DEF FAT32Inv, MemoryInv, WalkOnChain
    <3> QED
      BY <1>1, <3>1 DEF FAT32Inv, ImageInv, LinksForward, Links
  <2>7. PICK c, d : c = cursor /\ d = dfat[cursor]
    OBVIOUS
  <2>8. /\ d \in DataClusters /\ StoredFrom[d] \in Seq(Tokens)
        /\ Len(StoredFrom[c]) = Len(StoredFrom[d]) + 1
        /\ \A k \in 1 .. Len(StoredFrom[d]) : StoredFrom[c][k + 1] = StoredFrom[d][k]
    BY <2>6, <2>7, <1>1, StoredUnfold DEF FAT32Inv
  <2>9. i \in Nat /\ Len(StoredFrom[d]) \in Nat
    BY <2>8 DEF FAT32Inv, TypeOK
  <2>10. Len(StoredFrom[Start(e)]) = (i + 1) + Len(StoredFrom[d])
    <3>1. Len(StoredFrom[Start(e)]) = i + Len(StoredFrom[c])
      BY <2>5, <2>7
    <3>2. PICK a, b : a = Len(StoredFrom[c]) /\ b = Len(StoredFrom[d])
      OBVIOUS
    <3>3. a = b + 1 /\ b \in Nat
      BY <3>2, <2>8, <2>9
    <3>4. i + a = (i + 1) + b
      BY <3>3, <2>9
    <3> QED
      BY <3>1, <3>2, <3>4
  <2>11. \A k \in 1 .. Len(StoredFrom[d]) : StoredFrom[Start(e)][(i + 1) + k] = StoredFrom[d][k]
    <3> TAKE k \in 1 .. Len(StoredFrom[d])
    <3>1. k + 1 \in 1 .. Len(StoredFrom[c]) /\ i + (k + 1) = (i + 1) + k
      BY <2>8, <2>9
    <3> QED
      BY <3>1, <2>5, <2>7, <2>8
  <2>12. KeyOf(e)' = KeyOf(e) /\ Start(e)' = Start(e)
    BY <1>1 DEF KeyOf, Start
  <2>13. <<req.parent, slot>>' = e
    BY <2>1, <2>4
  <2>14. ReadOK'
    <3>1. /\ e \in Live(dfat)' /\ KeyOf(e)' = <<req.name, req.ext>>'
          /\ (disk[e[1]].table[e[2]].size <= req.size)'
      BY <2>1, <2>3, <2>5, <2>12, <1>1
    <3>2. Len(StoredFrom'[Start(e)']) = i' + Len(StoredFrom'[cursor'])
      BY <2>1, <2>3, <2>7, <2>10, <2>12
    <3>3. \A k \in 1 .. Len(StoredFrom'[cursor']) :
            StoredFrom'[Start(e)'][i' + k] = StoredFrom'[cursor'][k]
      BY <2>1, <2>3, <2>7, <2>11, <2>12
    <3> QED
      BY <3>1, <3>2, <3>3, <2>13, Zenon DEF ReadOK
  <2>15. RequestOK'
    BY <2>1, <1>1 DEF RequestOK, WriteSteps, DeleteSteps
  <2> QED
    BY <2>1, <2>14, <2>15, <1>1 DEF NewFileOK
<1> QED
  BY <1>3, <1>4

(* The half-way chain after another round: a round that finds the cluster  *)
(* of the round before again keeps it, the next one adds a cluster.        *)
LEMMA WriteBlockRequest ==
  ASSUME Working, TypeOK', RequestOK, NewFileOK, WriteBlock
  PROVE  RequestOK' /\ NewFileOK' /\ ReadOK'
<1>0. PICK f, x, h : f = Min(EmptyFrom(cursor)) /\ x = cursor /\ h = NewHead
  OBVIOUS
<1>1. /\ pc = "write" /\ UNCHANGED <<dfat, req, slot>>
      /\ pc' = IF i + 1 < BlockCount(req.size) THEN "write" ELSE "write_fat"
      /\ fat' = Linked(f) /\ cursor' = f /\ i' = i + 1 /\ i \in Nat
      /\ EmptyFrom(cursor) # {}
      /\ dirbuf' = IF i = 0
                     THEN PutEntry(dirbuf, slot, [dirbuf.table[slot] EXCEPT !.first = f])
                     ELSE dirbuf
  BY <1>0 DEF WriteBlock, Working, TypeOK
<1>2. /\ f \in DataClusters /\ dfat[f] = EMPTY /\ fat[f] = EMPTY /\ x \in DataClusters
      /\ disk'[f] = Block
      /\ \A c \in DataClusters : c # f => disk'[c] = disk[c]
  BY <1>0, WriteBlockImage DEF Working
<1>3. /\ slot \in Slots /\ dirbuf \in Image /\ dirbuf.table[slot] \in Entry
      /\ fat \in [Clusters -> FatValues] /\ req.parent \in DataClusters
      /\ i <= req.size \div CLUSTER_SIZE /\ req.size \in Nat
  BY <1>1 DEF Working, TypeOK, CallOK, WriteSteps, Image
<1>4. pc' \in {"write", "write_fat"} /\ (pc' = "write_fat" => i' = BlockCount(req'.size))
  BY <1>1, <1>3, SizeTypes DEF BlockCount
<1>5. RequestOK'
  <2>1. dfat[req.parent] = EOF
    BY <1>1 DEF Working, NewSlotOK, WriteSteps
  <2>2. disk'[req.parent] = disk[req.parent]
    BY <2>1, <1>2, <1>3 DEF EMPTY, EOF
  <2>3. dirbuf'.data = dirbuf.data
    BY <1>1, <1>3, PutEntryValue
  <2>4. dirbuf.data = disk[req.parent].data
    BY <1>1 DEF RequestOK, WriteSteps
  <2>5. /\ \E l \in Loads : req'.size = l.size /\ req'.buf = l.buf
        /\ req'.name \in Names /\ req'.ext \in Exts
    BY <1>1 DEF RequestOK, WriteSteps
  <2> QED
    BY <1>1, <1>4, <2>2, <2>3, <2>4, <2>5 DEF RequestOK, WriteSteps, DeleteSteps
<1>6. NewHead' = IF i = 0 THEN f ELSE h
  <2>1. CASE i = 0
    <3>1. dirbuf'.table[slot] = [dirbuf.table[slot] EXCEPT !.first = f]
      BY <2>1, <1>1, <1>3, PutEntryValue
    <3> QED
      BY <2>1, <3>1, <1>1, <1>3 DEF Entry, NewHead
  <2>2. CASE i # 0
    BY <2>2, <1>0, <1>1 DEF NewHead
  <2> QED
    BY <2>1, <2>2
<1>7. f \in Nat /\ x \in Nat /\ x \in Clusters /\ f # EMPTY /\ x # EMPTY
  BY <1>2, ConstantTypes DEF DataClusters, ROOT, EMPTY
<1>8. PICK m \in Nat : m = (i + 1) \div 2
  BY <1>1, Halves
<1>9. PICK j \in Nat : j = i
  BY <1>1
<1>10. SUFFICES
         /\ fat'[f] = IF (j + 1) % 2 = 1 THEN EMPTY ELSE f
         /\ \E s \in [1 .. (j + 2) \div 2 -> DataClusters] :
              /\ s[1] = (IF j = 0 THEN f ELSE h) /\ s[(j + 2) \div 2] = f
              /\ \A k \in 1 .. (j + 2) \div 2 :
                   /\ dfat[s[k]] = EMPTY
                   /\ disk'[s[k]] = req.buf[IF 2 * k - 1 < j + 1 THEN 2 * k - 1 ELSE j]
                   /\ k < (j + 2) \div 2 => fat'[s[k]] = s[k + 1] /\ s[k] < s[k + 1]
  <2>1. /\ (i' + 1) \div 2 = (j + 2) \div 2 /\ i' % 2 = (j + 1) % 2
        /\ i' = j + 1 /\ i' - 1 = j
    BY <1>1, <1>9
  <2>2. NewHead' = IF j = 0 THEN f ELSE h
    BY <1>6, <1>9
  <2>3. PICK w : w = (j + 2) \div 2
    OBVIOUS
  <2>4. /\ fat'[cursor'] = IF i' % 2 = 1 THEN EMPTY ELSE cursor'
        /\ \E s \in [1 .. w -> DataClusters] :
             /\ s[1] = NewHead' /\ s[w] = cursor'
             /\ \A k \in 1 .. w :
                  /\ dfat'[s[k]] = EMPTY
                  /\ disk'[s[k]] = req'.buf[IF 2 * k - 1 < i' THEN 2 * k - 1 ELSE i' - 1]
                  /\ k < w => fat'[s[k]] = s[k + 1] /\ s[k] < s[k + 1]
    <3>1. PICK s \in [1 .. w -> DataClusters] :
            /\ s[1] = (IF j = 0 THEN f ELSE h) /\ s[w] = f
            /\ \A k \in 1 .. w :
                 /\ dfat[s[k]] = EMPTY
                 /\ disk'[s[k]] = req.buf[IF 2 * k - 1 < j + 1 THEN 2 * k - 1 ELSE j]
                 /\ k < w => fat'[s[k]] = s[k + 1] /\ s[k] < s[k + 1]
      BY <1>10, <2>3
    <3>2. cursor' = f /\ dfat' = dfat /\ req' = req
      BY <1>1
    <3>3. \A k \in 1 .. w :
            disk'[s[k]] = req'.buf[IF 2 * k - 1 < i' THEN 2 * k - 1 ELSE i' - 1]
      BY <3>1, <3>2, <2>1
    <3>4. fat'[cursor'] = IF i' % 2 = 1 THEN EMPTY ELSE cursor'
      BY <1>10, <2>1, <3>2
    <3> QED
      BY <3>1, <3>2, <3>3, <3>4, <2>2
  <2>5. w = (i' + 1) \div 2
    BY <2>1, <2>3
  <2>6. NewFileOK'
    BY <2>4, <2>5 DEF NewFileOK
  <2> QED
    BY <1>4, <1>5, <2>6 DEF ReadOK
<1>11. disk'[f] = req.buf[j]
  BY <1>2, <1>9 DEF Block
<1>12. CASE j = 0
  <2>1. (j + 2) \div 2 = 1 /\ (j + 1) % 2 = 1
    BY <1>12
  <2>2. fat'[f] = EMPTY
    BY <1>1, <1>2, <1>9, <1>12 DEF Linked
  <2>3. PICK s : s = [k \in 1 .. 1 |-> f]
    OBVIOUS
  <2>4. s \in [1 .. 1 -> DataClusters] /\ s[1] = f
    BY <2>3, <1>2
  <2> QED
    BY <2>1, <2>2, <2>4, <1>2, <1>11, <1>12
<1>13. CASE j > 0
  <2>1. fat' = [fat EXCEPT ![x] = f]
    BY <1>0, <1>1, <1>9, <1>13 DEF Linked
  <2>2. /\ fat[x] = IF j % 2 = 1 THEN EMPTY ELSE x
        /\ \E s \in [1 .. m -> DataClusters] :
             /\ s[1] = h /\ s[m] = x
             /\ \A k \in 1 .. m :
                  /\ dfat[s[k]] = EMPTY
                  /\ disk[s[k]] = req.buf[IF 2 * k - 1 < j THEN 2 * k - 1 ELSE j - 1]
                  /\ k < m => fat[s[k]] = s[k + 1] /\ s[k] < s[k + 1]
    BY <1>0, <1>1, <1>8, <1>9, <1>13 DEF NewFileOK
  <2>3. PICK s \in [1 .. m -> DataClusters] :
          /\ s[1] = h /\ s[m] = x
          /\ \A k \in 1 .. m :
               /\ dfat[s[k]] = EMPTY
               /\ disk[s[k]] = req.buf[IF 2 * k - 1 < j THEN 2 * k - 1 ELSE j - 1]
               /\ k < m => fat[s[k]] = s[k + 1] /\ s[k] < s[k + 1]
    BY <2>2
  <2>4. m >= 1
    BY <1>8, <1>9, <1>13
  \* No cluster before the last is that of cursor, nor the free one found.
  <2>5. \A k \in 1 .. m : k < m =>
          /\ s[k] # x /\ s[k] # f
          /\ fat'[s[k]] = s[k + 1] /\ disk'[s[k]] = disk[s[k]]
    <3> SUFFICES ASSUME NEW k \in 1 .. m, k < m
                 PROVE  /\ s[k] # x /\ s[k] # f
                        /\ fat'[s[k]] = s[k + 1] /\ disk'[s[k]] = disk[s[k]]
      OBVIOUS
    <3>1. /\ k + 1 \in 1 .. m /\ s[k] \in DataClusters /\ s[k + 1] \in DataClusters
          /\ fat[s[k]] = s[k + 1] /\ s[k] < s[k + 1]
      BY <2>3
    <3>2. s[k + 1] # EMPTY /\ s[k] \in Nat /\ s[k] \in Clusters
      BY <3>1, ConstantTypes DEF DataClusters, ROOT, EMPTY
    <3>3. s[k] # x
      BY <3>1, <3>2, <2>2
    <3>4. s[k] # f
      BY <3>1, <3>2, <1>2
    <3> QED
      BY <3>1, <3>2, <3>3, <3>4, <2>1, <1>2, <1>3
  <2>6. CASE j % 2 = 1
    <3>1. /\ (j + 2) \div 2 = m /\ 2 * m = j + 1 /\ (j + 1) % 2 # 1
      BY <1>8, <1>9, <2>6, Halves
    <3>2. x \in EmptyFrom(cursor)
      BY <2>2, <2>6, <1>0, <1>2, SizeAssumption DEF EmptyFrom, DataClusters, ROOT
    <3>3. f = x
      <4>1. f <= x /\ x <= f
        BY <1>0, <1>1, <3>2, RoundCluster DEF Working
      <4> QED
        BY <4>1, <1>7
    <3>4. fat'[f] = f
      BY <3>3, <2>1, <1>3, <1>7
    <3>5. ASSUME NEW k \in 1 .. m
          PROVE  disk'[s[k]] = req.buf[IF 2 * k - 1 < j + 1 THEN 2 * k - 1 ELSE j]
      <4>1. CASE k = m
        <5>1. 2 * k - 1 = j /\ 2 * k - 1 < j + 1
          BY <4>1, <3>1
        <5> QED
          BY <4>1, <5>1, <3>3, <2>3, <1>11
      <4>2. CASE k < m
        <5>1. 2 * k - 1 < j
          BY <4>2, <3>1
        <5> QED
          BY <4>2, <5>1, <2>3, <2>5
      <4> QED
        BY <4>1, <4>2
    <3>6. \A k \in 1 .. m : /\ dfat[s[k]] = EMPTY
                            /\ k < m => fat'[s[k]] = s[k + 1] /\ s[k] < s[k + 1]
      BY <2>3, <2>5
    <3> QED
      BY <3>1, <3>3, <3>4, <3>5, <3>6, <2>3, <1>13
  <2>7. CASE j % 2 # 1
    <3>1. /\ (j + 2) \div 2 = m + 1 /\ 2 * m = j /\ (j + 1) % 2 = 1
      BY <1>8, <1>9, <2>7, Halves
    <3>2. f # x /\ x < f
      <4>1. x <= f /\ f # x
        BY <1>0, <1>1, <1>2, <1>7, <2>2, <2>7, RoundCluster DEF Working
      <4> QED
        BY <4>1, <1>7
    <3>3. fat'[f] = EMPTY /\ fat'[x] = f /\ disk'[x] = disk[x]
      BY <3>2, <2>1, <1>2, <1>3, <1>7
    <3>4. PICK t : t = [k \in 1 .. m + 1 |-> IF k = m + 1 THEN f ELSE s[k]]
      OBVIOUS
    <3>5. /\ t \in [1 .. m + 1 -> DataClusters] /\ t[m + 1] = f
          /\ \A k \in 1 .. m : t[k] = s[k]
          /\ t[1] = h /\ t[m] = x
      BY <3>4, <2>3, <2>4, <1>2
    <3>6. ASSUME NEW k \in 1 .. m + 1
          PROVE  /\ dfat[t[k]] = EMPTY
                 /\ disk'[t[k]] = req.buf[IF 2 * k - 1 < j + 1 THEN 2 * k - 1 ELSE j]
                 /\ k < m + 1 => fat'[t[k]] = t[k + 1] /\ t[k] < t[k + 1]
      <4>1. CASE k = m + 1
        <5>1. ~(2 * k - 1 < j + 1)
          BY <4>1, <3>1
        <5> QED
          BY <4>1, <5>1, <3>5, <1>2, <1>11
      <4>2. CASE k = m
        <5>1. 2 * k - 1 < j /\ 2 * k - 1 < j + 1 /\ k \in 1 .. m
          BY <4>2, <3>1, <2>4
        <5>2. disk[x] = req.buf[2 * k - 1] /\ dfat[x] = EMPTY
          BY <4>2, <5>1, <2>3
        <5> QED
          BY <4>2, <5>1, <5>2, <3>2, <3>3, <3>5
      <4>3. CASE k < m
        <5>1. k \in 1 .. m /\ k + 1 \in 1 .. m
          BY <4>3
        <5>2. 2 * k - 1 < j /\ 2 * k - 1 < j + 1
          BY <5>1, <4>3, <3>1
        <5>3. /\ dfat[s[k]] = EMPTY /\ s[k] < s[k + 1] /\ fat'[s[k]] = s[k + 1]
              /\ disk'[s[k]] = req.buf[2 * k - 1]
          BY <4>3, <5>1, <5>2, <2>3, <2>5
        <5>4. t[k] = s[k] /\ t[k + 1] = s[k + 1]
          BY <5>1, <3>5
        <5> QED
          BY <5>2, <5>3, <5>4
      <4> QED
        BY <4>1, <4>2, <4>3
    <3>7. j # 0
      BY <1>13
    <3>8. \E r \in [1 .. m + 1 -> DataClusters] :
            /\ r[1] = h /\ r[m + 1] = f
            /\ \A k \in 1 .. m + 1 :
                 /\ dfat[r[k]] = EMPTY
                 /\ disk'[r[k]] = req.buf[IF 2 * k - 1 < j + 1 THEN 2 * k - 1 ELSE j]
                 /\ k < m + 1 => fat'[r[k]] = r[k + 1] /\ r[k] < r[k + 1]
      <4> HIDE <3>4
      <4> QED
        BY <3>5, <3>6, Zenon
    <3>9. (IF j = 0 THEN f ELSE h) = h /\ fat'[f] = IF (j + 1) % 2 = 1 THEN EMPTY ELSE f
      BY <3>1, <3>3, <3>7
    <3> QED
      BY <3>1, <3>8, <3>9, Zenon
  <2> QED
    BY <2>6, <2>7
<1> QED
  BY <1>12, <1>13

LEMMA WriteFatRequest ==
  ASSUME Working, RequestOK, WriteFat
  PROVE  RequestOK' /\ NewFileOK' /\ ReadOK'
<1>1. /\ pc = "write_fat" /\ pc' = "write_dir" /\ UNCHANGED <<disk, req, slot>>
      /\ dirbuf' = PutEntry(dirbuf, slot, [dirbuf.table[slot] EXCEPT !.size = i * CLUSTER_SIZE])
  BY DEF WriteFat, callVars
<1>2. slot \in Slots /\ dirbuf \in Image
  BY <1>1 DEF Working, TypeOK, CallOK, WriteSteps
<1>3. dirbuf'.data = dirbuf.data
  BY <1>1, <1>2, PutEntryValue
<1> QED
  BY <1>1, <1>3 DEF RequestOK, NewFileOK, ReadOK, WriteSteps, DeleteSteps

LEMMA FreeRequest ==
  ASSUME FAT32Inv, RequestOK, FreeCluster \/ DeleteFat
  PROVE  RequestOK' /\ NewFileOK' /\ ReadOK'
<1>1. /\ pc \in DeleteSteps /\ pc' \in DeleteSteps /\ UNCHANGED <<disk, req, slot>>
      /\ \/ dirbuf' = dirbuf
         \/ dirbuf' = PutEntry(dirbuf, slot, [dirbuf.table[slot] EXCEPT !.used = FALSE])
  BY DEF FreeCluster, DeleteFat, DeleteSteps, callVars, diskVars
<1>2. slot \in Slots /\ dirbuf \in Image
  BY <1>1 DEF FAT32Inv, TypeOK, CallOK
<1>3. dirbuf'.data = dirbuf.data
  BY <1>1, <1>2, PutEntryValue
<1> QED
  BY <1>1, <1>3 DEF RequestOK, NewFileOK, ReadOK, WriteSteps, DeleteSteps

-----------------------------------------------------------------------------
(* What is stored of a buffer                                              *)

LEMMA SameSizes ==
  ASSUME SizesOK, Visible' \subseteq Visible, \A e \in Visible' : Same(e), pc' # "write_dir"
  PROVE  SizesOK'
<1>1. \A e \in Visible' :
        /\ e \in Visible /\ Start(e)' = Start(e)
        /\ disk'[e[1]].table[e[2]] = disk[e[1]].table[e[2]]
        /\ StoredFrom'[Start(e)] = StoredFrom[Start(e)]
  <2> SUFFICES ASSUME NEW e \in Visible'
               PROVE  /\ e \in Visible /\ Start(e)' = Start(e)
                      /\ disk'[e[1]].table[e[2]] = disk[e[1]].table[e[2]]
                      /\ StoredFrom'[Start(e)] = StoredFrom[Start(e)]
    OBVIOUS
  <2>1. e \in Visible /\ Same(e)
    OBVIOUS
  <2> QED
    BY <2>1 DEF Same, Start
<1>2. ASSUME NEW e \in Visible'
      PROVE  Len(StoredFrom'[Start(e)']) * CLUSTER_SIZE <= disk'[e[1]].table[e[2]].size
  <2>1. e \in Visible => Len(StoredFrom[Start(e)]) * CLUSTER_SIZE <= disk[e[1]].table[e[2]].size
    BY DEF SizesOK
  <2> QED
    BY <2>1, <1>1, Zenon
<1> QED
  BY <1>2, Zenon DEF SizesOK

LEMMA SameTables ==
  ASSUME TablesOK, Visible' \subseteq Visible, \A e \in Visible' : Same(e)
  PROVE  TablesOK'
<1>1. \A e \in Visible' :
        /\ e \in Visible /\ Start(e)' = Start(e)
        /\ dfat'[Start(e)] = dfat[Start(e)] /\ disk'[Start(e)].dir = disk[Start(e)].dir
  BY DEF Same, Start
<1> QED
  BY <1>1 DEF TablesOK

LEMMA FilledIs ==
  ASSUME NEW img \in Image
  PROVE  Store!LooksFilled(img) = (~img.dir /\ HasEntries(img))
<1>1. DOMAIN img.table = Slots
  BY DEF Image
<1>2. Store!LooksFilled(img) <=> ~img.dir /\ HasEntries(img)
  BY <1>1 DEF Store!LooksFilled, HasEntries, FreeSlots
<1>3. Store!LooksFilled(img) \in BOOLEAN
  BY DEF Store!LooksFilled
<1> QED
  BY <1>2, <1>3

(* When the FAT is written the file is complete: its chain holds the       *)
(* blocks that the abstract store keeps of the buffer.                     *)
LEMMA WriteFatStores ==
  ASSUME Working, TypeOK', RequestOK, NewFileOK, WriteFat
  PROVE  /\ NewHead' \in DataClusters
         /\ StoredFrom'[NewHead'] = Store!Kept(req)
         /\ Len(StoredFrom'[NewHead']) * CLUSTER_SIZE <= NewFile'.size
         /\ NewFile'.size = Store!Blocks(req.size) * CLUSTER_SIZE
         /\ disk'[NewHead'] = req.buf[IF req.size \div CLUSTER_SIZE = 0 THEN 0 ELSE 1]
         /\ req.size \div CLUSTER_SIZE = 0 => dfat'[NewHead'] = EOF
<1>1. /\ pc = "write_fat" /\ UNCHANGED <<disk, req, slot, cursor, i>>
      /\ dfat' = [fat EXCEPT ![cursor] = EOF]
      /\ dirbuf' = PutEntry(dirbuf, slot, [dirbuf.table[slot] EXCEPT !.size = i * CLUSTER_SIZE])
  BY DEF WriteFat, Ended, callVars
<1>2. /\ slot \in Slots /\ dirbuf \in Image /\ dirbuf.table[slot] \in Entry
      /\ fat \in [Clusters -> FatValues] /\ req.size \in Nat
  BY <1>1 DEF Working, TypeOK, CallOK, WriteSteps, Image
<1>3. PICK last \in Nat : last = req.size \div CLUSTER_SIZE
  BY <1>2, SizeTypes
<1>4. i = last + 1
  BY <1>1, <1>3 DEF RequestOK, BlockCount
<1>5. PICK x, h : x = cursor /\ h = NewHead
  OBVIOUS
<1>6. PICK n \in Nat : n = last \div 2 + 1
  BY Halves
<1>7. n = (i + 1) \div 2 /\ n >= 1 /\ n <= last + 1 /\ (last = 0 => n = 1)
  BY <1>4, <1>6
<1>8. /\ fat[x] = EMPTY \/ fat[x] = x
      /\ \E s \in [1 .. n -> DataClusters] :
           /\ s[1] = h /\ s[n] = x
           /\ \A k \in 1 .. n :
                /\ disk[s[k]] = req.buf[IF 2 * k - 1 < i THEN 2 * k - 1 ELSE i - 1]
                /\ k < n => fat[s[k]] = s[k + 1] /\ s[k] < s[k + 1]
  <2>1. i > 0
    BY <1>4
  <2>2. /\ fat[cursor] = IF i % 2 = 1 THEN EMPTY ELSE cursor
        /\ \E s \in [1 .. n -> DataClusters] :
             /\ s[1] = NewHead /\ s[n] = cursor
             /\ \A k \in 1 .. n :
                  /\ dfat[s[k]] = EMPTY
                  /\ disk[s[k]] = req.buf[IF 2 * k - 1 < i THEN 2 * k - 1 ELSE i - 1]
                  /\ k < n => fat[s[k]] = s[k + 1] /\ s[k] < s[k + 1]
    BY <1>1, <1>7, <2>1 DEF NewFileOK
  <2>3. fat[x] = EMPTY \/ fat[x] = x
    BY <2>2, <1>5
  <2> QED
    BY <2>2, <2>3, <1>5
<1>9. PICK s \in [1 .. n -> DataClusters] :
        /\ s[1] = h /\ s[n] = x
        /\ \A k \in 1 .. n :
             /\ disk[s[k]] = req.buf[IF 2 * k - 1 < i THEN 2 * k - 1 ELSE i - 1]
             /\ k < n => fat[s[k]] = s[k + 1] /\ s[k] < s[k + 1]
  BY <1>8
<1>10. n \in 1 .. n /\ 1 \in 1 .. n /\ x \in DataClusters /\ h \in DataClusters
  BY <1>7, <1>9
<1>11. dfat'[x] = EOF /\ \A c \in DataClusters : c # x => dfat'[c] = fat[c]
  BY <1>1, <1>2, <1>5, <1>10, ConstantTypes
<1>12. \A k \in 1 .. n : k < n => dfat'[s[k]] = s[k + 1] /\ s[k] < s[k + 1]
  <2> SUFFICES ASSUME NEW k \in 1 .. n, k < n
               PROVE  dfat'[s[k]] = s[k + 1] /\ s[k] < s[k + 1]
    OBVIOUS
  <2>1. /\ k + 1 \in 1 .. n /\ s[k] \in DataClusters /\ s[k + 1] \in DataClusters
        /\ fat[s[k]] = s[k + 1] /\ s[k] < s[k + 1]
    BY <1>9
  <2>2. s[k + 1] # EMPTY /\ s[k] \in Nat
    BY <2>1, ConstantTypes DEF DataClusters, ROOT, EMPTY
  <2>3. s[k] # x
    BY <2>1, <2>2, <1>8
  <2> QED
    BY <2>1, <2>3, <1>11
<1>13. ~Links(dfat', s[n])
  BY <1>9, <1>11, ConstantTypes DEF Links
<1>14. IsWalk(dfat', Data', StoredFrom')
  BY StoredIsWalkNext DEF IsWalk, Links
<1>15. StoredFrom'[h] = [k \in 1 .. n |-> Data'[s[k]]]
  <2>1. n \in Nat \ {0}
    BY <1>7
  <2>2. StoredFrom'[s[1]] = [k \in 1 .. n |-> Data'[s[k]]]
    BY <2>1, <1>12, <1>13, <1>14, WalkAlong
  <2> QED
    BY <2>2, <1>9
<1>16. ASSUME NEW k \in 1 .. n
       PROVE  Data'[s[k]] = req.buf[IF 2 * k - 1 <= last THEN 2 * k - 1 ELSE last].data
  <2>1. s[k] \in DataClusters
    BY <1>9
  <2>2. Data'[s[k]] = disk[s[k]].data
    BY <2>1, <1>1 DEF Data
  <2>3. (IF 2 * k - 1 < i THEN 2 * k - 1 ELSE i - 1) = IF 2 * k - 1 <= last THEN 2 * k - 1 ELSE last
    BY <1>4
  <2> QED
    BY <2>2, <2>3, <1>9
<1>17. StoredFrom'[h] =
         [k \in 1 .. n |-> req.buf[IF 2 * k - 1 <= last THEN 2 * k - 1 ELSE last].data]
  BY <1>15, <1>16
<1>18. StoredFrom'[h] = Store!Kept(req)
  BY <1>3, <1>6, <1>17 DEF Store!Kept
<1>19. dirbuf'.table[slot] = [dirbuf.table[slot] EXCEPT !.size = i * CLUSTER_SIZE]
  BY <1>1, <1>2, PutEntryValue
<1>20. NewHead' = h /\ NewFile'.size = i * CLUSTER_SIZE
  BY <1>1, <1>2, <1>5, <1>19 DEF NewHead, NewFile, Entry
<1>21. Len(StoredFrom'[h]) = n
  BY <1>15
<1>22. n * CLUSTER_SIZE <= i * CLUSTER_SIZE
  <2>1. \A a, b, c \in Nat : a <= b => a * c <= b * c
    OBVIOUS
  <2> QED
    BY <2>1, <1>4, <1>7, SizeTypes
<1>23. disk[h] = req.buf[IF last = 0 THEN 0 ELSE 1]
  <2>1. disk[h] = req.buf[IF 2 * 1 - 1 < i THEN 2 * 1 - 1 ELSE i - 1]
    BY <1>9, <1>10
  <2> QED
    BY <2>1, <1>4
<1>24. last = 0 => h = x
  BY <1>7, <1>9
<1> QED
  BY <1>1, <1>3, <1>4, <1>10, <1>11, <1>18, <1>20, <1>21, <1>22, <1>23, <1>24 DEF Store!Blocks

LEMMA WriteFatSizes ==
  ASSUME FAT32Inv, FAT32Inv', RequestOK, NewFileOK, SizesOK, WriteFat
  PROVE  SizesOK'
<1>1. \A e \in Visible' :
        /\ e \in Visible /\ Start(e)' = Start(e)
        /\ disk'[e[1]].table[e[2]] = disk[e[1]].table[e[2]]
        /\ StoredFrom'[Start(e)] = StoredFrom[Start(e)]
  BY WriteFatUnseen DEF Unseen, Same, Start
<1>2. Len(StoredFrom'[NewHead']) * CLUSTER_SIZE <= NewFile'.size
  BY WriteFatStores, InvWorks, InvTyped
<1>3. ASSUME NEW e \in Visible'
      PROVE  Len(StoredFrom'[Start(e)']) * CLUSTER_SIZE <= disk'[e[1]].table[e[2]].size
  <2>1. e \in Visible => Len(StoredFrom[Start(e)]) * CLUSTER_SIZE <= disk[e[1]].table[e[2]].size
    BY DEF SizesOK
  <2> QED
    BY <2>1, <1>1, Zenon
<1> QED
  BY <1>2, <1>3, Zenon DEF SizesOK

(* The entry about to be written is the one the abstract store makes.      *)
LEMMA WriteFatNewStored ==
  ASSUME FAT32Inv, FAT32Inv', OwnersInv', TablesInFolders, RequestOK, NewFileOK, WriteFat
  PROVE  NewStoredOK'
<1>1. pc = "write_fat" /\ pc' = "write_dir" /\ UNCHANGED <<disk, req, slot>>
  BY DEF WriteFat, callVars
<1>2. PICK h, last, k : /\ h = NewHead' /\ last = req.size \div CLUSTER_SIZE
                        /\ k = IF last = 0 THEN 0 ELSE 1
  OBVIOUS
<1>3. /\ h \in DataClusters
      /\ StoredFrom'[h] = Store!Kept(req)
      /\ NewFile'.size = Store!Blocks(req.size) * CLUSTER_SIZE
      /\ disk'[h] = req.buf[k]
      /\ last = 0 => dfat'[h] = EOF
  BY <1>2, WriteFatStores, InvWorks, InvTyped
<1>4. PICK l \in Loads : req.size = l.size /\ req.buf = l.buf
  BY <1>1 DEF RequestOK, WriteSteps
<1>5. l.size \in Nat /\ last \in Nat /\ k \in 0 .. last
  BY <1>2, <1>4, CallerAssumption, SizeTypes
<1>6. /\ req.buf[k] \in Image
      /\ NoEntries(req.buf[k])
      /\ req.buf[k].dir => req.size = 0
  BY <1>2, <1>4, <1>5, CallerAssumption DEF TablesInFolders, NoEntries
<1>7. req.size = 0 => last = 0 /\ k = 0
  <2>1. 0 \div CLUSTER_SIZE = 0
    BY SizeAssumption
  <2> QED
    BY <2>1, <1>2
<1>8. NewFile'.first = h
  BY <1>2 DEF NewFile, NewHead
<1>9. (~disk'[h].dir /\ HasEntries(disk'[h])) = Store!LooksFilled(req.buf[k])
  BY <1>3, <1>6, FilledIs
<1>10. StoredAs(NewFile)' = Store!NewEntry(req, NewFile'.sub, h)
  <2>1. /\ StoredAs(NewFile)' =
             [sub |-> NewFile'.sub, id |-> h, size |-> NewFile'.size, blocks |-> StoredFrom'[h],
              filled |-> ~disk'[h].dir /\ HasEntries(disk'[h])]
    BY <1>8 DEF StoredAs, HasEntries, FreeSlots
  <2>2. Store!NewEntry(req, NewFile'.sub, h) =
             [sub |-> NewFile'.sub, id |-> h, size |-> Store!Blocks(req.size) * CLUSTER_SIZE,
              blocks |-> Store!Kept(req), filled |-> Store!LooksFilled(req.buf[k])]
    BY <1>2 DEF Store!NewEntry
  <2> QED
    BY <2>1, <2>2, <1>3, <1>9
<1>11. Store!NewEntry(req, NewFile'.sub, h) = Store!NewEntry(req, NewFile.sub, NewHead)'
  BY <1>1, <1>2 DEF Store!NewEntry, Store!Blocks, Store!Kept, Store!LooksFilled
<1>12. req'.size = 0 => NewFile'.sub
  BY <1>1 DEF OwnersInv, NewOwnersOK, NewFile, WriteSteps
<1>13. disk'[h].dir <=> Store!MakesTable(req)'
  BY <1>1, <1>3, <1>6, <1>7 DEF Store!MakesTable
<1>14. disk'[h].dir => dfat'[h] = EOF /\ NoEntries(disk'[h])
  BY <1>3, <1>6, <1>7
<1> QED
  BY <1>2, <1>10, <1>11, <1>12, <1>13, <1>14 DEF NewStoredOK, NoEntries

-----------------------------------------------------------------------------
(* The steps that the abstract store sees.                                 *)

LEMMA FormatRootSeen ==
  ASSUME FAT32Inv, FAT32Inv', FormatRoot
  PROVE  Visible = {} /\ Visible' = {} /\ ~RootHome /\ RootHome'
<1>1. /\ pc = "format_root" /\ pc' = "mount" /\ dfat' = dfat
      /\ disk' = [disk EXCEPT ![ROOT] = RootImage]
  BY DEF FormatRoot
<1>2. (\A c \in DataClusters : ~disk[c].dir) /\ sig
  BY <1>1 DEF FAT32Inv, FormatOK, CallOK, FormatSteps
<1>3. /\ disk'[ROOT] = RootImage
      /\ \A c \in DataClusters : c # ROOT => disk'[c] = disk[c]
  BY <1>1, ConstantTypes DEF FAT32Inv, TypeOK
<1>4. \A c \in DataClusters : disk'[c].dir => \A s \in Slots : ~disk'[c].table[s].used
  BY <1>2, <1>3 DEF RootImage, BlankTable, BlankEntry
<1>5. Visible = {} /\ Visible' = {}
  BY <1>2, <1>4 DEF Visible, Live
<1>6. ~RootHome /\ RootHome'
  <2>1. sig'
    BY <1>1 DEF FAT32Inv, CallOK, FormatSteps
  <2>2. RootHome'
    BY <1>1, <2>1 DEF RootHome, FAT32Inv, ImageInv, RootIntact
  <2> QED
    BY <2>2, <1>2, ConstantTypes DEF RootHome
<1> QED
  BY <1>5, <1>6

LEMMA WriteDirSeen ==
  ASSUME FAT32Inv, FAT32Inv', RequestOK, WriteDir,
         NEW p, NEW k, NEW h, p = req.parent, k = slot, h = NewHead
  PROVE  /\ p \in DataClusters /\ k \in Slots /\ h \in DataClusters \ {ROOT}
         /\ \A e \in Visible : Start(e) # h
         /\ Visible' = Visible \cup {<<p, k>>} /\ <<p, k>> \notin Visible
         /\ \A e \in Visible : Same(e)
         /\ disk'[p].table[k] = NewFile /\ NewFile.first = h
         /\ NewFile.name = req.name /\ NewFile.ext = req.ext
         /\ dfat' = dfat
         /\ \A c \in DataClusters : StoredFrom'[c] = StoredFrom[c] /\ disk'[c].dir = disk[c].dir
         /\ \A c \in DataClusters : c # p => disk'[c] = disk[c]
         /\ dirbuf.dir /\ disk[p].dir
<1>1. /\ pc = "write_dir" /\ pc' = "idle" /\ dfat' = dfat
      /\ disk' = [disk EXCEPT ![p] = dirbuf]
  BY DEF WriteDir, Return
<1>2. /\ \A e \in Visible : Same(e)
      /\ \A c \in DataClusters : StoredFrom'[c] = StoredFrom[c] /\ disk'[c].dir = disk[c].dir
      /\ \A c \in DataClusters : c # p => disk'[c] = disk[c]
      /\ disk'[p] = dirbuf
  BY <1>1, TableWritten DEF WriteSteps
<1>3. /\ p \in DataClusters /\ k \in Slots /\ dirbuf.dir /\ disk[p].dir
      /\ \A s \in Slots : s # k => dirbuf.table[s] = disk[p].table[s]
  BY <1>1 DEF FAT32Inv, CallOK, MemoryInv, BufferOK, WriteSteps
<1>4. /\ dfat[p] = EOF /\ ~disk[p].table[k].used /\ dirbuf.table[k].used
      /\ dirbuf.table[k].name = req.name /\ dirbuf.table[k].ext = req.ext
  BY <1>1 DEF FAT32Inv, MemoryInv, NewSlotOK, WriteSteps
<1>5. h \in DataClusters \ {ROOT} /\ \A e \in Live(dfat) : Start(e) # h
  BY <1>1 DEF FAT32Inv, MemoryInv, NewEntryOK
<1>6. Visible = Live(dfat) /\ Visible' = Live(dfat)'
  BY <1>1, VisibleType, VisibleTypeNext DEF DeleteSteps
<1>7. Live(dfat)' \subseteq Live(dfat) \cup {<<p, k>>}
  <2> SUFFICES ASSUME NEW c \in DataClusters, NEW s \in Slots,
                      dfat[c] = EOF, disk'[c].dir, disk'[c].table[s].used, <<c, s>> # <<p, k>>
               PROVE  <<c, s>> \in Live(dfat)
    BY <1>1 DEF Live
  <2>1. CASE c = p
    BY <2>1, <1>2, <1>3 DEF Live
  <2>2. CASE c # p
    BY <2>2, <1>2 DEF Live
  <2> QED
    BY <2>1, <2>2
<1>8. Live(dfat) \subseteq Live(dfat)'
  <2> SUFFICES ASSUME NEW e \in Visible PROVE e \in Live(dfat)'
    BY <1>6
  <2>1. /\ e \in DataClusters \X Slots /\ dfat[e[1]] = EOF /\ disk[e[1]].dir
        /\ disk[e[1]].table[e[2]].used
    BY DEF Visible, Live
  <2>2. disk'[e[1]].dir /\ disk'[e[1]].table[e[2]].used
    BY <2>1, <1>2 DEF Same
  <2> QED
    BY <2>1, <2>2, <1>1 DEF Live
<1>9. <<p, k>> \in Live(dfat)' /\ <<p, k>> \notin Live(dfat)
  BY <1>1, <1>2, <1>3, <1>4 DEF Live
<1> QED
  BY <1>1, <1>2, <1>3, <1>4, <1>5, <1>6, <1>7, <1>8, <1>9 DEF NewFile, NewHead

LEMMA DeleteStartSeen ==
  ASSUME FAT32Inv, FAT32Inv',
         NEW n \in Names, NEW e \in Exts, NEW p \in Clusters, DeleteStart(n, e, p),
         NEW s, s = Min(Matches(disk[p], n, e))
  PROVE  /\ p \in DataClusters /\ s \in Slots
         /\ <<p, s>> \in Visible /\ Visible' = Visible \ {<<p, s>>}
         /\ disk[p].table[s].name = n /\ disk[p].table[s].ext = e
         /\ UNCHANGED <<dfat, disk>>
         /\ \A c \in DataClusters : StoredFrom'[c] = StoredFrom[c]
         /\ \A g \in Visible : Same(g)
<1>1. /\ pc = "idle" /\ pc' = "delete" /\ UNCHANGED <<dfat, disk>>
      /\ slot' = s /\ req'.parent = p
  BY DEF DeleteStart, Request, diskVars
<1>2. ParentOK(p) /\ Matches(disk[p], n, e) # {}
  BY DEF DeleteStart, DeleteCode
<1>3. p \in DataClusters /\ disk[p] \in Image /\ disk[p].dir /\ fat[p] = EOF
  BY <1>2, ParentType DEF FAT32Inv
<1>4. /\ s \in Slots /\ disk[p].table[s].used
      /\ disk[p].table[s].name = n /\ disk[p].table[s].ext = e
  BY <1>2, <1>3, MatchFound
<1>5. fat = dfat
  BY <1>1 DEF FAT32Inv, MemoryInv, CacheCoherent
<1>6. <<p, s>> \in Live(dfat)
  BY <1>3, <1>4, <1>5 DEF Live
<1>7. Doomed = {} /\ Doomed' = {<<p, s>>} /\ Live(dfat)' = Live(dfat)
  BY <1>1 DEF Doomed, Live
<1>8. \A c \in DataClusters : StoredFrom'[c] = StoredFrom[c]
  BY <1>1, StoredStays DEF FAT32Inv, Links
<1>9. \A g \in Visible : Same(g)
  BY <1>1, <1>8, VisibleType DEF Same
<1> QED
  BY <1>1, <1>3, <1>4, <1>6, <1>7, <1>8, <1>9 DEF Visible

-----------------------------------------------------------------------------
(* What holds of the files whatever the loads look like.                   *)

StoredInv == FAT32Inv /\ FilesOK

LEMMA WriteDirSizes ==
  ASSUME FAT32Inv, FAT32Inv', RequestOK, SizesOK, WriteDir
  PROVE  SizesOK'
<1>1. PICK p, k, h : p = req.parent /\ k = slot /\ h = NewHead
  OBVIOUS
<1>2. /\ h \in DataClusters
      /\ Visible' = Visible \cup {<<p, k>>} /\ <<p, k>> \notin Visible
      /\ \A e \in Visible : Same(e)
      /\ disk'[p].table[k] = NewFile /\ NewFile.first = h
      /\ \A c \in DataClusters : StoredFrom'[c] = StoredFrom[c]
  BY <1>1, WriteDirSeen
<1>3. pc = "write_dir" /\ pc' = "idle"
  BY DEF WriteDir, Return
<1>4. Len(StoredFrom[h]) * CLUSTER_SIZE <= NewFile.size
  BY <1>1, <1>3 DEF SizesOK
<1>5. ASSUME NEW e \in Visible'
      PROVE  Len(StoredFrom'[Start(e)']) * CLUSTER_SIZE <= disk'[e[1]].table[e[2]].size
  <2>1. CASE e \in Visible
    <3>1. /\ Start(e)' = Start(e)
          /\ disk'[e[1]].table[e[2]] = disk[e[1]].table[e[2]]
          /\ StoredFrom'[Start(e)] = StoredFrom[Start(e)]
      BY <2>1, <1>2 DEF Same, Start
    <3>2. Len(StoredFrom[Start(e)]) * CLUSTER_SIZE <= disk[e[1]].table[e[2]].size
      BY <2>1 DEF SizesOK
    <3> QED
      BY <3>1, <3>2, Zenon
  <2>2. CASE e = <<p, k>>
    <3>1. Start(e)' = h
      BY <2>2, <1>2 DEF Start
    <3> QED
      BY <2>2, <3>1, <1>2, <1>4
  <2> QED
    BY <2>1, <2>2, <1>2
<1> QED
  BY <1>3, <1>5 DEF SizesOK

LEMMA FilesInit == Init => FilesOK
<1> SUFFICES ASSUME Init PROVE FilesOK
  OBVIOUS
<1>1. pc = "off" /\ \A c \in DataClusters : disk[c] = ZeroImage
  BY DEF Init
<1>2. Visible = {}
  BY <1>1 DEF Visible, Live, ZeroImage
<1> QED
  BY <1>1, <1>2, NoCall DEF FilesOK, SizesOK, WriteSteps, DeleteSteps

LEMMA QuietSizes ==
  ASSUME FAT32Inv, FAT32Inv', SizesOK, UNCHANGED <<dfat, disk>>, Doomed' = Doomed,
         pc' # "write_dir"
  PROVE  SizesOK'
BY QuietUnseen, SameSizes DEF Unseen

LEMMA BootFiles ==
  ASSUME FAT32Inv, FAT32Inv', FilesOK, Boot
  PROVE  FilesOK'
<1>1. pc' \in {"format_fat", "format_root", "mount", "idle"} /\ pc \notin DeleteSteps
  BY DEF Boot, WriteSignature, FormatFat, FormatRoot, Mount, DeleteSteps
<1>2. RequestOK' /\ NewFileOK' /\ ReadOK'
  BY <1>1, NoCallNext DEF WriteSteps, DeleteSteps
<1>3. ASSUME WriteSignature \/ Mount PROVE SizesOK'
  <2>1. UNCHANGED <<dfat, disk>>
    BY <1>3 DEF WriteSignature, Mount, diskVars
  <2>2. Doomed' = Doomed
    BY <1>1 DEF Doomed, DeleteSteps
  <2> QED
    BY <1>1, <2>1, <2>2, QuietSizes DEF FilesOK
<1>4. ASSUME FormatFat PROVE SizesOK'
  BY <1>1, <1>4, FormatFatUnseen, SameSizes DEF FilesOK, Unseen
<1>5. ASSUME FormatRoot PROVE SizesOK'
  BY <1>1, <1>5, FormatRootSeen DEF SizesOK
<1> QED
  BY <1>2, <1>3, <1>4, <1>5 DEF Boot, FilesOK

LEMMA CallsFiles ==
  ASSUME FAT32Inv, FAT32Inv', FilesOK, Calls
  PROVE  FilesOK'
<1>1. PICK n \in Names, e \in Exts, p \in Clusters :
        \/ \E l \in Loads : WriteRefused(n, e, p, l) \/ WriteStart(n, e, p, l)
        \/ DeleteRefused(n, e, p) \/ DeleteStart(n, e, p)
        \/ \E size \in ReadSizes :
             \/ ReadRefused(n, e, p, size) \/ ReadStart(n, e, p, size)
             \/ ReadDirectory(n, p, size)
  BY DEF Calls
<1>2. ASSUME NEW code, Fail(code), pc = "idle" PROVE FilesOK'
  <2>1. UNCHANGED <<dfat, disk>> /\ pc' = "idle"
    BY <1>2 DEF Fail, diskVars
  <2>2. Doomed' = Doomed
    BY <1>2, <2>1 DEF Doomed
  <2> QED
    BY <2>1, <2>2, QuietSizes, NoCallNext DEF FilesOK, WriteSteps, DeleteSteps
<1>3. ASSUME NEW l \in Loads, WriteStart(n, e, p, l) PROVE FilesOK'
  <2>1. UNCHANGED <<dfat, disk>> /\ pc' = "write" /\ pc = "idle"
    BY <1>3 DEF WriteStart, diskVars
  <2>2. Doomed' = Doomed
    BY <2>1 DEF Doomed
  <2> QED
    BY <1>3, <2>1, <2>2, QuietSizes, WriteStartRequest, InvWorks DEF FilesOK
<1>4. ASSUME DeleteStart(n, e, p) PROVE FilesOK'
  <2>1. pc' = "delete"
    BY <1>4 DEF DeleteStart
  <2>2. PICK s : s = Min(Matches(disk[p], n, e))
    OBVIOUS
  <2>3. Visible' = Visible \ {<<p, s>>} /\ \A g \in Visible : Same(g)
    BY <1>4, <2>2, DeleteStartSeen
  <2> QED
    BY <1>4, <2>1, <2>3, SameSizes, DeleteStartRequest DEF FilesOK
<1>5. ASSUME NEW size \in ReadSizes, ReadStart(n, e, p, size) PROVE FilesOK'
  <2>1. UNCHANGED <<dfat, disk>> /\ pc' = "read" /\ pc = "idle"
    BY <1>5 DEF ReadStart, diskVars
  <2>2. Doomed' = Doomed
    BY <2>1 DEF Doomed
  <2> QED
    BY <1>5, <2>1, <2>2, QuietSizes, ReadStartRequest DEF FilesOK
<1> QED
  BY <1>1, <1>2, <1>3, <1>4, <1>5 DEF WriteRefused, DeleteRefused, ReadRefused, ReadDirectory

LEMMA StepsFiles ==
  ASSUME FAT32Inv, FAT32Inv', FilesOK, Steps
  PROVE  FilesOK'
<1>0. RequestOK /\ NewFileOK /\ SizesOK /\ ReadOK
  BY DEF FilesOK
<1>1. ASSUME WriteBlock PROVE FilesOK'
  <2>1. pc' # "write_dir"
    BY <1>1 DEF WriteBlock
  <2> QED
    BY <1>0, <1>1, <2>1, WriteBlockUnseen, SameSizes, WriteBlockRequest, InvWorks, InvTyped DEF FilesOK, Unseen
<1>2. ASSUME WriteFat PROVE FilesOK'
  BY <1>0, <1>2, WriteFatSizes, WriteFatRequest, InvWorks DEF FilesOK
<1>3. ASSUME WriteDir PROVE FilesOK'
  <2>1. pc' = "idle"
    BY <1>3 DEF WriteDir, Return
  <2> QED
    BY <1>0, <1>3, <2>1, WriteDirSizes, NoCallNext DEF FilesOK, WriteSteps, DeleteSteps
<1>4. ASSUME FreeCluster PROVE FilesOK'
  <2>1. /\ UNCHANGED <<dfat, disk, req, slot>> /\ pc = "delete"
        /\ pc' \in {"delete", "delete_fat"}
    BY <1>4 DEF FreeCluster, diskVars
  <2>2. Doomed' = Doomed
    BY <2>1 DEF Doomed
  <2> QED
    BY <1>0, <1>4, <2>1, <2>2, QuietSizes, FreeRequest DEF FilesOK
<1>5. ASSUME DeleteFat PROVE FilesOK'
  <2>1. pc' = "delete_dir"
    BY <1>5 DEF DeleteFat
  <2> QED
    BY <1>0, <1>5, <2>1, DeleteFatSame, SameSizes, FreeRequest DEF FilesOK
<1>6. ASSUME DeleteDir PROVE FilesOK'
  <2>1. pc' = "idle"
    BY <1>6 DEF DeleteDir, Return
  <2> QED
    BY <1>0, <1>6, <2>1, DeleteDirUnseen, SameSizes, NoCallNext
    DEF FilesOK, Unseen, WriteSteps, DeleteSteps
<1>7. ASSUME ReadBlock PROVE FilesOK'
  <2>1. UNCHANGED <<dfat, disk>> /\ pc = "read" /\ pc' \in {"idle", "read"}
    BY <1>7 DEF ReadBlock, Return, diskVars
  <2>2. Doomed' = Doomed
    BY <2>1 DEF Doomed
  <2> QED
    BY <1>0, <1>7, <2>1, <2>2, QuietSizes, ReadBlockRequest DEF FilesOK
<1> QED
  BY <1>1, <1>2, <1>3, <1>4, <1>5, <1>6, <1>7 DEF Steps

LEMMA StutterFiles ==
  ASSUME FAT32Inv, FAT32Inv', FilesOK, UNCHANGED vars
  PROVE  FilesOK'
<1>1. Doomed' = Doomed /\ KeyOf(<<req.parent, slot>>)' = KeyOf(<<req.parent, slot>>)
  BY DEF vars, Doomed, KeyOf
<1>2. StoredFrom' = StoredFrom /\ Visible' = Visible
  BY <1>1, QuietUnseen DEF vars, Unseen
<1>3. RequestOK'
  BY DEF FilesOK, RequestOK, vars
<1>4. NewHead' = NewHead /\ NewFile' = NewFile /\ Live(dfat)' = Live(dfat)
      /\ \A e : Start(e)' = Start(e) /\ KeyOf(e)' = KeyOf(e)
  BY DEF vars, NewHead, NewFile, Live, Start, KeyOf
<1>5. NewFileOK'
  BY <1>4 DEF FilesOK, NewFileOK, vars
<1>6. SizesOK'
  BY <1>2, <1>4 DEF FilesOK, SizesOK, vars
<1>7. ReadOK'
  <2>1. PICK e : e = <<req.parent, slot>>
    OBVIOUS
  <2>2. <<req.parent, slot>>' = e
    BY <2>1 DEF vars
  <2> QED
    BY <1>2, <1>4, <2>1, <2>2 DEF FilesOK, ReadOK, vars
<1> QED
  BY <1>3, <1>5, <1>6, <1>7 DEF FilesOK

(* The half-written and the half-read file are as the invariant says,      *)
(* whatever the loads look like.                                           *)
THEOREM StoredInvCorrect == Spec => []StoredInv
<1>1. Init => StoredInv
  BY InvInit, FilesInit DEF StoredInv
<1>2. StoredInv /\ [Next]_vars => StoredInv'
  <2> SUFFICES ASSUME StoredInv, [Next]_vars PROVE StoredInv'
    OBVIOUS
  <2>1. FAT32Inv /\ FAT32Inv' /\ FilesOK
    BY BootInv, CallsInv, StepsInv, StutterInv DEF StoredInv, Next
  <2> QED
    BY <2>1, BootFiles, CallsFiles, StepsFiles, StutterFiles DEF StoredInv, Next
<1> QED
  BY <1>1, <1>2, PTL DEF Spec

(* read() never passes the end of the caller's buffer, as the chain that   *)
(* is left fits in what is left of the buffer.                             *)
THEOREM ReadFitsBufferCorrect == Spec => []ReadFitsBuffer
<1>1. StoredInv => ReadFitsBuffer
  <2> SUFFICES ASSUME StoredInv, pc = "read" PROVE (i + 1) * CLUSTER_SIZE <= req.size
    BY DEF ReadFitsBuffer
  <2>1. PICK e, c : e = <<req.parent, slot>> /\ c = cursor
    OBVIOUS
  <2>2. e \in Live(dfat) /\ disk[e[1]].table[e[2]].size <= req.size
    BY <2>1 DEF StoredInv, FilesOK, ReadOK
  <2>3. e \in Visible /\ Visible \subseteq Live(dfat)
    BY <2>2, VisibleType DEF StoredInv, DeleteSteps
  <2>4. Start(e) \in DataClusters /\ c \in DataClusters
    BY <2>1, <2>3, VisibleType DEF StoredInv, FAT32Inv, MemoryInv, WalkOnChain
  <2>5. PICK a, b : a = Len(StoredFrom[Start(e)]) /\ b = Len(StoredFrom[c])
    OBVIOUS
  <2>6. a \in Nat /\ b \in Nat /\ b >= 1 /\ i \in Nat
    BY <2>4, <2>5, StoredUnfold DEF StoredInv, FAT32Inv, TypeOK
  <2>7. a = i + b
    BY <2>1, <2>5 DEF StoredInv, FilesOK, ReadOK
  <2>8. a * CLUSTER_SIZE <= disk[e[1]].table[e[2]].size
    BY <2>3, <2>5 DEF StoredInv, FilesOK, SizesOK
  <2>9. (i + 1) * CLUSTER_SIZE <= a * CLUSTER_SIZE
    <3>1. \A m, n, k \in Nat : m <= n => m * k <= n * k
      OBVIOUS
    <3>2. i + 1 \in Nat /\ i + 1 <= a
      BY <2>6, <2>7
    <3> QED
      BY <3>1, <3>2, <2>6, SizeTypes
  <2>10. /\ disk[e[1]].table[e[2]].size \in Nat /\ req.size \in Nat
         /\ a * CLUSTER_SIZE \in Nat /\ (i + 1) * CLUSTER_SIZE \in Nat
    <3>1. \A m, n \in Nat : m * n \in Nat
      OBVIOUS
    <3>2. disk[e[1]].table[e[2]] \in Entry
      BY <2>3, VisibleType DEF StoredInv
    <3> QED
      BY <3>1, <3>2, <2>6, SizeTypes DEF StoredInv, FAT32Inv, TypeOK, Entry
  <2> QED
    BY <2>2, <2>8, <2>9, <2>10
<1> QED
  BY <1>1, StoredInvCorrect, PTL

-----------------------------------------------------------------------------
(* The abstract store's tree, as it is found on the disk.                  *)
Dirs == {c \in Homes : dfat[c] = EOF /\ disk[c].dir}

(* The function d is the directory of cluster p.                           *)
Shows(d, p) ==
  /\ d = [k \in DOMAIN d |-> d[k]]
  /\ DOMAIN d = {KeyOf(e) : e \in EntriesOf(p)}
  /\ \A e \in EntriesOf(p) : d[KeyOf(e)] = Stored(e)

LEMMA OneKey ==
  FAT32Inv => \A p : \A e, g \in EntriesOf(p) : KeyOf(e) = KeyOf(g) => e = g
<1> SUFFICES ASSUME FAT32Inv, NEW p, NEW e \in EntriesOf(p), NEW g \in EntriesOf(p),
                    KeyOf(e) = KeyOf(g)
             PROVE  e = g
  OBVIOUS
<1>1. e \in Live(dfat) /\ g \in Live(dfat) /\ e[1] = g[1]
  BY DEF EntriesOf, Visible
<1>2. /\ disk[e[1]].table[e[2]].name = disk[g[1]].table[g[2]].name
      /\ disk[e[1]].table[e[2]].ext = disk[g[1]].table[g[2]].ext
  BY DEF KeyOf
<1> QED
  BY <1>1, <1>2 DEF FAT32Inv, ImageInv, UniqueNames

LEMMA TreeShows ==
  FAT32Inv => /\ Tree = [p \in Dirs |-> Tree[p]]
              /\ \A p \in Dirs : Shows(Tree[p], p)
<1> SUFFICES ASSUME FAT32Inv
             PROVE  Tree = [p \in Dirs |-> Tree[p]] /\ \A p \in Dirs : Shows(Tree[p], p)
  OBVIOUS
<1>1. Tree = [p \in Dirs |-> [k \in {KeyOf(e) : e \in EntriesOf(p)} |->
                Stored(CHOOSE e \in EntriesOf(p) : KeyOf(e) = k)]]
  BY DEF Tree, Dirs
<1>2. ASSUME NEW p \in Dirs PROVE Shows(Tree[p], p)
  <2>1. Tree[p] = [k \in {KeyOf(e) : e \in EntriesOf(p)} |->
                     Stored(CHOOSE e \in EntriesOf(p) : KeyOf(e) = k)]
    BY <1>1
  <2>2. ASSUME NEW g \in EntriesOf(p)
        PROVE  (CHOOSE e \in EntriesOf(p) : KeyOf(e) = KeyOf(g)) = g
    <3>1. /\ (CHOOSE e \in EntriesOf(p) : KeyOf(e) = KeyOf(g)) \in EntriesOf(p)
          /\ KeyOf(CHOOSE e \in EntriesOf(p) : KeyOf(e) = KeyOf(g)) = KeyOf(g)
      OBVIOUS
    <3> QED
      BY <3>1, OneKey
  <2>3. ASSUME NEW g \in EntriesOf(p)
        PROVE  Tree[p][KeyOf(g)] = Stored(g)
    <3>1. KeyOf(g) \in {KeyOf(e) : e \in EntriesOf(p)}
      OBVIOUS
    <3>2. Tree[p][KeyOf(g)] = Stored(CHOOSE e \in EntriesOf(p) : KeyOf(e) = KeyOf(g))
      BY <2>1, <3>1
    <3> QED
      BY <2>2, <3>2
  <2>4. DOMAIN Tree[p] = {KeyOf(e) : e \in EntriesOf(p)} /\ Tree[p] = [k \in DOMAIN Tree[p] |-> Tree[p][k]]
    BY <2>1
  <2> QED
    BY <2>3, <2>4 DEF Shows
<1> QED
  BY <1>1, <1>2

LEMMA TreeShowsNext ==
  (FAT32Inv => /\ Tree = [p \in Dirs |-> Tree[p]]
               /\ \A p \in Dirs : Shows(Tree[p], p))'
BY TreeShows, PTL

(* What a step leaves of an entry is what the abstract store sees of it.   *)
LEMMA SameStored ==
  ASSUME NEW e, Same(e)
  PROVE  /\ KeyOf(e)' = KeyOf(e) /\ Stored(e)' = Stored(e) /\ Start(e)' = Start(e)
<1>1. disk'[e[1]].table[e[2]] = disk[e[1]].table[e[2]]
  BY DEF Same
<1>2. KeyOf(e)' = KeyOf(e) /\ Start(e)' = Start(e)
  BY <1>1 DEF KeyOf, Start
<1>3. PICK entry : entry = disk[e[1]].table[e[2]]
  OBVIOUS
<1>4. /\ Stored(e) = [sub |-> entry.sub, id |-> entry.first, size |-> entry.size,
                      blocks |-> StoredFrom[entry.first],
                      filled |-> ~disk[entry.first].dir /\ HasEntries(disk[entry.first])]
      /\ Stored(e)' = [sub |-> entry.sub, id |-> entry.first, size |-> entry.size,
                       blocks |-> StoredFrom'[entry.first],
                       filled |-> ~disk'[entry.first].dir /\ HasEntries(disk'[entry.first])]
  <2>1. /\ Stored(e) = [sub |-> entry.sub, id |-> entry.first, size |-> entry.size,
                        blocks |-> StoredFrom[entry.first],
                        filled |-> ~disk[entry.first].dir /\ HasEntries(disk[entry.first])]
    BY <1>3, Zenon DEF Stored, StoredAs
  <2>2. Stored(e)' = [sub |-> entry.sub, id |-> entry.first, size |-> entry.size,
                      blocks |-> StoredFrom'[entry.first],
                      filled |-> ~disk'[entry.first].dir /\ HasEntries(disk[entry.first])']
    BY <1>1, <1>3, Zenon DEF Stored, StoredAs
  <2> QED
    BY <2>1, <2>2
<1>5. /\ StoredFrom'[entry.first] = StoredFrom[entry.first]
      /\ disk'[entry.first].dir = disk[entry.first].dir
      /\ disk[entry.first].dir \/ disk'[entry.first] = disk[entry.first]
  BY <1>3 DEF Same, Start
<1>6. (~disk'[entry.first].dir /\ HasEntries(disk'[entry.first]))
        = (~disk[entry.first].dir /\ HasEntries(disk[entry.first]))
  <2>1. CASE disk'[entry.first] = disk[entry.first]
    BY <2>1
  <2>2. CASE disk[entry.first].dir
    BY <2>2, <1>5
  <2> QED
    BY <2>1, <2>2, <1>5
<1> QED
  BY <1>2, <1>4, <1>5, <1>6

(* Two steps show the same directory if they show the same entries.        *)
LEMMA SameShown ==
  ASSUME NEW d, NEW f, NEW p, Shows(d, p), Shows(f, p)', EntriesOf(p)' = EntriesOf(p),
         \A e \in EntriesOf(p) : Same(e)
  PROVE  f = d
<1>0. EntriesOf(p)' = EntriesOf(p) /\ \A e \in EntriesOf(p) : KeyOf(e)' = KeyOf(e) /\ Stored(e)' = Stored(e)
  BY SameStored
<1>1. f = [k \in DOMAIN f |-> f[k]] /\ d = [k \in DOMAIN d |-> d[k]]
  BY DEF Shows
<1>2. DOMAIN f = DOMAIN d
  BY <1>0 DEF Shows
<1>3. ASSUME NEW k \in DOMAIN d PROVE f[k] = d[k]
  <2>1. PICK e \in EntriesOf(p) : k = KeyOf(e)
    BY DEF Shows
  <2>2. d[k] = Stored(e)
    BY <2>1 DEF Shows
  <2>3. f[KeyOf(e)'] = Stored(e)'
    BY <1>0 DEF Shows
  <2> QED
    BY <1>0, <2>1, <2>2, <2>3
<1> QED
  BY <1>1, <1>2, <1>3

LEMMA SameTree ==
  ASSUME FAT32Inv, FAT32Inv', Unseen
  PROVE  Tree' = Tree
<1>1. Visible' = Visible /\ \A e \in Visible : Same(e) /\ Start(e)' = Start(e)
  BY SameStored DEF Unseen
<1>2. Homes' = Homes
  BY <1>1 DEF Homes
<1>3. Dirs' = Dirs
  <2>1. ASSUME NEW c \in Homes
        PROVE  (dfat'[c] = EOF /\ disk'[c].dir) <=> (dfat[c] = EOF /\ disk[c].dir)
    <3>1. CASE c = ROOT
      BY <3>1 DEF Unseen, RootHome
    <3>2. CASE c # ROOT
      <4>1. PICK e \in Visible : c = Start(e)
        BY <3>2 DEF Homes
      <4> QED
        BY <4>1, <1>1 DEF Same
    <3> QED
      BY <3>1, <3>2
  <2> QED
    BY <2>1, <1>2 DEF Dirs
<1>4. ASSUME NEW p \in Dirs PROVE Tree'[p] = Tree[p]
  <2>1. EntriesOf(p)' = EntriesOf(p) /\ \A e \in EntriesOf(p) : Same(e)
    BY <1>1 DEF EntriesOf
  <2>2. Shows(Tree[p], p) /\ Shows(Tree[p], p)'
    BY <1>3, TreeShows, TreeShowsNext
  <2> QED
    BY <2>1, <2>2, SameShown
<1>5. Tree = [p \in Dirs |-> Tree[p]] /\ Tree' = [p \in Dirs |-> Tree'[p]]
  BY <1>3, TreeShows, TreeShowsNext
<1> QED
  BY <1>4, <1>5

(* The empty function is the empty sequence.                               *)
LEMMA EmptyFunction ==
  ASSUME NEW d, d = [k \in DOMAIN d |-> d[k]]
  PROVE  d = << >> <=> DOMAIN d = {}
<1>1. << >> = [k \in DOMAIN << >> |-> << >>[k]] /\ DOMAIN << >> = {}
  OBVIOUS
<1> QED
  BY <1>1

LEMMA EmptyTree ==
  FAT32Inv => (Tree = << >> <=> Dirs = {})
<1>1. FAT32Inv => Tree = [p \in Dirs |-> Tree[p]]
  BY TreeShows
<1>2. FAT32Inv => DOMAIN Tree = Dirs /\ Tree = [p \in DOMAIN Tree |-> Tree[p]]
  BY <1>1
<1> QED
  BY <1>2, EmptyFunction

-----------------------------------------------------------------------------
(* Between calls every directory in use is reached from an entry.          *)
LEMMA DirsIdle ==
  ASSUME FAT32Inv, OwnersInv, pc = "idle"
  PROVE  /\ Visible = Live(dfat) /\ fat = dfat
         /\ \A p \in DataClusters : p \in Dirs <=> dfat[p] = EOF /\ disk[p].dir
         /\ Dirs \subseteq DataClusters
<1>1. Visible = Live(dfat) /\ fat = dfat
  BY VisibleType DEF DeleteSteps, FAT32Inv, MemoryInv, CacheCoherent
<1>2. Homes \subseteq DataClusters
  BY VisibleType, ConstantTypes DEF Homes
<1>3. ASSUME NEW p \in DataClusters, dfat[p] = EOF, disk[p].dir
      PROVE  p \in Homes
  <2>1. CASE p = ROOT
    BY <2>1 DEF Homes
  <2>2. CASE p # ROOT
    <3>1. Owned(p)
      <4>1. dfat[p] # EMPTY
        BY <1>3, ConstantTypes DEF EMPTY
      <4> QED
        BY <4>1, <2>2 DEF OwnersInv, OwnersOK
    <3>2. \A c \in DataClusters : dfat[c] # p
      BY <1>3 DEF OwnersInv, FoldersOK
    <3>3. PICK e \in Live(dfat) : Start(e) = p
      BY <3>1, <3>2 DEF Owned
    <3> QED
      BY <3>3, <1>1 DEF Homes
  <2> QED
    BY <2>1, <2>2
<1> QED
  BY <1>1, <1>2, <1>3 DEF Dirs

LEMMA ParentsAreDirs ==
  ASSUME FAT32Inv, OwnersInv, pc = "idle", NEW p \in Clusters
  PROVE  ParentOK(p) <=> p \in DOMAIN Tree
<1>1. DOMAIN Tree = Dirs
  BY TreeShows
<1>2. ParentOK(p) => p \in DataClusters /\ fat[p] = EOF /\ disk[p].dir
  BY ParentType DEF FAT32Inv
<1>3. p \in Dirs => p \in DataClusters /\ dfat[p] = EOF /\ disk[p].dir /\ p >= 2
  BY DirsIdle, ConstantTypes DEF DataClusters, ROOT
<1> QED
  BY <1>1, <1>2, <1>3, DirsIdle DEF ParentOK

(* A search by name in the table of a parent finds what the abstract       *)
(* store has under that name.                                              *)
LEMMA SearchFinds ==
  ASSUME FAT32Inv, OwnersInv, pc = "idle", NEW p \in Dirs, NEW n, NEW e
  PROVE  /\ Matches(disk[p], n, e) # {} <=> <<n, e>> \in DOMAIN Tree[p]
         /\ Matches(disk[p], n, e) # {} =>
              LET s == Min(Matches(disk[p], n, e))
              IN  /\ <<p, s>> \in Visible /\ KeyOf(<<p, s>>) = <<n, e>>
                  /\ disk[p].table[s] = Found(n, e, p)
                  /\ Tree[p][<<n, e>>] = StoredAs(Found(n, e, p))
<1>1. /\ p \in DataClusters /\ dfat[p] = EOF /\ disk[p].dir /\ disk[p] \in Image
  BY DirsIdle DEF FAT32Inv, TypeOK
<1>2. /\ DOMAIN Tree[p] = {KeyOf(g) : g \in EntriesOf(p)}
      /\ \A g \in EntriesOf(p) : Tree[p][KeyOf(g)] = Stored(g)
  BY TreeShows DEF Shows
<1>3. ASSUME NEW g \in EntriesOf(p), KeyOf(g) = <<n, e>>
      PROVE  g[2] \in Matches(disk[p], n, e)
  <2>1. /\ g[1] = p /\ g[2] \in Slots /\ disk[p].table[g[2]].used
        /\ disk[p].table[g[2]].name = n /\ disk[p].table[g[2]].ext = e
    BY <1>3, VisibleType DEF EntriesOf, KeyOf
  <2> QED
    BY <2>1 DEF Matches
<1>4. ASSUME Matches(disk[p], n, e) # {}, NEW s, s = Min(Matches(disk[p], n, e))
      PROVE  /\ <<p, s>> \in Visible /\ KeyOf(<<p, s>>) = <<n, e>>
             /\ disk[p].table[s] = Found(n, e, p)
             /\ <<n, e>> \in DOMAIN Tree[p]
             /\ Tree[p][<<n, e>>] = StoredAs(Found(n, e, p))
  <2>1. /\ s \in Slots /\ disk[p].table[s].used
        /\ disk[p].table[s].name = n /\ disk[p].table[s].ext = e
    BY <1>1, <1>4, MatchFound
  <2>2. <<p, s>> \in Visible
    BY <1>1, <2>1, DirsIdle DEF Live
  <2>3. KeyOf(<<p, s>>) = <<n, e>> /\ <<p, s>> \in EntriesOf(p)
    BY <2>1, <2>2 DEF KeyOf, EntriesOf
  <2>4. disk[p].table[s] = Found(n, e, p)
    BY <1>4 DEF Found
  <2>5. Stored(<<p, s>>) = StoredAs(Found(n, e, p))
    BY <2>4 DEF Stored
  <2> QED
    BY <1>2, <2>2, <2>3, <2>4, <2>5
<1>5. <<n, e>> \in DOMAIN Tree[p] => Matches(disk[p], n, e) # {}
  BY <1>2, <1>3
<1> QED
  BY <1>4, <1>5

LEMMA OneToOne ==
  ASSUME NEW S, NEW T, NEW h \in [S -> T], \A x, y \in S : h[x] = h[y] => x = y,
         \A y \in T : \E x \in S : h[x] = y
  PROVE  ExistsBijection(S, T)
BY DEF ExistsBijection, Bijection, Injection, IsInjective, Surjection

LEMMA SameNumber ==
  ASSUME NEW S, NEW T, IsFiniteSet(T), ExistsBijection(S, T)
  PROVE  Cardinality(S) = Cardinality(T)
<1>1. PICK h \in Injection(S, T) : h \in Surjection(S, T)
  BY DEF ExistsBijection, Bijection
<1> QED
  BY <1>1, FS_Injection

(* A directory is full when its table is.                                  *)
LEMMA FullTable ==
  ASSUME FAT32Inv, OwnersInv, pc = "idle", NEW p \in Dirs
  PROVE  Cardinality(DOMAIN Tree[p]) = Cardinality(Slots) <=> FreeSlots(disk[p]) = {}
<1>1. p \in DataClusters /\ dfat[p] = EOF /\ disk[p].dir
  BY DirsIdle
<1> DEFINE UsedSlots == Slots \ FreeSlots(disk[p])
           h == [s \in UsedSlots |-> KeyOf(<<p, s>>)]
<1>2. DOMAIN Tree[p] = {KeyOf(g) : g \in EntriesOf(p)}
  BY TreeShows DEF Shows
<1>3. \A s \in UsedSlots : <<p, s>> \in EntriesOf(p)
  BY <1>1, DirsIdle DEF EntriesOf, Live, FreeSlots
<1>4. \A g \in EntriesOf(p) : g[2] \in UsedSlots /\ g = <<p, g[2]>>
  BY VisibleType DEF EntriesOf, Live, FreeSlots, Visible
<1>5. ExistsBijection(UsedSlots, DOMAIN Tree[p])
  <2>1. h \in [UsedSlots -> DOMAIN Tree[p]]
    BY <1>2, <1>3
  <2>2. ASSUME NEW s \in UsedSlots, NEW t \in UsedSlots, h[s] = h[t] PROVE s = t
    BY <1>3, <2>2, OneKey
  <2>3. ASSUME NEW k \in DOMAIN Tree[p] PROVE \E s \in UsedSlots : h[s] = k
    <3>1. PICK g \in EntriesOf(p) : k = KeyOf(g)
      BY <1>2
    <3>2. g[2] \in UsedSlots /\ h[g[2]] = k
      BY <3>1, <1>4
    <3> QED
      BY <3>2
  <2> HIDE DEF h, UsedSlots
  <2> QED
    BY <2>1, <2>2, <2>3, OneToOne
<1>6. IsFiniteSet(Slots)
  BY FS_Interval, SizeAssumption DEF Slots
<1>7. UsedSlots \in SUBSET Slots
  OBVIOUS
<1>8. /\ IsFiniteSet(UsedSlots)
      /\ Cardinality(Slots) = Cardinality(UsedSlots) => Slots = UsedSlots
  <2> HIDE DEF UsedSlots
  <2> QED
    BY <1>6, <1>7, FS_Subset
<1>9. Cardinality(DOMAIN Tree[p]) = Cardinality(UsedSlots)
  <2> HIDE DEF h, UsedSlots
  <2> QED
    BY <1>5, <1>8, FS_Bijection
<1>10. Slots = UsedSlots <=> FreeSlots(disk[p]) = {}
  BY DEF FreeSlots
<1> HIDE DEF UsedSlots
<1> QED
  BY <1>8, <1>9, <1>10

-----------------------------------------------------------------------------
(* Space.  W is the walk of the clusters: the blocks of an entry e are in  *)
(* the clusters W[Start(e)].                                               *)
Allocated == {c \in DataClusters : dfat[c] # EMPTY}

LEMMA ClusterWalk ==
  FAT32Inv =>
    \E W \in [DataClusters -> Seq(DataClusters)] :
      /\ IsWalk(dfat, Numbers, W)
      /\ \A c \in DataClusters :
           /\ W[c][1] = c /\ IsPath(dfat, W[c])
           /\ Len(StoredFrom[c]) = Len(W[c])
<1> SUFFICES ASSUME FAT32Inv
             PROVE  \E W \in [DataClusters -> Seq(DataClusters)] :
                      /\ IsWalk(dfat, Numbers, W)
                      /\ \A c \in DataClusters :
                           /\ W[c][1] = c /\ IsPath(dfat, W[c])
                           /\ Len(StoredFrom[c]) = Len(W[c])
  OBVIOUS
<1>1. Numbers \in [DataClusters -> DataClusters]
  BY DEF Numbers
<1>2. PICK W \in [DataClusters -> Seq(DataClusters)] : IsWalk(dfat, Numbers, W)
  BY <1>1, WalkExists
<1>3. Data \in [DataClusters -> Tokens]
  BY DEF FAT32Inv, TypeOK, Image, Data
<1>4. IsWalk(dfat, Data, StoredFrom) /\ StoredFrom \in [DataClusters -> Seq(Tokens)]
  BY StoredIsWalk DEF FAT32Inv
<1>5. \A c \in DataClusters :
        /\ W[c][1] = c /\ IsPath(dfat, W[c])
        /\ Len(StoredFrom[c]) = Len(W[c])
  <2>1. Walks(dfat, Tokens, Data, StoredFrom, W)
    BY <1>2, <1>3, <1>4 DEF Walks
  <2> QED
    BY <2>1, WalkOfClusters
<1> QED
  BY <1>2, <1>5

(* The clusters of an entry are allocated, and none of them is the root's. *)
LEMMA CellsAllocated ==
  ASSUME FAT32Inv, pc = "idle", NEW e \in Visible,
         NEW s \in Seq(DataClusters), s[1] = Start(e), IsPath(dfat, s)
  PROVE  \A j \in 1 .. Len(s) : s[j] \in Allocated \ {ROOT}
<1> DEFINE Bad == {j \in 1 .. Len(s) : s[j] \notin Allocated \ {ROOT}}
<1> SUFFICES ASSUME Bad # {} PROVE FALSE
  OBVIOUS
<1>1. PICK j \in Bad : \A k \in Bad : j <= k
  <2>1. Bad \in SUBSET (1 .. Len(s)) /\ IsFiniteSet(1 .. Len(s))
    BY FS_Interval
  <2>2. IsFiniteSet(Bad) /\ Bad \in SUBSET Nat
    BY <2>1, FS_Subset
  <2> HIDE DEF Bad
  <2> QED
    BY <2>2, MinIsLeast
<1>2. j \in 1 .. Len(s) /\ s[j] \notin Allocated \ {ROOT} /\ Len(s) \in Nat
  OBVIOUS
<1>3. Start(e) \in Allocated \ {ROOT}
  BY VisibleType DEF Allocated
<1>4. j # 1
  BY <1>2, <1>3
<1>5. j - 1 \in 1 .. Len(s) - 1 /\ j - 1 \in 1 .. Len(s) /\ (j - 1) + 1 = j /\ j - 1 < j
  BY <1>2, <1>4
<1>6. j - 1 \notin Bad
  <2> HIDE DEF Bad
  <2> QED
    BY <1>1, <1>5, <1>2
<1>7. s[j - 1] \in Allocated
  BY <1>5, <1>6
<1>8. Links(dfat, s[j - 1]) /\ dfat[s[j - 1]] = s[j]
  BY <1>5 DEF IsPath
<1>9. s[j] \in DataClusters /\ dfat[s[j]] # EMPTY
  BY <1>7, <1>8, LinksInUse DEF Allocated
<1>10. s[j] # ROOT
  <2>1. sig
    BY DEF FAT32Inv, CallOK
  <2> QED
    BY <2>1, <1>7, <1>8 DEF Allocated, FAT32Inv, ImageInv, RootIntact
<1> QED
  BY <1>2, <1>9, <1>10 DEF Allocated

(* Chains do not meet.                                                     *)
LEMMA CellsDiffer ==
  ASSUME FAT32Inv, pc = "idle", NEW W \in [DataClusters -> Seq(DataClusters)],
         \A c \in DataClusters : W[c][1] = c /\ IsPath(dfat, W[c])
  PROVE  \A e, g \in Visible :
           \A j \in 1 .. Len(W[Start(e)]), k \in 1 .. Len(W[Start(g)]) :
             W[Start(e)][j] = W[Start(g)][k] => e = g /\ j = k
<1> DEFINE Twice(c) == \E e, g \in Visible :
                         \E j \in 1 .. Len(W[Start(e)]), k \in 1 .. Len(W[Start(g)]) :
                           /\ W[Start(e)][j] = c /\ W[Start(g)][k] = c
                           /\ ~(e = g /\ j = k)
           Bad == {c \in DataClusters : Twice(c)}
<1>0. \A e \in Visible : /\ Start(e) \in DataClusters /\ W[Start(e)] \in Seq(DataClusters)
                         /\ Len(W[Start(e)]) \in Nat
                         /\ \A j \in 1 .. Len(W[Start(e)]) : W[Start(e)][j] \in DataClusters
  <2> SUFFICES ASSUME NEW e \in Visible
               PROVE  /\ Start(e) \in DataClusters /\ W[Start(e)] \in Seq(DataClusters)
                      /\ Len(W[Start(e)]) \in Nat
                      /\ \A j \in 1 .. Len(W[Start(e)]) : W[Start(e)][j] \in DataClusters
    OBVIOUS
  <2>1. Start(e) \in DataClusters
    BY VisibleType
  <2>2. W[Start(e)] \in Seq(DataClusters)
    BY <2>1
  <2> QED
    BY <2>1, <2>2
<1>1. SUFFICES ASSUME Bad # {} PROVE FALSE
  <2> SUFFICES ASSUME NEW e \in Visible, NEW g \in Visible,
                      NEW j \in 1 .. Len(W[Start(e)]), NEW k \in 1 .. Len(W[Start(g)]),
                      W[Start(e)][j] = W[Start(g)][k], ~(e = g /\ j = k)
               PROVE  FALSE
    OBVIOUS
  <2>1. Twice(W[Start(e)][j])
    OBVIOUS
  <2>2. W[Start(e)][j] \in DataClusters
    BY <1>0
  <2> HIDE DEF Twice
  <2> QED
    BY <1>1, <2>1, <2>2
<1>2. PICK c \in Bad : \A d \in Bad : c <= d
  <2>1. Bad \in SUBSET DataClusters
    OBVIOUS
  <2> HIDE DEF Bad
  <2> QED
    BY <1>1, <2>1, FirstCluster
<1>3. PICK e \in Visible, g \in Visible :
        \E j \in 1 .. Len(W[Start(e)]), k \in 1 .. Len(W[Start(g)]) :
          W[Start(e)][j] = c /\ W[Start(g)][k] = c /\ ~(e = g /\ j = k)
  OBVIOUS
<1>4. PICK j \in 1 .. Len(W[Start(e)]), k \in 1 .. Len(W[Start(g)]) :
        W[Start(e)][j] = c /\ W[Start(g)][k] = c /\ ~(e = g /\ j = k)
  BY <1>3
<1>5. ASSUME NEW x \in Visible, NEW m \in 1 .. Len(W[Start(x)]), W[Start(x)][m] = c
      PROVE  /\ m = 1 => Start(x) = c
             /\ m # 1 => /\ m - 1 \in 1 .. Len(W[Start(x)])
                         /\ W[Start(x)][m - 1] \in DataClusters
                         /\ dfat[W[Start(x)][m - 1]] = c /\ W[Start(x)][m - 1] < c
  <2>1. Start(x) \in DataClusters /\ Len(W[Start(x)]) \in Nat
    BY <1>0
  <2>2. m = 1 => Start(x) = c
    BY <2>1, <1>5
  <2>3. ASSUME m # 1
        PROVE  /\ m - 1 \in 1 .. Len(W[Start(x)])
               /\ W[Start(x)][m - 1] \in DataClusters
               /\ dfat[W[Start(x)][m - 1]] = c /\ W[Start(x)][m - 1] < c
    <3>1. PICK b, w : b = w[m - 1] /\ w = W[Start(x)]
      OBVIOUS
    <3>2. m - 1 \in 1 .. Len(w) /\ m - 1 \in 1 .. Len(w) - 1 /\ (m - 1) + 1 = m
      BY <2>1, <2>3, <3>1
    <3>3. IsPath(dfat, w) /\ w[m] = c
      BY <2>1, <3>1, <1>5
    <3>4. Links(dfat, b) /\ dfat[b] = c
      <4>1. PICK q : q = m - 1
        OBVIOUS
      <4>2. q \in 1 .. Len(w) - 1 /\ w[q] = b /\ w[q + 1] = c
        BY <3>1, <3>2, <3>3, <4>1
      <4> QED
        BY <3>3, <4>2 DEF IsPath
    <3>5. b \in DataClusters
      BY <3>1, <3>2, <1>0
    <3>6. b < c
      BY <3>4, <3>5, ConstantTypes DEF Links
    <3> QED
      BY <3>1, <3>2, <3>4, <3>5, <3>6
  <2> QED
    BY <2>2, <2>3
<1>6. Visible \subseteq Live(dfat) /\ c \in DataClusters
  BY VisibleType
<1>7. /\ j = 1 => Start(e) = c
      /\ j # 1 => /\ j - 1 \in 1 .. Len(W[Start(e)]) /\ W[Start(e)][j - 1] \in DataClusters
                  /\ dfat[W[Start(e)][j - 1]] = c /\ W[Start(e)][j - 1] < c
  <2> HIDE DEF Bad
  <2> QED
    BY <1>4, <1>5
<1>8. /\ k = 1 => Start(g) = c
      /\ k # 1 => /\ k - 1 \in 1 .. Len(W[Start(g)]) /\ W[Start(g)][k - 1] \in DataClusters
                  /\ dfat[W[Start(g)][k - 1]] = c /\ W[Start(g)][k - 1] < c
  <2> HIDE DEF Bad
  <2> QED
    BY <1>4, <1>5
<1>9. CASE j = 1 /\ k = 1
  <2>1. e # g /\ Start(e) = Start(g)
    BY <1>4, <1>7, <1>8, <1>9
  <2> QED
    BY <2>1, <1>6 DEF FAT32Inv, ImageInv, NoCrossLinks
<1>10. CASE j = 1 /\ k # 1
  <2> HIDE DEF Bad
  <2> QED
    BY <1>6, <1>7, <1>8, <1>10 DEF FAT32Inv, ImageInv, NoCrossLinks
<1>11. CASE j # 1 /\ k = 1
  <2> HIDE DEF Bad
  <2> QED
    BY <1>6, <1>7, <1>8, <1>11 DEF FAT32Inv, ImageInv, NoCrossLinks
<1>12. CASE j # 1 /\ k # 1
  <2>1. PICK b, d : b = W[Start(e)][j - 1] /\ d = W[Start(g)][k - 1]
    OBVIOUS
  <2>2. b \in DataClusters /\ d \in DataClusters /\ dfat[b] = c /\ dfat[d] = c /\ b < c
    BY <2>1, <1>7, <1>8, <1>12
  <2>3. b = d
    BY <2>2, <1>6 DEF FAT32Inv, ImageInv, NoCrossLinks
  <2>4. Twice(b)
    <3>1. ~(e = g /\ j - 1 = k - 1)
      BY <1>0, <1>4
    <3> HIDE DEF Bad
    <3> QED
      BY <2>1, <2>3, <3>1, <1>7, <1>8, <1>12
  <2>5. b \notin Bad
    <3> HIDE DEF Bad
    <3> QED
      BY <1>2, <2>2, <1>6, ConstantTypes
  <2> QED
    BY <2>2, <2>4, <2>5
<1> QED
  BY <1>9, <1>10, <1>11, <1>12

(* Every allocated cluster but the root's is in the chain of an entry.     *)
LEMMA CellsCover ==
  ASSUME FAT32Inv, OwnersInv, pc = "idle", NEW W \in [DataClusters -> Seq(DataClusters)],
         \A c \in DataClusters : W[c][1] = c /\ IsPath(dfat, W[c])
  PROVE  \A c \in Allocated \ {ROOT} :
           \E e \in Visible : \E j \in 1 .. Len(W[Start(e)]) : W[Start(e)][j] = c
<1> DEFINE Covered(c) == \E e \in Visible : \E j \in 1 .. Len(W[Start(e)]) : W[Start(e)][j] = c
           Bad == {c \in Allocated \ {ROOT} : ~Covered(c)}
<1> SUFFICES ASSUME Bad # {} PROVE FALSE
  OBVIOUS
<1>1. PICK c \in Bad : \A d \in Bad : c <= d
  <2>1. Bad \in SUBSET DataClusters
    BY DEF Allocated
  <2> HIDE DEF Bad
  <2> QED
    BY <2>1, FirstCluster
<1>2. c \in DataClusters \ {ROOT} /\ dfat[c] # EMPTY /\ ~Covered(c)
  BY DEF Allocated
<1> HIDE DEF Covered
<1>3. Owned(c)
  BY <1>2 DEF OwnersInv, OwnersOK
<1>4. ASSUME NEW e \in Live(dfat), Start(e) = c PROVE FALSE
  <2>1. e \in Visible
    BY DirsIdle
  <2>2. c \in DataClusters /\ W[c] \in Seq(DataClusters) /\ W[c][1] = c /\ Len(W[c]) >= 1
    BY <1>2 DEF IsPath
  <2>3. 1 \in 1 .. Len(W[c])
    BY <2>2
  <2>4. Covered(c)
    BY <2>1, <2>2, <2>3, <1>4 DEF Covered
  <2> QED
    BY <2>4, <1>2
<1>5. ASSUME NEW d \in DataClusters, dfat[d] = c PROVE FALSE
  <2>1. c \in Nat /\ c # EMPTY /\ c # EOF
    BY <1>2, ConstantTypes DEF DataClusters, ROOT, EMPTY
  <2>2. c > d /\ d \in Nat
    BY <1>5, <2>1, ConstantTypes DEF FAT32Inv, ImageInv, LinksForward
  <2>3. d # ROOT
    BY <1>5, <2>1 DEF FAT32Inv, ImageInv, RootIntact, CallOK
  <2>4. d \in Allocated \ {ROOT}
    BY <1>5, <2>1, <2>3 DEF Allocated
  <2>5. d \notin Bad
    <3> HIDE DEF Bad
    <3> QED
      BY <1>1, <2>1, <2>2
  <2>6. PICK e \in Visible : \E j \in 1 .. Len(W[Start(e)]) : W[Start(e)][j] = d
    BY <2>4, <2>5 DEF Covered
  <2>7. PICK j \in 1 .. Len(W[Start(e)]) : W[Start(e)][j] = d
    BY <2>6
  <2>8. Links(dfat, d)
    BY <1>2, <1>5, <2>2 DEF Links
  <2>9. Start(e) \in DataClusters
    BY VisibleType
  <2>10. IsPath(dfat, W[Start(e)]) /\ Len(W[Start(e)]) \in Nat
    BY <2>9
  <2>11. j # Len(W[Start(e)])
    BY <2>7, <2>8, <2>10 DEF IsPath
  <2>12. j \in 1 .. Len(W[Start(e)]) - 1 /\ j + 1 \in 1 .. Len(W[Start(e)])
    BY <2>10, <2>11
  <2>13. W[Start(e)][j + 1] = c
    BY <2>7, <2>10, <2>12, <1>5 DEF IsPath
  <2>14. Covered(c)
    BY <2>12, <2>13 DEF Covered
  <2> QED
    BY <2>14, <1>2
<1> QED
  BY <1>3, <1>4, <1>5 DEF Owned

(* The abstract store's places, and what they occupy.                      *)
PlaceOf(e) == <<e[1], KeyOf(e)>>

LEMMA PlaceIsEntry ==
  ASSUME FAT32Inv, NEW place \in Store!Places
  PROVE  \E e \in Visible : place = PlaceOf(e) /\ Store!EntryAt(place) = Stored(e)
<1>1. DOMAIN Tree = Dirs
  BY TreeShows
<1>2. PICK d \in Dirs : place \in {d} \X DOMAIN Tree[d]
  BY <1>1 DEF Store!Places
<1>3. /\ DOMAIN Tree[d] = {KeyOf(e) : e \in EntriesOf(d)}
      /\ \A e \in EntriesOf(d) : Tree[d][KeyOf(e)] = Stored(e)
  BY TreeShows DEF Shows
<1>4. PICK e \in EntriesOf(d) : place = <<d, KeyOf(e)>>
  BY <1>2, <1>3
<1>5. e \in Visible /\ place = PlaceOf(e)
  BY <1>4 DEF EntriesOf, PlaceOf
<1>6. Store!EntryAt(place) = Stored(e)
  BY <1>3, <1>4 DEF Store!EntryAt
<1> QED
  BY <1>5, <1>6

LEMMA PlacesAreEntries ==
  ASSUME FAT32Inv, OwnersInv, pc = "idle"
  PROVE  \A e \in Visible :
           PlaceOf(e) \in Store!Places /\ Store!EntryAt(PlaceOf(e)) = Stored(e)
<1>1. DOMAIN Tree = Dirs
  BY TreeShows
<1> SUFFICES ASSUME NEW e \in Visible
             PROVE  PlaceOf(e) \in Store!Places /\ Store!EntryAt(PlaceOf(e)) = Stored(e)
  OBVIOUS
<1>2. e[1] \in Dirs /\ e \in EntriesOf(e[1])
  BY VisibleType, DirsIdle DEF EntriesOf
<1>3. KeyOf(e) \in DOMAIN Tree[e[1]] /\ Tree[e[1]][KeyOf(e)] = Stored(e)
  BY <1>2, TreeShows DEF Shows
<1>4. PlaceOf(e) \in {e[1]} \X DOMAIN Tree[e[1]]
  BY <1>3 DEF PlaceOf
<1>5. PlaceOf(e)[1] = e[1] /\ PlaceOf(e)[2] = KeyOf(e)
  BY DEF PlaceOf
<1> QED
  BY <1>1, <1>2, <1>3, <1>4, <1>5 DEF Store!Places, Store!EntryAt

LEMMA OnePlace ==
  ASSUME FAT32Inv, NEW e \in Visible, NEW g \in Visible, PlaceOf(e) = PlaceOf(g)
  PROVE  e = g
<1>1. e \in EntriesOf(e[1]) /\ g \in EntriesOf(e[1]) /\ KeyOf(e) = KeyOf(g)
  BY DEF PlaceOf, EntriesOf
<1> QED
  BY <1>1, OneKey

LEMMA OccupiedAreBlocks ==
  ASSUME FAT32Inv, OwnersInv, pc = "idle"
  PROVE  /\ \A e \in Visible : \A j \in 1 .. Len(StoredFrom[Start(e)]) :
              <<PlaceOf(e), j>> \in Store!Occupied
         /\ \A o \in Store!Occupied :
              \E e \in Visible : \E j \in 1 .. Len(StoredFrom[Start(e)]) : o = <<PlaceOf(e), j>>
<1>1. \A e \in Visible :
        DOMAIN Store!EntryAt(PlaceOf(e)).blocks = 1 .. Len(StoredFrom[Start(e)])
  <2> SUFFICES ASSUME NEW e \in Visible
               PROVE  DOMAIN Store!EntryAt(PlaceOf(e)).blocks = 1 .. Len(StoredFrom[Start(e)])
    OBVIOUS
  <2>1. Store!EntryAt(PlaceOf(e)) = Stored(e)
    BY PlacesAreEntries
  <2>2. Stored(e).blocks = StoredFrom[Start(e)]
    BY DEF Stored, StoredAs, Start
  <2>3. StoredFrom[Start(e)] \in Seq(Tokens)
    BY VisibleType, StoredUnfold DEF FAT32Inv
  <2> QED
    BY <2>1, <2>2, <2>3
<1>2. ASSUME NEW e \in Visible, NEW j \in 1 .. Len(StoredFrom[Start(e)])
      PROVE  <<PlaceOf(e), j>> \in Store!Occupied
  <2>1. PlaceOf(e) \in Store!Places
    BY PlacesAreEntries
  <2>2. <<PlaceOf(e), j>> \in {PlaceOf(e)} \X DOMAIN Store!EntryAt(PlaceOf(e)).blocks
    BY <1>1
  <2> QED
    BY <2>1, <2>2 DEF Store!Occupied
<1>3. ASSUME NEW o \in Store!Occupied
      PROVE  \E e \in Visible : \E j \in 1 .. Len(StoredFrom[Start(e)]) : o = <<PlaceOf(e), j>>
  <2>1. PICK place \in Store!Places : o \in {place} \X DOMAIN Store!EntryAt(place).blocks
    BY DEF Store!Occupied
  <2>2. PICK e \in Visible : place = PlaceOf(e)
    BY PlaceIsEntry
  <2> QED
    BY <1>1, <2>1, <2>2
<1> QED
  BY <1>2, <1>3

(* As many clusters are allocated, not counting the root's, as the         *)
(* abstract store has blocks occupied.                                     *)
LEMMA OccupiedIsAllocated ==
  ASSUME FAT32Inv, OwnersInv, pc = "idle"
  PROVE  ExistsBijection(Store!Occupied, Allocated \ {ROOT})
<1>1. PICK W \in [DataClusters -> Seq(DataClusters)] :
        \A c \in DataClusters :
          /\ W[c][1] = c /\ IsPath(dfat, W[c])
          /\ Len(StoredFrom[c]) = Len(W[c])
  BY ClusterWalk
<1> DEFINE h == [o \in Store!Occupied |-> W[Store!EntryAt(o[1]).id][o[2]]]
<1>2. \A e \in Visible : /\ Start(e) \in DataClusters
                         /\ Len(StoredFrom[Start(e)]) = Len(W[Start(e)])
  BY <1>1, VisibleType
<1>3. ASSUME NEW e \in Visible, NEW j \in 1 .. Len(W[Start(e)])
      PROVE  <<PlaceOf(e), j>> \in Store!Occupied /\ h[<<PlaceOf(e), j>>] = W[Start(e)][j]
  <2>1. <<PlaceOf(e), j>> \in Store!Occupied
    BY <1>2, OccupiedAreBlocks
  <2>2. Store!EntryAt(PlaceOf(e)).id = Start(e)
    <3>1. Stored(e).id = Start(e)
      BY DEF Stored, StoredAs, Start
    <3> QED
      BY <3>1, PlacesAreEntries
  <2> QED
    BY <2>1, <2>2
<1>4. ASSUME NEW o \in Store!Occupied
      PROVE  \E e \in Visible : \E j \in 1 .. Len(W[Start(e)]) : o = <<PlaceOf(e), j>>
  <2>1. PICK e \in Visible : \E j \in 1 .. Len(StoredFrom[Start(e)]) : o = <<PlaceOf(e), j>>
    BY OccupiedAreBlocks
  <2> QED
    BY <2>1, <1>2
<1>5. \A e \in Visible, j \in Nat : j \in 1 .. Len(W[Start(e)]) => W[Start(e)][j] \in Allocated \ {ROOT}
  <2> SUFFICES ASSUME NEW e \in Visible
               PROVE  \A j \in 1 .. Len(W[Start(e)]) : W[Start(e)][j] \in Allocated \ {ROOT}
    OBVIOUS
  <2>1. PICK s : s = W[Start(e)]
    OBVIOUS
  <2>2. s \in Seq(DataClusters) /\ s[1] = Start(e) /\ IsPath(dfat, s)
    BY <1>1, <1>2, <2>1
  <2>3. \A j \in 1 .. Len(s) : s[j] \in Allocated \ {ROOT}
    BY <2>2, CellsAllocated
  <2> QED
    BY <2>1, <2>3
<1>6. \A e, g \in Visible : \A j \in 1 .. Len(W[Start(e)]), k \in 1 .. Len(W[Start(g)]) :
        W[Start(e)][j] = W[Start(g)][k] => e = g /\ j = k
  BY <1>1, CellsDiffer
<1>7. \A c \in Allocated \ {ROOT} :
        \E e \in Visible : \E j \in 1 .. Len(W[Start(e)]) : W[Start(e)][j] = c
  BY <1>1, CellsCover
<1>8. h \in [Store!Occupied -> Allocated \ {ROOT}]
  <2>1. ASSUME NEW o \in Store!Occupied PROVE h[o] \in Allocated \ {ROOT}
    <3>1. PICK e \in Visible : \E j \in 1 .. Len(W[Start(e)]) : o = <<PlaceOf(e), j>>
      BY <1>4
    <3>2. PICK j \in 1 .. Len(W[Start(e)]) : o = <<PlaceOf(e), j>>
      BY <3>1
    <3>3. h[o] = W[Start(e)][j]
      BY <3>2, <1>3
    <3>4. j \in Nat
      BY <1>2
    <3> HIDE DEF h
    <3> QED
      BY <3>3, <3>4, <1>5
  <2>2. h = [o \in Store!Occupied |-> h[o]]
    OBVIOUS
  <2> HIDE DEF h
  <2> QED
    BY <2>1, <2>2
<1>9. ASSUME NEW o \in Store!Occupied, NEW q \in Store!Occupied, h[o] = h[q] PROVE o = q
  <2>1. PICK e \in Visible : \E j \in 1 .. Len(W[Start(e)]) : o = <<PlaceOf(e), j>>
    BY <1>4
  <2>2. PICK j \in 1 .. Len(W[Start(e)]) : o = <<PlaceOf(e), j>>
    BY <2>1
  <2>3. PICK g \in Visible : \E k \in 1 .. Len(W[Start(g)]) : q = <<PlaceOf(g), k>>
    BY <1>4
  <2>4. PICK k \in 1 .. Len(W[Start(g)]) : q = <<PlaceOf(g), k>>
    BY <2>3
  <2>5. h[o] = W[Start(e)][j] /\ h[q] = W[Start(g)][k]
    BY <2>2, <2>4, <1>3
  <2>6. W[Start(e)][j] = W[Start(g)][k]
    BY <2>5, <1>9
  <2> HIDE DEF h
  <2>7. e = g /\ j = k
    BY <2>6, <1>6
  <2> QED
    BY <2>2, <2>4, <2>7
<1>10. ASSUME NEW c \in Allocated \ {ROOT} PROVE \E o \in Store!Occupied : h[o] = c
  <2>1. PICK e \in Visible : \E j \in 1 .. Len(W[Start(e)]) : W[Start(e)][j] = c
    BY <1>7
  <2>2. PICK j \in 1 .. Len(W[Start(e)]) : W[Start(e)][j] = c
    BY <2>1
  <2> QED
    BY <2>2, <1>3
<1> HIDE DEF h
<1> QED
  BY <1>8, <1>9, <1>10, OneToOne

LEMMA StoreCardinality == \A S : Store!Cardinality(S) = Cardinality(S)
BY DEF Store!Cardinality, Cardinality

(* The driver refuses for lack of space exactly when the store is full.    *)
LEMMA FreeIsEmpty ==
  ASSUME FAT32Inv, OwnersInv, pc = "idle"
  PROVE  /\ Store!Free = Cardinality(EmptyFrom(2))
         /\ Cardinality(EmptyFrom(2)) \in Nat
<1>1. IsFiniteSet(DataClusters)
  BY FS_Interval, SizeAssumption DEF DataClusters, ROOT
<1>2. Allocated \in SUBSET DataClusters
  BY DEF Allocated
<1>3. IsFiniteSet(Allocated)
  BY <1>1, <1>2, FS_Subset
<1>4. ROOT \in Allocated
  BY ConstantTypes DEF Allocated, FAT32Inv, ImageInv, RootIntact, CallOK, EMPTY, EOF
<1>5. EmptyFrom(2) = DataClusters \ Allocated
  BY DirsIdle DEF EmptyFrom, Allocated, DataClusters, ROOT
<1>6. /\ Cardinality(DataClusters \ Allocated) = Cardinality(DataClusters) - Cardinality(Allocated)
      /\ IsFiniteSet(DataClusters \ Allocated)
  <2>1. DataClusters \cap Allocated = Allocated
    BY <1>2
  <2> QED
    BY <1>1, <2>1, FS_Difference
<1>7. /\ Cardinality(Allocated \ {ROOT}) = Cardinality(Allocated) - 1
      /\ IsFiniteSet(Allocated \ {ROOT})
  BY <1>3, <1>4, FS_RemoveElement
<1>8. Cardinality(Store!Occupied) = Cardinality(Allocated \ {ROOT})
  BY <1>7, OccupiedIsAllocated, SameNumber
<1>9. /\ Cardinality(DataClusters) \in Nat /\ Cardinality(Allocated) \in Nat
      /\ Cardinality(DataClusters \ Allocated) \in Nat
  BY <1>1, <1>3, <1>6, FS_CardinalityType
<1>10. Store!Free = Cardinality(DataClusters) - 1 - Cardinality(Store!Occupied)
  BY StoreCardinality DEF Store!Free
<1>11. PICK a \in Nat, b \in Nat : a = Cardinality(DataClusters) /\ b = Cardinality(Allocated)
  BY <1>9
<1>12. Cardinality(EmptyFrom(2)) = a - b /\ Cardinality(EmptyFrom(2)) \in Nat
  BY <1>5, <1>6, <1>9, <1>11
<1>13. Cardinality(Store!Occupied) = b - 1
  BY <1>7, <1>8, <1>11
<1>14. Store!Free = a - b
  BY <1>10, <1>11, <1>13
<1> QED
  BY <1>12, <1>14

-----------------------------------------------------------------------------
(* Between calls the driver returns the codes of the abstract store.       *)

LEMMA BlocksAre == \A size : Store!Blocks(size) = BlockCount(size)
BY DEF Store!Blocks, BlockCount

LEMMA WriteCodes ==
  ASSUME FAT32Inv, OwnersInv, pc = "idle",
         NEW n \in Names, NEW e \in Exts, NEW p \in Clusters, NEW size \in Nat
  PROVE  WriteCode(n, e, p, size) = Store!WriteCode(<<n, e>>, p, size)
<1>1. ParentOK(p) <=> p \in DOMAIN Tree
  BY ParentsAreDirs
<1>2. CASE p \notin DOMAIN Tree
  BY <1>1, <1>2 DEF WriteCode, Store!WriteCode
<1>3. CASE p \in DOMAIN Tree
  <2>1. p \in Dirs
    BY <1>3, TreeShows
  <2>2. Matches(disk[p], n, e) # {} <=> <<n, e>> \in DOMAIN Tree[p]
    BY <2>1, SearchFinds
  <2>3. Store!Cardinality(DOMAIN Tree[p]) = Cardinality(Slots) <=> FreeSlots(disk[p]) = {}
    BY <2>1, FullTable, StoreCardinality
  <2>4. Store!Free < Store!Blocks(size) <=> ~EnoughSpace(size)
    <3>1. BlockCount(size) \in Nat
      BY SizeTypes DEF BlockCount
    <3>2. PICK k \in Nat : k = Cardinality(EmptyFrom(2)) /\ k = Store!Free
      BY FreeIsEmpty
    <3> QED
      BY <3>1, <3>2, BlocksAre DEF EnoughSpace
  <2> QED
    BY <1>1, <1>3, <2>2, <2>3, <2>4 DEF WriteCode, Store!WriteCode
<1> QED
  BY <1>2, <1>3

LEMMA ReadCodes ==
  ASSUME FAT32Inv, OwnersInv, pc = "idle",
         NEW n \in Names, NEW e \in Exts, NEW p \in Clusters, NEW size \in Nat
  PROVE  ReadCode(n, e, p, size) = Store!ReadCode(<<n, e>>, p, size)
<1>1. ParentOK(p) <=> p \in DOMAIN Tree
  BY ParentsAreDirs
<1>2. CASE p \notin DOMAIN Tree
  BY <1>1, <1>2 DEF ReadCode, Store!ReadCode
<1>3. CASE p \in DOMAIN Tree
  <2>1. p \in Dirs
    BY <1>3, TreeShows
  <2>2. Matches(disk[p], n, e) # {} <=> <<n, e>> \in DOMAIN Tree[p]
    BY <2>1, SearchFinds
  <2>3. CASE Matches(disk[p], n, e) = {}
    BY <1>1, <1>3, <2>2, <2>3 DEF ReadCode, Store!ReadCode
  <2>4. CASE Matches(disk[p], n, e) # {}
    <3>1. Tree[p][<<n, e>>] = StoredAs(Found(n, e, p))
      BY <2>1, <2>4, SearchFinds
    <3>2. /\ Tree[p][<<n, e>>].sub = Found(n, e, p).sub
          /\ Tree[p][<<n, e>>].size = Found(n, e, p).size
      BY <3>1 DEF StoredAs
    <3> QED
      BY <1>1, <1>3, <2>2, <2>4, <3>2 DEF ReadCode, Store!ReadCode
  <2> QED
    BY <2>3, <2>4
<1> QED
  BY <1>2, <1>3

LEMMA ReadDirectoryCodes ==
  ASSUME FAT32Inv, OwnersInv, pc = "idle",
         NEW n \in Names, NEW p \in Clusters, NEW size \in Nat
  PROVE  ReadDirectoryCode(n, p, size) = Store!ReadDirectoryCode(<<n, NO_EXT>>, p, size)
<1>1. ParentOK(p) <=> p \in DOMAIN Tree
  BY ParentsAreDirs
<1>2. CASE p \notin DOMAIN Tree
  BY <1>1, <1>2 DEF ReadDirectoryCode, Store!ReadDirectoryCode
<1>3. CASE p \in DOMAIN Tree
  <2>1. p \in Dirs
    BY <1>3, TreeShows
  <2>2. Matches(disk[p], n, NO_EXT) # {} <=> <<n, NO_EXT>> \in DOMAIN Tree[p]
    BY <2>1, SearchFinds
  <2>3. CASE Matches(disk[p], n, NO_EXT) = {}
    BY <1>1, <1>3, <2>2, <2>3 DEF ReadDirectoryCode, Store!ReadDirectoryCode
  <2>4. CASE Matches(disk[p], n, NO_EXT) # {}
    <3>1. Tree[p][<<n, NO_EXT>>] = StoredAs(Found(n, NO_EXT, p))
      BY <2>1, <2>4, SearchFinds
    <3>2. Tree[p][<<n, NO_EXT>>].sub = Found(n, NO_EXT, p).sub
      BY <3>1 DEF StoredAs
    <3> QED
      BY <1>1, <1>3, <2>2, <2>4, <3>2 DEF ReadDirectoryCode, Store!ReadDirectoryCode
  <2> QED
    BY <2>3, <2>4
<1> QED
  BY <1>2, <1>3

(* A cluster that shows entries is a directory in use with something in    *)
(* it, or memory that was taken for one.                                   *)
LEMMA DeleteCodes ==
  ASSUME FAT32Inv, OwnersInv, TablesOK, pc = "idle",
         NEW n \in Names, NEW e \in Exts, NEW p \in Clusters
  PROVE  DeleteCode(n, e, p) = Store!DeleteCode(<<n, e>>, p)
<1>1. ParentOK(p) <=> p \in DOMAIN Tree
  BY ParentsAreDirs
<1>2. CASE p \notin DOMAIN Tree
  BY <1>1, <1>2 DEF DeleteCode, Store!DeleteCode
<1>3. CASE p \in DOMAIN Tree
  <2>1. p \in Dirs
    BY <1>3, TreeShows
  <2>2. Matches(disk[p], n, e) # {} <=> <<n, e>> \in DOMAIN Tree[p]
    BY <2>1, SearchFinds
  <2>3. CASE Matches(disk[p], n, e) = {}
    BY <1>1, <1>3, <2>2, <2>3 DEF DeleteCode, Store!DeleteCode
  <2>4. CASE Matches(disk[p], n, e) # {}
    <3>1. PICK s, g, c : /\ s = Min(Matches(disk[p], n, e))
                         /\ g = <<p, s>> /\ c = Found(n, e, p).first
      OBVIOUS
    <3>2. /\ g \in Visible /\ disk[p].table[s] = Found(n, e, p)
          /\ Tree[p][<<n, e>>] = StoredAs(Found(n, e, p))
      BY <2>1, <2>4, <3>1, SearchFinds
    <3>3. Start(g) = c
      BY <3>1, <3>2 DEF Start
    <3>4. c \in DataClusters /\ g \in Live(dfat) /\ disk[c] \in Image
      BY <3>2, <3>3, VisibleType DEF FAT32Inv, TypeOK
    <3>5. /\ Tree[p][<<n, e>>].id = c
          /\ Tree[p][<<n, e>>].sub = Found(n, e, p).sub
          /\ Tree[p][<<n, e>>].filled = (~disk[c].dir /\ HasEntries(disk[c]))
      BY <3>1, <3>2 DEF StoredAs
    <3>6. DOMAIN Tree = Dirs
      BY TreeShows
    <3>7. HasEntries(disk[c]) <=> \E t \in Slots : disk[c].table[t].used
      BY DEF HasEntries, FreeSlots
    <3>8. CASE disk[c].dir
      <4>1. dfat[c] = EOF
        BY <3>2, <3>3, <3>8 DEF TablesOK
      <4>2. c \in Dirs
        BY <3>4, <3>8, <4>1, DirsIdle
      <4>3. Found(n, e, p).sub
        <5>1. disk[g[1]].table[g[2]].sub
          BY <3>3, <3>4, <3>8, <4>1 DEF OwnersInv, FoldersOK
        <5> QED
          BY <5>1, <3>1, <3>2
      <4>4. Tree[c] # << >> <=> HasEntries(disk[c])
        <5>1. /\ Tree[c] = [k \in DOMAIN Tree[c] |-> Tree[c][k]]
              /\ DOMAIN Tree[c] = {KeyOf(x) : x \in EntriesOf(c)}
          BY <4>2, TreeShows DEF Shows
        <5>2. Tree[c] # << >> <=> EntriesOf(c) # {}
          BY <5>1, EmptyFunction
        <5>3. HasEntries(disk[c]) => EntriesOf(c) # {}
          <6>1. \A t \in Slots : disk[c].table[t].used => <<c, t>> \in EntriesOf(c)
            BY <3>4, <3>8, <4>1, DirsIdle DEF Live, EntriesOf
          <6> QED
            BY <6>1, <3>7
        <5>4. EntriesOf(c) # {} => HasEntries(disk[c])
          <6>1. \A x \in EntriesOf(c) : x[2] \in Slots /\ disk[c].table[x[2]].used
            BY VisibleType DEF EntriesOf
          <6> QED
            BY <6>1, <3>7
        <5> QED
          BY <5>2, <5>3, <5>4
      <4>5. ~Tree[p][<<n, e>>].filled
        BY <3>5, <3>8
      <4>6. DeleteCode(n, e, p) = IF HasEntries(disk[c]) THEN 2 ELSE 0
        BY <1>1, <1>3, <2>4, <3>1, <4>3 DEF DeleteCode
      <4>7. Store!DeleteCode(<<n, e>>, p) = IF Tree[c] # << >> THEN 2 ELSE 0
        BY <1>3, <2>2, <2>4, <3>5, <3>6, <4>2, <4>5 DEF Store!DeleteCode
      <4> QED
        BY <4>4, <4>6, <4>7
    <3>9. CASE ~disk[c].dir
      <4>1. c \notin DOMAIN Tree
        BY <3>6, <3>9 DEF Dirs
      <4>2. Tree[p][<<n, e>>].filled <=> HasEntries(disk[c])
        BY <3>5, <3>9
      <4>3. DeleteCode(n, e, p) = IF Found(n, e, p).sub /\ HasEntries(disk[c]) THEN 2 ELSE 0
        BY <1>1, <1>3, <2>4, <3>1 DEF DeleteCode
      <4>4. Store!DeleteCode(<<n, e>>, p) =
              IF Tree[p][<<n, e>>].sub /\ Tree[p][<<n, e>>].filled THEN 2 ELSE 0
        BY <1>3, <2>2, <2>4, <3>5, <4>1 DEF Store!DeleteCode
      <4> QED
        BY <3>5, <4>2, <4>3, <4>4
    <3> QED
      BY <3>8, <3>9
  <2> QED
    BY <2>3, <2>4
<1> QED
  BY <1>2, <1>3

(* A code depends on the tree alone.                                       *)
LEMMA CodesStay ==
  ASSUME Tree' = Tree, NEW k, NEW p, NEW size
  PROVE  /\ Store!WriteCode(k, p, size)' = Store!WriteCode(k, p, size)
         /\ Store!ReadCode(k, p, size)' = Store!ReadCode(k, p, size)
BY DEF Store!WriteCode, Store!ReadCode, Store!Free, Store!Occupied, Store!Places, Store!EntryAt

-----------------------------------------------------------------------------
(* Why a call that was accepted goes on as the abstract store would.       *)

LEMMA BootUnseen ==
  ASSUME FAT32Inv, FAT32Inv', WriteSignature \/ FormatFat \/ Mount
  PROVE  Unseen
<1>1. ASSUME WriteSignature \/ Mount PROVE Unseen
  <2>1. UNCHANGED <<dfat, disk>>
    BY <1>1 DEF WriteSignature, Mount, diskVars
  <2>2. Doomed' = Doomed
    BY <1>1 DEF Doomed, WriteSignature, Mount
  <2> QED
    BY <2>1, <2>2, QuietUnseen
<1> QED
  BY <1>1, FormatFatUnseen

LEMMA CallUnseen ==
  ASSUME FAT32Inv, FAT32Inv', pc = "idle", pc' \in {"idle", "write", "read"},
         UNCHANGED <<dfat, disk>>
  PROVE  Unseen
<1>1. Doomed' = Doomed
  BY DEF Doomed
<1> QED
  BY <1>1, QuietUnseen

LEMMA StepUnseen ==
  ASSUME FAT32Inv, FAT32Inv', OwnersInv, RequestOK,
         WriteBlock \/ WriteFat \/ FreeCluster \/ DeleteFat \/ DeleteDir \/ ReadBlock
  PROVE  Unseen
<1>1. ASSUME FreeCluster PROVE Unseen
  <2>1. /\ UNCHANGED <<dfat, disk, req, slot>> /\ pc = "delete"
        /\ pc' \in {"delete", "delete_fat"}
    BY <1>1 DEF FreeCluster, diskVars
  <2>2. Doomed' = Doomed
    BY <2>1 DEF Doomed
  <2> QED
    BY <2>1, <2>2, QuietUnseen
<1>2. ASSUME ReadBlock PROVE Unseen
  <2>1. UNCHANGED <<dfat, disk>> /\ pc = "read" /\ pc' \in {"idle", "read"}
    BY <1>2 DEF ReadBlock, Return, diskVars
  <2>2. Doomed' = Doomed
    BY <2>1 DEF Doomed
  <2> QED
    BY <2>1, <2>2, QuietUnseen
<1> QED
  BY <1>1, <1>2, WriteBlockUnseen, WriteFatUnseen, DeleteFatUnseen, DeleteDirUnseen

LEMMA NoTreeCall ==
  pc \notin WriteSteps \cup {"read"} => NewStoredOK /\ CodesOK
BY DEF NewStoredOK, CodesOK, WriteSteps

LEMMA NoTreeCallNext ==
  (pc \notin WriteSteps \cup {"read"} => NewStoredOK /\ CodesOK)'
BY NoTreeCall, PTL

LEMMA UnseenTables ==
  ASSUME TablesOK, Unseen
  PROVE  TablesOK'
BY SameTables DEF Unseen

LEMMA WriteDirTables ==
  ASSUME FAT32Inv, FAT32Inv', RequestOK, NewStoredOK, TablesOK, WriteDir
  PROVE  TablesOK'
<1>1. PICK p, k, h : p = req.parent /\ k = slot /\ h = NewHead
  OBVIOUS
<1>2. /\ h \in DataClusters
      /\ Visible' = Visible \cup {<<p, k>>}
      /\ \A e \in Visible : Same(e)
      /\ disk'[p].table[k] = NewFile /\ NewFile.first = h
      /\ dfat' = dfat /\ disk'[h].dir = disk[h].dir
  <2>1.  /\ p \in DataClusters /\ k \in Slots /\ h \in DataClusters \ {ROOT}
         /\ \A e \in Visible : Start(e) # h
         /\ Visible' = Visible \cup {<<p, k>>} /\ <<p, k>> \notin Visible
         /\ \A e \in Visible : Same(e)
         /\ disk'[p].table[k] = NewFile /\ NewFile.first = h
         /\ NewFile.name = req.name /\ NewFile.ext = req.ext
         /\ dfat' = dfat
         /\ \A c \in DataClusters : StoredFrom'[c] = StoredFrom[c] /\ disk'[c].dir = disk[c].dir
         /\ \A c \in DataClusters : c # p => disk'[c] = disk[c]
         /\ dirbuf.dir /\ disk[p].dir
    BY <1>1, WriteDirSeen, SMT
  <2> QED
    BY <2>1
<1>3. disk[h].dir => dfat[h] = EOF
  BY <1>1 DEF WriteDir, NewStoredOK
<1>4. ASSUME NEW e \in Visible', disk'[Start(e)'].dir
      PROVE  dfat'[Start(e)'] = EOF
  <2>1. CASE e \in Visible
    <3>1. Start(e)' = Start(e) /\ disk'[Start(e)].dir = disk[Start(e)].dir
      BY <2>1, <1>2, SameStored DEF Same
    <3> QED
      BY <2>1, <3>1, <1>2, <1>4 DEF TablesOK
  <2>2. CASE e = <<p, k>>
    <3>1. Start(e)' = h
      BY <2>2, <1>2 DEF Start
    <3> QED
      BY <3>1, <1>2, <1>3, <1>4
  <2> QED
    BY <2>1, <2>2, <1>2
<1> QED
  BY <1>4 DEF TablesOK

LEMMA BootTree ==
  ASSUME FAT32Inv, FAT32Inv', TreeOK, Boot
  PROVE  TreeOK'
<1>1. pc' \notin WriteSteps \cup {"read"}
  BY DEF Boot, WriteSignature, FormatFat, FormatRoot, Mount, WriteSteps
<1>2. ASSUME FormatRoot PROVE TablesOK'
  BY <1>2, FormatRootSeen DEF TablesOK
<1>3. ASSUME WriteSignature \/ FormatFat \/ Mount PROVE TablesOK'
  BY <1>3, BootUnseen, UnseenTables DEF TreeOK
<1> QED
  BY <1>1, <1>2, <1>3, NoTreeCallNext DEF Boot, TreeOK

LEMMA CallsTree ==
  ASSUME FAT32Inv, FAT32Inv', OwnersInv, TreeOK, Calls
  PROVE  TreeOK'
<1>1. PICK n \in Names, e \in Exts, p \in Clusters :
        \/ \E l \in Loads : WriteRefused(n, e, p, l) \/ WriteStart(n, e, p, l)
        \/ DeleteRefused(n, e, p) \/ DeleteStart(n, e, p)
        \/ \E size \in ReadSizes :
             \/ ReadRefused(n, e, p, size) \/ ReadStart(n, e, p, size)
             \/ ReadDirectory(n, p, size)
  BY DEF Calls
<1>2. ASSUME NEW code, Fail(code), pc = "idle" PROVE TreeOK'
  <2>1. UNCHANGED <<dfat, disk>> /\ pc' = "idle"
    BY <1>2 DEF Fail, diskVars
  <2> QED
    BY <1>2, <2>1, CallUnseen, UnseenTables, NoTreeCallNext DEF TreeOK, WriteSteps
<1>3. ASSUME NEW l \in Loads, WriteStart(n, e, p, l) PROVE TreeOK'
  <2>1. /\ UNCHANGED <<dfat, disk>> /\ pc' = "write" /\ pc = "idle"
        /\ WriteCode(n, e, p, l.size) = 0 /\ req' = Request(n, e, p, l.size, l.buf)
    BY <1>3 DEF WriteStart, diskVars
  <2>2. Unseen
    BY <2>1, CallUnseen
  <2>3. Store!WriteCode(<<n, e>>, p, l.size) = 0
    BY <2>1, WriteCodes, CallerAssumption
  <2>4. Store!WriteCode(<<n, e>>, p, l.size)' = 0
    <3>1. Tree' = Tree
      BY <2>2, SameTree
    <3> QED
      BY <2>3, <3>1, CodesStay
  <2>5. req'.name = n /\ req'.ext = e /\ req'.parent = p /\ req'.size = l.size
    BY <2>1 DEF Request
  <2>6. CodesOK'
    BY <2>1, <2>4, <2>5 DEF CodesOK
  <2> QED
    BY <2>1, <2>2, <2>6, UnseenTables DEF TreeOK, NewStoredOK
<1>4. ASSUME DeleteStart(n, e, p) PROVE TreeOK'
  <2>1. pc' = "delete"
    BY <1>4 DEF DeleteStart
  <2>2. PICK s : s = Min(Matches(disk[p], n, e))
    OBVIOUS
  <2>3. Visible' = Visible \ {<<p, s>>} /\ \A g \in Visible : Same(g)
    BY <1>4, <2>2, DeleteStartSeen
  <2> QED
    BY <2>1, <2>3, SameTables, NoTreeCallNext DEF TreeOK, WriteSteps
<1>5. ASSUME NEW size \in ReadSizes, ReadStart(n, e, p, size) PROVE TreeOK'
  <2>1. /\ UNCHANGED <<dfat, disk>> /\ pc' = "read" /\ pc = "idle"
        /\ ReadCode(n, e, p, size) = 0 /\ req' = Request(n, e, p, size, << >>)
    BY <1>5 DEF ReadStart, diskVars
  <2>2. Unseen
    BY <2>1, CallUnseen
  <2>3. Store!ReadCode(<<n, e>>, p, size) = 0
    BY <2>1, ReadCodes, CallerAssumption
  <2>4. Store!ReadCode(<<n, e>>, p, size)' = 0
    <3>1. Tree' = Tree
      BY <2>2, SameTree
    <3> QED
      BY <2>3, <3>1, CodesStay
  <2>5. req'.name = n /\ req'.ext = e /\ req'.parent = p /\ req'.size = size
    BY <2>1 DEF Request
  <2>6. CodesOK'
    BY <2>1, <2>4, <2>5 DEF CodesOK, WriteSteps
  <2> QED
    BY <2>1, <2>2, <2>6, UnseenTables DEF TreeOK, NewStoredOK
<1> QED
  BY <1>1, <1>2, <1>3, <1>4, <1>5 DEF WriteRefused, DeleteRefused, ReadRefused, ReadDirectory

LEMMA GoingOn ==
  ASSUME CodesOK, Tree' = Tree, req' = req, pc \in WriteSteps <=> pc' \in WriteSteps,
         pc = "read" <=> pc' = "read"
  PROVE  CodesOK'
<1>1. PICK key, p, size : key = <<req.name, req.ext>> /\ p = req.parent /\ size = req.size
  OBVIOUS
<1>2. /\ pc \in WriteSteps => Store!WriteCode(key, p, size) = 0
      /\ pc = "read" => Store!ReadCode(key, p, size) = 0
  BY <1>1 DEF CodesOK
<1>3. /\ Store!WriteCode(key, p, size)' = Store!WriteCode(key, p, size)
      /\ Store!ReadCode(key, p, size)' = Store!ReadCode(key, p, size)
  BY CodesStay
<1> QED
  BY <1>1, <1>2, <1>3 DEF CodesOK

LEMMA StepsTree ==
  ASSUME FAT32Inv, FAT32Inv', OwnersInv, OwnersInv', TablesInFolders, FilesOK, TreeOK, Steps
  PROVE  TreeOK'
<1>0. RequestOK /\ NewFileOK /\ NewStoredOK /\ TablesOK /\ CodesOK
  BY DEF FilesOK, TreeOK
<1>1. ASSUME WriteBlock PROVE TreeOK'
  <2>1. pc = "write" /\ pc' \in {"write", "write_fat"} /\ req' = req
    BY <1>1 DEF WriteBlock
  <2>2. Unseen /\ Tree' = Tree
    BY <1>0, <1>1, StepUnseen, SameTree
  <2> QED
    BY <1>0, <2>1, <2>2, UnseenTables, GoingOn DEF TreeOK, NewStoredOK, WriteSteps
<1>2. ASSUME WriteFat PROVE TreeOK'
  <2>1. pc = "write_fat" /\ pc' = "write_dir" /\ req' = req
    BY <1>2 DEF WriteFat, callVars
  <2>2. Unseen /\ Tree' = Tree
    BY <1>0, <1>2, StepUnseen, SameTree
  <2> QED
    BY <1>0, <1>2, <2>1, <2>2, UnseenTables, GoingOn, WriteFatNewStored DEF TreeOK, WriteSteps
<1>3. ASSUME WriteDir PROVE TreeOK'
  <2>1. pc' = "idle"
    BY <1>3 DEF WriteDir, Return
  <2> QED
    BY <1>0, <1>3, <2>1, WriteDirTables, NoTreeCallNext DEF TreeOK, WriteSteps
<1>4. ASSUME FreeCluster \/ DeleteFat \/ DeleteDir PROVE TreeOK'
  <2>1. pc' \in {"delete", "delete_fat", "delete_dir", "idle"}
    BY <1>4 DEF FreeCluster, DeleteFat, DeleteDir, Return
  <2>2. Unseen
    BY <1>0, <1>4, StepUnseen
  <2> QED
    BY <1>0, <2>1, <2>2, UnseenTables, NoTreeCallNext DEF TreeOK, WriteSteps
<1>5. ASSUME ReadBlock PROVE TreeOK'
  <2>1. pc = "read" /\ (pc' = "idle" \/ (pc' = "read" /\ req' = req))
    BY <1>5 DEF ReadBlock, Return
  <2>2. Unseen /\ Tree' = Tree
    BY <1>0, <1>5, StepUnseen, SameTree
  <2>3. CASE pc' = "idle"
    BY <1>0, <2>2, <2>3, UnseenTables, NoTreeCallNext DEF TreeOK, WriteSteps
  <2>4. CASE pc' = "read" /\ req' = req
    BY <1>0, <2>1, <2>2, <2>4, UnseenTables, GoingOn DEF TreeOK, NewStoredOK, WriteSteps
  <2> QED
    BY <2>1, <2>3, <2>4
<1> QED
  BY <1>1, <1>2, <1>3, <1>4, <1>5 DEF Steps

LEMMA StutterTree ==
  ASSUME FAT32Inv, FAT32Inv', TreeOK, UNCHANGED vars
  PROVE  TreeOK'
<1>1. Doomed' = Doomed /\ NewHead' = NewHead /\ NewFile' = NewFile
  BY DEF vars, Doomed, NewHead, NewFile
<1>2. Unseen /\ StoredFrom' = StoredFrom /\ Tree' = Tree
  BY <1>1, QuietUnseen, SameTree DEF vars
<1>3. CodesOK'
  BY <1>2, GoingOn DEF TreeOK, vars
<1>4. NewStoredOK'
  <2>1. PICK h, f : h = NewHead /\ f = NewFile
    OBVIOUS
  <2>2. StoredAs(f)' = StoredAs(f)
    BY <1>2 DEF StoredAs, vars
  <2>3. StoredAs(NewFile)' = StoredAs(NewFile)
    BY <1>1, <2>1, <2>2 DEF StoredAs, vars
  <2>4. Store!NewEntry(req, NewFile.sub, NewHead)' = Store!NewEntry(req, NewFile.sub, NewHead)
    BY <1>1 DEF vars, Store!NewEntry, Store!Blocks, Store!Kept, Store!LooksFilled
  <2>5. /\ Store!MakesTable(req)' = Store!MakesTable(req)
        /\ NoEntries(disk[NewHead])' = NoEntries(disk[NewHead])
    BY <1>1 DEF vars, Store!MakesTable, NoEntries
  <2> QED
    BY <1>1, <2>3, <2>4, <2>5 DEF TreeOK, NewStoredOK, vars
<1> QED
  BY <1>2, <1>3, <1>4, UnseenTables DEF TreeOK

LEMMA TreeInit == Init => TreeOK
<1> SUFFICES ASSUME Init PROVE TreeOK
  OBVIOUS
<1>1. pc = "off" /\ \A c \in DataClusters : disk[c] = ZeroImage
  BY DEF Init
<1>2. Visible = {}
  BY <1>1 DEF Visible, Live, ZeroImage
<1> QED
  BY <1>1, <1>2, NoTreeCall DEF TreeOK, TablesOK, WriteSteps

LEMMA StoreInvAll ==
  ASSUME FAT32Inv, FAT32Inv', OwnersInv, TablesInFolders, FilesOK, TreeOK, [Next]_vars
  PROVE  OwnersInv' /\ TreeOK'
<1>1. OwnersInv'
  BY BootOwners, CallsOwners, StepsOwners, StutterOwners DEF Next
<1>2. TreeOK'
  BY <1>1, BootTree, CallsTree, StepsTree, StutterTree DEF Next
<1> QED
  BY <1>1, <1>2

(* The invariant that the proofs below rest on.                            *)
THEOREM StoreInvCorrect == Spec => []StoreInv
<1>1. Init => StoreInv
  BY InvInit, OwnersInit, FilesInit, TreeInit DEF StoreInv, DriverInv
<1>2. StoreInv /\ [Next]_vars => StoreInv'
  <2> SUFFICES ASSUME StoreInv, [Next]_vars PROVE StoreInv'
    OBVIOUS
  <2>1. FAT32Inv /\ FAT32Inv' /\ FilesOK
    BY BootInv, CallsInv, StepsInv, StutterInv DEF StoreInv, DriverInv, Next
  <2>2. FilesOK'
    BY <2>1, BootFiles, CallsFiles, StepsFiles, StutterFiles DEF Next
  <2>3. ASSUME TablesInFolders PROVE OwnersInv' /\ TreeOK'
    <3>1. OwnersInv /\ TreeOK
      BY <2>3 DEF StoreInv, DriverInv
    <3> QED
      BY <2>1, <2>3, <3>1, StoreInvAll
  <2> QED
    BY <2>1, <2>2, <2>3 DEF StoreInv, DriverInv, TablesInFolders
<1> QED
  BY <1>1, <1>2, PTL DEF Spec

(* read() hands out the file as it is stored.                              *)
THEOREM ReadsStoredCorrect == ASSUME TablesInFolders PROVE Spec => []ReadsStored
<1>1. StoreInv => ReadsStored
  <2> SUFFICES ASSUME StoreInv, pc = "read"
               PROVE  disk[cursor].data = Tree[req.parent][<<req.name, req.ext>>].blocks[i + 1]
    BY DEF ReadsStored
  <2>1. FAT32Inv /\ FilesOK /\ TreeOK
    BY DEF StoreInv, DriverInv
  <2>2. PICK e, c, p, k, size : /\ e = <<req.parent, slot>> /\ c = cursor /\ p = req.parent
                                /\ k = <<req.name, req.ext>> /\ size = req.size
    OBVIOUS
  <2>3. Store!ReadCode(k, p, size) = 0
    BY <2>1, <2>2 DEF TreeOK, CodesOK
  <2>4. p \in DOMAIN Tree
    BY <2>3 DEF Store!ReadCode
  <2>5. /\ e \in Live(dfat) /\ KeyOf(e) = k /\ e[1] = p
        /\ Len(StoredFrom[Start(e)]) = i + Len(StoredFrom[c])
        /\ \A j \in 1 .. Len(StoredFrom[c]) : StoredFrom[Start(e)][i + j] = StoredFrom[c][j]
    BY <2>1, <2>2 DEF FilesOK, ReadOK
  <2>6. e \in EntriesOf(p)
    BY <2>1, <2>5, VisibleType DEF EntriesOf, DeleteSteps
  <2>7. Tree[p][k] = Stored(e)
    BY <2>1, <2>4, <2>5, <2>6, TreeShows DEF Shows
  <2>8. Tree[p][k].blocks = StoredFrom[Start(e)]
    BY <2>7 DEF Stored, StoredAs, Start
  <2>9. c \in DataClusters
    BY <2>1, <2>2 DEF FAT32Inv, MemoryInv, WalkOnChain
  <2>10. Len(StoredFrom[c]) \in Nat /\ Len(StoredFrom[c]) >= 1 /\ StoredFrom[c][1] = disk[c].data
    BY <2>1, <2>9, StoredUnfold DEF FAT32Inv
  <2>11. StoredFrom[Start(e)][i + 1] = disk[c].data
    <3>1. 1 \in 1 .. Len(StoredFrom[c])
      BY <2>10
    <3> QED
      BY <2>5, <2>10, <3>1
  <2> QED
    BY <2>2, <2>8, <2>11
<1> QED
  BY <1>1, StoreInvCorrect, PTL

-----------------------------------------------------------------------------
(* The refinement, step by step.                                           *)

Code == IF Deleting THEN 0 ELSE ret

LEMMA InitStore == Init => Store!Init
<1> SUFFICES ASSUME Init PROVE Store!Init
  OBVIOUS
<1>1. pc = "off" /\ \A c \in DataClusters : disk[c] = ZeroImage
  BY DEF Init
<1>2. Visible = {} /\ ROOT \in DataClusters
  <2>1. Visible = {}
    BY <1>1 DEF Visible, Live, ZeroImage
  <2> QED
    BY <2>1, ConstantTypes
<1>3. Dirs = {}
  BY <1>1, <1>2 DEF Dirs, Homes, ZeroImage
<1>4. Tree = << >>
  BY <1>3, InvInit, EmptyTree
<1>5. ret = 0
  BY DEF Init
<1> QED
  BY <1>1, <1>4, <1>5 DEF Store!Init, Deleting

LEMMA FormatStore ==
  ASSUME FAT32Inv, FAT32Inv', FormatRoot
  PROVE  Store!Format
<1>1. Visible = {} /\ Visible' = {} /\ ~RootHome /\ RootHome'
  BY FormatRootSeen
<1>2. Dirs = {} /\ Dirs' = {ROOT}
  BY <1>1 DEF Dirs, Homes, RootHome
<1>3. Tree = << >>
  BY <1>2, EmptyTree
<1>4. Tree' = [p \in Dirs' |-> Tree'[p]] /\ Shows(Tree[ROOT], ROOT)'
  BY <1>2, TreeShowsNext
<1>5. DOMAIN Tree'[ROOT] = {}
  <2>1. EntriesOf(ROOT)' = {}
    BY <1>1 DEF EntriesOf
  <2> QED
    BY <1>4, <2>1 DEF Shows
<1>6. Tree'[ROOT] = << >>
  <2>1. PICK d : d = Tree'[ROOT]
    OBVIOUS
  <2>2. d = [k \in DOMAIN d |-> d[k]]
    BY <1>4, <2>1 DEF Shows
  <2> QED
    BY <1>5, <2>1, <2>2, EmptyFunction
<1>7. Tree' = [p \in {ROOT} |-> << >>]
  BY <1>2, <1>4, <1>6
<1>8. Code' = Code
  BY DEF FormatRoot, Code, Deleting
<1> QED
  BY <1>3, <1>7, <1>8 DEF Store!Format, Code

LEMMA UnseenStore ==
  ASSUME FAT32Inv, FAT32Inv', Unseen, Code' = Code
  PROVE  UNCHANGED Store!storeVars
<1>1. Tree' = Tree
  BY SameTree
<1> QED
  BY <1>1 DEF Store!storeVars, Code

LEMMA RefusedStore ==
  ASSUME FAT32Inv, FAT32Inv', NEW code, Fail(code), pc = "idle"
  PROVE  Tree' = Tree /\ Code' = code
<1>1. UNCHANGED <<dfat, disk>> /\ pc' = "idle" /\ ret' = code
  BY DEF Fail, diskVars
<1> QED
  BY <1>1, CallUnseen, SameTree DEF Code, Deleting

(* write() takes effect when the parent's table is written.                *)
LEMMA WriteStored ==
  ASSUME FAT32Inv, FAT32Inv', RequestOK, TreeOK, WriteDir
  PROVE  \E l \in Loads : Store!Write(<<req.name, req.ext>>, req.parent, l)
<1>0. pc = "write_dir" /\ pc' = "idle" /\ ret' = 0
  BY DEF WriteDir, Return
<1>1. PICK p, s, h, k, g, sub, r : /\ p = req.parent /\ s = slot /\ h = NewHead /\ g = <<p, s>>
                                   /\ k = <<req.name, req.ext>> /\ sub = NewFile.sub /\ r = req
  OBVIOUS
<1>2. /\ p \in DataClusters /\ s \in Slots /\ h \in DataClusters \ {ROOT}
      /\ \A e \in Visible : Start(e) # h
      /\ Visible' = Visible \cup {g} /\ g \notin Visible
      /\ \A e \in Visible : Same(e)
      /\ disk'[p].table[s] = NewFile /\ NewFile.first = h
      /\ NewFile.name = req.name /\ NewFile.ext = req.ext
      /\ dfat' = dfat
      /\ \A c \in DataClusters : StoredFrom'[c] = StoredFrom[c] /\ disk'[c].dir = disk[c].dir
      /\ \A c \in DataClusters : c # p => disk'[c] = disk[c]
  BY <1>1, WriteDirSeen
<1>3. PICK l \in Loads : req.size = l.size /\ req.buf = l.buf
  BY <1>0 DEF RequestOK, WriteSteps
<1>4. /\ StoredAs(NewFile) = Store!NewEntry(l, sub, h)
      /\ l.size = 0 => sub
      /\ disk[h].dir <=> Store!MakesTable(l)
      /\ disk[h].dir => dfat[h] = EOF /\ NoEntries(disk[h])
  <2>1. /\ StoredAs(NewFile) = Store!NewEntry(req, sub, h)
        /\ req.size = 0 => sub
        /\ disk[h].dir <=> Store!MakesTable(req)
        /\ disk[h].dir => dfat[h] = EOF /\ NoEntries(disk[h])
    BY <1>0, <1>1 DEF TreeOK, NewStoredOK
  <2>2. Store!NewEntry(req, sub, h) = Store!NewEntry(l, sub, h)
    BY <1>3 DEF Store!NewEntry, Store!Blocks, Store!Kept
  <2>3. Store!MakesTable(req) <=> Store!MakesTable(l)
    BY <1>3 DEF Store!MakesTable
  <2> QED
    BY <2>1, <2>2, <2>3, <1>3
<1>5. Store!WriteCode(k, p, l.size) = 0
  BY <1>0, <1>1, <1>3 DEF TreeOK, CodesOK, WriteSteps
<1>6. p \in Dirs /\ k \notin DOMAIN Tree[p]
  BY <1>5, TreeShows DEF Store!WriteCode
<1>7. p # h /\ h \notin Homes
  <2>1. h \notin Homes
    BY <1>2 DEF Homes
  <2> QED
    BY <2>1, <1>6 DEF Dirs
<1>8. Dirs' = Dirs \cup (IF Store!MakesTable(l) THEN {h} ELSE {})
  <2>1. Start(g)' = h /\ \A e \in Visible : Start(e)' = Start(e)
    <3>1. Start(g)' = h
      BY <1>1, <1>2 DEF Start
    <3> QED
      BY <3>1, <1>2, SameStored
  <2>2. Homes' = Homes \cup {h}
    BY <2>1, <1>2 DEF Homes
  <2>3. \A c \in Homes : c \in DataClusters
    BY VisibleType, ConstantTypes DEF Homes
  <2>4. \A c \in Homes' : (dfat'[c] = EOF /\ disk'[c].dir) <=> (dfat[c] = EOF /\ disk[c].dir)
    BY <2>2, <2>3, <1>2
  <2> QED
    BY <2>2, <2>4, <1>4, <1>7 DEF Dirs
<1>9. KeyOf(g)' = k /\ Stored(g)' = Store!NewEntry(l, sub, h)
  <2>1. PICK f : f = NewFile
    OBVIOUS
  <2>2. disk'[g[1]].table[g[2]] = f
    BY <2>1, <1>1, <1>2
  <2>3. KeyOf(g)' = k
    BY <2>1, <2>2, <1>1, <1>2 DEF KeyOf
  <2>4. Stored(g)' = StoredAs(f)'
    BY <2>2 DEF Stored
  <2>5. disk'[h] = disk[h] /\ StoredFrom'[h] = StoredFrom[h] /\ f.first = h
    BY <2>1, <1>2, <1>7
  <2>6. StoredAs(f)' = StoredAs(f)
    BY <2>5 DEF StoredAs, HasEntries, FreeSlots
  <2> QED
    BY <2>1, <2>3, <2>4, <2>6, <1>4
<1>10. ASSUME NEW d \in Dirs', d # p
       PROVE  Tree'[d] = IF d \in DOMAIN Tree THEN Tree[d] ELSE << >>
  <2>1. EntriesOf(d)' = EntriesOf(d)
    BY <1>1, <1>2, <1>10 DEF EntriesOf
  <2>2. CASE d \in Dirs
    <3>1. Shows(Tree[d], d) /\ Shows(Tree[d], d)' /\ DOMAIN Tree = Dirs
      BY <2>2, <1>10, TreeShows, TreeShowsNext
    <3>2. \A e \in EntriesOf(d) : Same(e)
      BY <1>2 DEF EntriesOf
    <3>3. Tree'[d] = Tree[d]
      BY <2>1, <3>1, <3>2, SameShown
    <3> QED
      BY <2>2, <3>1, <3>3
  <2>3. CASE d \notin Dirs
    <3>1. d = h /\ disk[h].dir
      BY <2>3, <1>4, <1>8, <1>10
    <3>2. EntriesOf(h) = {}
      BY <3>1, <1>4, VisibleType DEF EntriesOf, NoEntries
    <3>3. Shows(Tree[d], d)'
      BY <1>10, TreeShowsNext
    <3>4. PICK f : f = Tree'[d]
      OBVIOUS
    <3>5. DOMAIN f = {} /\ f = [x \in DOMAIN f |-> f[x]]
      BY <2>1, <3>1, <3>2, <3>3, <3>4 DEF Shows
    <3>6. f = << >>
      BY <3>5, EmptyFunction
    <3> QED
      BY <2>3, <3>4, <3>6, TreeShows
  <2> QED
    BY <2>2, <2>3
<1>11. Tree'[p] = Store!Put(Tree[p], k, Store!NewEntry(l, sub, h))
  <2>1. EntriesOf(p)' = EntriesOf(p) \cup {g} /\ g \notin EntriesOf(p)
    BY <1>1, <1>2 DEF EntriesOf
  <2>2. \A e \in EntriesOf(p) : KeyOf(e)' = KeyOf(e) /\ Stored(e)' = Stored(e)
    BY <1>2, SameStored DEF EntriesOf
  <2>3. Shows(Tree[p], p) /\ Shows(Tree[p], p)'
    BY <1>6, <1>8, TreeShows, TreeShowsNext
  <2>4. PICK d, f : d = Tree[p] /\ f = Tree'[p]
    OBVIOUS
  <2>5. /\ DOMAIN d = {KeyOf(e) : e \in EntriesOf(p)}
        /\ \A e \in EntriesOf(p) : d[KeyOf(e)] = Stored(e)
    BY <2>3, <2>4 DEF Shows
  <2>6. /\ DOMAIN f = {KeyOf(e)' : e \in EntriesOf(p)'}
        /\ \A e \in EntriesOf(p)' : f[KeyOf(e)'] = Stored(e)'
        /\ f = [x \in DOMAIN f |-> f[x]]
    BY <2>3, <2>4 DEF Shows
  <2>7. DOMAIN f = DOMAIN d \cup {k}
    BY <2>1, <2>2, <2>5, <2>6, <1>9
  <2>8. f[k] = Store!NewEntry(l, sub, h)
    BY <2>1, <2>6, <1>9
  <2>9. \A x \in DOMAIN d : f[x] = d[x]
    <3> SUFFICES ASSUME NEW x \in DOMAIN d PROVE f[x] = d[x]
      OBVIOUS
    <3>1. PICK e \in EntriesOf(p) : x = KeyOf(e)
      BY <2>5
    <3> QED
      BY <3>1, <2>1, <2>2, <2>5, <2>6
  <2>10. f = [x \in DOMAIN d \cup {k} |-> IF x = k THEN Store!NewEntry(l, sub, h) ELSE d[x]]
    BY <2>6, <2>7, <2>8, <2>9
  <2> QED
    BY <2>4, <2>10 DEF Store!Put
<1>12. Tree' = [d \in DOMAIN Tree \cup (IF Store!MakesTable(l) THEN {h} ELSE {}) |->
                  IF d = p THEN Store!Put(Tree[p], k, Store!NewEntry(l, sub, h))
                  ELSE IF d \in DOMAIN Tree THEN Tree[d]
                  ELSE << >>]
  <2>1. DOMAIN Tree = Dirs /\ Tree' = [d \in Dirs' |-> Tree'[d]]
    BY TreeShows, TreeShowsNext
  <2> QED
    BY <2>1, <1>8, <1>10, <1>11
<1>13. h \in DataClusters \ ({ROOT} \cup {Store!EntryAt(q).id : q \in Store!Places})
  <2>1. ASSUME NEW q \in Store!Places PROVE Store!EntryAt(q).id # h
    <3>1. PICK e \in Visible : Store!EntryAt(q) = Stored(e)
      BY PlaceIsEntry
    <3>2. Stored(e).id = Start(e)
      BY DEF Stored, StoredAs, Start
    <3> QED
      BY <3>1, <3>2, <1>2
  <2> QED
    BY <2>1, <1>2
<1>14. sub \in BOOLEAN
  <2>1. dirbuf \in Image
    BY DEF FAT32Inv, TypeOK
  <2>2. dirbuf.table[s] \in Entry
    BY <2>1, <1>2 DEF Image
  <2> QED
    BY <2>2, <1>1 DEF NewFile, Entry
<1>15. Code' = 0
  BY <1>0 DEF Code, Deleting
<1>16. Store!Write(k, p, l)
  BY <1>4, <1>5, <1>12, <1>13, <1>14, <1>15 DEF Store!Write, Code
<1> QED
  BY <1>1, <1>16

(* delete() takes effect when it is accepted.                              *)
LEMMA DeleteStored ==
  ASSUME FAT32Inv, FAT32Inv', OwnersInv, TreeOK,
         NEW n \in Names, NEW e \in Exts, NEW p \in Clusters, DeleteStart(n, e, p)
  PROVE  Store!Delete(<<n, e>>, p)
<1>0. pc = "idle" /\ pc' = "delete" /\ DeleteCode(n, e, p) = 0
  BY DEF DeleteStart
<1>1. PICK s, g, h, k : /\ s = Min(Matches(disk[p], n, e)) /\ g = <<p, s>>
                        /\ h = Start(g) /\ k = <<n, e>>
  OBVIOUS
<1>2. /\ p \in DataClusters /\ s \in Slots
      /\ g \in Visible /\ Visible' = Visible \ {g}
      /\ disk[p].table[s].name = n /\ disk[p].table[s].ext = e
      /\ UNCHANGED <<dfat, disk>>
      /\ \A x \in Visible : Same(x)
  BY <1>1, DeleteStartSeen
<1>3. Store!DeleteCode(k, p) = 0
  BY <1>0, <1>1, DeleteCodes DEF TreeOK
<1>4. p \in Dirs /\ k \in DOMAIN Tree[p]
  BY <1>3, TreeShows DEF Store!DeleteCode
<1>5. g \in EntriesOf(p) /\ KeyOf(g) = k
  BY <1>1, <1>2 DEF EntriesOf, KeyOf
<1>6. Tree[p][k].id = h
  <2>1. Tree[p][k] = Stored(g)
    BY <1>4, <1>5, TreeShows DEF Shows
  <2> QED
    BY <2>1, <1>1 DEF Stored, StoredAs, Start
<1>7. h # ROOT /\ \A x \in Visible : x # g => Start(x) # h
  <2>1. Visible \subseteq Live(dfat)
    BY VisibleType
  <2> QED
    BY <2>1, <1>1, <1>2, VisibleType DEF FAT32Inv, ImageInv, NoCrossLinks
<1>8. Dirs' = Dirs \ {h}
  <2>1. \A x \in Visible : Start(x)' = Start(x)
    BY <1>2, SameStored
  <2>2. Homes' = Homes \ {h}
    BY <2>1, <1>1, <1>2, <1>7 DEF Homes
  <2> QED
    BY <2>2, <1>2 DEF Dirs
<1>9. ASSUME NEW d \in Dirs', d # p
      PROVE  Tree'[d] = Tree[d]
  <2>1. EntriesOf(d)' = EntriesOf(d) /\ \A x \in EntriesOf(d) : Same(x)
    BY <1>1, <1>2, <1>9 DEF EntriesOf
  <2>2. Shows(Tree[d], d) /\ Shows(Tree[d], d)'
    BY <1>8, TreeShows, TreeShowsNext
  <2> QED
    BY <2>1, <2>2, SameShown
<1>10. ASSUME p \in Dirs'
       PROVE  Tree'[p] = Store!Remove(Tree[p], k)
  <2>1. EntriesOf(p)' = EntriesOf(p) \ {g}
    BY <1>2 DEF EntriesOf
  <2>2. \A x \in EntriesOf(p) : KeyOf(x)' = KeyOf(x) /\ Stored(x)' = Stored(x)
    BY <1>2, SameStored DEF EntriesOf
  <2>3. Shows(Tree[p], p) /\ Shows(Tree[p], p)'
    BY <1>4, <1>10, TreeShows, TreeShowsNext
  <2>4. PICK d, f : d = Tree[p] /\ f = Tree'[p]
    OBVIOUS
  <2>5. /\ DOMAIN d = {KeyOf(x) : x \in EntriesOf(p)}
        /\ \A x \in EntriesOf(p) : d[KeyOf(x)] = Stored(x)
    BY <2>3, <2>4 DEF Shows
  <2>6. /\ DOMAIN f = {KeyOf(x)' : x \in EntriesOf(p)'}
        /\ \A x \in EntriesOf(p)' : f[KeyOf(x)'] = Stored(x)'
        /\ f = [y \in DOMAIN f |-> f[y]]
    BY <2>3, <2>4 DEF Shows
  <2>7. \A x \in EntriesOf(p) : x # g => KeyOf(x) # k
    BY <1>5, OneKey
  <2>8. DOMAIN f = DOMAIN d \ {k}
    BY <2>1, <2>2, <2>5, <2>6, <2>7, <1>5
  <2>9. \A y \in DOMAIN d \ {k} : f[y] = d[y]
    <3> SUFFICES ASSUME NEW y \in DOMAIN d \ {k} PROVE f[y] = d[y]
      OBVIOUS
    <3>1. PICK x \in EntriesOf(p) : y = KeyOf(x)
      BY <2>5
    <3>2. x \in EntriesOf(p)'
      BY <3>1, <2>1, <1>5
    <3> QED
      BY <3>1, <3>2, <2>2, <2>5, <2>6
  <2>10. f = [y \in DOMAIN d \ {k} |-> d[y]]
    BY <2>6, <2>8, <2>9
  <2> QED
    BY <2>4, <2>10 DEF Store!Remove
<1>11. Tree' = [d \in DOMAIN Tree \ {Tree[p][k].id} |->
                  IF d = p THEN Store!Remove(Tree[p], k) ELSE Tree[d]]
  <2>1. DOMAIN Tree = Dirs /\ Tree' = [d \in Dirs' |-> Tree'[d]]
    BY TreeShows, TreeShowsNext
  <2> QED
    BY <2>1, <1>6, <1>8, <1>9, <1>10
<1>12. Code' = 0
  BY <1>0 DEF Code, Deleting
<1> QED
  BY <1>1, <1>3, <1>11, <1>12 DEF Store!Delete, Code

LEMMA BootStore ==
  ASSUME FAT32Inv, FAT32Inv', Boot
  PROVE  [Store!Next]_Store!storeVars
<1>1. ASSUME FormatRoot PROVE Store!Next
  BY <1>1, FormatStore DEF Store!Next
<1>2. ASSUME WriteSignature \/ FormatFat \/ Mount PROVE UNCHANGED Store!storeVars
  <2>1. Code' = Code
    BY <1>2 DEF WriteSignature, FormatFat, Mount, Code, Deleting
  <2> QED
    BY <1>2, <2>1, BootUnseen, UnseenStore
<1> QED
  BY <1>1, <1>2 DEF Boot

LEMMA CallsStore ==
  ASSUME FAT32Inv, FAT32Inv', OwnersInv, TreeOK, Calls
  PROVE  [Store!Next]_Store!storeVars
<1>1. PICK n \in Names, e \in Exts, p \in Clusters :
        \/ \E l \in Loads : WriteRefused(n, e, p, l) \/ WriteStart(n, e, p, l)
        \/ DeleteRefused(n, e, p) \/ DeleteStart(n, e, p)
        \/ \E size \in ReadSizes :
             \/ ReadRefused(n, e, p, size) \/ ReadStart(n, e, p, size)
             \/ ReadDirectory(n, p, size)
  BY DEF Calls
<1>2. PICK k : k = <<n, e>> /\ k \in Names \X Exts /\ <<k[1], NO_EXT>> = <<n, NO_EXT>>
  <2>1. <<n, e>> \in Names \X Exts /\ <<n, e>>[1] = n
    OBVIOUS
  <2> QED
    BY <2>1
<1>3. p \in DataClusters \cup {0, 1}
  BY DEF Clusters, DataClusters, ROOT
<1>4. ASSUME NEW l \in Loads, WriteRefused(n, e, p, l) PROVE Store!Next
  <2>1. /\ pc = "idle" /\ WriteCode(n, e, p, l.size) # 0
        /\ WriteCode(n, e, p, l.size) = Store!WriteCode(k, p, l.size)
    BY <1>2, <1>4, WriteCodes, CallerAssumption DEF WriteRefused
  <2>2. Tree' = Tree /\ Code' = Store!WriteCode(k, p, l.size)
    BY <1>4, <2>1, RefusedStore DEF WriteRefused
  <2>3. Store!Refuse(Store!WriteCode(k, p, l.size))
    BY <2>1, <2>2 DEF Store!Refuse, Code
  <2> QED
    BY <1>2, <1>3, <2>3 DEF Store!Next
<1>5. ASSUME DeleteRefused(n, e, p) PROVE Store!Next
  <2>1. /\ pc = "idle" /\ DeleteCode(n, e, p) # 0
        /\ DeleteCode(n, e, p) = Store!DeleteCode(k, p)
    BY <1>2, <1>5, DeleteCodes DEF DeleteRefused, TreeOK
  <2>2. Tree' = Tree /\ Code' = Store!DeleteCode(k, p)
    BY <1>5, <2>1, RefusedStore DEF DeleteRefused
  <2>3. Store!Refuse(Store!DeleteCode(k, p))
    BY <2>1, <2>2 DEF Store!Refuse, Code
  <2> QED
    BY <1>2, <1>3, <2>3 DEF Store!Next
<1>6. ASSUME NEW size \in ReadSizes, ReadRefused(n, e, p, size) PROVE Store!Next
  <2>1. pc = "idle" /\ ReadCode(n, e, p, size) = Store!ReadCode(k, p, size)
    BY <1>2, <1>6, ReadCodes, CallerAssumption DEF ReadRefused
  <2>2. Tree' = Tree /\ Code' = Store!ReadCode(k, p, size)
    BY <1>6, <2>1, RefusedStore DEF ReadRefused
  <2>3. Store!Read(k, p, size)
    BY <2>1, <2>2 DEF Store!Read, Code
  <2> QED
    BY <1>2, <1>3, <2>3 DEF Store!Next
<1>7. ASSUME NEW size \in ReadSizes, ReadDirectory(n, p, size) PROVE Store!Next
  <2>1. pc = "idle" /\ ReadDirectoryCode(n, p, size) = Store!ReadDirectoryCode(<<n, NO_EXT>>, p, size)
    BY <1>7, ReadDirectoryCodes, CallerAssumption DEF ReadDirectory
  <2>2. Tree' = Tree /\ Code' = Store!ReadDirectoryCode(<<n, NO_EXT>>, p, size)
    BY <1>7, <2>1, RefusedStore DEF ReadDirectory
  <2>3. Store!ReadDirectory(<<k[1], NO_EXT>>, p, size)
    BY <1>2, <2>1, <2>2 DEF Store!ReadDirectory, Code
  <2> QED
    BY <1>2, <1>3, <2>3 DEF Store!Next
<1>8. ASSUME DeleteStart(n, e, p) PROVE Store!Next
  <2>1. Store!Delete(k, p)
    BY <1>2, <1>8, DeleteStored
  <2> QED
    BY <1>2, <1>3, <2>1 DEF Store!Next
<1>9. ASSUME NEW l \in Loads, WriteStart(n, e, p, l) PROVE UNCHANGED Store!storeVars
  <2>1. UNCHANGED <<dfat, disk, ret>> /\ pc' = "write" /\ pc = "idle"
    BY <1>9 DEF WriteStart, diskVars
  <2> QED
    BY <2>1, CallUnseen, UnseenStore DEF Code, Deleting
<1>10. ASSUME NEW size \in ReadSizes, ReadStart(n, e, p, size) PROVE UNCHANGED Store!storeVars
  <2>1. UNCHANGED <<dfat, disk, ret>> /\ pc' = "read" /\ pc = "idle"
    BY <1>10 DEF ReadStart, diskVars
  <2> QED
    BY <2>1, CallUnseen, UnseenStore DEF Code, Deleting
<1> QED
  BY <1>1, <1>4, <1>5, <1>6, <1>7, <1>8, <1>9, <1>10

LEMMA StepsStore ==
  ASSUME FAT32Inv, FAT32Inv', OwnersInv, FilesOK, TreeOK, Steps
  PROVE  [Store!Next]_Store!storeVars
<1>0. RequestOK
  BY DEF FilesOK
<1>1. ASSUME WriteDir PROVE Store!Next
  <2>1. PICK k, p : k = <<req.name, req.ext>> /\ p = req.parent
    OBVIOUS
  <2>2. k \in Names \X Exts /\ p \in DataClusters
    BY <1>0, <1>1, <2>1 DEF RequestOK, WriteDir, WriteSteps, FAT32Inv, CallOK
  <2>3. \E l \in Loads : Store!Write(k, p, l)
    BY <1>0, <1>1, <2>1, WriteStored
  <2> QED
    BY <2>2, <2>3 DEF Store!Next
<1>2. ASSUME ReadBlock, pc' = "idle" PROVE Store!Next
  <2>1. pc = "read" /\ Code' = 0
    BY <1>2 DEF ReadBlock, Return, Code, Deleting
  <2>2. PICK k, p, size : k = <<req.name, req.ext>> /\ p = req.parent /\ size = req.size
    OBVIOUS
  <2>3. k \in Names \X Exts /\ p \in DataClusters /\ size \in ReadSizes
    BY <1>0, <2>1, <2>2 DEF RequestOK, FAT32Inv, CallOK
  <2>4. Store!ReadCode(k, p, size) = 0
    BY <2>1, <2>2 DEF TreeOK, CodesOK
  <2>5. Tree' = Tree
    BY <1>0, <1>2, StepUnseen, SameTree
  <2>6. Store!Read(k, p, size)
    BY <2>1, <2>4, <2>5 DEF Store!Read, Code
  <2> QED
    BY <2>3, <2>6 DEF Store!Next
<1>3. ASSUME WriteBlock \/ WriteFat \/ FreeCluster \/ DeleteFat \/ DeleteDir \/ (ReadBlock /\ pc' # "idle")
      PROVE  UNCHANGED Store!storeVars
  <2>1. Unseen
    BY <1>0, <1>3, StepUnseen
  <2>2. Code' = Code
    BY <1>3 DEF Code, Deleting, WriteBlock, WriteFat, FreeCluster, DeleteFat, DeleteDir, ReadBlock, Return
  <2> QED
    BY <2>1, <2>2, UnseenStore
<1> QED
  BY <1>1, <1>2, <1>3 DEF Steps

(* The driver does in many steps what the abstract store does in one.      *)
THEOREM ImplementsFileStoreCorrect == ASSUME TablesInFolders PROVE Spec => ImplementsFileStore
<1>1. Init => Store!Init
  BY InitStore
<1>2. StoreInv /\ StoreInv' /\ [Next]_vars => [Store!Next]_Store!storeVars
  <2> SUFFICES ASSUME StoreInv, StoreInv', [Next]_vars PROVE [Store!Next]_Store!storeVars
    OBVIOUS
  <2>1. FAT32Inv /\ FAT32Inv' /\ OwnersInv /\ FilesOK /\ TreeOK
    BY DEF StoreInv, DriverInv
  <2>2. ASSUME UNCHANGED vars PROVE UNCHANGED Store!storeVars
    <3>1. Code' = Code /\ Doomed' = Doomed /\ UNCHANGED <<dfat, disk>>
      BY <2>2 DEF vars, Code, Deleting, Doomed
    <3> QED
      BY <2>1, <3>1, QuietUnseen, UnseenStore
  <2> QED
    BY <2>1, <2>2, BootStore, CallsStore, StepsStore DEF Next
<1> QED
  BY <1>1, <1>2, StoreInvCorrect, PTL DEF Spec, ImplementsFileStore, Store!Spec
-----------------------------------------------------------------------------
(* What an abstract store promises of itself, the driver keeps.            *)

Laws == INSTANCE FileStoreProofs WITH
  dirs <- Tree, ret <- IF Deleting THEN 0 ELSE ret,
  Ids <- DataClusters, BLOCK <- CLUSTER_SIZE,
  CAPACITY <- Cardinality(DataClusters) - 1, SLOTS <- Cardinality(Slots)

LEMMA LawsCodes ==
  /\ \A k, p, size : Laws!WriteCode(k, p, size) = Store!WriteCode(k, p, size)
  /\ \A k, p : Laws!DeleteCode(k, p) = Store!DeleteCode(k, p)
  /\ \A k, p, size : Laws!ReadCode(k, p, size) = Store!ReadCode(k, p, size)
  /\ \A k, p, size : Laws!ReadDirectoryCode(k, p, size) = Store!ReadDirectoryCode(k, p, size)
<1>1. \A S : Laws!Cardinality(S) = Store!Cardinality(S)
  BY DEF Laws!Cardinality, Store!Cardinality
<1>2. Laws!Occupied = Store!Occupied
  BY DEF Laws!Occupied, Store!Occupied, Laws!Places, Store!Places, Laws!EntryAt, Store!EntryAt
<1>3. Laws!Free = Store!Free
  BY <1>1, <1>2 DEF Laws!Free, Store!Free
<1>4. \A size : Laws!Blocks(size) = Store!Blocks(size)
  BY DEF Laws!Blocks, Store!Blocks
<1>5. \A k, p, size : Laws!WriteCode(k, p, size) = Store!WriteCode(k, p, size)
  BY <1>1, <1>3, <1>4 DEF Laws!WriteCode, Store!WriteCode
<1> QED
  BY <1>5 DEF Laws!DeleteCode, Store!DeleteCode, Laws!ReadCode, Store!ReadCode,
              Laws!ReadDirectoryCode, Store!ReadDirectoryCode

LEMMA LawsWrite ==
  \A k, p, l : Store!Write(k, p, l) => Laws!Write(k, p, l)
<1>1. Laws!Places = Store!Places /\ \A q : Laws!EntryAt(q) = Store!EntryAt(q)
  BY DEF Laws!Places, Store!Places, Laws!EntryAt, Store!EntryAt
<1>2. \A l, sub, id : Laws!NewEntry(l, sub, id) = Store!NewEntry(l, sub, id)
  BY DEF Laws!NewEntry, Store!NewEntry, Laws!Blocks, Store!Blocks, Laws!Kept, Store!Kept,
         Laws!LooksFilled, Store!LooksFilled
<1>3. \A d, k, e : Laws!Put(d, k, e) = Store!Put(d, k, e)
  BY DEF Laws!Put, Store!Put
<1>4. \A l : Laws!MakesTable(l) = Store!MakesTable(l)
  BY DEF Laws!MakesTable, Store!MakesTable
<1> QED
  BY <1>1, <1>2, <1>3, <1>4, LawsCodes DEF Laws!Write, Store!Write

LEMMA LawsSpec == Store!Spec => Laws!Spec
<1>1. Store!Init => Laws!Init
  BY DEF Store!Init, Laws!Init
<1>2. Store!Next => Laws!Next
  <2>1. Store!Format => Laws!Format
    BY DEF Store!Format, Laws!Format
  <2>2. \A code : Store!Refuse(code) => Laws!Refuse(code)
    BY DEF Store!Refuse, Laws!Refuse
  <2>3. \A k, p : Store!Delete(k, p) => Laws!Delete(k, p)
    BY LawsCodes DEF Store!Delete, Laws!Delete, Store!Remove, Laws!Remove
  <2>4. \A k, p, size : Store!Read(k, p, size) => Laws!Read(k, p, size)
    BY LawsCodes DEF Store!Read, Laws!Read
  <2>5. \A k, p, size : Store!ReadDirectory(k, p, size) => Laws!ReadDirectory(k, p, size)
    BY LawsCodes DEF Store!ReadDirectory, Laws!ReadDirectory
  <2> QED
    BY <2>1, <2>2, <2>3, <2>4, <2>5, LawsCodes, LawsWrite DEF Store!Next, Laws!Next
<1>3. [Store!Next]_Store!storeVars => [Laws!Next]_Laws!storeVars
  BY <1>2 DEF Store!storeVars, Laws!storeVars
<1> QED
  BY <1>1, <1>3, PTL DEF Store!Spec, Laws!Spec

LEMMA StoreSizes == Laws!Sizes
<1>1. Cardinality(DataClusters) - 1 \in Nat /\ Cardinality(Slots) \in Nat
  <2>1. IsFiniteSet(DataClusters) /\ IsFiniteSet(Slots)
    BY FS_Interval, SizeAssumption DEF DataClusters, Slots, ROOT
  <2>2. DataClusters # {}
    BY ConstantTypes
  <2> QED
    BY <2>1, <2>2, FS_CardinalityType, FS_EmptySet
<1> QED
  BY <1>1, SizeAssumption, CallerAssumption DEF Laws!Sizes

(* The driver's files and folders are a tree in which each folder can be   *)
(* reached from the root, in one way; what they store is no more than the  *)
(* storage and the tables have room for; and a step of a call touches one  *)
(* entry and what it stores.                                               *)
THEOREM StoreLawsCorrect ==
  ASSUME TablesInFolders
  PROVE  Spec => []Laws!Rooted /\ []Laws!WithinBounds /\ Laws!OneEntryAtATime
<1>1. Spec => Laws!Spec
  BY ImplementsFileStoreCorrect, LawsSpec, PTL DEF ImplementsFileStore
<1>2. Laws!Sizes
  BY StoreSizes
<1>3. Laws!Spec => []Laws!WithinBounds
  BY <1>2, Laws!WithinBoundsCorrect
<1> QED
  BY <1>1, <1>3, Laws!RootedCorrect, Laws!OneEntryCorrect, PTL

(* No folder is cut off by what write() and delete() do: delete() refuses  *)
(* one with entries, and the cluster of a new one was nobody's.            *)
THEOREM FoldersReachableCorrect == ASSUME TablesInFolders PROVE Spec => []FoldersReachable
<1>1. StoreInv /\ Laws!Rooted => FoldersReachable
  <2> SUFFICES ASSUME StoreInv, Laws!Rooted, pc = "idle",
                      NEW S \in SUBSET {c \in DataClusters \ {ROOT} : dfat[c] = EOF /\ disk[c].dir},
                      S # {}
               PROVE  \E e \in Live(dfat) : e[1] \notin S /\ Start(e) \in S
    BY DEF FoldersReachable
  <2>1. FAT32Inv /\ OwnersInv
    BY DEF StoreInv, DriverInv
  <2>2. DOMAIN Tree = Dirs /\ S \in SUBSET (DOMAIN Tree \ {ROOT}) /\ Visible = Live(dfat)
    BY <2>1, TreeShows, DirsIdle
  <2>3. Laws!Places = Store!Places /\ \A q : Laws!EntryAt(q) = Store!EntryAt(q)
    BY DEF Laws!Places, Store!Places, Laws!EntryAt, Store!EntryAt
  <2>4. PICK q \in Store!Places : q[1] \notin S /\ Store!EntryAt(q).id \in S
    <3>1. Tree # << >>
      BY <2>2
    <3> QED
      BY <2>2, <2>3, <3>1 DEF Laws!Rooted
  <2>5. PICK e \in Visible : q = PlaceOf(e) /\ Store!EntryAt(q) = Stored(e)
    BY <2>1, PlaceIsEntry
  <2>6. e[1] = q[1] /\ Start(e) = Store!EntryAt(q).id
    BY <2>5 DEF PlaceOf, Stored, StoredAs, Start
  <2> QED
    BY <2>2, <2>4, <2>5, <2>6
<1>2. Spec => []Laws!Rooted
  BY StoreLawsCorrect, PTL
<1> QED
  BY <1>1, <1>2, StoreInvCorrect, PTL

=============================================================================
