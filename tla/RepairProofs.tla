---------------------------- MODULE RepairProofs ----------------------------
(***************************************************************************)
(* The package repair/: MerkleFinds and TypeOK of the anti-entropy manager *)
(* for any nodes, keys and bucket sizes, and what compare says about       *)
(* version vectors (V) for any number of replicas and updates.             *)
(*                                                                         *)
(* The trees are built and walked by recursive functions.  What these      *)
(* compute is proved by induction on their levels: the library's induction *)
(* theorems take a predicate, which the provers cannot instantiate, so     *)
(* Induction states the principle for a set of numbers.                    *)
(***************************************************************************)
EXTENDS Repair, FiniteSetTheorems, SequenceTheorems, WellFoundedInduction, TLAPS

CONSTANT MaxUpdates
VARIABLES vector, sent, known

V == INSTANCE VersionVectors

-----------------------------------------------------------------------------
(* Numbers *)

\* A set of numbers has a least element.
LEMMA Least ==
    ASSUME NEW U \in SUBSET Nat, U # {}
    PROVE  \E x \in U : \A y \in U : x <= y
  <1>1. PICK n \in U : \A m \in U : <<m, n>> \notin OpToRel(<, Nat)
    BY NatLessThanWellFounded, WFMin, Zenon
  <1>2. \A m \in U : ~(m < n)
    BY <1>1 DEF OpToRel
  <1> QED BY <1>2

\* Induction on the natural numbers, for a set.
LEMMA Induction ==
    ASSUME NEW S, 0 \in S, \A n \in Nat : n \in S => n + 1 \in S
    PROVE  Nat \subseteq S
  <1> SUFFICES ASSUME Nat \ S # {} PROVE FALSE
    OBVIOUS
  <1>1. PICK n \in Nat \ S : \A m \in Nat \ S : n <= m
    BY Least
  <1>2. n - 1 \in Nat /\ n - 1 \notin Nat \ S
    BY <1>1
  <1> QED BY <1>2

\* A finite set of numbers has a greatest element.
LEMMA Greatest ==
    ASSUME NEW U \in SUBSET Nat, IsFiniteSet(U), U # {}
    PROVE  \E x \in U : \A y \in U : y <= x
  <1> DEFINE P(n) == \A S \in SUBSET Nat :
                        IsFiniteSet(S) /\ S # {} /\ Cardinality(S) = n
                            => \E x \in S : \A y \in S : y <= x
  <1> DEFINE I == {n \in Nat : P(n)}
  <1>1. P(0)
    BY FS_EmptySet
  <1>2. ASSUME NEW n \in Nat, P(n)
        PROVE  P(n + 1)
    <2> SUFFICES ASSUME NEW S \in SUBSET Nat, IsFiniteSet(S), S # {}, Cardinality(S) = n + 1
                 PROVE  \E x \in S : \A y \in S : y <= x
      OBVIOUS
    <2>1. PICK x \in S : TRUE
      OBVIOUS
    <2>2. IsFiniteSet(S \ {x}) /\ Cardinality(S \ {x}) = n /\ S \ {x} \in SUBSET Nat
      <3>1. IsFiniteSet(S \ {x}) /\ Cardinality(S \ {x}) = Cardinality(S) - 1
        BY <2>1, FS_RemoveElement
      <3> QED BY <3>1
    <2>3. CASE S \ {x} = {}
      BY <2>3
    <2>4. CASE S \ {x} # {}
      BY <1>2, <2>1, <2>2, <2>4
    <2> QED BY <2>3, <2>4
  <1> HIDE DEF P
  <1>3. 0 \in I /\ \A n \in Nat : n \in I => n + 1 \in I
    BY <1>1, <1>2
  <1> HIDE DEF I
  <1>4. Nat \subseteq I
    BY <1>3, Induction
  <1>5. P(Cardinality(U))
    BY <1>4, FS_CardinalityType DEF I
  <1> QED BY <1>5 DEF P

\* The levels of a tree are those of _build_tree: the leaves, then parents of
\* the level below.
LEMMA LevelsDef ==
    ASSUME NEW nodes, NEW N \in Nat, Len(nodes) - 1 = N
    PROVE  /\ Levels(nodes)[0] = nodes
           /\ \A h \in 1 .. N : Levels(nodes)[h] = Parents(Levels(nodes)[h - 1])
  <1> DEFINE Is(f, n) == f = [h \in 0 .. n |-> IF h = 0 THEN nodes ELSE Parents(f[h - 1])]
  <1> DEFINE I == {n \in Nat : \E f : Is(f, n)}
  <1>1. 0 \in I
    <2>1. Is([h \in 0 .. 0 |-> nodes], 0)
      OBVIOUS
    <2> QED BY <2>1
  <1>2. ASSUME NEW n \in Nat, n \in I
        PROVE  n + 1 \in I
    <2>1. PICK f : Is(f, n)
      BY <1>2
    <2> DEFINE g == [h \in 0 .. n + 1 |-> IF h = n + 1 THEN Parents(f[n]) ELSE f[h]]
    <2>2. ASSUME NEW h \in 0 .. n + 1
          PROVE  g[h] = IF h = 0 THEN nodes ELSE Parents(g[h - 1])
      <3>1. CASE h = n + 1
        BY <3>1
      <3>2. CASE h # n + 1
        BY <3>2, <2>1
      <3> QED BY <3>1, <3>2
    <2>3. Is(g, n + 1)
      BY <2>2
    <2> HIDE DEF Is, g
    <2> QED BY <2>3
  <1> HIDE DEF I
  <1>3. N \in I
    BY <1>1, <1>2, Induction
  <1>4. \E f : Is(f, N)
    BY <1>3 DEF I
  <1>5. Is(Levels(nodes), N)
    BY <1>4 DEF Levels
  <1> QED BY <1>5

\* The walk of _compare_nodes: from the roots down.
LEMMA WalkDef ==
    ASSUME NEW start, NEW N \in Nat
    PROVE  /\ Walk(start, N)[0] = start
           /\ \A i \in 1 .. N :
                 Walk(start, N)[i] = WalkDown(Walk(start, N)[i - 1])
  <1> DEFINE Is(f, n) == f = [i \in 0 .. n |->
                                IF i = 0 THEN start ELSE WalkDown(f[i - 1])]
  <1> DEFINE I == {n \in Nat : \E f : Is(f, n)}
  <1>1. 0 \in I
    <2>1. Is([h \in 0 .. 0 |-> start], 0)
      OBVIOUS
    <2> QED BY <2>1
  <1>2. ASSUME NEW n \in Nat, n \in I
        PROVE  n + 1 \in I
    <2>1. PICK f : Is(f, n)
      BY <1>2
    <2> DEFINE g == [h \in 0 .. n + 1 |-> IF h = n + 1 THEN WalkDown(f[n]) ELSE f[h]]
    <2>2. ASSUME NEW h \in 0 .. n + 1
          PROVE  g[h] = IF h = 0 THEN start ELSE WalkDown(g[h - 1])
      <3>1. CASE h = n + 1
        BY <3>1
      <3>2. CASE h # n + 1
        BY <3>2, <2>1
      <3> QED BY <3>1, <3>2
    <2>3. Is(g, n + 1)
      BY <2>2
    <2> HIDE DEF Is, g
    <2> QED BY <2>3
  <1> HIDE DEF I
  <1>3. N \in I
    BY <1>1, <1>2, Induction
  <1>4. \E f : Is(f, N)
    BY <1>3 DEF I
  <1>5. Is(Walk(start, N), N)
    BY <1>4 DEF Walk
  <1> QED BY <1>5

-----------------------------------------------------------------------------
(* Trees over leaves *)

\* Half of a number, rounded down.
LEMMA Halves ==
    ASSUME NEW m \in Nat
    PROVE  /\ m \div 2 \in Nat
           /\ m = 2 * (m \div 2) \/ m = 2 * (m \div 2) + 1
  OBVIOUS

\* One level up: the i-th node is the parent of two neighbours or the odd last one.
LEMMA ParentsAt ==
    ASSUME NEW R, NEW nodes \in Seq(R)
    PROVE  /\ \E Q : Parents(nodes) \in Seq(Q)
           /\ 2 * Len(Parents(nodes)) \in {Len(nodes), Len(nodes) + 1}
           /\ \A i \in 1 .. Len(Parents(nodes)) :
                 \/ /\ 2 * i = Len(nodes) + 1
                    /\ Parents(nodes)[i] = nodes[2 * i - 1]
                 \/ /\ 2 * i <= Len(nodes)
                    /\ Parents(nodes)[i] = Parent(nodes[2 * i - 1], nodes[2 * i])
  <1> DEFINE m == Len(nodes)
             q == m \div 2
             front == [i \in 1 .. q |-> Parent(nodes[2 * i - 1], nodes[2 * i])]
             back == SubSeq(nodes, 2 * q + 1, m)
             Q == R \cup {front[i] : i \in 1 .. q}
  <1>1. m \in Nat /\ q \in Nat /\ (m = 2 * q \/ m = 2 * q + 1)
    BY Halves
  <1>2. front \in Seq(Q) /\ Len(front) = q
    <2>1. front \in [1 .. q -> Q]
      OBVIOUS
    <2> HIDE DEF front, Q, q
    <2> QED BY <2>1, <1>1
  <1>3. /\ back \in Seq(Q)
        /\ Len(back) = m - 2 * q
        /\ m = 2 * q + 1 => back[1] = nodes[m]
    <2>1. nodes \in Seq(Q)
      OBVIOUS
    <2> HIDE DEF Q, q
    <2>2. CASE m = 2 * q
      BY <2>1, <2>2, <1>1
    <2>3. CASE m = 2 * q + 1
      <3>1. back = SubSeq(nodes, m, m) /\ m >= 1 /\ m - 2 * q = 1
        BY <2>3, <1>1
      <3>2. \A i \in m .. m : nodes[i] \in Q
        BY <2>1, <3>1, <1>1
      <3> HIDE DEF back
      <3>3. /\ back \in Seq(Q) /\ Len(back) = 1
            /\ \A i \in 1 .. m - m + 1 : back[i] = nodes[m + i - 1]
        BY <3>1, <3>2, <1>1, SubSeqProperties
      <3>4. back[1] = nodes[m]
        BY <3>3, <1>1
      <3> QED BY <3>1, <3>3, <3>4
    <2> QED BY <2>2, <2>3, <1>1
  <1>4. Parents(nodes) = front \o back
    BY DEF Parents
  <1>5. \A i \in 1 .. q : front[i] = Parent(nodes[2 * i - 1], nodes[2 * i])
    OBVIOUS
  <1> HIDE DEF front, back, Q, q, m
  <1>6. /\ front \o back \in Seq(Q)
        /\ Len(front \o back) = q + (m - 2 * q)
        /\ \A i \in 1 .. q : (front \o back)[i] = front[i]
        /\ m = 2 * q + 1 => (front \o back)[q + 1] = back[1]
    BY <1>1, <1>2, <1>3
  <1>7. ASSUME NEW i \in 1 .. Len(front \o back)
        PROVE  i <= q \/ (i = q + 1 /\ m = 2 * q + 1)
    BY <1>1, <1>6
  <1>8. ASSUME NEW i \in 1 .. Len(front \o back)
        PROVE  \/ 2 * i = m + 1 /\ Parents(nodes)[i] = nodes[2 * i - 1]
               \/ 2 * i <= m /\ Parents(nodes)[i] = Parent(nodes[2 * i - 1], nodes[2 * i])
    <2>1. CASE i <= q
      <3>1. i \in 1 .. q /\ 2 * i <= m
        BY <1>1, <1>6, <2>1
      <3> QED BY <3>1, <1>4, <1>5, <1>6
    <2>2. CASE i = q + 1 /\ m = 2 * q + 1
      <3>1. 2 * i = m + 1 /\ 2 * i - 1 = m
        BY <1>1, <2>2
      <3> QED BY <3>1, <2>2, <1>3, <1>4, <1>6
    <2> QED BY <2>1, <2>2, <1>7
  <1>9. 2 * Len(Parents(nodes)) \in {m, m + 1}
    <2>1. 2 * (q + (m - 2 * q)) \in {m, m + 1}
      BY <1>1
    <2> QED BY <2>1, <1>4, <1>6
  <1> QED BY <1>4, <1>6, <1>8, <1>9 DEF m

\* The leaves n of a tree: the j-th stands for the content c[j].
LeavesOf(n, c) ==
    /\ \E R : n \in Seq(R)
    /\ n # <<>>
    /\ \A j \in 1 .. Len(n) : n[j].hash = {c[j]} /\ n[j].children = <<>>

\* The pairs of nodes that stand at the same place of two trees, at a level and up
\* to a level.
PairsAt(n1, n2, h) ==
    {<<Levels(n1)[h][i], Levels(n2)[h][i]>> : i \in 1 .. Len(Levels(n1)[h])}
PairsTo(n1, n2, h) == UNION {PairsAt(n1, n2, g) : g \in 0 .. h}

IsLeafPair(n1, n2, p) == \E j \in 1 .. Len(n1) : p = <<n1[j], n2[j]>>
IsInnerPair(p, Q) ==
    \E x, y \in Q : /\ p[1].children = <<x[1], y[1]>>
                    /\ p[2].children = <<x[2], y[2]>>
                    /\ p[1].hash = x[1].hash \cup y[1].hash

\* What is known of a pair of which the children, if it has any, are in Q.
PairOK(n1, n2, c2, p, Q) ==
    /\ p = <<p[1], p[2]>>
    /\ p[2].hash \subseteq {c2[j] : j \in 1 .. Len(n1)}
    /\ IsLeafPair(n1, n2, p) \/ IsInnerPair(p, Q)

\* A level of two trees over the same number of leaves: there are as many nodes in
\* both, fewer than below unless there is one, and every leaf is below one of them.
LevelOK(n1, n2, c1, c2, h) ==
    /\ \E R : Levels(n1)[h] \in Seq(R)
    /\ \E R : Levels(n2)[h] \in Seq(R)
    /\ Len(Levels(n1)[h]) = Len(Levels(n2)[h])
    /\ Len(Levels(n1)[h]) \in 1 .. Len(n1)
    /\ Len(Levels(n1)[h]) = 1 \/ Len(Levels(n1)[h]) <= Len(n1) - h
    /\ \A j \in 1 .. Len(n1) :
          \E i \in 1 .. Len(Levels(n1)[h]) : c1[j] \in Levels(n1)[h][i].hash
    /\ \A p \in PairsAt(n1, n2, h) : PairOK(n1, n2, c2, p, PairsTo(n1, n2, h - 1))

\* Every level of two such trees is of this shape.
LEMMA LevelsOK ==
    ASSUME NEW n1, NEW n2, NEW c1, NEW c2, LeavesOf(n1, c1), LeavesOf(n2, c2),
           Len(n1) = Len(n2)
    PROVE  \A h \in 0 .. Len(n1) - 1 : LevelOK(n1, n2, c1, c2, h)
  <1> DEFINE L == Len(n1)
             V1 == Levels(n1)
             V2 == Levels(n2)
             I == {h \in Nat : h <= L - 1 => LevelOK(n1, n2, c1, c2, h)}
  <1>0. L \in Nat /\ L - 1 \in Nat /\ Len(n2) - 1 = L - 1
    BY DEF LeavesOf
  <1>1. /\ V1[0] = n1 /\ V2[0] = n2
        /\ \A h \in 1 .. L - 1 : V1[h] = Parents(V1[h - 1]) /\ V2[h] = Parents(V2[h - 1])
    BY <1>0, LevelsDef
  <1>2. LevelOK(n1, n2, c1, c2, 0)
    <2>1. ASSUME NEW p \in PairsAt(n1, n2, 0)
          PROVE  PairOK(n1, n2, c2, p, PairsTo(n1, n2, 0 - 1))
      <3>1. PICK j \in 1 .. L : p = <<n1[j], n2[j]>>
        BY <2>1, <1>1 DEF PairsAt
      <3>2. p[2].hash \subseteq {c2[i] : i \in 1 .. L}
        BY <3>1, <1>0 DEF LeavesOf
      <3> QED BY <3>1, <3>2 DEF PairOK, IsLeafPair
    <2>2. \A j \in 1 .. L : c1[j] \in V1[0][j].hash
      BY <1>1 DEF LeavesOf
    <2>3. /\ \E R : V1[0] \in Seq(R)
          /\ \E R : V2[0] \in Seq(R)
          /\ Len(V1[0]) = L /\ Len(V2[0]) = L
      BY <1>1 DEF LeavesOf
    <2> QED BY <1>0, <2>1, <2>2, <2>3 DEF LevelOK
  <1>3. ASSUME NEW h \in Nat, h + 1 <= L - 1, LevelOK(n1, n2, c1, c2, h)
        PROVE  LevelOK(n1, n2, c1, c2, h + 1)
    <2> DEFINE m == Len(V1[h])
               u == Len(V1[h + 1])
    <2>1. V1[h + 1] = Parents(V1[h]) /\ V2[h + 1] = Parents(V2[h])
      <3>1. h + 1 \in 1 .. L - 1 /\ (h + 1) - 1 = h
        BY <1>0, <1>3
      <3> QED BY <3>1, <1>1
    <2>2. PICK R1 : V1[h] \in Seq(R1)
      BY <1>3 DEF LevelOK
    <2>3. PICK R2 : V2[h] \in Seq(R2)
      BY <1>3 DEF LevelOK
    <2>4. m \in Nat /\ m >= 1 /\ Len(V2[h]) = m /\ m <= L /\ (m = 1 \/ m <= L - h)
      BY <1>0, <1>3 DEF LevelOK
    <2>5. /\ \E Q : V1[h + 1] \in Seq(Q)
          /\ 2 * u \in {m, m + 1}
          /\ \A i \in 1 .. u :
                \/ 2 * i = m + 1 /\ V1[h + 1][i] = V1[h][2 * i - 1]
                \/ 2 * i <= m /\ V1[h + 1][i] = Parent(V1[h][2 * i - 1], V1[h][2 * i])
      BY <2>1, <2>2, ParentsAt
    <2>6. /\ \E Q : V2[h + 1] \in Seq(Q)
          /\ 2 * Len(V2[h + 1]) \in {m, m + 1}
          /\ \A i \in 1 .. Len(V2[h + 1]) :
                \/ 2 * i = m + 1 /\ V2[h + 1][i] = V2[h][2 * i - 1]
                \/ 2 * i <= m /\ V2[h + 1][i] = Parent(V2[h][2 * i - 1], V2[h][2 * i])
      BY <2>1, <2>3, <2>4, ParentsAt
    <2>7. u \in Nat /\ Len(V2[h + 1]) \in Nat
      BY <2>5, <2>6
    <2> HIDE DEF V1, V2, m, u, L
    <2>8. /\ Len(V2[h + 1]) = u /\ u \in 1 .. L
          /\ u = 1 \/ u <= L - (h + 1)
      BY <2>4, <2>5, <2>6, <2>7, <1>0
    <2>9. ASSUME NEW j \in 1 .. L
          PROVE  \E i \in 1 .. u : c1[j] \in V1[h + 1][i].hash
      <3>1. PICK k \in 1 .. m : c1[j] \in V1[h][k].hash
        BY <1>3 DEF LevelOK, V1, m, L
      <3>2. PICK i \in 1 .. u : k = 2 * i - 1 \/ k = 2 * i
        <4>1. PICK q \in Nat : k = 2 * q \/ k = 2 * q + 1
          <5>1. k \in Nat
            BY <2>4
          <5>2. k \div 2 \in Nat /\ (k = 2 * (k \div 2) \/ k = 2 * (k \div 2) + 1)
            BY <5>1, Halves
          <5> QED BY <5>2
        <4>2. CASE k = 2 * q
          <5>1. q \in 1 .. u
            BY <4>1, <4>2, <2>4, <2>5, <2>7
          <5> QED BY <5>1, <4>2
        <4>3. CASE k = 2 * q + 1
          <5>1. q + 1 \in 1 .. u /\ k = 2 * (q + 1) - 1
            BY <4>1, <4>3, <2>4, <2>5, <2>7
          <5> QED BY <5>1
        <4> QED BY <4>1, <4>2, <4>3
      <3>3. CASE 2 * i = m + 1 /\ V1[h + 1][i] = V1[h][2 * i - 1]
        <4>1. k = 2 * i - 1
          BY <3>1, <3>2, <3>3, <2>4, <2>7
        <4> QED BY <3>1, <3>3, <4>1
      <3>4. CASE 2 * i <= m /\ V1[h + 1][i] = Parent(V1[h][2 * i - 1], V1[h][2 * i])
        BY <3>1, <3>2, <3>4 DEF Parent
      <3> QED BY <3>3, <3>4, <2>5
    <2>10. ASSUME NEW p \in PairsAt(n1, n2, h)
           PROVE  PairOK(n1, n2, c2, p, PairsTo(n1, n2, h)) /\ p \in PairsTo(n1, n2, h)
      <3>1. PairsTo(n1, n2, h - 1) \subseteq PairsTo(n1, n2, h)
        BY DEF PairsTo
      <3>2. PairOK(n1, n2, c2, p, PairsTo(n1, n2, h - 1))
        BY <1>3 DEF LevelOK
      <3>3. p \in PairsTo(n1, n2, h)
        BY DEF PairsTo
      <3> QED BY <3>1, <3>2, <3>3 DEF PairOK, IsInnerPair
    <2>11. ASSUME NEW i \in 1 .. u
           PROVE  PairOK(n1, n2, c2, <<V1[h + 1][i], V2[h + 1][i]>>, PairsTo(n1, n2, h))
      <3> DEFINE p == <<V1[h + 1][i], V2[h + 1][i]>>
      <3>0. \A k \in 1 .. m : <<V1[h][k], V2[h][k]>> \in PairsAt(n1, n2, h)
        BY DEF PairsAt, V1, V2, m
      <3>1. CASE 2 * i = m + 1
        <4>1. 2 * i - 1 \in 1 .. m /\ ~(2 * i <= m)
          BY <3>1, <2>4, <2>7
        <4>2. p = <<V1[h][2 * i - 1], V2[h][2 * i - 1]>>
          BY <4>1, <2>5, <2>6, <2>8
        <4> QED BY <4>1, <4>2, <3>0, <2>10
      <3>2. CASE 2 * i <= m
        <4> DEFINE x == <<V1[h][2 * i - 1], V2[h][2 * i - 1]>>
                   y == <<V1[h][2 * i], V2[h][2 * i]>>
        <4>1. 2 * i - 1 \in 1 .. m /\ 2 * i \in 1 .. m /\ 2 * i # m + 1
          BY <3>2, <2>4, <2>7
        <4>2. p = <<Parent(x[1], y[1]), Parent(x[2], y[2])>>
          BY <4>1, <2>5, <2>6, <2>8
        <4>3. x \in PairsAt(n1, n2, h) /\ y \in PairsAt(n1, n2, h)
          BY <4>1, <3>0
        <4>4. /\ x \in PairsTo(n1, n2, h) /\ y \in PairsTo(n1, n2, h)
              /\ x[2].hash \subseteq {c2[j] : j \in 1 .. L}
              /\ y[2].hash \subseteq {c2[j] : j \in 1 .. L}
          BY <4>3, <2>10 DEF PairOK, L
        <4> HIDE DEF x, y, p
        <4>5. IsInnerPair(p, PairsTo(n1, n2, h))
          BY <4>2, <4>4 DEF IsInnerPair, Parent
        <4>6. p[2].hash \subseteq {c2[j] : j \in 1 .. L} /\ p = <<p[1], p[2]>>
          BY <4>2, <4>4 DEF Parent
        <4>7. PairOK(n1, n2, c2, p, PairsTo(n1, n2, h))
          BY <4>5, <4>6 DEF PairOK, L
        <4> QED BY <4>7 DEF p
      <3> QED BY <3>1, <3>2, <2>5
    <2>12. \A p \in PairsAt(n1, n2, h + 1) : PairOK(n1, n2, c2, p, PairsTo(n1, n2, (h + 1) - 1))
      <3>1. (h + 1) - 1 = h
        OBVIOUS
      <3> QED BY <3>1, <2>11 DEF PairsAt, V1, V2, u
    <2> QED BY <2>5, <2>6, <2>8, <2>9, <2>12 DEF LevelOK, V1, V2, u, L
  <1> HIDE DEF I
  <1>4. 0 \in I /\ \A h \in Nat : h \in I => h + 1 \in I
    BY <1>0, <1>2, <1>3 DEF I
  <1>5. Nat \subseteq I
    BY <1>4, Induction
  <1> QED BY <1>0, <1>5 DEF I

\* Every pair of the trees is known, with children further down.
LEMMA PairKnown ==
    ASSUME NEW n1, NEW n2, NEW c1, NEW c2, LeavesOf(n1, c1), LeavesOf(n2, c2),
           Len(n1) = Len(n2),
           NEW h \in 0 .. Len(n1) - 1, NEW p \in PairsTo(n1, n2, h)
    PROVE  PairOK(n1, n2, c2, p, PairsTo(n1, n2, h - 1))
  <1>1. PICK g \in 0 .. h : p \in PairsAt(n1, n2, g)
    BY DEF PairsTo
  <1>2. g \in 0 .. Len(n1) - 1 /\ g - 1 <= h - 1 /\ g \in Int
    BY DEF LeavesOf
  <1>3. PairOK(n1, n2, c2, p, PairsTo(n1, n2, g - 1))
    BY <1>1, <1>2, LevelsOK DEF LevelOK
  <1>4. PairsTo(n1, n2, g - 1) \subseteq PairsTo(n1, n2, h - 1)
    BY <1>2 DEF PairsTo
  <1> QED BY <1>3, <1>4 DEF PairOK, IsInnerPair

\* A content that differs is found nowhere else in either tree.
Separate(n1, c1, c2) ==
    \A i, j \in 1 .. Len(n1) :
        c1[j] # c2[j] => c1[j] # c2[i] /\ (c1[j] = c1[i] => i = j)

\* What _compare_nodes does with a pair: the pairs it goes on to are further down,
\* and below one of them is any leaf that differs and was below the pair.
LEMMA DescendKeeps ==
    ASSUME NEW n1, NEW n2, NEW c1, NEW c2, LeavesOf(n1, c1), LeavesOf(n2, c2),
           Len(n1) = Len(n2), Separate(n1, c1, c2),
           NEW h \in 0 .. Len(n1) - 1, NEW p \in PairsTo(n1, n2, h)
    PROVE  /\ Descend(p) \subseteq IF h = 0 THEN {p} ELSE PairsTo(n1, n2, h - 1)
           /\ \A j \in 1 .. Len(n1) :
                 c1[j] # c2[j] /\ c1[j] \in p[1].hash
                     => \E q \in Descend(p) : c1[j] \in q[1].hash
  <1>0. Len(n1) \in Nat /\ Len(n1) >= 1
    BY DEF LeavesOf
  <1>1. PairOK(n1, n2, c2, p, PairsTo(n1, n2, h - 1))
    BY PairKnown
  <1>2. ASSUME NEW j \in 1 .. Len(n1), c1[j] # c2[j], c1[j] \in p[1].hash
        PROVE  ~Stops(p)
    <2>1. c1[j] \notin p[2].hash
      BY <1>1, <1>2 DEF PairOK, Separate
    <2> QED BY <1>2, <2>1 DEF Stops
  <1>3. CASE IsLeafPair(n1, n2, p)
    <2>1. PICK j \in 1 .. Len(n1) : p = <<n1[j], n2[j]>>
      BY <1>3 DEF IsLeafPair
    <2>2. Leaf(p)
      BY <2>1 DEF Leaf, LeavesOf
    <2>3. Descend(p) = IF Stops(p) THEN {} ELSE {p}
      BY <2>2 DEF Descend
    <2>4. p \in PairsTo(n1, n2, 0)
      <3>1. Levels(n1)[0] = n1 /\ Levels(n2)[0] = n2
        BY <1>0, LevelsDef
      <3>2. p \in PairsAt(n1, n2, 0)
        BY <2>1, <3>1 DEF PairsAt
      <3> QED BY <3>2 DEF PairsTo
    <2>5. h # 0 => PairsTo(n1, n2, 0) \subseteq PairsTo(n1, n2, h - 1)
      BY <1>0 DEF PairsTo
    <2>6. Descend(p) \subseteq {p}
      BY <2>3
    <2>7. Descend(p) \subseteq IF h = 0 THEN {p} ELSE PairsTo(n1, n2, h - 1)
      BY <2>4, <2>5, <2>6
    <2> QED BY <2>3, <2>7, <1>2
  <1>4. CASE IsInnerPair(p, PairsTo(n1, n2, h - 1))
    <2>1. PICK x \in PairsTo(n1, n2, h - 1), y \in PairsTo(n1, n2, h - 1) :
             /\ p[1].children = <<x[1], y[1]>>
             /\ p[2].children = <<x[2], y[2]>>
             /\ p[1].hash = x[1].hash \cup y[1].hash
      BY <1>4 DEF IsInnerPair
    <2>2. h # 0
      BY <2>1 DEF PairsTo
    <2>3. x = <<x[1], x[2]>> /\ y = <<y[1], y[2]>>
      BY <2>1 DEF PairsTo, PairsAt
    <2>4. Below(p, 1) = x /\ Below(p, 2) = y
      BY <2>1, <2>3 DEF Below
    <2>5. ~Leaf(p)
      BY <2>1 DEF Leaf
    <2>6. Descend(p) = IF Stops(p) THEN {} ELSE {x, y}
      BY <2>4, <2>5 DEF Descend
    <2>7. Descend(p) \subseteq PairsTo(n1, n2, h - 1)
      BY <2>6
    <2>8. ASSUME NEW j \in 1 .. Len(n1), c1[j] # c2[j], c1[j] \in p[1].hash
          PROVE  \E q \in Descend(p) : c1[j] \in q[1].hash
      <3>1. Descend(p) = {x, y}
        BY <1>2, <2>6, <2>8
      <3> QED BY <2>1, <2>8, <3>1
    <2> QED BY <2>2, <2>7, <2>8
  <1> QED BY <1>1, <1>3, <1>4 DEF PairOK

\* compare returns the ranges of the leaves that differ, and no others.
LEMMA CompareFinds ==
    ASSUME NEW n1, NEW n2, NEW c1, NEW c2, LeavesOf(n1, c1), LeavesOf(n2, c2),
           Len(n1) = Len(n2), Separate(n1, c1, c2),
           NEW levels \in Nat, levels >= Len(n1)
    PROVE  CompareNodes(BuildTree(n1), BuildTree(n2), levels)
             = {n1[j].range : j \in {i \in 1 .. Len(n1) : c1[i] # c2[i]}}
  <1> DEFINE L == Len(n1)
             start == {<<BuildTree(n1), BuildTree(n2)>>}
             W == Walk(start, levels)
             H(i) == IF i <= L - 1 THEN L - 1 - i ELSE 0
             Q(i) == /\ W[i] \subseteq PairsTo(n1, n2, H(i))
                     /\ \A j \in 1 .. L : c1[j] # c2[j] => \E p \in W[i] : c1[j] \in p[1].hash
             I == {i \in Nat : i <= levels => Q(i)}
  <1>0. L \in Nat /\ L >= 1 /\ L - 1 \in Nat
    BY DEF LeavesOf
  <1>1. W[0] = start /\ \A i \in 1 .. levels : W[i] = WalkDown(W[i - 1])
    BY WalkDef
  <1>2. Q(0)
    <2>1. LevelOK(n1, n2, c1, c2, L - 1)
      BY <1>0, LevelsOK
    <2>2. Len(Levels(n1)[L - 1]) = 1
      <3> DEFINE m == Len(Levels(n1)[L - 1])
      <3>1. m \in 1 .. L /\ (m = 1 \/ m <= L - (L - 1))
        BY <2>1 DEF LevelOK
      <3> HIDE DEF m, L
      <3>2. m = 1
        BY <1>0, <3>1
      <3> QED BY <3>2 DEF m, L
    <2>3. BuildTree(n1) = Levels(n1)[L - 1][1] /\ BuildTree(n2) = Levels(n2)[L - 1][1]
      BY DEF BuildTree
    <2>4. <<BuildTree(n1), BuildTree(n2)>> \in PairsAt(n1, n2, L - 1)
      BY <2>2, <2>3 DEF PairsAt
    <2>5. <<BuildTree(n1), BuildTree(n2)>> \in PairsTo(n1, n2, L - 1)
      BY <1>0, <2>4 DEF PairsTo
    <2>6. \A j \in 1 .. L : c1[j] \in BuildTree(n1).hash
      <3>1. ASSUME NEW i \in 1 .. 1
            PROVE  Levels(n1)[L - 1][i] = BuildTree(n1)
        BY <2>3
      <3> QED BY <2>1, <2>2, <3>1 DEF LevelOK
    <2>7. H(0) = L - 1
      BY <1>0
    <2> HIDE DEF W, H
    <2> QED BY <1>1, <2>5, <2>6, <2>7
  <1>3. ASSUME NEW i \in Nat, i + 1 <= levels, Q(i)
        PROVE  Q(i + 1)
    <2>1. W[i + 1] = WalkDown(W[i])
      <3>1. i + 1 \in 1 .. levels /\ (i + 1) - 1 = i
        BY <1>3
      <3> HIDE DEF W
      <3> QED BY <3>1, <1>1
    <2>2. /\ H(i) \in 0 .. L - 1
          /\ H(i + 1) = IF H(i) = 0 THEN 0 ELSE H(i) - 1
      BY <1>0
    <2> HIDE DEF W, H
    <2>3. ASSUME NEW p \in W[i]
          PROVE  /\ Descend(p) \subseteq PairsTo(n1, n2, H(i + 1))
                 /\ \A j \in 1 .. L :
                       c1[j] # c2[j] /\ c1[j] \in p[1].hash
                          => \E q \in Descend(p) : c1[j] \in q[1].hash
      <3>1. p \in PairsTo(n1, n2, H(i))
        BY <1>3
      <3>2. /\ Descend(p) \subseteq IF H(i) = 0 THEN {p} ELSE PairsTo(n1, n2, H(i) - 1)
            /\ \A j \in 1 .. L :
                  c1[j] # c2[j] /\ c1[j] \in p[1].hash
                      => \E q \in Descend(p) : c1[j] \in q[1].hash
        BY <2>2, <3>1, DescendKeeps
      <3> QED BY <2>2, <3>1, <3>2
    <2>4. W[i + 1] \subseteq PairsTo(n1, n2, H(i + 1))
      BY <2>1, <2>3 DEF WalkDown
    <2>5. ASSUME NEW j \in 1 .. L, c1[j] # c2[j]
          PROVE  \E q \in W[i + 1] : c1[j] \in q[1].hash
      <3>1. PICK p \in W[i] : c1[j] \in p[1].hash
        BY <1>3, <2>5
      <3>2. PICK q \in Descend(p) : c1[j] \in q[1].hash
        BY <2>3, <2>5, <3>1
      <3>3. q \in W[i + 1]
        BY <2>1, <3>1, <3>2 DEF WalkDown
      <3> QED BY <3>2, <3>3
    <2> QED BY <2>4, <2>5
  <1>4. \A i \in 0 .. levels : Q(i)
    <2> HIDE DEF Q
    <2>1. 0 \in I /\ \A i \in Nat : i \in I => i + 1 \in I
      BY <1>2, <1>3
    <2> HIDE DEF I
    <2>2. Nat \subseteq I
      BY <2>1, Induction
    <2> QED BY <2>2 DEF I
  <1>5. ASSUME NEW p \in PairsTo(n1, n2, 0)
        PROVE  \E j \in 1 .. L : p = <<n1[j], n2[j]>>
    <2>1. Levels(n1)[0] = n1 /\ Levels(n2)[0] = n2
      BY <1>0, LevelsDef
    <2> QED BY <2>1 DEF PairsTo, PairsAt
  <1>6. W[levels - 1] \subseteq PairsTo(n1, n2, 0) /\ W[levels] = WalkDown(W[levels - 1])
    <2>1. H(levels - 1) = 0 /\ levels - 1 \in 0 .. levels /\ levels \in 1 .. levels
      BY <1>0
    <2> HIDE DEF W, H
    <2> QED BY <2>1, <1>1, <1>4
  <1>7. \A j \in 1 .. L : c1[j] # c2[j] => \E p \in W[levels] : c1[j] \in p[1].hash
    <2>1. levels \in 0 .. levels
      OBVIOUS
    <2> HIDE DEF W, H
    <2> QED BY <2>1, <1>4
  <1> HIDE DEF W
  <1>8. ASSUME NEW p \in W[levels]
        PROVE  \E j \in 1 .. L : p = <<n1[j], n2[j]>> /\ c1[j] # c2[j]
    <2>1. PICK q \in W[levels - 1] : p \in Descend(q)
      BY <1>6 DEF WalkDown
    <2>2. PICK j \in 1 .. L : q = <<n1[j], n2[j]>>
      BY <1>5, <1>6
    <2>3. n1[j].hash = {c1[j]} /\ n2[j].hash = {c2[j]} /\ n1[j].children = <<>>
      BY <2>2 DEF LeavesOf
    <2>4. Leaf(q)
      BY <2>2, <2>3 DEF Leaf
    <2>5. p = q /\ ~Stops(q)
      BY <2>1, <2>4 DEF Descend
    <2> QED BY <2>2, <2>3, <2>5 DEF Stops
  <1>9. ASSUME NEW j \in 1 .. L, c1[j] # c2[j]
        PROVE  <<n1[j], n2[j]>> \in W[levels]
    <2>1. PICK p \in W[levels] : c1[j] \in p[1].hash
      BY <1>7, <1>9
    <2>2. PICK i \in 1 .. L : p = <<n1[i], n2[i]>>
      BY <1>8
    <2>3. c1[j] = c1[i]
      BY <2>1, <2>2 DEF LeavesOf
    <2>4. i = j
      BY <1>9, <2>3 DEF Separate
    <2> QED BY <2>1, <2>2, <2>4
  <1>10. CompareNodes(BuildTree(n1), BuildTree(n2), levels) = {p[1].range : p \in W[levels]}
    BY DEF CompareNodes, W
  <1> DEFINE X == {i \in 1 .. L : c1[i] # c2[i]}
  <1>11. ASSUME NEW p \in W[levels]
         PROVE  \E j \in X : p[1].range = n1[j].range
    <2>1. PICK j \in 1 .. L : p = <<n1[j], n2[j]>> /\ c1[j] # c2[j]
      BY <1>8
    <2> QED BY <2>1
  <1>12. ASSUME NEW j \in X
         PROVE  \E p \in W[levels] : p[1].range = n1[j].range
    <2>1. <<n1[j], n2[j]>> \in W[levels]
      BY <1>9
    <2>2. <<n1[j], n2[j]>>[1].range = n1[j].range
      OBVIOUS
    <2> QED BY <2>1, <2>2
  <1> HIDE DEF X
  <1>13. {p[1].range : p \in W[levels]} = {n1[j].range : j \in X}
    BY <1>11, <1>12
  <1> QED BY <1>10, <1>13 DEF X

-----------------------------------------------------------------------------
(* Buckets *)

\* Integer division by the size of a bucket.
LEMMA Division ==
    ASSUME NEW a \in Nat, NEW size \in Nat \ {0}
    PROVE  /\ a \div size \in Nat
           /\ size * (a \div size) <= a
           /\ a < size * (a \div size) + size
  OBVIOUS

\* There are buckets for c keys, and no more than keys; the key of rank r < c has
\* one of them.
LEMMA BucketCount ==
    ASSUME NEW c \in Nat \ {0}, NEW size \in Nat \ {0}
    PROVE  /\ (c + size - 1) \div size \in 1 .. c
           /\ \A r \in 0 .. c - 1 : (r \div size) + 1 \in 1 .. (c + size - 1) \div size
  <1> DEFINE n == (c + size - 1) \div size
  <1>1. c + size - 1 \in Nat
    OBVIOUS
  <1>2. n \in Nat /\ size * n <= c + size - 1 /\ c + size - 1 < size * n + size
    BY <1>1, Division
  <1> HIDE DEF n
  <1>3. n >= 1
    <2> SUFFICES ASSUME n = 0 PROVE FALSE
      BY <1>2
    <2> QED BY <1>2
  <1>4. n <= c
    <2> SUFFICES ASSUME n >= c + 1 PROVE FALSE
      BY <1>2
    <2>1. size * n >= size * (c + 1)
      BY <1>2
    <2>2. size * (c + 1) = size * c + size
      OBVIOUS
    <2>3. size * c >= c
      OBVIOUS
    <2> QED BY <1>2, <2>1, <2>2, <2>3
  <1>5. ASSUME NEW r \in 0 .. c - 1
        PROVE  (r \div size) + 1 \in 1 .. n
    <2> DEFINE q == r \div size
    <2>1. q \in Nat /\ size * q <= r
      BY Division
    <2> HIDE DEF q
    <2>2. q < n
      <3> SUFFICES ASSUME q >= n PROVE FALSE
        BY <1>2, <2>1
      <3>1. size * q >= size * n
        BY <1>2, <2>1
      <3>2. size * q \in Nat /\ size * n \in Nat
        BY <1>2, <2>1
      <3> QED BY <1>2, <2>1, <3>1, <3>2
    <2>3. q + 1 \in 1 .. n
      BY <1>2, <2>1, <2>2
    <2> QED BY <2>3 DEF q
  <1>6. n \in 1 .. c
    BY <1>2, <1>3, <1>4
  <1> QED BY <1>5, <1>6 DEF n

\* The number of leaves, and what the hash of each stands for.
Count(d, size) == (Cardinality(DOMAIN d) + size - 1) \div size
Content(d, size, i) ==
    {<<k, d[k].value, d[k].version>> : k \in Bucket(DOMAIN d, size, i)}
Contents(d, size) == [i \in 1 .. Count(d, size) |-> Content(d, size, i)]

\* Every key is in exactly one bucket.
LEMMA OneBucket ==
    ASSUME NEW D \in SUBSET Nat, IsFiniteSet(D), NEW size \in Nat \ {0}, NEW k \in D
    PROVE  /\ \E i \in 1 .. (Cardinality(D) + size - 1) \div size : k \in Bucket(D, size, i)
           /\ \A i, j : k \in Bucket(D, size, i) /\ k \in Bucket(D, size, j) => i = j
  <1> DEFINE c == Cardinality(D)
             S == {j \in D : j < k}
             r == Cardinality(S)
  <1>1. c \in Nat \ {0}
    BY FS_CardinalityType, FS_EmptySet
  <1>2. r \in 0 .. c - 1
    <2>1. IsFiniteSet(D \ {k}) /\ Cardinality(D \ {k}) = c - 1
      BY FS_RemoveElement
    <2>2. S \in SUBSET (D \ {k})
      OBVIOUS
    <2> HIDE DEF S
    <2>3. IsFiniteSet(S) /\ r <= c - 1
      <3>1. IsFiniteSet(S) /\ Cardinality(S) <= Cardinality(D \ {k})
        BY <2>1, <2>2, FS_Subset
      <3> QED BY <2>1, <3>1
    <2>4. r \in Nat
      BY <2>3, FS_CardinalityType
    <2> HIDE DEF r, c
    <2> QED BY <2>3, <2>4, <1>1
  <1>3. (r \div size) + 1 \in 1 .. (c + size - 1) \div size
    BY <1>1, <1>2, BucketCount
  <1>4. k \in Bucket(D, size, (r \div size) + 1)
    BY DEF Bucket
  <1>5. \A i, j : k \in Bucket(D, size, i) /\ k \in Bucket(D, size, j) => i = j
    BY DEF Bucket
  <1> HIDE DEF r
  <1> QED BY <1>3, <1>4, <1>5

\* The leaves of build.
LEMMA LeavesBuilt ==
    ASSUME NEW d, DOMAIN d \in SUBSET Nat, IsFiniteSet(DOMAIN d), DOMAIN d # {},
           NEW size \in Nat \ {0}
    PROVE  /\ LeavesOf(Leaves(d, size), Contents(d, size))
           /\ Len(Leaves(d, size)) = Count(d, size)
           /\ Count(d, size) \in 1 .. Cardinality(DOMAIN d)
           /\ \A i \in 1 .. Count(d, size) :
                 LET keys == Bucket(DOMAIN d, size, i)
                 IN Leaves(d, size)[i].range = <<Min(keys), Max(keys)>>
  <1> DEFINE n == Count(d, size)
             f == Leaves(d, size)
             Q == {f[i] : i \in 1 .. n}
  <1>1. Cardinality(DOMAIN d) \in Nat \ {0}
    BY FS_CardinalityType, FS_EmptySet
  <1>2. n \in 1 .. Cardinality(DOMAIN d)
    BY <1>1, BucketCount DEF Count
  <1>3. n \in Nat /\ n >= 1
    BY <1>1, <1>2
  <1>4. DOMAIN f = 1 .. n /\ f = [i \in 1 .. n |-> f[i]]
    BY DEF Leaves, Count
  <1>5. ASSUME NEW i \in 1 .. n
        PROVE  /\ f[i].hash = {Content(d, size, i)}
               /\ f[i].children = <<>>
               /\ f[i].range = <<Min(Bucket(DOMAIN d, size, i)), Max(Bucket(DOMAIN d, size, i))>>
    BY DEF Leaves, Count, Content
  <1> HIDE DEF f, n
  <1>6. f \in [1 .. n -> Q]
    BY <1>4
  <1> HIDE DEF Q
  <1>7. f \in Seq(Q) /\ Len(f) = n
    BY <1>3, <1>6
  <1>8. f # <<>>
    BY <1>3, <1>7
  <1>9. \A i \in 1 .. n : Contents(d, size)[i] = Content(d, size, i)
    BY DEF Contents, n
  <1>10. LeavesOf(f, Contents(d, size))
    BY <1>5, <1>7, <1>8, <1>9 DEF LeavesOf
  <1> QED BY <1>2, <1>5, <1>7, <1>10 DEF f, n

\* The contents of two sets of records with the same keys.
LEMMA ContentsDiffer ==
    ASSUME NEW d1, NEW d2, DOMAIN d1 = DOMAIN d2,
           \A k \in DOMAIN d1 : d1[k] \in Record /\ d2[k] \in Record,
           NEW size
    PROVE  /\ \A i : Content(d1, size, i) # Content(d2, size, i)
                <=> \E k \in Bucket(DOMAIN d1, size, i) : d1[k] # d2[k]
           /\ Count(d1, size) = Count(d2, size)
           /\ \A n1 : Len(n1) = Count(d1, size)
                 => Separate(n1, Contents(d1, size), Contents(d2, size))
  <1> DEFINE D == DOMAIN d1
  <1>1. ASSUME NEW i, NEW k \in Bucket(D, size, i)
        PROVE  /\ k \in D
               /\ (d1[k].value = d2[k].value /\ d1[k].version = d2[k].version) <=> d1[k] = d2[k]
    BY DEF Bucket, Record
  <1>2. ASSUME NEW i, Content(d1, size, i) = Content(d2, size, i),
               NEW k \in Bucket(D, size, i)
        PROVE  d1[k] = d2[k]
    <2>1. <<k, d1[k].value, d1[k].version>> \in Content(d2, size, i)
      BY <1>2 DEF Content
    <2>2. PICK j \in Bucket(D, size, i) :
             <<k, d1[k].value, d1[k].version>> = <<j, d2[j].value, d2[j].version>>
      BY <2>1 DEF Content
    <2> QED BY <2>2, <1>1, <1>2
  <1>3. ASSUME NEW i, \A k \in Bucket(D, size, i) : d1[k] = d2[k]
        PROVE  Content(d1, size, i) = Content(d2, size, i)
    BY <1>3 DEF Content
  <1>4. Count(d1, size) = Count(d2, size)
    BY DEF Count
  <1>5. ASSUME NEW e1, NEW e2, e1 \in {d1, d2}, e2 \in {d1, d2}, NEW i, NEW j,
               NEW k \in Bucket(D, size, j), Content(e1, size, j) = Content(e2, size, i)
        PROVE  i = j
    <2>1. <<k, e1[k].value, e1[k].version>> \in Content(e2, size, i)
      BY <1>5 DEF Content
    <2>2. k \in Bucket(D, size, i)
      BY <1>5, <2>1 DEF Content
    <2> QED BY <1>5, <2>2 DEF Bucket
  <1>6. ASSUME NEW n1, Len(n1) = Count(d1, size)
        PROVE  Separate(n1, Contents(d1, size), Contents(d2, size))
    <2> SUFFICES ASSUME NEW i \in 1 .. Count(d1, size), NEW j \in 1 .. Count(d1, size),
                        Content(d1, size, j) # Content(d2, size, j)
                 PROVE  /\ Content(d1, size, j) # Content(d2, size, i)
                        /\ Content(d1, size, j) = Content(d1, size, i) => i = j
      BY <1>4, <1>6 DEF Separate, Contents
    <2>1. PICK k \in Bucket(D, size, j) : d1[k] # d2[k]
      BY <1>3
    <2> QED BY <2>1, <1>5
  <1> QED BY <1>2, <1>3, <1>4, <1>6

\* compare, for replicas with the same keys: the key ranges of the buckets in
\* which a record differs.
LEMMA MerkleExact ==
    ASSUME NEW d1, NEW d2, DOMAIN d1 = DOMAIN d2,
           \A k \in DOMAIN d1 : d1[k] \in Record /\ d2[k] \in Record,
           DOMAIN d1 \in SUBSET Nat, IsFiniteSet(DOMAIN d1),
           NEW size \in Nat \ {0}
    PROVE  /\ Differs(d1, d2) \subseteq KeysInRanges(d1, Compare(d1, d2, size))
           /\ \A r \in Compare(d1, d2, size) :
                 KeysInRanges(d1, {r}) \cap Differs(d1, d2) # {}
  <1> DEFINE D == DOMAIN d1
  <1>1. CASE D = {}
    BY <1>1 DEF Compare, Differs, KeysInRanges
  <1>2. CASE D # {}
    <2> DEFINE n1 == Leaves(d1, size)
               n2 == Leaves(d2, size)
               c1 == Contents(d1, size)
               c2 == Contents(d2, size)
               n == Count(d1, size)
               B(i) == Bucket(D, size, i)
    <2>1. /\ LeavesOf(n1, c1) /\ LeavesOf(n2, c2) /\ Len(n1) = n /\ Len(n2) = n
          /\ n \in 1 .. Cardinality(D)
          /\ \A i \in 1 .. n : n1[i].range = <<Min(B(i)), Max(B(i))>>
      BY <1>2, LeavesBuilt, ContentsDiffer
    <2>2. Separate(n1, c1, c2)
      BY <2>1, ContentsDiffer
    <2>3. Cardinality(D) \in Nat
      BY FS_CardinalityType
    <2>4. ASSUME NEW i \in 1 .. n
          PROVE  c1[i] # c2[i] <=> \E k \in B(i) : d1[k] # d2[k]
      <3>1. c1[i] = Content(d1, size, i) /\ c2[i] = Content(d2, size, i)
        BY ContentsDiffer DEF Contents
      <3> QED BY <3>1, ContentsDiffer
    <2>5. Compare(d1, d2, size) = CompareNodes(BuildTree(n1), BuildTree(n2), Cardinality(D))
      BY <1>2 DEF Compare, Build
    <2>6. ASSUME NEW k \in D
          PROVE  \E i \in 1 .. n : k \in B(i)
      BY <1>2, OneBucket DEF Count
    <2> HIDE DEF n1, n2, c1, c2, n
    <2>7. Compare(d1, d2, size) = {n1[j].range : j \in {i \in 1 .. n : c1[i] # c2[i]}}
      BY <2>1, <2>2, <2>3, <2>5, CompareFinds
    <2>8. ASSUME NEW i \in 1 .. n, NEW k \in B(i)
          PROVE  /\ k \in D
                 /\ n1[i].range[1] <= k /\ k <= n1[i].range[2]
      <3>1. B(i) \in SUBSET D /\ B(i) # {}
        BY <2>8 DEF Bucket
      <3> HIDE DEF B
      <3>2. B(i) \in SUBSET Nat /\ IsFiniteSet(B(i))
        BY <3>1, FS_Subset
      <3>3. \A y \in B(i) : y <= Max(B(i))
        BY <3>1, <3>2, Greatest DEF Max
      <3>4. \A y \in B(i) : Min(B(i)) <= y
        BY <3>1, <3>2, Least DEF Min
      <3> QED BY <2>1, <2>8, <3>1, <3>3, <3>4
    <2> HIDE DEF B
    <2>9. ASSUME NEW k \in Differs(d1, d2)
          PROVE  k \in KeysInRanges(d1, Compare(d1, d2, size))
      <3>1. k \in D /\ d1[k] # d2[k]
        BY DEF Differs
      <3>2. PICK i \in 1 .. n : k \in B(i)
        BY <2>6, <3>1
      <3>3. n1[i].range \in Compare(d1, d2, size)
        BY <2>4, <2>7, <3>1, <3>2
      <3> QED BY <2>8, <3>1, <3>2, <3>3 DEF KeysInRanges
    <2>10. ASSUME NEW r \in Compare(d1, d2, size)
           PROVE  KeysInRanges(d1, {r}) \cap Differs(d1, d2) # {}
      <3>1. PICK i \in 1 .. n : c1[i] # c2[i] /\ r = n1[i].range
        BY <2>7
      <3>2. PICK k \in B(i) : d1[k] # d2[k]
        BY <2>4, <3>1
      <3> QED BY <2>8, <3>1, <3>2 DEF KeysInRanges, Differs
    <2> QED BY <2>9, <2>10
  <1> QED BY <1>1, <1>2

-----------------------------------------------------------------------------
(* The state of the repair cycles *)

\* A set of records after so many writes: a version counts at most the writes.
RecordsOK(d, w) ==
    /\ DOMAIN d \subseteq Key
    /\ \A k \in DOMAIN d : d[k] \in [value : 0 .. w, version : 1 .. w + 1]

StoresOK ==
    /\ DOMAIN data = Node /\ DOMAIN seen = Node /\ DOMAIN todo = Node
    /\ \A n \in Node : /\ RecordsOK(data[n], writes)
                       /\ RecordsOK(seen[n], writes)
                       /\ RecordsOK(todo[n], writes)

CyclesOK ==
    /\ stage \in [Node -> {"idle", "compare", "fetch", "apply", "set"}]
    /\ peers \in [Node -> SUBSET Node]
    /\ DOMAIN picked = Node
    /\ \A n \in Node : /\ n \notin peers[n]
                       /\ picked[n] \subseteq DOMAIN todo[n]
                       /\ stage[n] = "set" <=> picked[n] # {}

BoundsOK ==
    /\ writes \in 0 .. MaxWrites /\ failures \in 0 .. MaxFailures
    /\ last \in [Key -> [value : 0 .. writes, version : 0 .. writes + 1]]
    /\ marred \subseteq Key

RepairInv == StoresOK /\ CyclesOK /\ BoundsOK

\* The invariant implies the type invariant.
LEMMA InvTypes == RepairInv => TypeOK
  <1> SUFFICES ASSUME RepairInv PROVE TypeOK
    OBVIOUS
  <1>1. ASSUME NEW d, RecordsOK(d, writes)
        PROVE  DOMAIN d \subseteq Key /\ \A k \in DOMAIN d : d[k] \in Record
    <2>1. writes \in Nat /\ MaxWrites \in Nat /\ writes <= MaxWrites
      BY RepairAssumption DEF RepairInv, BoundsOK
    <2> QED BY <1>1, <2>1 DEF RecordsOK, Record
  <1>2. ASSUME NEW n \in Node, NEW d \in {data[n], seen[n], todo[n]}
        PROVE  DOMAIN d \subseteq Key /\ \A k \in DOMAIN d : d[k] \in Record
    BY <1>1 DEF RepairInv, StoresOK
  <1>3. last \in [Key -> [value : 0 .. MaxWrites, version : 0 .. MaxWrites + 1]]
    BY RepairAssumption DEF RepairInv, BoundsOK
  <1> QED BY <1>2, <1>3 DEF TypeOK, RepairInv, CyclesOK, BoundsOK

\* With the writes the bounds of the records only grow.
LEMMA RecordsStay ==
    ASSUME NEW d, NEW w \in Nat, RecordsOK(d, w)
    PROVE  RecordsOK(d, w + 1)
  BY DEF RecordsOK

\* A record set in a set of records.
LEMMA SetRecord ==
    ASSUME NEW d, NEW w \in Nat, RecordsOK(d, w), NEW k \in Key,
           NEW x \in [value : 0 .. w, version : 1 .. w + 1]
    PROVE  RecordsOK([j \in DOMAIN d \cup {k} |-> IF j = k THEN x ELSE d[j]], w)
  BY DEF RecordsOK

\* A record dropped from a set of records, and those of some keys taken.
LEMMA SomeRecords ==
    ASSUME NEW d, NEW w, RecordsOK(d, w), NEW S \in SUBSET DOMAIN d
    PROVE  RecordsOK([j \in S |-> d[j]], w)
  BY DEF RecordsOK

\* It holds at first,
LEMMA RepairInit == Init => RepairInv
  <1> SUFFICES ASSUME Init PROVE RepairInv
    OBVIOUS
  <1>1. PICK has \in [Node -> Initial] :
           /\ data = [n \in Node |-> [k \in has[n] |-> [value |-> 0, version |-> 1]]]
           /\ last = [k \in Key |-> [value |-> 0,
                 version |-> IF \E n \in Node : k \in has[n] THEN 1 ELSE 0]]
    BY DEF Init
  <1>2. writes = 0 /\ failures = 0 /\ MaxWrites \in Nat /\ MaxFailures \in Nat
    BY RepairAssumption DEF Init
  <1>7. last \in [Key -> [value : 0 .. writes, version : 0 .. writes + 1]]
    BY <1>1, <1>2
  <1>3. ASSUME NEW n \in Node
        PROVE  RecordsOK(data[n], writes)
    <2>1. has[n] \subseteq Key
      BY RepairAssumption
    <2> QED BY <1>1, <1>2, <2>1 DEF RecordsOK
  <1>4. RecordsOK(NoRecords, writes)
    BY DEF RecordsOK, NoRecords
  <1>5. StoresOK
    BY <1>1, <1>3, <1>4 DEF Init, StoresOK
  <1>6. CyclesOK
    BY DEF Init, CyclesOK
  <1>8. marred \subseteq Key
    BY DEF Init
  <1> QED BY <1>2, <1>5, <1>6, <1>7, <1>8 DEF RepairInv, BoundsOK

\* and every step of a repair thread, a write and a failed call keep it.
LEMMA RepairKeeps == RepairInv /\ [Next]_vars => RepairInv'
  <1> SUFFICES ASSUME RepairInv, [Next]_vars PROVE RepairInv'
    OBVIOUS
  <1> USE DEF RepairInv, history
  <1>0. writes \in Nat /\ MaxWrites \in Nat /\ MaxFailures \in Nat
    BY RepairAssumption DEF BoundsOK
  <1>1. ASSUME NEW n \in Node, StartCycle(n) PROVE RepairInv'
    BY <1>1 DEF StartCycle, StoresOK, CyclesOK, BoundsOK
  <1>2. ASSUME NEW n \in Node, EndCycle(n) PROVE RepairInv'
    BY <1>2 DEF EndCycle, StoresOK, CyclesOK, BoundsOK
  <1>3. ASSUME NEW n \in Node, KeysDone(n) PROVE RepairInv'
    <2>1. RecordsOK(NoRecords, writes)
      BY DEF RecordsOK, NoRecords
    <2> QED BY <1>3, <2>1 DEF KeysDone, StoresOK, CyclesOK, BoundsOK
  <1>4. ASSUME NEW n \in Node, NEW m \in Node, PeerDone(n, m) PROVE RepairInv'
    BY <1>4 DEF PeerDone, StoresOK, CyclesOK, BoundsOK
  <1>5. ASSUME NEW n \in Node, NEW m \in Node, PeerDiffers(n, m) PROVE RepairInv'
    BY <1>5 DEF PeerDiffers, StoresOK, CyclesOK, BoundsOK
  <1>6. ASSUME NEW n \in Node, NEW m \in Node, FetchKeys(n, m) PROVE RepairInv'
    <2> DEFINE t == [k \in DOMAIN data[m] \cap DOMAIN seen[n] |-> data[m][k]]
    <2>1. RecordsOK(t, writes)
      BY SomeRecords DEF StoresOK
    <2>2. todo' = [todo EXCEPT ![n] = t]
      BY <1>6 DEF FetchKeys, RemoteKeys
    <2> HIDE DEF t
    <2>3. picked[n] = {}
      BY <1>6 DEF FetchKeys, CyclesOK
    <2> QED BY <1>6, <2>1, <2>2, <2>3 DEF FetchKeys, StoresOK, CyclesOK, BoundsOK
  <1>7. ASSUME NEW n \in Node, NEW m \in Node, PeerFails(n, m) PROVE RepairInv'
    BY <1>0, <1>7 DEF PeerFails, StoresOK, CyclesOK, BoundsOK
  <1>8. ASSUME NEW n \in Node, NEW k, Drop(n, k)
        PROVE  /\ DOMAIN todo' = Node
               /\ \A m \in Node : RecordsOK(todo'[m], writes)
               /\ \A m \in Node : m # n => todo'[m] = todo[m]
    <2> DEFINE t == [j \in DOMAIN todo[n] \ {k} |-> todo[n][j]]
    <2>1. RecordsOK(t, writes)
      BY SomeRecords DEF StoresOK
    <2>2. todo' = [todo EXCEPT ![n] = t]
      BY <1>8 DEF Drop
    <2> HIDE DEF t
    <2> QED BY <2>1, <2>2 DEF StoresOK
  <1>9. ASSUME NEW n \in Node, NEW k \in Key, SkipKey(n, k) PROVE RepairInv'
    <2>1. Drop(n, k) /\ picked[n] = {}
      BY <1>9 DEF SkipKey, CyclesOK
    <2> QED BY <1>8, <1>9, <2>1 DEF SkipKey, StoresOK, CyclesOK, BoundsOK
  <1>10. ASSUME NEW n \in Node, NEW k \in Key, AcceptKey(n, k) PROVE RepairInv'
    BY <1>10 DEF AcceptKey, StoresOK, CyclesOK, BoundsOK
  <1>11. ASSUME NEW n \in Node, NEW k \in Key, SetKey(n, k) PROVE RepairInv'
    <2> DEFINE d == [j \in DOMAIN data[n] \cup {k} |-> IF j = k THEN todo[n][k] ELSE data[n][j]]
    <2>1. k \in DOMAIN todo[n]
      BY <1>11 DEF SetKey, CyclesOK
    <2>2. todo[n][k] \in [value : 0 .. writes, version : 1 .. writes + 1]
      BY <2>1 DEF StoresOK, RecordsOK
    <2>3. RecordsOK(d, writes)
      BY <1>0, <2>2, SetRecord DEF StoresOK
    <2>4. data' = [data EXCEPT ![n] = d]
      BY <1>11 DEF SetKey
    <2> HIDE DEF d
    <2>5. Drop(n, k) /\ picked' = [picked EXCEPT ![n] = {}]
      BY <1>11 DEF SetKey
    <2> QED BY <1>8, <1>11, <2>3, <2>4, <2>5 DEF SetKey, StoresOK, CyclesOK, BoundsOK
  <1>12. ASSUME NEW n \in Node, NEW k \in Key, Write(n, k) PROVE RepairInv'
    <2> DEFINE x == [value |-> writes + 1, version |-> Version(data[n], k) + 1]
               d == [j \in DOMAIN data[n] \cup {k} |-> IF j = k THEN x ELSE data[n][j]]
    <2>1. x \in [value : 0 .. writes + 1, version : 1 .. (writes + 1) + 1]
      <3>1. Version(data[n], k) \in 0 .. writes + 1
        BY <1>0 DEF Version, StoresOK, RecordsOK
      <3> QED BY <1>0, <3>1
    <2>2. \A m \in Node : /\ RecordsOK(data[m], writes + 1) /\ RecordsOK(seen[m], writes + 1)
                          /\ RecordsOK(todo[m], writes + 1)
      BY <1>0, RecordsStay DEF StoresOK
    <2> HIDE DEF x
    <2>3. RecordsOK(d, writes + 1)
      BY <1>0, <2>1, <2>2, SetRecord
    <2>4. data' = [data EXCEPT ![n] = d] /\ writes' = writes + 1 /\ writes < MaxWrites
      BY <1>12 DEF Write, x
    <2> HIDE DEF d
    <2>5. StoresOK'
      BY <1>12, <2>2, <2>3, <2>4 DEF Write, StoresOK
    <2>6. CyclesOK'
      BY <1>12 DEF Write, CyclesOK
    <2>7. last' = last \/ last' = [last EXCEPT ![k] = x]
      BY <1>12 DEF Write, x
    <2>8. last' \in [Key -> [value : 0 .. writes + 1, version : 0 .. (writes + 1) + 1]]
      BY <1>0, <2>1, <2>7 DEF BoundsOK
    <2>9. marred' \subseteq Key /\ failures' = failures
      BY <1>12 DEF Write, BoundsOK
    <2> QED BY <1>0, <2>4, <2>5, <2>6, <2>8, <2>9 DEF BoundsOK
  <1>13. CASE UNCHANGED vars
    BY <1>13 DEF vars, StoresOK, CyclesOK, BoundsOK
  <1> QED BY <1>1, <1>2, <1>3, <1>4, <1>5, <1>6, <1>7, <1>9, <1>10, <1>11, <1>12, <1>13
          DEF Next, RepairStep

\* The type invariant of the repair cycles: what a node keeps and fetches are
\* records of keys, a key is set only while it is among the fetched ones, and no
\* node repairs from itself, whatever writes, failed calls and cycles of other
\* nodes fall in between.
THEOREM RepairTypes == Spec => []TypeOK
  BY RepairInit, RepairKeeps, InvTypes, PTL DEF Spec

\* MerkleTree.compare finds the divergent keys of two replicas that hold the same
\* keys, and only buckets that hold one, for any set of keys and any bucket size,
\* so for trees of every height and with odd numbers of nodes on any level.
THEOREM MerkleSafety == Spec => []MerkleFinds
  <1>1. TypeOK => MerkleFinds
    <2> SUFFICES ASSUME TypeOK, NEW n \in Node, NEW m \in Node, NEW size \in BucketSizes,
                        n # m, DOMAIN data[n] = DOMAIN data[m]
                 PROVE  /\ Differs(data[n], data[m])
                             \subseteq KeysInRanges(data[n], Compare(data[n], data[m], size))
                        /\ \A r \in Compare(data[n], data[m], size) :
                              KeysInRanges(data[n], {r}) \cap Differs(data[n], data[m]) # {}
      BY DEF MerkleFinds
    <2>1. DOMAIN data[n] \in SUBSET Nat /\ IsFiniteSet(DOMAIN data[n])
      BY RepairAssumption, FS_Subset DEF TypeOK
    <2>2. \A k \in DOMAIN data[n] : data[n][k] \in Record /\ data[m][k] \in Record
      BY DEF TypeOK
    <2>3. size \in Nat \ {0}
      BY RepairAssumption
    <2> QED BY <2>1, <2>2, <2>3, MerkleExact
  <1> QED BY <1>1, RepairTypes, PTL

-----------------------------------------------------------------------------
(* Version vectors *)

\* The updates a vector stands for.
Counted(v) == {e \in Node \X (Nat \ {0}) : e[2] <= V!Get(v, e[1])}

StandsFor(v, K) == V!IsVector(v) /\ K = Counted(v)

VectorInv ==
    /\ DOMAIN vector = Node /\ DOMAIN known = Node
    /\ \A n \in Node : StandsFor(vector[n], known[n])
    /\ \A s \in sent : StandsFor(s.vector, s.known)

-----------------------------------------------------------------------------
\* get returns a natural number, also for a node the dictionary lacks.
LEMMA GetType ==
    ASSUME NEW v, V!IsVector(v), NEW n
    PROVE  V!Get(v, n) \in Nat
  BY DEF V!IsVector, V!Get

\* The updates of one node that a vector stands for.
LEMMA InCounted ==
    ASSUME NEW v, NEW n \in Node, NEW i \in Nat \ {0}
    PROVE  <<n, i>> \in Counted(v) <=> i <= V!Get(v, n)
  BY DEF Counted

\* increment adds the next update of the node and nothing else.
LEMMA IncrementAdds ==
    ASSUME NEW v, V!IsVector(v), NEW n \in Node
    PROVE  StandsFor(V!Increment(v, n), Counted(v) \cup {<<n, V!Get(v, n) + 1>>})
  <1> DEFINE w == V!Increment(v, n)
  <1>1. V!Get(v, n) \in Nat
    BY GetType
  <1>2. V!IsVector(w)
    <2>1. DOMAIN w = DOMAIN v \cup {n}
      BY DEF V!Increment
    <2>2. \A m \in DOMAIN w : w[m] \in Nat \ {0}
      BY <1>1 DEF V!Increment, V!IsVector
    <2>3. w = [m \in DOMAIN w |-> w[m]]
      BY DEF V!Increment
    <2> HIDE DEF w
    <2> QED
      BY <2>1, <2>2, <2>3 DEF V!IsVector
  <1>3. \A m \in Node : V!Get(w, m) = IF m = n THEN V!Get(v, n) + 1 ELSE V!Get(v, m)
    BY DEF V!Increment, V!Get
  <1>4. ASSUME NEW m \in Node, NEW i \in Nat \ {0}
        PROVE  <<m, i>> \in Counted(w) <=> <<m, i>> \in Counted(v) \cup {<<n, V!Get(v, n) + 1>>}
    <2> HIDE DEF w
    <2>1. V!Get(w, m) = IF m = n THEN V!Get(v, n) + 1 ELSE V!Get(v, m)
      BY <1>3
    <2>2. V!Get(v, m) \in Nat
      BY GetType
    <2>3. <<m, i>> \in Counted(w) <=> i <= V!Get(w, m)
      BY InCounted
    <2>4. <<m, i>> \in Counted(v) <=> i <= V!Get(v, m)
      BY InCounted
    <2>5. <<m, i>> = <<n, V!Get(v, n) + 1>> <=> m = n /\ i = V!Get(v, n) + 1
      OBVIOUS
    <2> QED
      BY <1>1, <2>1, <2>2, <2>3, <2>4, <2>5
  <1>5. Counted(w) = Counted(v) \cup {<<n, V!Get(v, n) + 1>>}
    <2> HIDE DEF w
    <2>1. Counted(w) \subseteq Node \X (Nat \ {0})
      BY DEF Counted
    <2>2. Counted(v) \cup {<<n, V!Get(v, n) + 1>>} \subseteq Node \X (Nat \ {0})
      BY <1>1 DEF Counted
    <2> QED
      BY <1>4, <2>1, <2>2
  <1> QED
    BY <1>2, <1>5 DEF StandsFor

\* merge unites what the two vectors stand for.
LEMMA MergeUnites ==
    ASSUME NEW v, V!IsVector(v), NEW w, V!IsVector(w)
    PROVE  StandsFor(V!Merge(v, w), Counted(v) \cup Counted(w))
  <1> DEFINE u == V!Merge(v, w)
  <1>1. \A m : V!Get(v, m) \in Nat /\ V!Get(w, m) \in Nat
    BY GetType
  <1>2. V!IsVector(u)
    <2>1. DOMAIN u = DOMAIN v \cup DOMAIN w
      BY DEF V!Merge
    <2>2. \A m \in DOMAIN u : u[m] \in Nat \ {0}
      BY <1>1 DEF V!Merge, V!IsVector, V!Get, V!Larger
    <2>3. u = [m \in DOMAIN u |-> u[m]]
      BY DEF V!Merge
    <2> HIDE DEF u
    <2> QED
      BY <2>1, <2>2, <2>3 DEF V!IsVector
  <1>3. \A m \in Node : V!Get(u, m) = V!Larger(V!Get(v, m), V!Get(w, m))
    BY DEF V!Merge, V!Get, V!Larger
  <1>4. ASSUME NEW m \in Node, NEW i \in Nat \ {0}
        PROVE  <<m, i>> \in Counted(u) <=> <<m, i>> \in Counted(v) \cup Counted(w)
    <2> HIDE DEF u
    <2>1. /\ <<m, i>> \in Counted(u) <=> i <= V!Get(u, m)
          /\ <<m, i>> \in Counted(v) <=> i <= V!Get(v, m)
          /\ <<m, i>> \in Counted(w) <=> i <= V!Get(w, m)
      BY InCounted
    <2> QED
      BY <1>1, <1>3, <2>1 DEF V!Larger
  <1>5. Counted(u) = Counted(v) \cup Counted(w)
    <2> HIDE DEF u
    <2> QED
      BY <1>4 DEF Counted
  <1> QED
    BY <1>2, <1>5 DEF StandsFor

\* One vector has a newer entry exactly when it stands for an update that the
\* other does not.
LEMMA NewerMeansMore ==
    ASSUME NEW v, V!IsVector(v), NEW w, V!IsVector(w)
    PROVE  V!Newer(v, w) <=> ~(Counted(v) \subseteq Counted(w))
  <1>1. \A m : V!Get(v, m) \in Nat /\ V!Get(w, m) \in Nat
    BY GetType
  <1>2. ASSUME V!Newer(v, w)
        PROVE  ~(Counted(v) \subseteq Counted(w))
    <2>1. PICK n \in DOMAIN v \cup DOMAIN w : V!Get(v, n) > V!Get(w, n)
      BY <1>2 DEF V!Newer
    <2>2. n \in Node /\ V!Get(v, n) \in Nat \ {0}
      BY <1>1, <2>1 DEF V!IsVector
    <2>3. <<n, V!Get(v, n)>> \in Counted(v)
      BY <2>2, InCounted
    <2>4. <<n, V!Get(v, n)>> \notin Counted(w)
      BY <1>1, <2>1, <2>2, InCounted
    <2> QED
      BY <2>3, <2>4
  <1>3. ASSUME ~(Counted(v) \subseteq Counted(w))
        PROVE  V!Newer(v, w)
    <2>1. PICK n \in Node, i \in Nat \ {0} : <<n, i>> \in Counted(v) /\ <<n, i>> \notin Counted(w)
      BY <1>3 DEF Counted
    <2>2. i <= V!Get(v, n) /\ ~(i <= V!Get(w, n))
      BY <2>1, InCounted
    <2>3. V!Get(v, n) > V!Get(w, n)
      BY <1>1, <2>2
    <2>4. n \in DOMAIN v
      BY <2>2 DEF V!Get
    <2> QED
      BY <2>3, <2>4 DEF V!Newer
  <1> QED
    BY <1>2, <1>3

\* compare gives the verdict on what the vectors stand for.
LEMMA CompareIsVerdict ==
    ASSUME NEW v, NEW K, StandsFor(v, K), NEW w, NEW L, StandsFor(w, L)
    PROVE  V!Compare(v, w) = V!Verdict(K, L)
  <1>1. V!Newer(v, w) <=> ~(K \subseteq L)
    BY NewerMeansMore DEF StandsFor
  <1>2. V!Newer(w, v) <=> ~(L \subseteq K)
    BY NewerMeansMore DEF StandsFor
  <1>3. K = L <=> K \subseteq L /\ L \subseteq K
    OBVIOUS
  <1> QED
    BY <1>1, <1>2, <1>3 DEF V!Compare, V!Verdict

-----------------------------------------------------------------------------
LEMMA VectorInit == V!Init => VectorInv
  <1> SUFFICES ASSUME V!Init PROVE VectorInv
    OBVIOUS
  <1>1. ASSUME NEW n \in Node PROVE StandsFor(vector[n], known[n])
    <2>1. vector[n] = [m \in {} |-> 0] /\ known[n] = {}
      BY DEF V!Init
    <2>2. V!IsVector(vector[n])
      BY <2>1 DEF V!IsVector
    <2>3. \A m : V!Get(vector[n], m) = 0
      BY <2>1 DEF V!Get
    <2>4. Counted(vector[n]) = {}
      BY <2>3 DEF Counted
    <2> QED
      BY <2>1, <2>2, <2>4 DEF StandsFor
  <1> QED
    BY <1>1 DEF V!Init, VectorInv

\* Every step keeps what the vectors stand for.
LEMMA VectorKeeps == VectorInv /\ [V!Next]_(V!vars) => VectorInv'
  <1> SUFFICES ASSUME VectorInv, [V!Next]_(V!vars) PROVE VectorInv'
    OBVIOUS
  <1> USE DEF VectorInv
  <1>1. ASSUME NEW n \in Node, V!Update(n) PROVE VectorInv'
    <2>1. StandsFor(V!Increment(vector[n], n), known[n] \cup {<<n, V!Get(vector[n], n) + 1>>})
      BY IncrementAdds DEF StandsFor
    <2> QED
      BY <1>1, <2>1 DEF V!Update
  <1>2. ASSUME NEW n \in Node, V!Send(n) PROVE VectorInv'
    BY <1>2 DEF V!Send
  <1>3. ASSUME NEW n \in Node, NEW s \in sent, V!Receive(n, s) PROVE VectorInv'
    <2>1. StandsFor(V!Merge(vector[n], s.vector), known[n] \cup s.known)
      BY MergeUnites DEF StandsFor
    <2> QED
      BY <1>3, <2>1 DEF V!Receive
  <1>4. ASSUME UNCHANGED V!vars PROVE VectorInv'
    BY <1>4 DEF V!vars
  <1> QED
    BY <1>1, <1>2, <1>3, <1>4 DEF V!Next

\* compare on the vectors of two replicas, or of a replica and a message, says how
\* the updates behind them are related, for any replicas, any number of updates,
\* and vectors that arrive late, repeatedly or out of order.
THEOREM Causality == V!Spec => []V!ComparesCausally
  <1>1. VectorInv => V!ComparesCausally
    BY CompareIsVerdict DEF VectorInv, V!ComparesCausally
  <1> QED
    BY VectorInit, VectorKeeps, <1>1, PTL DEF V!Spec
=============================================================================
