------------------------- MODULE GraphHandlersProofs -------------------------
(***************************************************************************)
(* Facts about the handlers as functions of the tables, for any tables     *)
(* that keep the schema's constraints: chains of merges, what a change     *)
(* leaves of the constraints, and what its snapshot brings back.           *)
(***************************************************************************)
EXTENDS GraphHandlers, InductionLemmas

-----------------------------------------------------------------------------
(* Chains of merges. *)

\* Pointers to nodes, without a cycle.
Forest(g) == g.canon \in [Node -> Node \union {None}] /\ Acyclic(g)

\* The first m + 1 nodes that _canonical_id sees, from n on.
Trail(g, n, m, at) ==
  /\ DOMAIN at = 0 .. m
  /\ at[0] = n
  /\ \A k \in 1 .. m : at[k] = Hop(g, at[k - 1])

\* The loop has a trail, and reads the answer off its end.
LEMMA RootTrail ==
  ASSUME NEW g, NEW n
  PROVE  \E at : Trail(g, n, Cardinality(Node), at) /\ RootOf(g, n) = at[Cardinality(Node)]
<1>. DEFINE N == Cardinality(Node)
            IsAt(m, f) == f = [k \in 0 .. m |-> IF k = 0 THEN n ELSE Hop(g, f[k - 1])]
            S == {m \in Nat : \E f : IsAt(m, f)}
<1>1. N \in Nat
  BY NodeAssumption, FS_CardinalityType
<1>2. 0 \in S
  <2>. DEFINE f == [k \in 0 .. 0 |-> n]
  <2>1. IsAt(0, f)
    OBVIOUS
  <2>2. QED
    BY <2>1
<1>3. ASSUME NEW m \in Nat, m \in S PROVE m + 1 \in S
  <2>1. PICK f : IsAt(m, f)
    BY <1>3
  <2>. DEFINE h == [k \in 0 .. m + 1 |-> IF k = m + 1 THEN Hop(g, f[m]) ELSE f[k]]
  <2>2. \A k \in 0 .. m : f[k] = IF k = 0 THEN n ELSE Hop(g, f[k - 1])
    BY <2>1
  <2>3. ASSUME NEW k \in 0 .. m + 1 PROVE h[k] = IF k = 0 THEN n ELSE Hop(g, h[k - 1])
    <3>1. CASE k = m + 1
      BY <3>1
    <3>2. CASE k # m + 1
      <4>1. h[k] = f[k] /\ k \in 0 .. m
        BY <3>2
      <4>2. k # 0 => h[k - 1] = f[k - 1]
        BY <4>1
      <4>3. QED
        BY <2>2, <4>1, <4>2
    <3>3. QED
      BY <3>1, <3>2
  <2>4. IsAt(m + 1, h)
    BY <2>3
  <2>5. QED
    <3>. HIDE DEF IsAt, h
    <3>1. QED
      BY <2>4
<1>4. N \in S
  <2>. HIDE DEF S
  <2>1. QED
    BY <1>1, <1>2, <1>3, NaturalInduction
<1>. DEFINE at == CHOOSE f : IsAt(N, f)
<1>5. IsAt(N, at)
  BY <1>4
<1>6. RootOf(g, n) = at[N]
  BY DEF RootOf
<1>7. Trail(g, n, N, at)
  <2>. HIDE DEF at, N
  <2>1. DOMAIN at = 0 .. N
    BY <1>5
  <2>2. \A k \in 0 .. N : at[k] = IF k = 0 THEN n ELSE Hop(g, at[k - 1])
    BY <1>5
  <2>3. QED
    BY <1>1, <2>1, <2>2 DEF Trail
<1>8. QED
  BY <1>6, <1>7

\* A trail stays among the nodes, and stays where it has ended.
LEMMA TrailStays ==
  ASSUME NEW g, g.canon \in [Node -> Node \union {None}], NEW n \in Node,
         NEW m \in Nat, NEW at, Trail(g, n, m, at)
  PROVE  /\ \A k \in 0 .. m : at[k] \in Node
         /\ g.canon[at[m]] # None => \A k \in 0 .. m : g.canon[at[k]] # None
<1>1. \A k \in 0 .. m : at[k] \in Node
  <2>. DEFINE S == {k \in Nat : k \in 0 .. m => at[k] \in Node}
  <2>1. 0 \in S
    BY DEF Trail
  <2>2. ASSUME NEW k \in Nat, k \in S PROVE k + 1 \in S
    <3>1. SUFFICES ASSUME k + 1 \in 0 .. m PROVE at[k + 1] \in Node
      OBVIOUS
    <3>2. at[k] \in Node /\ at[k + 1] = Hop(g, at[k])
      BY <2>2, <3>1 DEF Trail
    <3>3. QED
      BY <3>2 DEF Hop
  <2>3. Nat \subseteq S
    <3>. HIDE DEF S
    <3>1. QED
      BY <2>1, <2>2, NaturalInduction
  <2>4. QED
    BY <2>3
<1>2. ASSUME NEW k \in 0 .. m, g.canon[at[k]] = None PROVE g.canon[at[m]] = None
  <2>. DEFINE S == {j \in Nat : j >= k /\ j <= m => at[j] = at[k]}
  <2>1. 0 \in S
    OBVIOUS
  <2>2. ASSUME NEW j \in Nat, j \in S PROVE j + 1 \in S
    <3>1. SUFFICES ASSUME j + 1 >= k, j + 1 <= m PROVE at[j + 1] = at[k]
      OBVIOUS
    <3>2. CASE j + 1 = k
      BY <3>2
    <3>3. CASE j >= k
      <4>1. at[j] = at[k] /\ at[j + 1] = Hop(g, at[j])
        BY <2>2, <3>1, <3>3 DEF Trail
      <4>2. QED
        BY <1>2, <4>1 DEF Hop
    <3>4. QED
      BY <3>1, <3>2, <3>3
  <2>3. Nat \subseteq S
    <3>. HIDE DEF S
    <3>1. QED
      BY <2>1, <2>2, NaturalInduction
  <2>4. at[m] = at[k]
    BY <2>3
  <2>5. QED
    BY <1>2, <2>4
<1>3. QED
  BY <1>1, <1>2

\* In a forest no trail of as many hops as there are nodes is still under way:
\* two of its nodes would be the same one, and those between them a cycle.
LEMMA TrailEnds ==
  ASSUME NEW g, Forest(g), NEW n \in Node, NEW at, Trail(g, n, Cardinality(Node), at)
  PROVE  g.canon[at[Cardinality(Node)]] = None
<1>. DEFINE N == Cardinality(Node)
<1>1. N \in Nat
  BY NodeAssumption, FS_CardinalityType
<1>2. /\ \A k \in 0 .. N : at[k] \in Node
      /\ g.canon[at[N]] # None => \A k \in 0 .. N : g.canon[at[k]] # None
  BY <1>1, TrailStays DEF Forest
<1>3. SUFFICES ASSUME g.canon[at[N]] # None PROVE FALSE
  OBVIOUS
<1>4. \A k \in 0 .. N - 1 : at[k + 1] = g.canon[at[k]]
  BY <1>1, <1>2, <1>3 DEF Trail, Hop
<1>5. PICK i \in 0 .. N, j \in 0 .. N : i < j /\ at[i] = at[j]
  <2>1. IsFiniteSet(0 .. N) /\ Cardinality(0 .. N) = N + 1
    BY <1>1, FS_Interval
  <2>. DEFINE f == [k \in 0 .. N |-> at[k]]
  <2>2. f \in [0 .. N -> Node]
    BY <1>2
  <2>3. \E x, y \in 0 .. N : x # y /\ f[x] = f[y]
    <3>1. Cardinality(Node) < Cardinality(0 .. N)
      BY <1>1, <2>1
    <3>. HIDE DEF f
    <3>2. QED
      BY <2>1, <2>2, <3>1, NodeAssumption, FS_PigeonHole, Zenon
  <2>4. QED
    BY <1>1, <2>3
<1>. DEFINE S == {at[k] : k \in i .. j - 1}
<1>6. S \in SUBSET Node /\ at[i] \in S
  BY <1>1, <1>2, <1>5
<1>7. ASSUME NEW k \in i .. j - 1 PROVE g.canon[at[k]] \in S
  <2>1. g.canon[at[k]] = at[k + 1] /\ k + 1 \in i .. j
    BY <1>1, <1>4, <1>5
  <2>2. CASE k + 1 = j
    BY <1>5, <1>6, <2>1, <2>2
  <2>3. CASE k + 1 # j
    BY <1>1, <1>5, <2>1, <2>3
  <2>4. QED
    BY <2>2, <2>3
<1>8. QED
  <2>1. PICK x \in S : g.canon[x] \notin S
    BY <1>6 DEF Forest, Acyclic
  <2>2. QED
    BY <1>7, <2>1

\* _canonical_id ends at a canonical node.
LEMMA RootIsRoot ==
  ASSUME NEW g, Forest(g), NEW n \in Node
  PROVE  RootOf(g, n) \in Node /\ g.canon[RootOf(g, n)] = None
<1>1. PICK at : Trail(g, n, Cardinality(Node), at) /\ RootOf(g, n) = at[Cardinality(Node)]
  BY RootTrail
<1>2. Cardinality(Node) \in Nat
  BY NodeAssumption, FS_CardinalityType
<1>3. QED
  BY <1>1, <1>2, TrailStays, TrailEnds DEF Forest

\* The canonical node of a merged node is that of the node it was merged into.
LEMMA RootOfHop ==
  ASSUME NEW g, Forest(g), NEW n \in Node
  PROVE  RootOf(g, n) = IF g.canon[n] = None THEN n ELSE RootOf(g, g.canon[n])
<1>. DEFINE N == Cardinality(Node)
<1>1. N \in Nat
  BY NodeAssumption, FS_CardinalityType
<1>2. PICK at : Trail(g, n, N, at) /\ RootOf(g, n) = at[N]
  BY RootTrail
<1>3. CASE g.canon[n] = None
  <2>. DEFINE S == {k \in Nat : k <= N => at[k] = n}
  <2>1. 0 \in S
    BY <1>2 DEF Trail
  <2>2. ASSUME NEW k \in Nat, k \in S PROVE k + 1 \in S
    <3>1. SUFFICES ASSUME k + 1 <= N PROVE at[k + 1] = n
      OBVIOUS
    <3>2. at[k] = n /\ at[k + 1] = Hop(g, at[k])
      BY <1>1, <1>2, <2>2, <3>1 DEF Trail
    <3>3. QED
      BY <1>3, <3>2 DEF Hop
  <2>3. Nat \subseteq S
    <3>. HIDE DEF S
    <3>1. QED
      BY <2>1, <2>2, NaturalInduction
  <2>4. at[N] = n
    BY <1>1, <2>3
  <2>5. QED
    BY <1>2, <1>3, <2>4
<1>4. CASE g.canon[n] # None
  <2>1. g.canon[n] \in Node
    BY <1>4 DEF Forest
  <2>2. PICK b : Trail(g, g.canon[n], N, b) /\ RootOf(g, g.canon[n]) = b[N]
    BY RootTrail
  <2>. DEFINE S == {k \in Nat : k + 1 <= N => b[k] = at[k + 1]}
  <2>3. 0 \in S
    BY <1>1, <1>2, <1>4, <2>2 DEF Trail, Hop
  <2>4. ASSUME NEW k \in Nat, k \in S PROVE k + 1 \in S
    <3>1. SUFFICES ASSUME (k + 1) + 1 <= N PROVE b[k + 1] = at[(k + 1) + 1]
      OBVIOUS
    <3>2. b[k] = at[k + 1] /\ b[k + 1] = Hop(g, b[k])
      BY <1>1, <2>2, <2>4, <3>1 DEF Trail
    <3>3. at[(k + 1) + 1] = Hop(g, at[k + 1])
      BY <1>1, <1>2, <3>1 DEF Trail
    <3>4. QED
      BY <3>2, <3>3
  <2>5. Nat \subseteq S
    <3>. HIDE DEF S
    <3>1. QED
      BY <2>3, <2>4, NaturalInduction
  <2>6. N # 0
    BY NodeAssumption, FS_EmptySet
  <2>7. b[N - 1] = at[N]
    BY <1>1, <2>5, <2>6
  <2>8. g.canon[at[N]] = None
    BY <1>2, TrailEnds
  <2>9. b[N] = Hop(g, b[N - 1])
    BY <1>1, <2>2, <2>6 DEF Trail
  <2>10. b[N] = at[N]
    BY <2>7, <2>8, <2>9 DEF Hop
  <2>11. QED
    BY <1>2, <1>4, <2>2, <2>10
<1>5. QED
  BY <1>3, <1>4

\* Induction along the hops.
LEMMA HopInduction ==
  ASSUME NEW g, Forest(g), NEW S,
         \A n \in Node : g.canon[n] = None \/ g.canon[n] \in S => n \in S
  PROVE  Node \subseteq S
<1>1. SUFFICES ASSUME Node \ S # {} PROVE FALSE
  OBVIOUS
<1>2. PICK n \in Node \ S : g.canon[n] \notin Node \ S
  BY <1>1 DEF Forest, Acyclic
<1>3. QED
  BY <1>2 DEF Forest

\* Dropping pointers keeps a forest.
LEMMA FewerPointers ==
  ASSUME NEW g, Forest(g), NEW h, h.canon \in [Node -> Node \union {None}],
         \A n \in Node : h.canon[n] \in {g.canon[n], None}
  PROVE  Forest(h)
<1>1. ASSUME NEW S \in SUBSET Node, S # {} PROVE \E n \in S : h.canon[n] \notin S
  <2>1. PICK n \in S : g.canon[n] \notin S
    BY <1>1 DEF Forest, Acyclic
  <2>2. QED
    BY <2>1, NoneAssumption
<1>2. QED
  BY <1>1 DEF Forest, Acyclic

\* h is g with the canonical node l merged into the canonical node w.
Points(g, h, l, w) ==
  /\ {l, w} \subseteq Node /\ l # w
  /\ g.canon[l] = None /\ g.canon[w] = None
  /\ h.canon = [g.canon EXCEPT ![l] = w]

\* A merge keeps a forest ...
LEMMA MergedForest ==
  ASSUME NEW g, Forest(g), NEW h, NEW l, NEW w, Points(g, h, l, w)
  PROVE  Forest(h)
<1>1. h.canon \in [Node -> Node \union {None}]
  BY DEF Forest, Points
<1>2. ASSUME NEW S \in SUBSET Node, S # {}, \A n \in S : h.canon[n] \in S PROVE FALSE
  <2>1. PICK n \in S : g.canon[n] \notin S
    BY <1>2 DEF Forest, Acyclic
  <2>2. n = l /\ w \in S
    BY <1>2, <2>1 DEF Points, Forest
  <2>3. h.canon[w] = None
    BY DEF Points, Forest
  <2>4. QED
    BY <1>2, <2>2, <2>3, NoneAssumption
<1>3. QED
  BY <1>1, <1>2 DEF Forest, Acyclic

\* ... and what was read as the loser is read as the winner, all else as before.
LEMMA MergedRoots ==
  ASSUME NEW g, Forest(g), NEW h, NEW l, NEW w, Points(g, h, l, w), NEW n \in Node
  PROVE  RootOf(h, n) = IF RootOf(g, n) = l THEN w ELSE RootOf(g, n)
<1>. DEFINE S == {k \in Node : RootOf(h, k) = IF RootOf(g, k) = l THEN w ELSE RootOf(g, k)}
<1>1. Forest(h)
  BY MergedForest
<1>2. ASSUME NEW k \in Node, g.canon[k] = None \/ g.canon[k] \in S PROVE k \in S
  <2>1. RootOf(g, k) = IF g.canon[k] = None THEN k ELSE RootOf(g, g.canon[k])
    BY RootOfHop
  <2>2. RootOf(h, k) = IF h.canon[k] = None THEN k ELSE RootOf(h, h.canon[k])
    BY <1>1, RootOfHop
  <2>3. RootOf(h, w) = w
    <3>1. w \in Node /\ h.canon[w] = None
      BY DEF Points, Forest
    <3>2. QED
      BY <1>1, <3>1, RootOfHop
  <2>4. CASE k = l
    BY <2>1, <2>2, <2>3, <2>4, NoneAssumption DEF Points, Forest
  <2>5. CASE k # l
    <3>1. h.canon[k] = g.canon[k]
      BY <2>5 DEF Points, Forest
    <3>2. CASE g.canon[k] = None
      BY <2>1, <2>2, <2>5, <3>1, <3>2
    <3>3. CASE g.canon[k] # None
      BY <1>2, <2>1, <2>2, <3>1, <3>3
    <3>4. QED
      BY <3>2, <3>3
  <2>6. QED
    BY <2>4, <2>5
<1>3. Node \subseteq S
  <2>. HIDE DEF S
  <2>1. QED
    BY <1>2, HopInduction
<1>4. QED
  BY <1>3

-----------------------------------------------------------------------------
(* entity_merge. *)

\* What a merge leaves in each column.
MergedColumns(c, g, h) ==
  /\ IsMap(h) /\ DOMAIN h = DOMAIN g
  /\ \A x \in DOMAIN g \ {"edge", "mention", "props", "vec", "canon"} : h[x] = g[x]
  /\ h.node = g.node
  /\ h.edge = MergeEdges(c, g, g)
  /\ h.mention = MergeMentions(c, g, g)
  /\ h.props = [g.props EXCEPT ![c.winner] = Override(g.props[c.loser], g.props[c.winner])]
  /\ h.vec = IF Backfills(c, g) THEN g.vec \union {c.winner} ELSE g.vec
  /\ h.canon = [g.canon EXCEPT ![c.loser] = c.winner]

\* A merge writes the columns one by one.
LEMMA MergeColumns ==
  ASSUME NEW g, RowsOK(g), NEW c, NEW h, h = MergeWrites(c, g, g)
  PROVE  MergedColumns(c, g, h)
<1>1. DOMAIN h = DOMAIN g
  BY DEF MergeWrites
<1>2. IsMap(h)
  BY DEF MergeWrites, IsMap
<1>3. QED
  BY <1>1, <1>2 DEF MergeWrites, RowsOK, MergedColumns

\* What moving a row takes for granted; a valid merge has it.
TwoNodes(c, g) == {c.loser, c.winner} \subseteq g.node /\ c.loser # c.winner

\* (MergeValid asks for it.)
LEMMA ValidTwoNodes ==
  ASSUME NEW g, NEW c, MergeValid(c, g)
  PROVE  TwoNodes(c, g)
BY DEF MergeValid, TwoNodes

\* No edge is both moved and added to: a fold's target is not at the loser.
LEMMA MergeSets ==
  ASSUME NEW g, RowsOK(g), NEW c, TwoNodes(c, g)
  PROVE  /\ FoldTargets(c, g) \intersect EdgesAt(g, c.loser) = {}
         /\ DeletedEdges(c, g) \subseteq EdgesAt(g, c.loser)
         /\ RepointedEdges(c, g) \subseteq EdgesAt(g, c.loser)
         /\ RepointedEdges(c, g) \intersect DeletedEdges(c, g) = {}
         /\ \A f \in FoldTargets(c, g) : g.edge[f] \in EdgeRow
         /\ \A e \in EdgesAt(g, c.loser) : g.edge[e] \in EdgeRow /\ Moved(g.edge[e], c) \in EdgeRow
<1>1. ASSUME NEW e \in EdgesAt(g, c.loser)
      PROVE  g.edge[e] \in EdgeRow /\ Moved(g.edge[e], c) \in EdgeRow
  <2>1. g.edge[e] \in EdgeRow
    BY <1>1 DEF EdgesAt, RowsOK
  <2>2. c.winner \in Node
    BY DEF TwoNodes, RowsOK
  <2>3. QED
    BY <2>1, <2>2 DEF Moved, EdgeRow
<1>2. ASSUME NEW e \in EdgeId, NEW f \in EdgeId, FoldsInto(e, f, c, g)
      PROVE  g.edge[f] \in EdgeRow /\ f \notin EdgesAt(g, c.loser)
  <2>1. g.edge[f] \in EdgeRow
    BY <1>2 DEF FoldsInto, RowsOK
  <2>2. g.edge[e] \in EdgeRow
    BY <1>1, <1>2 DEF FoldsInto
  <2>3. Moved(g.edge[e], c).source # c.loser /\ Moved(g.edge[e], c).target # c.loser
    BY <2>2 DEF Moved, EdgeRow, TwoNodes
  <2>4. QED
    BY <1>2, <2>1, <2>3 DEF FoldsInto, SameEnds, EdgesAt
<1>3. QED
  BY <1>1, <1>2 DEF FoldTargets, FoldedEdges, DeletedEdges, LoopEdges, RepointedEdges, FoldsInto

\* The rows that move keep clear of each other and of those that stay.
LEMMA MovedDistinct ==
  ASSUME NEW g, RowsOK(g), Constraints(g), NEW c, TwoNodes(c, g)
  PROVE  /\ \A x \in RepointedEdges(c, g), y \in EdgeId :
              g.edge[y] # None => ~SameEnds(g.edge[y], Moved(g.edge[x], c))
         /\ \A x, y \in RepointedEdges(c, g) :
              x # y => ~SameEnds(Moved(g.edge[x], c), Moved(g.edge[y], c))
         /\ \A x \in RepointedEdges(c, g) :
              /\ {Moved(g.edge[x], c).source, Moved(g.edge[x], c).target} \subseteq g.node \ {c.loser}
              /\ Moved(g.edge[x], c).source # Moved(g.edge[x], c).target
<1>1. ASSUME NEW x \in RepointedEdges(c, g)
      PROVE  /\ x \in EdgesAt(g, c.loser) /\ x \in EdgeId /\ g.edge[x] # None
             /\ g.edge[x] \in EdgeRow /\ c.loser \in {g.edge[x].source, g.edge[x].target}
             /\ Moved(g.edge[x], c).source # Moved(g.edge[x], c).target
  BY MergeSets DEF RepointedEdges, DeletedEdges, LoopEdges, EdgesAt
<1>2. ASSUME NEW x \in RepointedEdges(c, g), NEW y \in EdgeId, g.edge[y] # None,
             SameEnds(g.edge[y], Moved(g.edge[x], c))
      PROVE  FALSE
  BY <1>1, <1>2 DEF RepointedEdges, DeletedEdges, FoldedEdges, FoldsInto
<1>3. ASSUME NEW x \in RepointedEdges(c, g), NEW y \in RepointedEdges(c, g), x # y,
             SameEnds(Moved(g.edge[x], c), Moved(g.edge[y], c))
      PROVE  FALSE
  <2>1. ~SameEnds(g.edge[x], g.edge[y])
    BY <1>1, <1>3 DEF Constraints
  <2>2. /\ g.edge[x] \in EdgeRow /\ c.loser \in {g.edge[x].source, g.edge[x].target}
        /\ Moved(g.edge[x], c).source # Moved(g.edge[x], c).target
    BY <1>1
  <2>3. /\ g.edge[y] \in EdgeRow /\ c.loser \in {g.edge[y].source, g.edge[y].target}
        /\ Moved(g.edge[y], c).source # Moved(g.edge[y], c).target
    BY <1>1
  <2>4. QED
    BY <1>3, <2>1, <2>2, <2>3 DEF Moved, SameEnds, EdgeRow
<1>4. ASSUME NEW x \in RepointedEdges(c, g)
      PROVE  {Moved(g.edge[x], c).source, Moved(g.edge[x], c).target} \subseteq g.node \ {c.loser}
  <2>1. g.edge[x].source \in g.node /\ g.edge[x].target \in g.node /\ g.edge[x] \in EdgeRow
    BY <1>1 DEF Constraints
  <2>2. QED
    BY <2>1 DEF Moved, EdgeRow, TwoNodes
<1>5. QED
  BY <1>1, <1>2, <1>3, <1>4

\* The row of each edge after a merge.
LEMMA MergedEdge ==
  ASSUME NEW g, RowsOK(g), NEW c, MergeValid(c, g), NEW e \in EdgeId,
         NEW r, r = MergeEdges(c, g, g)[e]
  PROVE  /\ e \in DeletedEdges(c, g) => r = None
         /\ e \in RepointedEdges(c, g) => r = Moved(g.edge[e], c) /\ r \in EdgeRow
         /\ e \in FoldTargets(c, g) =>
              r = [g.edge[e] EXCEPT !.weight = FoldedWeight(e, c, g)] /\ r \in EdgeRow
         /\ e \notin EdgesAt(g, c.loser) \union FoldTargets(c, g) => r = g.edge[e]
<1>1. e \in FoldTargets(c, g) => FoldedWeight(e, c, g) \in Nat \ {0}
  <2>1. SUFFICES ASSUME e \in FoldTargets(c, g) PROVE FoldedWeight(e, c, g) \in Nat \ {0}
    OBVIOUS
  <2>2. \E x \in EdgeId : FoldsInto(x, e, c, g)
    BY <2>1 DEF FoldTargets
  <2>. DEFINE x == CHOOSE x \in EdgeId : FoldsInto(x, e, c, g)
  <2>3. FoldsInto(x, e, c, g)
    BY <2>2
  <2>4. g.edge[x] \in EdgeRow /\ g.edge[e] \in EdgeRow
    BY <2>1, <2>3, ValidTwoNodes, MergeSets DEF FoldsInto
  <2>5. FoldedWeight(e, c, g) = g.edge[e].weight + g.edge[x].weight
    BY DEF FoldedWeight
  <2>6. QED
    <3>. HIDE DEF x
    <3>1. QED
      BY <2>4, <2>5 DEF EdgeRow
<1>2. e \in FoldTargets(c, g) =>
        [g.edge[e] EXCEPT !.weight = FoldedWeight(e, c, g)] \in EdgeRow
  BY <1>1, ValidTwoNodes, MergeSets DEF EdgeRow
<1>3. EdgesAt(g, c.loser) = DeletedEdges(c, g) \union RepointedEdges(c, g)
  BY ValidTwoNodes, MergeSets DEF RepointedEdges
<1>4. QED
  BY <1>2, <1>3, ValidTwoNodes, MergeSets DEF MergeEdges

\* The row of each mention after a merge.
LEMMA MergedMention ==
  ASSUME NEW g, RowsOK(g), NEW c, MergeValid(c, g), NEW m \in MentionId,
         NEW r, r = MergeMentions(c, g, g)[m]
  PROVE  /\ m \in DeletedMentions(c, g) => r = None
         /\ m \in RepointedMentions(c, g) =>
              /\ g.mention[m] \in MentionRow /\ g.mention[m].node = c.loser
              /\ r = [g.mention[m] EXCEPT !.node = c.winner] /\ r \in MentionRow
         /\ m \notin MentionsOf(g, c.loser) => r = g.mention[m]
<1>1. c.winner \in Node
  BY DEF MergeValid, RowsOK
<1>2. m \in MentionsOf(g, c.loser) => g.mention[m] \in MentionRow
  BY DEF MentionsOf, RowsOK
<1>3. QED
  BY <1>1, <1>2 DEF MergeMentions, DeletedMentions, RepointedMentions, MentionsOf, MentionRow

\* A valid merge of well-formed rows leaves well-formed rows ...
LEMMA MergeRowsOK ==
  ASSUME NEW g, RowsOK(g), NEW c, MergeValid(c, g), NEW h, h = MergeWrites(c, g, g)
  PROVE  RowsOK(h)
<1>0. MergedColumns(c, g, h)
  BY MergeColumns
<1>1. {c.loser, c.winner} \subseteq Node /\ {c.loser, c.winner} \subseteq g.node
  BY DEF MergeValid, RowsOK
<1>2. h.edge \in [EdgeId -> EdgeRow \union {None}]
  <2>1. ASSUME NEW e \in EdgeId PROVE MergeEdges(c, g, g)[e] \in EdgeRow \union {None}
    <3>1. EdgesAt(g, c.loser) = DeletedEdges(c, g) \union RepointedEdges(c, g)
      BY ValidTwoNodes, MergeSets DEF RepointedEdges
    <3>2. QED
      BY <3>1, MergedEdge DEF RowsOK
  <2>2. QED
    BY <2>1, <1>0 DEF MergedColumns, MergeEdges
<1>3. h.mention \in [MentionId -> MentionRow \union {None}]
  <2>1. ASSUME NEW m \in MentionId PROVE MergeMentions(c, g, g)[m] \in MentionRow \union {None}
    BY MergedMention DEF RowsOK, RepointedMentions
  <2>2. QED
    BY <2>1, <1>0 DEF MergedColumns, MergeMentions
<1>4. h.canon \in [Node -> Node \union {None}] /\ \A n \in Node \ h.node : h.canon[n] = None
  BY <1>1, <1>0 DEF MergedColumns, RowsOK
<1>5. IsMap(h.props) /\ DOMAIN h.props = Node
  <2>1. h.props = [g.props EXCEPT ![c.winner] = Override(g.props[c.loser], g.props[c.winner])]
    BY <1>0 DEF MergedColumns
  <2>2. QED
    BY <2>1 DEF RowsOK, IsMap
<1>6. h.node \subseteq Node /\ h.vec \subseteq h.node
  BY <1>1, <1>0 DEF MergedColumns, RowsOK
<1>7. IsMap(h) /\ {"node", "canon", "props", "vec", "edge", "mention"} \subseteq DOMAIN h
  BY <1>0 DEF MergedColumns, RowsOK
<1>8. QED
  BY <1>2, <1>3, <1>4, <1>5, <1>6, <1>7 DEF RowsOK

\* ... finds all rows it updates, and meets every constraint.
LEMMA MergeStorable ==
  ASSUME NEW g, RowsOK(g), Constraints(g), NEW c, MergeValid(c, g),
         NEW h, h = MergeWrites(c, g, g)
  PROVE  MergeRows(c, g, g) /\ Constraints(h)
<1>0. MergedColumns(c, g, h)
  BY MergeColumns
<1>1. MergeRows(c, g, g)
  BY ValidTwoNodes, MergeSets DEF MergeRows, MergeValid, EdgesAt, FoldTargets, FoldsInto,
                   RepointedMentions, MentionsOf
<1>2. h.node = g.node /\ h.edge = MergeEdges(c, g, g) /\ h.mention = MergeMentions(c, g, g)
  BY <1>0 DEF MergedColumns
<1>3. {c.loser, c.winner} \subseteq g.node /\ c.loser # c.winner
  BY DEF MergeValid
<1>4. \A n \in h.node : h.canon[n] \in h.node \union {None}
  BY <1>2, <1>3, <1>0 DEF MergedColumns, RowsOK, Constraints
<1>5. EdgesAt(g, c.loser) = DeletedEdges(c, g) \union RepointedEdges(c, g)
  BY ValidTwoNodes, MergeSets DEF RepointedEdges
<1>6. ASSUME NEW e \in EdgeId, h.edge[e] # None
      PROVE  /\ e \notin DeletedEdges(c, g)
             /\ g.edge[e] # None /\ g.edge[e] \in EdgeRow
             /\ h.edge[e].source \in g.node /\ h.edge[e].target \in g.node
             /\ e \in RepointedEdges(c, g) => h.edge[e] = Moved(g.edge[e], c)
             /\ e \notin RepointedEdges(c, g) => SameEnds(h.edge[e], g.edge[e])
  <2>1. e \notin DeletedEdges(c, g)
    BY <1>2, <1>6, MergedEdge
  <2>2. g.edge[e] # None /\ g.edge[e] \in EdgeRow
    <3>1. CASE e \in EdgesAt(g, c.loser)
      BY <3>1, ValidTwoNodes, MergeSets DEF EdgesAt
    <3>2. CASE e \in FoldTargets(c, g)
      BY <3>2, ValidTwoNodes, MergeSets DEF FoldTargets, FoldsInto
    <3>3. CASE e \notin EdgesAt(g, c.loser) \union FoldTargets(c, g)
      BY <1>2, <1>6, <3>3, MergedEdge DEF RowsOK
    <3>4. QED
      BY <3>1, <3>2, <3>3
  <2>3. e \in RepointedEdges(c, g) => h.edge[e] = Moved(g.edge[e], c)
    BY <1>2, MergedEdge
  <2>4. e \notin RepointedEdges(c, g) => SameEnds(h.edge[e], g.edge[e])
    <3>1. SUFFICES ASSUME e \notin RepointedEdges(c, g) PROVE SameEnds(h.edge[e], g.edge[e])
      OBVIOUS
    <3>2. CASE e \in FoldTargets(c, g)
      BY <1>2, <2>2, <3>2, MergedEdge DEF SameEnds, EdgeRow
    <3>3. CASE e \notin FoldTargets(c, g)
      BY <1>2, <1>5, <2>1, <3>1, <3>3, MergedEdge DEF SameEnds
    <3>4. QED
      BY <3>2, <3>3
  <2>5. g.edge[e].source \in g.node /\ g.edge[e].target \in g.node
    BY <2>2 DEF Constraints
  <2>6. h.edge[e].source \in g.node /\ h.edge[e].target \in g.node
    <3>1. CASE e \in RepointedEdges(c, g)
      BY <1>3, <2>2, <2>3, <2>5, <3>1 DEF Moved, EdgeRow
    <3>2. CASE e \notin RepointedEdges(c, g)
      BY <2>4, <2>5, <3>2 DEF SameEnds
    <3>3. QED
      BY <3>1, <3>2
  <2>7. QED
    BY <2>1, <2>2, <2>3, <2>4, <2>6
<1>7. ASSUME NEW e \in EdgeId, NEW f \in EdgeId, e # f, h.edge[e] # None, h.edge[f] # None,
             SameEnds(h.edge[e], h.edge[f])
      PROVE  FALSE
  <2>1. ~SameEnds(g.edge[e], g.edge[f])
    BY <1>6, <1>7 DEF Constraints
  <2>2. TwoNodes(c, g)
    BY ValidTwoNodes
  <2>3. CASE e \in RepointedEdges(c, g) /\ f \in RepointedEdges(c, g)
    BY <1>6, <1>7, <2>2, <2>3, MovedDistinct
  <2>4. CASE e \in RepointedEdges(c, g) /\ f \notin RepointedEdges(c, g)
    BY <1>6, <1>7, <2>2, <2>4, MovedDistinct DEF SameEnds
  <2>5. CASE e \notin RepointedEdges(c, g) /\ f \in RepointedEdges(c, g)
    BY <1>6, <1>7, <2>2, <2>5, MovedDistinct DEF SameEnds
  <2>6. CASE e \notin RepointedEdges(c, g) /\ f \notin RepointedEdges(c, g)
    BY <1>6, <1>7, <2>1, <2>6 DEF SameEnds
  <2>7. QED
    BY <2>3, <2>4, <2>5, <2>6
<1>8. ASSUME NEW m \in MentionId, h.mention[m] # None
      PROVE  /\ h.mention[m].node \in g.node
             /\ \A k \in MentionId \ {m} : h.mention[k] # h.mention[m]
  <2>1. ASSUME NEW k \in MentionId, h.mention[k] # None
        PROVE  /\ g.mention[k] # None /\ g.mention[k] \in MentionRow /\ g.mention[k].node \in g.node
               /\ \/ h.mention[k] = g.mention[k] /\ k \notin MentionsOf(g, c.loser)
                  \/ /\ k \in RepointedMentions(c, g) /\ g.mention[k].node = c.loser
                     /\ h.mention[k] = [g.mention[k] EXCEPT !.node = c.winner]
    <3>1. CASE k \in MentionsOf(g, c.loser)
      BY <1>2, <2>1, <3>1, MergedMention DEF RepointedMentions, MentionsOf, Constraints
    <3>2. CASE k \notin MentionsOf(g, c.loser)
      BY <1>2, <2>1, <3>2, MergedMention DEF Constraints, RowsOK
    <3>3. QED
      BY <3>1, <3>2
  <2>2. h.mention[m].node \in g.node
    BY <1>3, <1>8, <2>1 DEF MentionRow
  <2>3. ASSUME NEW k \in MentionId, NEW j \in MentionId, k # j, h.mention[k] # None,
               h.mention[k] = h.mention[j], k \in RepointedMentions(c, g)
        PROVE  FALSE
    <3>1. /\ g.mention[k] \in MentionRow /\ g.mention[j] \in MentionRow
          /\ g.mention[j] # None /\ g.mention[k] # g.mention[j]
      BY <2>1, <2>3 DEF Constraints
    <3>2. h.mention[k] = [g.mention[k] EXCEPT !.node = c.winner]
      BY <2>1, <2>3 DEF RepointedMentions
    <3>3. CASE j \in RepointedMentions(c, g)
      <4>1. h.mention[j] = [g.mention[j] EXCEPT !.node = c.winner]
        BY <2>1, <2>3, <3>3 DEF RepointedMentions
      <4>2. g.mention[k].node = c.loser /\ g.mention[j].node = c.loser
        BY <2>3, <3>3 DEF RepointedMentions, MentionsOf
      <4>3. g.mention[k].doc = g.mention[j].doc
        <5>1. h.mention[k].doc = g.mention[k].doc
          BY <3>1, <3>2 DEF MentionRow
        <5>2. h.mention[j].doc = g.mention[j].doc
          BY <3>1, <4>1 DEF MentionRow
        <5>3. QED
          BY <2>3, <5>1, <5>2
      <4>4. \A r \in MentionRow : r = [node |-> r.node, doc |-> r.doc]
        BY DEF MentionRow
      <4>5. QED
        BY <3>1, <4>2, <4>3, <4>4
    <3>4. CASE j \notin RepointedMentions(c, g)
      <4>1. h.mention[j] = g.mention[j]
        BY <2>1, <2>3, <3>4
      <4>2. g.mention[j].node = c.winner /\ g.mention[j].doc = g.mention[k].doc
        BY <2>3, <3>1, <3>2, <4>1 DEF MentionRow
      <4>3. QED
        BY <2>3, <3>1, <4>2 DEF RepointedMentions, DeletedMentions, MentionsOf
    <3>5. QED
      BY <3>3, <3>4
  <2>4. ASSUME NEW k \in MentionId \ {m}, h.mention[k] = h.mention[m] PROVE FALSE
    BY <1>8, <2>1, <2>3, <2>4 DEF Constraints
  <2>5. QED
    BY <2>2, <2>4
<1>9. Constraints(h)
  BY <1>2, <1>4, <1>6, <1>7, <1>8 DEF Constraints
<1>10. QED
  BY <1>1, <1>9

\* A row is what its columns say.
LEMMA RowFields ==
  /\ \A r \in EdgeRow : r = [source |-> r.source, target |-> r.target, weight |-> r.weight]
  /\ \A r \in MentionRow : r = [node |-> r.node, doc |-> r.doc]
BY DEF EdgeRow, MentionRow

\* A row with new ends.
LEMMA NewEnds ==
  ASSUME NEW r \in EdgeRow, NEW x \in Node, NEW y \in Node
  PROVE  [r EXCEPT !.source = x, !.target = y] = [source |-> x, target |-> y, weight |-> r.weight]
<1>. DEFINE q == [r EXCEPT !.source = x]
<1>1. q = [source |-> x, target |-> r.target, weight |-> r.weight]
  BY DEF EdgeRow
<1>2. q \in EdgeRow
  BY <1>1 DEF EdgeRow
<1>3. [q EXCEPT !.target = y] = [source |-> x, target |-> y, weight |-> r.weight]
  <2>. HIDE DEF q
  <2>1. [q EXCEPT !.target = y] = [source |-> q.source, target |-> y, weight |-> q.weight]
    BY <1>2 DEF EdgeRow
  <2>2. q.source = x /\ q.weight = r.weight
    BY <1>1
  <2>3. QED
    BY <2>1, <2>2
<1>4. QED
  BY <1>3

\* The snapshot of a merge, rolled back over the graph the merge left, is accepted
\* and brings back the graph the merge found, column by column.
LEMMA MergeUndone ==
  ASSUME NEW g, RowsOK(g), NEW c, MergeValid(c, g),
         NEW h, h = MergeWrites(c, g, g), NEW d, d = MergeSnapshot(c, g)
  PROVE  MergeUndoable(d, h) /\ MergeUndoRows(d, h, h) /\ MergeUndo(d, h, h) = g
<1>0. MergedColumns(c, g, h)
  BY MergeColumns
<1>1. /\ d.loser = c.loser /\ d.winner = c.winner /\ d.before = g.props[c.winner]
      /\ d.backfilled = Backfills(c, g) /\ d.mentions = RepointedMentions(c, g)
      /\ d.repointed = [e \in RepointedEdges(c, g) |-> g.edge[e]]
      /\ d.folded = [f \in FoldTargets(c, g) |-> g.edge[f].weight]
      /\ d.deleted = [e \in DeletedEdges(c, g) |-> g.edge[e]]
      /\ d.forgotten = [m \in DeletedMentions(c, g) |-> g.mention[m]]
  BY DEF MergeSnapshot
<1>2. /\ {c.loser, c.winner} \subseteq g.node /\ {c.loser, c.winner} \subseteq Node
      /\ c.loser # c.winner /\ g.canon[c.loser] = None
  BY DEF MergeValid, RowsOK
<1>3. EdgesAt(g, c.loser) = DeletedEdges(c, g) \union RepointedEdges(c, g)
  BY ValidTwoNodes, MergeSets DEF RepointedEdges
<1>4. ASSUME NEW e \in EdgeId
      PROVE  /\ e \in DeletedEdges(c, g) => h.edge[e] = None
             /\ e \in RepointedEdges(c, g) =>
                  h.edge[e] = Moved(g.edge[e], c) /\ h.edge[e] # None /\ g.edge[e] \in EdgeRow
             /\ e \in FoldTargets(c, g) =>
                  /\ h.edge[e] = [g.edge[e] EXCEPT !.weight = FoldedWeight(e, c, g)]
                  /\ h.edge[e] # None /\ g.edge[e] \in EdgeRow
             /\ e \notin EdgesAt(g, c.loser) \union FoldTargets(c, g) => h.edge[e] = g.edge[e]
  <2>1. h.edge[e] = MergeEdges(c, g, g)[e]
    BY <1>0 DEF MergedColumns
  <2>2. QED
    BY <2>1, MergedEdge, ValidTwoNodes, MergeSets, NoneAssumption
<1>5. ASSUME NEW m \in MentionId
      PROVE  /\ m \in DeletedMentions(c, g) => h.mention[m] = None
             /\ m \in RepointedMentions(c, g) =>
                  /\ g.mention[m] \in MentionRow /\ g.mention[m].node = c.loser
                  /\ h.mention[m] = [g.mention[m] EXCEPT !.node = c.winner] /\ h.mention[m] # None
             /\ m \notin MentionsOf(g, c.loser) => h.mention[m] = g.mention[m]
  <2>1. h.mention[m] = MergeMentions(c, g, g)[m]
    BY <1>0 DEF MergedColumns
  <2>2. QED
    BY <2>1, MergedMention, NoneAssumption
<1>6. MergeUndoable(d, h)
  BY <1>0, <1>1, <1>2 DEF MergedColumns, MergeUndoable, RowsOK
<1>7. MergeUndoRows(d, h, h)
  <2>1. h.node = g.node
    BY <1>0 DEF MergedColumns
  <2>2. DeletedEdges(c, g) \subseteq EdgeId /\ DeletedMentions(c, g) \subseteq MentionId
    BY DEF DeletedEdges, LoopEdges, FoldedEdges, EdgesAt, DeletedMentions, MentionsOf
  <2>3. DOMAIN d.deleted = DeletedEdges(c, g) /\ DOMAIN d.forgotten = DeletedMentions(c, g)
    BY <1>1
  <2>4. \A e \in DOMAIN d.deleted : h.edge[e] = None
    BY <1>4, <2>2, <2>3
  <2>5. \A m \in DOMAIN d.forgotten : h.mention[m] = None
    BY <1>5, <2>2, <2>3
  <2>6. QED
    BY <1>1, <1>2, <2>1, <2>4, <2>5 DEF MergeUndoRows
<1>. DEFINE u == MergeUndo(d, h, h)
<1>8. IsMap(u) /\ DOMAIN u = DOMAIN h
  BY DEF MergeUndo, IsMap
<1>9. ASSUME NEW e \in EdgeId PROVE u.edge[e] = g.edge[e]
  <2>1. u.edge[e] = IF e \in DOMAIN d.deleted THEN d.deleted[e]
                    ELSE IF e \in DOMAIN d.repointed /\ h.edge[e] # None
                         THEN [h.edge[e] EXCEPT !.source = d.repointed[e].source,
                                                !.target = d.repointed[e].target]
                    ELSE IF e \in DOMAIN d.folded /\ h.edge[e] # None
                         THEN [h.edge[e] EXCEPT !.weight = d.folded[e]]
                    ELSE h.edge[e]
    BY <1>0 DEF MergeUndo, MergedColumns, RowsOK
  <2>2. CASE e \in DeletedEdges(c, g)
    BY <1>1, <2>1, <2>2
  <2>3. CASE e \in RepointedEdges(c, g)
    <3>1. e \notin DeletedEdges(c, g)
      BY <2>3 DEF RepointedEdges
    <3>2. /\ e \notin DOMAIN d.deleted /\ e \in DOMAIN d.repointed /\ d.repointed[e] = g.edge[e]
          /\ h.edge[e] # None /\ h.edge[e] = Moved(g.edge[e], c)
      BY <1>1, <1>4, <2>3, <3>1
    <3>. DEFINE r == h.edge[e]
                x == g.edge[e].source
                y == g.edge[e].target
    <3>3. u.edge[e] = [r EXCEPT !.source = x, !.target = y]
      <4>. HIDE DEF u
      <4>1. QED
        BY <2>1, <3>2
    <3>4. r \in EdgeRow /\ g.edge[e] \in EdgeRow
      BY <1>3, <2>3, <3>2, ValidTwoNodes, MergeSets
    <3>5. r.weight = g.edge[e].weight
      BY <3>2, <3>4 DEF Moved, EdgeRow
    <3>6. [r EXCEPT !.source = x, !.target = y] = [source |-> x, target |-> y, weight |-> r.weight]
      <4>1. x \in Node /\ y \in Node
        BY <3>4 DEF EdgeRow
      <4>. HIDE DEF r, x, y
      <4>2. QED
        BY <3>4, <4>1, NewEnds
    <3>7. u.edge[e] = [source |-> x, target |-> y, weight |-> g.edge[e].weight]
      BY <3>3, <3>5, <3>6
    <3>8. QED
      BY <3>4, <3>7, RowFields
  <2>4. CASE e \in FoldTargets(c, g)
    <3>1. e \notin DeletedEdges(c, g) /\ e \notin RepointedEdges(c, g)
      BY <1>3, <2>4, ValidTwoNodes, MergeSets
    <3>2. h.edge[e] = [g.edge[e] EXCEPT !.weight = FoldedWeight(e, c, g)] /\ h.edge[e] # None
      BY <1>4, <2>4
    <3>3. u.edge[e] = [h.edge[e] EXCEPT !.weight = g.edge[e].weight]
      BY <1>1, <2>1, <2>4, <3>1, <3>2
    <3>4. g.edge[e] \in EdgeRow
      BY <1>4, <2>4
    <3>5. u.edge[e] = [source |-> g.edge[e].source, target |-> g.edge[e].target,
                       weight |-> g.edge[e].weight]
      BY <3>2, <3>3, <3>4 DEF EdgeRow
    <3>6. QED
      BY <3>4, <3>5, RowFields
  <2>5. CASE e \notin EdgesAt(g, c.loser) \union FoldTargets(c, g)
    BY <1>1, <1>3, <1>4, <2>1, <2>5
  <2>6. QED
    BY <1>3, <2>2, <2>3, <2>4, <2>5
<1>10. ASSUME NEW m \in MentionId PROVE u.mention[m] = g.mention[m]
  <2>1. u.mention[m] = IF m \in DOMAIN d.forgotten THEN d.forgotten[m]
                       ELSE IF m \in d.mentions /\ h.mention[m] # None
                            THEN [h.mention[m] EXCEPT !.node = d.loser]
                       ELSE h.mention[m]
    BY <1>0 DEF MergeUndo, MergedColumns, RowsOK
  <2>2. CASE m \in DeletedMentions(c, g)
    BY <1>1, <2>1, <2>2
  <2>3. CASE m \in RepointedMentions(c, g)
    <3>1. m \notin DeletedMentions(c, g)
      BY <2>3 DEF RepointedMentions
    <3>2. /\ g.mention[m] \in MentionRow /\ g.mention[m].node = c.loser
          /\ h.mention[m] = [g.mention[m] EXCEPT !.node = c.winner] /\ h.mention[m] # None
      BY <1>5, <2>3
    <3>3. u.mention[m] = [h.mention[m] EXCEPT !.node = c.loser]
      BY <1>1, <2>1, <2>3, <3>1, <3>2
    <3>4. u.mention[m] = [node |-> g.mention[m].node, doc |-> g.mention[m].doc]
      BY <3>2, <3>3 DEF MentionRow
    <3>5. QED
      BY <3>2, <3>4, RowFields
  <2>4. CASE m \notin MentionsOf(g, c.loser)
    BY <1>1, <1>5, <2>1, <2>4 DEF DeletedMentions, RepointedMentions
  <2>5. QED
    BY <2>2, <2>3, <2>4 DEF RepointedMentions
<1>11. u.edge = g.edge
  <2>1. u.edge = [e \in EdgeId |-> u.edge[e]]
    BY <1>0 DEF MergeUndo, MergedColumns, RowsOK
  <2>2. g.edge = [e \in EdgeId |-> g.edge[e]]
    BY DEF RowsOK
  <2>. HIDE DEF u
  <2>3. QED
    BY <1>9, <2>1, <2>2
<1>12. u.mention = g.mention
  <2>1. u.mention = [m \in MentionId |-> u.mention[m]]
    BY <1>0 DEF MergeUndo, MergedColumns, RowsOK
  <2>2. g.mention = [m \in MentionId |-> g.mention[m]]
    BY DEF RowsOK
  <2>. HIDE DEF u
  <2>3. QED
    BY <1>10, <2>1, <2>2
<1>13. u.canon = g.canon
  <2>1. u.canon = [h.canon EXCEPT ![c.loser] = None]
    BY <1>0, <1>1 DEF MergeUndo, MergedColumns, RowsOK
  <2>2. h.canon = [g.canon EXCEPT ![c.loser] = c.winner]
    BY <1>0 DEF MergedColumns
  <2>3. QED
    BY <1>2, <2>1, <2>2 DEF RowsOK
<1>14. u.props = g.props
  <2>1. u.props = [h.props EXCEPT ![c.winner] = g.props[c.winner]]
    BY <1>0, <1>1 DEF MergeUndo, MergedColumns, RowsOK
  <2>2. h.props = [g.props EXCEPT ![c.winner] = Override(g.props[c.loser], g.props[c.winner])]
    BY <1>0 DEF MergedColumns
  <2>3. QED
    BY <1>2, <2>1, <2>2 DEF RowsOK, IsMap
<1>15. u.vec = g.vec
  <2>1. u.vec = IF Backfills(c, g) THEN h.vec \ {c.winner} ELSE h.vec
    BY <1>0, <1>1 DEF MergeUndo, MergedColumns, RowsOK
  <2>2. h.vec = IF Backfills(c, g) THEN g.vec \union {c.winner} ELSE g.vec
    BY <1>0 DEF MergedColumns
  <2>3. QED
    BY <2>1, <2>2 DEF Backfills
<1>16. \A x \in DOMAIN g \ {"edge", "mention", "props", "vec", "canon"} : u[x] = g[x]
  BY <1>0 DEF MergeUndo, MergedColumns
<1>17. u = g
  <2>1. DOMAIN u = DOMAIN g
    BY <1>0, <1>8 DEF MergedColumns
  <2>2. \A x \in DOMAIN g : u[x] = g[x]
    BY <1>11, <1>12, <1>13, <1>14, <1>15, <1>16
  <2>3. IsMap(g)
    BY DEF RowsOK
  <2>. HIDE DEF u
  <2>4. QED
    BY <1>8, <2>1, <2>2, <2>3 DEF IsMap
<1>18. QED
  BY <1>6, <1>7, <1>17

-----------------------------------------------------------------------------
(* Every handler. *)

\* The DELETE of a node, with what it cascades to, keeps rows and constraints.
LEMMA DeleteNodeKeeps ==
  ASSUME NEW g, RowsOK(g), Constraints(g), NEW n, NEW h, h = DeleteNode(g, n)
  PROVE  RowsOK(h) /\ Constraints(h) /\ DOMAIN h = DOMAIN g
<1>1. /\ h.node = g.node \ {n} /\ h.vec = g.vec \ {n}
      /\ h.canon = [a \in Node |-> IF a = n \/ g.canon[a] = n THEN None ELSE g.canon[a]]
      /\ h.edge = [e \in EdgeId |-> IF e \in EdgesAt(g, n) THEN None ELSE g.edge[e]]
      /\ h.mention = [m \in MentionId |-> IF m \in MentionsOf(g, n) THEN None ELSE g.mention[m]]
  BY DEF DeleteNode, RowsOK
<1>2. IsMap(h) /\ DOMAIN h = DOMAIN g
  BY DEF DeleteNode, IsMap
<1>3. IsMap(h.props) /\ DOMAIN h.props = Node
  <2>1. h.props = [g.props EXCEPT ![n] = [k \in DOMAIN @ |-> None]]
    BY DEF DeleteNode, RowsOK
  <2>2. QED
    BY <2>1 DEF IsMap, RowsOK
<1>4. RowsOK(h)
  BY <1>1, <1>2, <1>3 DEF RowsOK
<1>5. \A a \in h.node : h.canon[a] \in h.node \union {None}
  BY <1>1 DEF Constraints, RowsOK
<1>6. ASSUME NEW e \in EdgeId, h.edge[e] # None
      PROVE  h.edge[e] = g.edge[e] /\ g.edge[e] # None /\ n \notin {g.edge[e].source, g.edge[e].target}
  BY <1>1, <1>6 DEF EdgesAt
<1>7. ASSUME NEW m \in MentionId, h.mention[m] # None
      PROVE  h.mention[m] = g.mention[m] /\ g.mention[m] # None /\ g.mention[m].node # n
  BY <1>1, <1>7 DEF MentionsOf
<1>8. ASSUME NEW m \in MentionId, h.mention[m] # None
      PROVE  /\ h.mention[m].node \in h.node
             /\ \A k \in MentionId \ {m} : h.mention[k] # h.mention[m]
  BY <1>1, <1>7, <1>8 DEF Constraints
<1>9. ASSUME NEW e \in EdgeId, h.edge[e] # None
      PROVE  /\ h.edge[e].source \in h.node /\ h.edge[e].target \in h.node
             /\ \A f \in EdgeId \ {e} : h.edge[f] # None => ~SameEnds(h.edge[e], h.edge[f])
  BY <1>1, <1>6, <1>9 DEF Constraints
<1>10. QED
  BY <1>2, <1>4, <1>5, <1>8, <1>9 DEF Constraints

\* Applied over the graph it was validated on, a change keeps the rows
\* well-formed, and no constraint or missing row refuses it.
LEMMA WritesKeep ==
  ASSUME NEW g, RowsOK(g), Constraints(g), NEW c, ChangeOK(c), Validates(c, g),
         NEW h, h = Writes(c, g, g)
  PROVE  RowsOK(h) /\ Storable(c, g, g) /\ DOMAIN h = DOMAIN g
<1>1. CASE c.kind = "entity_merge"
  <2>1. h = MergeWrites(c, g, g)
    BY <1>1 DEF Writes, FlagKinds
  <2>2. MergeValid(c, g)
    BY <1>1 DEF Validates, FlagKinds
  <2>3. MergedColumns(c, g, h)
    BY <2>1, MergeColumns
  <2>4. QED
    BY <1>1, <2>1, <2>2, <2>3, MergeRowsOK, MergeStorable DEF Storable, MergedColumns, FlagKinds
<1>2. CASE c.kind = "edge_add"
  <2>1. h = EdgeAddWrites(c, g) /\ EdgeAddValid(c, g) /\ c.edge \in EdgeId
    BY <1>2 DEF Writes, Validates, FlagKinds, ChangeOK
  <2>. DEFINE row == [source |-> c.source, target |-> c.target, weight |-> 1]
  <2>2. /\ IsMap(h) /\ DOMAIN h = DOMAIN g
        /\ h.node = g.node /\ h.vec = g.vec /\ h.canon = g.canon /\ h.props = g.props
        /\ h.mention = g.mention /\ h.edge = [g.edge EXCEPT ![c.edge] = row]
    BY <2>1 DEF EdgeAddWrites, RowsOK, IsMap
  <2>3. row \in EdgeRow /\ row.source = c.source /\ row.target = c.target
    BY <2>1 DEF EdgeAddValid, RowsOK, EdgeRow
  <2>. HIDE DEF row
  <2>4. RowsOK(h)
    BY <2>2, <2>3 DEF RowsOK
  <2>5. \A e \in EdgeId : h.edge[e] = IF e = c.edge THEN row ELSE g.edge[e]
    BY <2>1, <2>2 DEF RowsOK
  <2>6. Constraints(h)
    <3>1. ASSUME NEW e \in EdgeId, h.edge[e] # None
          PROVE  /\ h.edge[e].source \in h.node /\ h.edge[e].target \in h.node
                 /\ \A f \in EdgeId \ {e} : h.edge[f] # None => ~SameEnds(h.edge[e], h.edge[f])
      BY <2>1, <2>2, <2>3, <2>5, <3>1 DEF Constraints, EdgeAddValid, SameEnds
    <3>2. QED
      BY <2>2, <3>1 DEF Constraints
  <2>7. QED
    BY <1>2, <2>1, <2>2, <2>4, <2>6 DEF Storable, FlagKinds
<1>3. CASE c.kind = "edge_removal"
  <2>1. h = [g EXCEPT !.edge[c.edge] = None] /\ c.edge \in EdgeId
    BY <1>3 DEF Writes, FlagKinds, ChangeOK
  <2>2. /\ IsMap(h) /\ DOMAIN h = DOMAIN g
        /\ h.node = g.node /\ h.vec = g.vec /\ h.canon = g.canon /\ h.props = g.props
        /\ h.mention = g.mention /\ h.edge = [g.edge EXCEPT ![c.edge] = None]
    BY <2>1 DEF RowsOK, IsMap
  <2>3. RowsOK(h)
    BY <2>2 DEF RowsOK
  <2>4. \A e \in EdgeId : h.edge[e] = IF e = c.edge THEN None ELSE g.edge[e]
    BY <2>1, <2>2 DEF RowsOK
  <2>5. Constraints(h)
    BY <2>2, <2>4 DEF Constraints
  <2>6. QED
    BY <1>3, <2>2, <2>3, <2>5 DEF Storable, FlagKinds
<1>4. CASE c.kind = "node_removal"
  <2>1. h = DeleteNode(g, c.node)
    BY <1>4 DEF Writes, FlagKinds
  <2>2. QED
    BY <1>4, <2>1, DeleteNodeKeeps DEF Storable, FlagKinds
<1>5. CASE c.kind \in FlagKinds
  <2>1. h = FlagWrites(c, g, g) /\ c.node \in g.node
    BY <1>5 DEF Writes, FlagKinds, Validates, FlagValid
  <2>2. /\ IsMap(h) /\ DOMAIN h = DOMAIN g
        /\ h.node = g.node /\ h.vec = g.vec /\ h.canon = g.canon /\ h.edge = g.edge
        /\ h.mention = g.mention /\ IsMap(h.props) /\ DOMAIN h.props = DOMAIN g.props
    BY <2>1 DEF FlagWrites, RowsOK, IsMap
  <2>3. RowsOK(h) /\ Constraints(h)
    BY <2>2 DEF RowsOK, Constraints
  <2>4. QED
    BY <1>5, <2>1, <2>2, <2>3 DEF Storable, FlagKinds
<1>6. QED
  BY <1>1, <1>2, <1>3, <1>4, <1>5 DEF ChangeOK, Kind

\* The columns of a row-wise update.
LEMMA RowUpdate ==
  ASSUME NEW g, RowsOK(g), NEW h, IsMap(h), DOMAIN h = DOMAIN g, h.node = g.node,
         h.vec = g.vec, h.canon = g.canon, h.edge = g.edge, h.mention = g.mention,
         h.props = g.props, \A x \in DOMAIN g \ {"node", "vec", "canon", "edge", "mention", "props"} : h[x] = g[x]
  PROVE  h = g
<1>1. \A x \in DOMAIN g : h[x] = g[x]
  OBVIOUS
<1>2. QED
  BY <1>1 DEF RowsOK, IsMap

\* The exception: a merged alias, whose canonical_node_id no snapshot keeps.
AliasRemoval(c, g) == c.kind = "node_removal" /\ g.canon[c.node] # None

\* Rolled back over the graph it left, a change is undone exactly, whatever the
\* graph was.
THEOREM UndoRestores ==
  ASSUME NEW g, RowsOK(g), Constraints(g), NEW c, ChangeOK(c), Validates(c, g),
         ~AliasRemoval(c, g), c.kind = "edge_add" => g.edge[c.edge] = None,
         NEW h, h = Writes(c, g, g), NEW d, d = SnapshotOf(c, g)
  PROVE  Undoable(d, h) /\ UndoStorable(d, h, h) /\ Undo(d, h, h) = g
<1>1. CASE c.kind = "entity_merge"
  <2>1. h = MergeWrites(c, g, g) /\ d = MergeSnapshot(c, g) /\ MergeValid(c, g)
    BY <1>1 DEF Writes, SnapshotOf, Validates, FlagKinds
  <2>2. d.kind = "entity_merge"
    BY <2>1 DEF MergeSnapshot
  <2>3. MergeUndoable(d, h) /\ MergeUndoRows(d, h, h) /\ MergeUndo(d, h, h) = g
    BY <2>1, MergeUndone
  <2>4. Undo(d, h, h) = g
    BY <2>2, <2>3 DEF Undo, FlagKinds
  <2>5. QED
    BY <2>2, <2>3, <2>4 DEF Undoable, UndoStorable, FlagKinds
<1>2. CASE c.kind = "edge_add"
  <2>1. /\ h = EdgeAddWrites(c, g) /\ EdgeAddValid(c, g) /\ c.edge \in EdgeId
        /\ d = [kind |-> "edge_add", edge |-> c.edge]
    BY <1>2 DEF Writes, SnapshotOf, Validates, FlagKinds, ChangeOK
  <2>. DEFINE row == [source |-> c.source, target |-> c.target, weight |-> 1]
              u == Undo(d, h, h)
  <2>2. /\ IsMap(h) /\ DOMAIN h = DOMAIN g /\ \A x \in DOMAIN g \ {"edge"} : h[x] = g[x]
        /\ h.edge = [g.edge EXCEPT ![c.edge] = row]
    BY <2>1 DEF EdgeAddWrites, RowsOK, IsMap
  <2>3. row \in EdgeRow
    BY <2>1 DEF EdgeAddValid, RowsOK, EdgeRow
  <2>4. h.edge[c.edge] # None
    BY <2>1, <2>2, <2>3, NoneAssumption DEF RowsOK
  <2>5. u = [h EXCEPT !.edge[c.edge] = None]
    BY <2>1 DEF Undo, FlagKinds
  <2>6. /\ IsMap(u) /\ DOMAIN u = DOMAIN g /\ \A x \in DOMAIN g \ {"edge"} : u[x] = g[x]
        /\ u.edge = [h.edge EXCEPT ![c.edge] = None]
    BY <2>2, <2>5 DEF IsMap, RowsOK
  <2>7. u.edge = g.edge
    BY <1>2, <2>1, <2>2, <2>6 DEF RowsOK
  <2>8. u = g
    <3>. HIDE DEF u
    <3>1. QED
      BY <2>6, <2>7, RowUpdate DEF RowsOK
  <2>9. QED
    BY <2>1, <2>4, <2>8 DEF Undoable, UndoStorable, FlagKinds
<1>3. CASE c.kind = "edge_removal"
  <2>1. /\ h = [g EXCEPT !.edge[c.edge] = None] /\ c.edge \in EdgeId
        /\ d = [kind |-> "edge_removal", edge |-> c.edge, row |-> g.edge[c.edge]]
    BY <1>3 DEF Writes, SnapshotOf, EdgeRemovalSnapshot, FlagKinds, ChangeOK
  <2>. DEFINE u == Undo(d, h, h)
  <2>2. /\ IsMap(h) /\ DOMAIN h = DOMAIN g /\ \A x \in DOMAIN g \ {"edge"} : h[x] = g[x]
        /\ h.edge = [g.edge EXCEPT ![c.edge] = None]
    BY <2>1 DEF RowsOK, IsMap
  <2>3. u = [h EXCEPT !.edge[c.edge] = g.edge[c.edge]]
    BY <2>1 DEF Undo, FlagKinds
  <2>4. /\ IsMap(u) /\ DOMAIN u = DOMAIN g /\ \A x \in DOMAIN g \ {"edge"} : u[x] = g[x]
        /\ u.edge = [h.edge EXCEPT ![c.edge] = g.edge[c.edge]]
    BY <2>2, <2>3 DEF IsMap, RowsOK
  <2>5. u.edge = g.edge
    BY <2>1, <2>2, <2>4 DEF RowsOK
  <2>6. u = g
    <3>. HIDE DEF u
    <3>1. QED
      BY <2>4, <2>5, RowUpdate DEF RowsOK
  <2>7. h.edge[c.edge] = None
    BY <2>1, <2>2 DEF RowsOK
  <2>8. QED
    BY <2>1, <2>6, <2>7 DEF Undoable, UndoStorable, FlagKinds
<1>4. CASE c.kind = "node_removal"
  <2>. DEFINE n == c.node
              u == Undo(d, h, h)
  <2>1. /\ h = DeleteNode(g, n) /\ n \in g.node /\ n \in Node /\ Orphan(g, n)
        /\ d = NodeSnapshot(c, g) /\ g.canon[n] = None
    BY <1>4 DEF Writes, SnapshotOf, Validates, FlagKinds, AliasRemoval, RowsOK
  <2>2. /\ d.kind = "node_removal" /\ d.node = n
        /\ d.props = g.props[n] /\ d.embedded = (n \in g.vec)
    BY <2>1 DEF NodeSnapshot
  <2>3. /\ IsMap(h) /\ DOMAIN h = DOMAIN g
        /\ \A x \in DOMAIN g \ {"node", "canon", "props", "vec", "edge", "mention"} : h[x] = g[x]
    <3>1. IsMap(h)
      BY <2>1 DEF DeleteNode, IsMap
    <3>2. QED
      BY <2>1, <3>1 DEF DeleteNode
  <2>4. h.props = [g.props EXCEPT ![n] = [k \in DOMAIN @ |-> None]]
    BY <2>1 DEF DeleteNode, RowsOK
  <2>5. /\ h.node = g.node \ {n} /\ h.vec = g.vec \ {n}
        /\ h.canon = [a \in Node |-> IF a = n \/ g.canon[a] = n THEN None ELSE g.canon[a]]
        /\ h.edge = [e \in EdgeId |-> IF e \in EdgesAt(g, n) THEN None ELSE g.edge[e]]
        /\ h.mention = [m \in MentionId |-> IF m \in MentionsOf(g, n) THEN None ELSE g.mention[m]]
    BY <2>1 DEF DeleteNode, RowsOK
  <2>6. h.canon = g.canon
    <3>1. \A a \in Node : g.canon[a] # n
      BY <2>1, NoneAssumption DEF Orphan, AliasesOf, RowsOK
    <3>2. QED
      BY <2>1, <2>5, <3>1 DEF RowsOK
  <2>7. h.edge = g.edge /\ h.mention = g.mention
    BY <2>1, <2>5 DEF Orphan, RowsOK
  <2>8. u = InsertNode(d, h)
    BY <2>2 DEF Undo, FlagKinds
  <2>9. {"node", "canon", "props", "vec", "edge", "mention"} \subseteq DOMAIN h
    BY <2>3 DEF RowsOK
  <2>10. IsMap(u) /\ DOMAIN u = DOMAIN h
    BY <2>8 DEF InsertNode, IsMap
  <2>11. \A x \in DOMAIN h \ {"node", "props", "vec"} : u[x] = h[x]
    BY <2>8 DEF InsertNode
  <2>12. u.props = [h.props EXCEPT ![n] = g.props[n]]
    BY <2>2, <2>8, <2>9 DEF InsertNode
  <2>13. /\ u.node = h.node \union {n}
         /\ u.vec = IF n \in g.vec THEN h.vec \union {n} ELSE h.vec
    BY <2>2, <2>8, <2>9 DEF InsertNode
  <2>14. u.props = g.props
    <3>. HIDE DEF u
    <3>1. \A a \in Node : u.props[a] = g.props[a]
      BY <2>1, <2>4, <2>12 DEF RowsOK
    <3>2. IsMap(u.props) /\ DOMAIN u.props = Node
      BY <2>4, <2>12 DEF RowsOK, IsMap
    <3>3. QED
      BY <3>1, <3>2 DEF RowsOK, IsMap
  <2>15. u.node = g.node /\ u.vec = g.vec
    <3>1. h.node = g.node \ {n} /\ h.vec = g.vec \ {n}
      BY <2>5
    <3>. HIDE DEF u
    <3>2. QED
      BY <2>1, <2>13, <3>1
  <2>16. u = g
    <3>. HIDE DEF u
    <3>1. u.canon = g.canon /\ u.edge = g.edge /\ u.mention = g.mention
      BY <2>6, <2>7, <2>9, <2>11
    <3>2. QED
      BY <2>3, <2>10, <2>11, <2>14, <2>15, <3>1, RowUpdate
  <2>17. n \notin h.node
    BY <2>5
  <2>18. QED
    BY <2>2, <2>16, <2>17 DEF Undoable, UndoStorable, FlagKinds
<1>5. CASE c.kind \in FlagKinds
  <2>. DEFINE u == Undo(d, h, h)
  <2>1. /\ h = FlagWrites(c, g, g) /\ d = FlagSnapshot(c, g) /\ c.node \in g.node /\ c.node \in Node
    BY <1>5 DEF Writes, SnapshotOf, Validates, FlagValid, FlagKinds, RowsOK
  <2>2. d.kind = c.kind /\ d.node = c.node /\ d.before = g.props[c.node]
    BY <2>1 DEF FlagSnapshot
  <2>3. /\ IsMap(h) /\ DOMAIN h = DOMAIN g /\ \A x \in DOMAIN g \ {"props"} : h[x] = g[x]
        /\ h.props = [g.props EXCEPT ![c.node] = [g.props[c.node] EXCEPT ![FlagKey(c)] = c.value]]
    BY <2>1 DEF FlagWrites, RowsOK, IsMap
  <2>4. u = [h EXCEPT !.props[c.node] = g.props[c.node]]
    BY <1>5, <2>2 DEF Undo, FlagKinds
  <2>5. /\ IsMap(u) /\ DOMAIN u = DOMAIN g /\ \A x \in DOMAIN g \ {"props"} : u[x] = h[x]
        /\ u.props = [h.props EXCEPT ![c.node] = g.props[c.node]]
    BY <2>3, <2>4 DEF IsMap, RowsOK
  <2>6. u.props = g.props
    BY <2>1, <2>3, <2>5 DEF RowsOK, IsMap
  <2>7. u = g
    <3>. HIDE DEF u
    <3>1. QED
      BY <2>3, <2>5, <2>6, RowUpdate DEF RowsOK
  <2>8. h.node = g.node
    BY <2>3 DEF RowsOK
  <2>9. QED
    BY <1>5, <2>1, <2>2, <2>7, <2>8 DEF Undoable, UndoStorable, FlagKinds
<1>6. QED
  BY <1>1, <1>2, <1>3, <1>4, <1>5 DEF ChangeOK, Kind

\* A snapshot that a valid change took of well-formed tables f, at whatever time.
SnapshotOK(d) ==
  \E c, f : RowsOK(f) /\ ChangeOK(c) /\ Validates(c, f) /\ d = SnapshotOf(c, f)

\* Over whatever has become of the tables since, a rollback that is accepted leaves
\* well-formed rows: what it brings back were rows once.
LEMMA UndoKeeps ==
  ASSUME NEW g, RowsOK(g), NEW d, SnapshotOK(d), Undoable(d, g), UndoStorable(d, g, g),
         NEW u, u = Undo(d, g, g)
  PROVE  RowsOK(u) /\ DOMAIN u = DOMAIN g
<1>1. PICK c, f : RowsOK(f) /\ ChangeOK(c) /\ Validates(c, f) /\ d = SnapshotOf(c, f)
  BY DEF SnapshotOK
<1>2. CASE c.kind = "entity_merge"
  <2>1. d = MergeSnapshot(c, f) /\ MergeValid(c, f)
    BY <1>1, <1>2 DEF SnapshotOf, Validates, FlagKinds
  <2>2. /\ d.kind = "entity_merge" /\ d.loser = c.loser /\ d.winner = c.winner
        /\ d.repointed = [e \in RepointedEdges(c, f) |-> f.edge[e]]
        /\ d.folded = [e \in FoldTargets(c, f) |-> f.edge[e].weight]
        /\ d.deleted = [e \in DeletedEdges(c, f) |-> f.edge[e]]
        /\ d.mentions = RepointedMentions(c, f)
        /\ d.forgotten = [m \in DeletedMentions(c, f) |-> f.mention[m]]
    BY <2>1 DEF MergeSnapshot
  <2>3. u = MergeUndo(d, g, g) /\ MergeUndoRows(d, g, g) /\ MergeUndoable(d, g)
    BY <2>2 DEF Undo, UndoStorable, Undoable, FlagKinds
  <2>4. {d.loser, d.winner} \subseteq g.node /\ {d.loser, d.winner} \subseteq Node
    BY <2>3 DEF MergeUndoable, RowsOK
  <2>5. IsMap(u) /\ DOMAIN u = DOMAIN g
    BY <2>3 DEF MergeUndo, IsMap
  <2>6. u.node = g.node
    BY <2>3 DEF MergeUndo, RowsOK
  <2>7. u.canon = [g.canon EXCEPT ![d.loser] = None]
    BY <2>3 DEF MergeUndo, RowsOK
  <2>8. u.props = [g.props EXCEPT ![d.winner] = d.before]
    BY <2>3 DEF MergeUndo, RowsOK
  <2>9. u.vec \subseteq g.vec
    BY <2>3 DEF MergeUndo, RowsOK
  <2>10. u.edge \in [EdgeId -> EdgeRow \union {None}]
    <3>1. ASSUME NEW e \in EdgeId PROVE u.edge[e] \in EdgeRow \union {None}
      <4>1. u.edge[e] = IF e \in DOMAIN d.deleted THEN d.deleted[e]
                        ELSE IF e \in DOMAIN d.repointed /\ g.edge[e] # None
                             THEN [g.edge[e] EXCEPT !.source = d.repointed[e].source,
                                                    !.target = d.repointed[e].target]
                        ELSE IF e \in DOMAIN d.folded /\ g.edge[e] # None
                             THEN [g.edge[e] EXCEPT !.weight = d.folded[e]]
                        ELSE g.edge[e]
        BY <2>3 DEF MergeUndo, RowsOK
      <4>2. g.edge[e] \in EdgeRow \union {None}
        BY DEF RowsOK
      <4>3. CASE e \in DOMAIN d.deleted
        <5>1. e \in EdgesAt(f, c.loser) /\ d.deleted[e] = f.edge[e]
          BY <1>1, <2>1, <2>2, <4>3, ValidTwoNodes, MergeSets
        <5>2. QED
          BY <1>1, <2>1, <4>1, <4>3, <5>1, ValidTwoNodes, MergeSets
      <4>4. CASE e \notin DOMAIN d.deleted /\ e \in DOMAIN d.repointed /\ g.edge[e] # None
        <5>1. d.repointed[e] = f.edge[e] /\ f.edge[e] \in EdgeRow
          BY <1>1, <2>1, <2>2, <4>4, ValidTwoNodes, MergeSets
        <5>2. d.repointed[e].source \in Node /\ d.repointed[e].target \in Node
          BY <5>1 DEF EdgeRow
        <5>3. u.edge[e] = [source |-> d.repointed[e].source, target |-> d.repointed[e].target,
                           weight |-> g.edge[e].weight]
          BY <4>1, <4>2, <4>4, <5>2, NewEnds
        <5>4. QED
          BY <4>2, <4>4, <5>2, <5>3 DEF EdgeRow
      <4>5. CASE e \notin DOMAIN d.deleted /\ e \notin DOMAIN d.repointed
                 /\ e \in DOMAIN d.folded /\ g.edge[e] # None
        <5>1. d.folded[e] \in Nat \ {0}
          BY <1>1, <2>1, <2>2, <4>5, ValidTwoNodes, MergeSets DEF EdgeRow
        <5>2. u.edge[e] = [g.edge[e] EXCEPT !.weight = d.folded[e]]
          BY <4>1, <4>5
        <5>3. QED
          BY <4>2, <4>5, <5>1, <5>2 DEF EdgeRow
      <4>6. QED
        BY <4>1, <4>2, <4>3, <4>4, <4>5
    <3>2. u.edge = [e \in EdgeId |-> u.edge[e]]
      BY <2>3 DEF MergeUndo, RowsOK
    <3>3. QED
      BY <3>1, <3>2
  <2>11. u.mention \in [MentionId -> MentionRow \union {None}]
    <3>1. ASSUME NEW m \in MentionId PROVE u.mention[m] \in MentionRow \union {None}
      <4>1. u.mention[m] = IF m \in DOMAIN d.forgotten THEN d.forgotten[m]
                           ELSE IF m \in d.mentions /\ g.mention[m] # None
                                THEN [g.mention[m] EXCEPT !.node = d.loser]
                           ELSE g.mention[m]
        BY <2>3 DEF MergeUndo, RowsOK
      <4>2. g.mention[m] \in MentionRow \union {None}
        BY DEF RowsOK
      <4>3. m \in DOMAIN d.forgotten => d.forgotten[m] \in MentionRow
        BY <1>1, <2>2 DEF DeletedMentions, MentionsOf, RowsOK
      <4>4. g.mention[m] # None => [g.mention[m] EXCEPT !.node = d.loser] \in MentionRow
        BY <2>4, <4>2 DEF MentionRow
      <4>5. QED
        BY <4>1, <4>2, <4>3, <4>4
    <3>2. u.mention = [m \in MentionId |-> u.mention[m]]
      BY <2>3 DEF MergeUndo, RowsOK
    <3>3. QED
      BY <3>1, <3>2
  <2>12. IsMap(u.props) /\ DOMAIN u.props = Node
    BY <2>8 DEF RowsOK, IsMap
  <2>13. u.canon \in [Node -> Node \union {None}] /\ \A n \in Node \ u.node : u.canon[n] = None
    BY <2>6, <2>7 DEF RowsOK
  <2>14. QED
    BY <2>5, <2>6, <2>9, <2>10, <2>11, <2>12, <2>13 DEF RowsOK
<1>3. CASE c.kind = "edge_add"
  <2>1. d = [kind |-> "edge_add", edge |-> c.edge]
    BY <1>1, <1>3 DEF SnapshotOf, FlagKinds
  <2>2. u = [g EXCEPT !.edge[c.edge] = None]
    BY <2>1 DEF Undo, FlagKinds
  <2>3. IsMap(u) /\ DOMAIN u = DOMAIN g
    BY <2>2 DEF IsMap
  <2>4. QED
    BY <2>2, <2>3 DEF RowsOK
<1>4. CASE c.kind = "edge_removal"
  <2>1. /\ d = [kind |-> "edge_removal", edge |-> c.edge, row |-> f.edge[c.edge]]
        /\ f.edge[c.edge] \in EdgeRow
    BY <1>1, <1>4 DEF SnapshotOf, EdgeRemovalSnapshot, FlagKinds, Validates, ChangeOK, RowsOK
  <2>2. u = [g EXCEPT !.edge[c.edge] = f.edge[c.edge]]
    BY <2>1 DEF Undo, FlagKinds
  <2>3. IsMap(u) /\ DOMAIN u = DOMAIN g
    BY <2>2 DEF IsMap
  <2>4. QED
    BY <2>1, <2>2, <2>3 DEF RowsOK
<1>5. CASE c.kind = "node_removal"
  <2>1. d = NodeSnapshot(c, f) /\ c.node \in Node
    BY <1>1, <1>5 DEF SnapshotOf, Validates, FlagKinds, RowsOK
  <2>2. d.kind = "node_removal" /\ d.node = c.node
    BY <2>1 DEF NodeSnapshot
  <2>3. u = InsertNode(d, g)
    BY <2>2 DEF Undo, FlagKinds
  <2>4. IsMap(u) /\ DOMAIN u = DOMAIN g
    BY <2>3 DEF InsertNode, IsMap
  <2>5. /\ u.node = g.node \union {c.node} /\ u.vec \subseteq g.vec \union {c.node}
        /\ u.canon = g.canon /\ u.edge = g.edge /\ u.mention = g.mention
    BY <2>2, <2>3 DEF InsertNode, RowsOK
  <2>6. IsMap(u.props) /\ DOMAIN u.props = Node
    <3>1. u.props = [g.props EXCEPT ![c.node] = d.props]
      BY <2>2, <2>3 DEF InsertNode, RowsOK
    <3>2. QED
      BY <3>1 DEF RowsOK, IsMap
  <2>7. QED
    BY <2>1, <2>4, <2>5, <2>6 DEF RowsOK
<1>6. CASE c.kind \in FlagKinds
  <2>1. d.kind \in FlagKinds
    BY <1>1, <1>6 DEF SnapshotOf, FlagSnapshot, FlagKinds
  <2>2. u = [g EXCEPT !.props[d.node] = d.before]
    BY <2>1 DEF Undo, FlagKinds
  <2>3. IsMap(u) /\ DOMAIN u = DOMAIN g
    BY <2>2 DEF IsMap
  <2>4. IsMap(u.props) /\ DOMAIN u.props = Node
    <3>1. u.props = [g.props EXCEPT ![d.node] = d.before]
      BY <2>2 DEF RowsOK
    <3>2. QED
      BY <3>1 DEF RowsOK, IsMap
  <2>5. QED
    BY <2>2, <2>3, <2>4 DEF RowsOK
<1>7. QED
  BY <1>1, <1>2, <1>3, <1>4, <1>5, <1>6 DEF ChangeOK, Kind
=============================================================================
