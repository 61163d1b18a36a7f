---------------------------- MODULE ReadPathProofs ----------------------------
(***************************************************************************)
(* Theorems about ReadPath, for any graphs, grants, callers, writers and   *)
(* interleaving of their steps.                                            *)
(***************************************************************************)
EXTENDS ReadPath, InductionLemmas

-----------------------------------------------------------------------------
(* What one statement returns. *)

\* A LIMIT takes some of the rows.
LEMMA LimitKeeps ==
  ASSUME NEW rows, NEW limit, NEW S \in LimitedTo(rows, limit)
  PROVE  S \subseteq rows
BY DEF LimitedTo, kSubset

\* The first few of a sequence are among its elements.
LEMMA Head1Keeps ==
  ASSUME NEW T, NEW s \in Seq(T), NEW limit \in Nat
  PROVE  Head1(s, limit) \in Seq(T)
BY DEF Head1

\* (The elements of a sequence.)
LEMMA RangeIn ==
  ASSUME NEW T, NEW s \in Seq(T)
  PROVE  Range(s) \subseteq T
BY DEF Range

\* What Ordered keeps of a ranking, one rank at a time.
KeptNext(ranking, rows, k, s) == IF ranking[k] \in rows THEN Append(s, ranking[k]) ELSE s

KeptSteps(ranking, rows, kept) ==
  kept[0] = <<>> /\ \A k \in 1 .. Len(ranking) : kept[k] = KeptNext(ranking, rows, k, kept[k - 1])

LEMMA OrderedSteps ==
  ASSUME NEW ranking, Len(ranking) \in Nat, NEW rows
  PROVE  \E kept : KeptSteps(ranking, rows, kept) /\ Ordered(ranking, rows) = kept[Len(ranking)]
<1>. DEFINE N == Len(ranking)
            Next1(k, s) == KeptNext(ranking, rows, k, s)
            IsKept(m, f) == f = [k \in 0 .. m |-> IF k = 0 THEN <<>> ELSE Next1(k, f[k - 1])]
            S == {m \in Nat : \E f : IsKept(m, f)}
<1>1. N \in Nat
  OBVIOUS
<1>2. 0 \in S
  <2>. DEFINE f == [k \in 0 .. 0 |-> <<>>]
  <2>1. IsKept(0, f)
    OBVIOUS
  <2>2. QED
    BY <2>1
<1>3. ASSUME NEW m \in Nat, m \in S PROVE m + 1 \in S
  <2>1. PICK f : IsKept(m, f)
    BY <1>3
  <2>. DEFINE h == [k \in 0 .. m + 1 |-> IF k = m + 1 THEN Next1(m + 1, f[m]) ELSE f[k]]
  <2>. HIDE DEF Next1
  <2>2. \A k \in 0 .. m : f[k] = IF k = 0 THEN <<>> ELSE Next1(k, f[k - 1])
    BY <2>1
  <2>3. ASSUME NEW k \in 0 .. m + 1 PROVE h[k] = IF k = 0 THEN <<>> ELSE Next1(k, h[k - 1])
    <3>1. CASE k = m + 1
      BY <3>1
    <3>2. CASE k # m + 1
      <4>1. h[k] = f[k] /\ k \in 0 .. m
        BY <3>2
      <4>2. k # 0 => h[k - 1] = f[k - 1]
        BY <4>1
      <4>3. QED
        BY <2>2, <4>1, <4>2
    <3>3. QED
      BY <3>1, <3>2
  <2>4. IsKept(m + 1, h)
    BY <2>3
  <2>5. QED
    <3>. HIDE DEF IsKept, h
    <3>1. QED
      BY <2>4
<1>4. N \in S
  <2>. HIDE DEF S, N
  <2>1. QED
    BY <1>1, <1>2, <1>3, NaturalInduction
<1>. DEFINE kept == CHOOSE f : IsKept(N, f)
<1>5. IsKept(N, kept)
  BY <1>4
<1>6. Ordered(ranking, rows) = kept[N]
  BY DEF Ordered, KeptNext
<1>. HIDE DEF kept, Next1
<1>7. \A k \in 0 .. N : kept[k] = IF k = 0 THEN <<>> ELSE Next1(k, kept[k - 1])
  BY <1>5
<1>8. KeptSteps(ranking, rows, kept)
  BY <1>1, <1>7 DEF KeptSteps, Next1
<1>9. QED
  BY <1>6, <1>8

\* A ranking returns rows only.
LEMMA OrderedKeeps ==
  ASSUME NEW ranking, Len(ranking) \in Nat, NEW rows
  PROVE  Ordered(ranking, rows) \in Seq(rows)
<1>. DEFINE N == Len(ranking)
<1>1. PICK kept : KeptSteps(ranking, rows, kept) /\ Ordered(ranking, rows) = kept[N]
  BY OrderedSteps
<1>. DEFINE T == {k \in Nat : k <= N => kept[k] \in Seq(rows)}
<1>2. 0 \in T
  <2>1. kept[0] = <<>> /\ <<>> \in Seq(rows)
    BY <1>1 DEF KeptSteps
  <2>2. QED
    BY <2>1
<1>3. ASSUME NEW k \in Nat, k \in T PROVE k + 1 \in T
  <2>1. SUFFICES ASSUME k + 1 <= N PROVE kept[k + 1] \in Seq(rows)
    OBVIOUS
  <2>2. kept[k] \in Seq(rows) /\ k + 1 \in 1 .. N /\ (k + 1) - 1 = k
    BY <1>3, <2>1
  <2>3. kept[k + 1] = KeptNext(ranking, rows, k + 1, kept[k])
    BY <1>1, <2>2 DEF KeptSteps
  <2>4. QED
    BY <2>2, <2>3 DEF KeptNext
<1>4. Nat \subseteq T
  <2>. HIDE DEF T
  <2>1. QED
    BY <1>2, <1>3, NaturalInduction
<1>5. QED
  BY <1>1, <1>4

\* The search tools return canonical nodes that the caller may see.
LEMMA SearchKeeps ==
  ASSUME NEW g, NEW p, NEW limit \in Nat
  PROVE  /\ SemanticSearch(g, p, limit) \in Seq(Canonical(g, p))
         /\ KeywordSearch(g, p, limit) \in Seq(Canonical(g, p))
<1>1. Len(Near) \in Nat /\ Len(Wording) \in Nat
  BY RankingsAssumption
<1>2. /\ Ordered(Near, Canonical(g, p)) \in Seq(Canonical(g, p))
      /\ Ordered(Wording, Canonical(g, p)) \in Seq(Canonical(g, p))
  BY <1>1, OrderedKeeps
<1>3. QED
  BY <1>2, Head1Keeps DEF SemanticSearch, KeywordSearch

\* Nor does the fusion of two legs add a node.
LEMMA HybridKeeps ==
  ASSUME NEW g, NEW p, NEW limit \in Nat, NEW embedded \in BOOLEAN,
         NEW ranked \in HybridSearch(g, p, limit, embedded)
  PROVE  Range(ranked) \subseteq Canonical(g, p)
<1>. DEFINE C == Canonical(g, p)
            sem == IF embedded THEN SemanticSearch(g, p, limit) ELSE <<>>
            kw == KeywordSearch(g, p, limit)
            legs == <<sem, kw>>
            entries == UNION {Range(legs[k]) : k \in DOMAIN legs}
<1>1. sem \in Seq(C) /\ kw \in Seq(C)
  BY SearchKeeps
<1>. HIDE DEF C, sem, kw
<1>2. Range(sem) \subseteq C /\ Range(kw) \subseteq C
  BY <1>1, RangeIn
<1>3. entries \subseteq C
  BY <1>2
<1>4. IsFiniteSet(entries)
  <2>1. C \subseteq Node
    BY DEF C, Canonical, VisibleNodes
  <2>. HIDE DEF entries
  <2>2. QED
    BY <1>3, <2>1, NodesAssumption, FS_Subset
<1>5. PICK r \in SetToSeqs(entries) : ranked = Head1(r, limit)
  BY DEF HybridSearch, Fused, sem, kw
<1>. HIDE DEF entries
<1>6. Cardinality(entries) \in Nat /\ r \in [1 .. Cardinality(entries) -> entries]
  BY <1>4, FS_CardinalityType DEF SetToSeqs
<1>7. r \in Seq(C)
  <2>1. r \in Seq(entries)
    BY <1>6
  <2>2. QED
    BY <1>3, <2>1
<1>8. ranked \in Seq(C)
  BY <1>5, <1>7, Head1Keeps
<1>9. QED
  BY <1>8, RangeIn DEF C

\* visibility_sql is the rule of the other queries.
LEMMA VisibilityAgrees ==
  ASSUME NEW g, NEW p, NEW n \in Node, VisibilityHolds(g, p, n)
  PROVE  n \in VisibleNodes(g, p)
<1>1. CASE p.superuser
  BY <1>1 DEF VisibleNodes
<1>2. CASE ~ p.superuser
  <2>1. PICK d \in Doc :
          /\ <<n, d>> \in g.mentions
          /\ \/ DocSource[d] \in p.grants.wildcard
             \/ <<DocSource[d], DocResource[d]>> \in p.grants.specific
    BY <1>2 DEF VisibilityHolds
  <2>2. CASE DocSource[d] \in p.grants.wildcard
    <3>1. d \in {x \in Doc : DocSource[x] = DocSource[d]}
      OBVIOUS
    <3>2. d \in DocClause(p)
      BY <1>2, <2>2, <3>1 DEF DocClause
    <3>3. QED
      BY <1>2, <2>1, <3>2 DEF VisibleNodes
  <2>3. CASE <<DocSource[d], DocResource[d]>> \in p.grants.specific
    <3>. DEFINE s == <<DocSource[d], DocResource[d]>>
    <3>1. d \in {x \in Doc : DocSource[x] = s[1] /\ DocResource[x] = s[2]}
      OBVIOUS
    <3>2. d \in DocClause(p)
      BY <1>2, <2>3, <3>1 DEF DocClause
    <3>3. QED
      BY <1>2, <2>1, <3>2 DEF VisibleNodes
  <2>4. QED
    BY <2>1, <2>2, <2>3
<1>3. QED
  BY <1>1, <1>2

\* The hops that a walk of p may take, and the walks whose edges join its nodes.
HopsSeen(g, p) ==
  {h \in [edge : g.edges, dir : {">", "<"}, to : Node] : h.to \in g.nodes \cap VisibleNodes(g, p)}

Joined(start, w) ==
  \A i \in 1 .. Len(w) : {w[i].edge.src, w[i].edge.dst} \subseteq NodesOf(start, w)

\* One hop more.
LEMMA HopJoins ==
  ASSUME NEW g, g.nodes \subseteq Node, NEW p, NEW start,
         NEW w \in Seq(HopsSeen(g, p)), Joined(start, w),
         NEW h \in Hops(g, EndOf(start, w)), h.to \in g.nodes, VisibilityHolds(g, p, h.to)
  PROVE  /\ Append(w, h) \in Seq(HopsSeen(g, p)) /\ Append(w, h) # <<>>
         /\ Joined(start, Append(w, h))
<1>. DEFINE H == HopsSeen(g, p)
            n == EndOf(start, w)
            v == Append(w, h)
<1>1. PICK e \in g.edges :
        /\ n \in {e.src, e.dst}
        /\ h = [edge |-> e, dir |-> IF e.src = n THEN ">" ELSE "<",
                to |-> IF e.src = n THEN e.dst ELSE e.src]
  BY DEF Hops
<1>2. h \in H
  BY <1>1, VisibilityAgrees DEF HopsSeen
<1>. HIDE DEF H
<1>3. v \in Seq(H) /\ Len(v) = Len(w) + 1 /\ v[Len(v)] = h /\ Len(w) \in Nat
      /\ \A i \in 1 .. Len(w) : v[i] = w[i]
  <2>1. w \in Seq(H)
    BY DEF H
  <2>2. QED
    BY <1>2, <2>1
<1>4. n \in NodesOf(start, w)
  <2>1. CASE w = <<>>
    BY <2>1 DEF EndOf, NodesOf
  <2>2. CASE w # <<>>
    <3>1. w \in Seq(H)
      BY DEF H
    <3>2. Len(w) \in DOMAIN w /\ n = w[Len(w)].to
      BY <2>2, <3>1 DEF EndOf, Last
    <3>3. QED
      BY <3>2 DEF NodesOf
  <2>3. QED
    BY <2>1, <2>2
<1>. HIDE DEF n, v
<1>5. NodesOf(start, w) \subseteq NodesOf(start, v) /\ h.to \in NodesOf(start, v)
  <2>1. DOMAIN w = 1 .. Len(w) /\ DOMAIN v = 1 .. Len(w) + 1
    <3>1. w \in Seq(H)
      BY DEF H
    <3>2. QED
      BY <1>3, <3>1
  <2>2. QED
    BY <1>3, <2>1 DEF NodesOf
<1>6. {h.edge.src, h.edge.dst} \subseteq NodesOf(start, v)
  BY <1>1, <1>4, <1>5
<1>7. ASSUME NEW i \in 1 .. Len(v) PROVE {v[i].edge.src, v[i].edge.dst} \subseteq NodesOf(start, v)
  <2>1. CASE i = Len(v)
    BY <1>3, <1>6, <2>1
  <2>2. CASE i # Len(v)
    BY <1>3, <1>5, <2>2 DEF Joined
  <2>3. QED
    BY <2>1, <2>2
<1>8. Joined(start, v)
  BY <1>7 DEF Joined
<1>9. v # <<>>
  BY <1>3
<1>10. QED
  BY <1>3, <1>8, <1>9 DEF v, H

\* The recursive walk returns chains of edges over nodes that are there and seen.
LEMMA WalkJoins ==
  ASSUME NEW g, g.nodes \subseteq Node, NEW p, NEW start, NEW depth \in Nat,
         NEW path \in Walk(g, p, start, depth)
  PROVE  path \in Seq(HopsSeen(g, p)) /\ path # <<>> /\ Joined(start, path)
<1>. DEFINE Extended(w) ==
              {Append(w, hop) : hop \in
                  {h \in Hops(g, EndOf(start, w)) : h.to \in g.nodes /\ VisibilityHolds(g, p, h.to)}}
            Layer(W) == UNION {Extended(w) : w \in {x \in W : ~ IsCycle(start, x)}}
            IsWalk(m, f) == f = [k \in 0 .. m |-> IF k = 0 THEN {<<>>} ELSE Layer(f[k - 1])]
            S == {m \in Nat : \E f : IsWalk(m, f)}
            G == {w \in Seq(HopsSeen(g, p)) : Joined(start, w)}
<1>1. ASSUME NEW W, W \subseteq G PROVE Layer(W) \subseteq {w \in G : w # <<>>}
  <2>1. SUFFICES ASSUME NEW v \in Layer(W) PROVE v \in G /\ v # <<>>
    OBVIOUS
  <2>2. PICK w \in W : v \in Extended(w)
    OBVIOUS
  <2>3. PICK h \in Hops(g, EndOf(start, w)) :
          h.to \in g.nodes /\ VisibilityHolds(g, p, h.to) /\ v = Append(w, h)
    BY <2>2
  <2>4. w \in Seq(HopsSeen(g, p)) /\ Joined(start, w)
    BY <1>1
  <2>5. QED
    BY <2>3, <2>4, HopJoins
<1>2. 0 \in S
  <2>. DEFINE f == [k \in 0 .. 0 |-> {<<>>}]
  <2>1. IsWalk(0, f)
    OBVIOUS
  <2>2. QED
    BY <2>1
<1>3. ASSUME NEW m \in Nat, m \in S PROVE m + 1 \in S
  <2>1. PICK f : IsWalk(m, f)
    BY <1>3
  <2>. DEFINE h == [k \in 0 .. m + 1 |-> IF k = m + 1 THEN Layer(f[m]) ELSE f[k]]
  <2>. HIDE DEF Layer
  <2>2. \A k \in 0 .. m : f[k] = IF k = 0 THEN {<<>>} ELSE Layer(f[k - 1])
    BY <2>1
  <2>3. ASSUME NEW k \in 0 .. m + 1 PROVE h[k] = IF k = 0 THEN {<<>>} ELSE Layer(h[k - 1])
    <3>1. CASE k = m + 1
      BY <3>1
    <3>2. CASE k # m + 1
      <4>1. h[k] = f[k] /\ k \in 0 .. m
        BY <3>2
      <4>2. k # 0 => h[k - 1] = f[k - 1]
        BY <4>1
      <4>3. QED
        BY <2>2, <4>1, <4>2
    <3>3. QED
      BY <3>1, <3>2
  <2>4. IsWalk(m + 1, h)
    BY <2>3
  <2>5. QED
    <3>. HIDE DEF IsWalk, h
    <3>1. QED
      BY <2>4
<1>4. depth \in S
  <2>. HIDE DEF S
  <2>1. QED
    BY <1>2, <1>3, NaturalInduction
<1>. DEFINE walk == CHOOSE f : IsWalk(depth, f)
<1>5. IsWalk(depth, walk)
  BY <1>4
<1>6. PICK k \in 1 .. depth : path \in walk[k]
  BY DEF Walk
<1>. HIDE DEF walk, Layer
<1>7. \A i \in 0 .. depth : walk[i] = IF i = 0 THEN {<<>>} ELSE Layer(walk[i - 1])
  BY <1>5
<1>8. \A i \in 0 .. depth : walk[i] \subseteq G
  <2>. DEFINE T == {i \in Nat : i <= depth => walk[i] \subseteq G}
  <2>1. 0 \in T
    <3>1. walk[0] = {<<>>} /\ <<>> \in Seq(HopsSeen(g, p)) /\ Joined(start, <<>>)
      BY <1>7 DEF Joined
    <3>2. QED
      BY <3>1
  <2>. HIDE DEF G
  <2>2. ASSUME NEW i \in Nat, i \in T PROVE i + 1 \in T
    <3>1. SUFFICES ASSUME i + 1 <= depth PROVE walk[i + 1] \subseteq G
      OBVIOUS
    <3>2. walk[i] \subseteq G /\ walk[i + 1] = Layer(walk[i])
      BY <1>7, <2>2, <3>1
    <3>3. QED
      BY <1>1, <3>2
  <2>3. Nat \subseteq T
    <3>. HIDE DEF T
    <3>1. QED
      BY <2>1, <2>2, NaturalInduction
  <2>4. QED
    BY <2>3
<1>9. path \in {w \in G : w # <<>>}
  <2>. HIDE DEF G
  <2>1. walk[k] = Layer(walk[k - 1]) /\ walk[k - 1] \subseteq G
    BY <1>6, <1>7, <1>8
  <2>2. Layer(walk[k - 1]) \subseteq {w \in G : w # <<>>}
    BY <1>1, <2>1
  <2>3. QED
    BY <1>6, <2>1, <2>2
<1>10. QED
  BY <1>9

\* What p sees in g.
Seeable(g, p) == {n \in g.nodes : FoundNode(g, p, n)}

\* find_path and traverse report nodes that are there and seen; a path's edges are
\* between its nodes.
LEMMA PathsSeen ==
  ASSUME NEW g, Linked(g), NEW p, NEW start, NEW target
  PROVE  \A path \in FindPath(g, p, start, target, DepthCap) :
           /\ {path[i].edge : i \in DOMAIN path} \subseteq g.edges
           /\ NodesOf(start, path) \subseteq {start} \cup Seeable(g, p)
           /\ \A e \in {path[i].edge : i \in DOMAIN path} :
                {e.src, e.dst} \subseteq NodesOf(start, path)
<1>1. SUFFICES ASSUME NEW path \in FindPath(g, p, start, target, DepthCap)
               PROVE  /\ {path[i].edge : i \in DOMAIN path} \subseteq g.edges
                      /\ NodesOf(start, path) \subseteq {start} \cup Seeable(g, p)
                      /\ \A e \in {path[i].edge : i \in DOMAIN path} :
                            {e.src, e.dst} \subseteq NodesOf(start, path)
  OBVIOUS
<1>2. path \in Walk(g, p, start, Clamped(DepthCap))
  BY DEF FindPath, Nearest, PathsTo
<1>3. Clamped(DepthCap) \in Nat
  BY DepthCapIsPositive DEF Clamped
<1>4. path \in Seq(HopsSeen(g, p)) /\ Joined(start, path)
  BY <1>2, <1>3, WalkJoins DEF Linked
<1>5. DOMAIN path = 1 .. Len(path)
  BY <1>4
<1>6. \A i \in DOMAIN path : path[i] \in HopsSeen(g, p)
  BY <1>4
<1>7. \A i \in DOMAIN path : path[i].edge \in g.edges /\ path[i].to \in Seeable(g, p)
  BY <1>6 DEF HopsSeen, Seeable, FoundNode
<1>8. QED
  BY <1>4, <1>5, <1>7 DEF NodesOf, Joined

\* The nodes that traverse_graph_path finds are among those the caller sees.
LEMMA TraversedSeen ==
  ASSUME NEW g, Linked(g), NEW p, NEW start, NEW type, NEW limit,
         NEW found \in Traverse(g, p, start, type, DepthCap, limit)
  PROVE  found \subseteq Seeable(g, p)
<1>. DEFINE targets == {n \in g.nodes : NodeType[n] = type
                                       /\ PathsTo(g, p, start, n, DepthCap) # {}}
<1>1. found \in LimitedTo(targets, limit)
  BY DEF Traverse
<1>2. found \subseteq targets
  <2>. HIDE DEF targets
  <2>1. QED
    BY <1>1, LimitKeeps
<1>3. ASSUME NEW n \in targets PROVE FoundNode(g, p, n)
  <2>1. PICK path \in Walk(g, p, start, Clamped(DepthCap)) : EndOf(start, path) = n
    BY DEF PathsTo
  <2>2. Clamped(DepthCap) \in Nat
    BY DepthCapIsPositive DEF Clamped
  <2>3. path \in Seq(HopsSeen(g, p)) /\ path # <<>>
    BY <2>1, <2>2, WalkJoins DEF Linked
  <2>. DEFINE H == HopsSeen(g, p)
  <2>. HIDE DEF H
  <2>4. path \in Seq(H)
    BY <2>3 DEF H
  <2>5. path[Len(path)] \in H /\ n = path[Len(path)].to
    BY <2>1, <2>3, <2>4 DEF EndOf, Last
  <2>6. QED
    BY <2>5 DEF H, HopsSeen, FoundNode
<1>4. QED
  BY <1>2, <1>3 DEF Seeable

\* The neighbours of a node, the edges of the whole graph, the documents.
LEMMA NeighboursSeen ==
  ASSUME NEW g, Linked(g), NEW p, NEW n, NEW limit,
         NEW rows \in Outgoing(g, p, n, limit) \cup Incoming(g, p, n, limit)
  PROVE  rows \subseteq g.edges /\ \A e \in rows : {e.src, e.dst} \subseteq {n} \cup Seeable(g, p)
<1>1. CASE rows \in Outgoing(g, p, n, limit)
  <2>1. rows \subseteq {e \in g.edges : e.src = n /\ e.dst \in VisibleNodes(g, p)}
    BY <1>1, LimitKeeps DEF Outgoing
  <2>2. QED
    BY <2>1 DEF Seeable, FoundNode, Linked
<1>2. CASE rows \in Incoming(g, p, n, limit)
  <2>1. rows \subseteq {e \in g.edges : e.dst = n /\ e.src \in VisibleNodes(g, p)}
    BY <1>2, LimitKeeps DEF Incoming
  <2>2. QED
    BY <2>1 DEF Seeable, FoundNode, Linked
<1>3. QED
  BY <1>1, <1>2

\* The edges get_graph_stats counts have both ends among the nodes the caller sees.
LEMMA StatsSeen ==
  ASSUME NEW g, Linked(g), NEW p
  PROVE  EdgeStats(g, p) \subseteq g.edges /\
         \A e \in EdgeStats(g, p) : {e.src, e.dst} \subseteq Seeable(g, p)
BY DEF EdgeStats, Seeable, FoundNode, Linked

\* What the searches and listings return is among what the caller sees.
LEMMA ListingsSeen ==
  ASSUME NEW g, NEW p, NEW limit \in Nat, NEW rows,
         \/ rows = Range(SemanticSearch(g, p, limit)) \/ rows = Canonical(g, p)
         \/ rows \in StaleNodes(g, p, limit) \/ rows \in RecentNodes(g, p, Node, limit)
         \/ \E embedded \in BOOLEAN :
               \E ranked \in HybridSearch(g, p, limit, embedded) : rows = Range(ranked)
  PROVE  rows \subseteq Seeable(g, p)
<1>1. rows \subseteq Canonical(g, p)
  <2>1. CASE rows = Range(SemanticSearch(g, p, limit))
    BY <2>1, SearchKeeps, RangeIn
  <2>2. CASE rows \in StaleNodes(g, p, limit) \/ rows \in RecentNodes(g, p, Node, limit)
    <3>1. \/ rows \subseteq Canonical(g, p) \cap g.stale
          \/ rows \subseteq Canonical(g, p) \cap Node
      BY <2>2, LimitKeeps DEF StaleNodes, RecentNodes
    <3>2. QED
      BY <3>1
  <2>3. ASSUME NEW embedded \in BOOLEAN, NEW ranked \in HybridSearch(g, p, limit, embedded),
               rows = Range(ranked)
        PROVE  rows \subseteq Canonical(g, p)
    BY <2>3, HybridKeeps
  <2>4. QED
    BY <2>1, <2>2, <2>3
<1>2. QED
  BY <1>1 DEF Seeable, FoundNode, Canonical

-----------------------------------------------------------------------------
(* Answers. *)

Fields == {"pc", "tool", "arg", "principal", "version", "answer", "todo", "next", "depth", "owed"}

Kinds == {"outdegree", "indegree", "applied", "docs", "timeline", "story", "out", "in", "edges",
          "exists", "path", "walk"}

\* An answer of the moments since .. until.
AnswerOK(h, a) ==
  /\ {"nodes", "edges", "docs", "since", "until"} \subseteq DOMAIN a
  /\ a.since \in Nat /\ a.until \in Nat /\ a.until <= Len(h)
  /\ a.nodes \subseteq Node /\ a.docs \subseteq Doc

\* It says nothing but what p could see in one of these moments.
AnswerTrue(h, a, p, tool) ==
  /\ a.since <= a.until
  /\ \A n \in a.nodes : \E i \in a.since .. a.until : FoundNode(h[i], p, n)
  /\ \A e \in a.edges : /\ e.src \in a.nodes /\ e.dst \in a.nodes
                        /\ \E i \in a.since .. a.until : e \in h[i].edges
  /\ tool # "story" => a.docs \subseteq DocClause(p)

\* What is still to do is about nodes that the answer has.
TodoOK(r) ==
  /\ r.todo \in Seq((Node \cup {0}) \X Kinds)
  /\ \A i \in DOMAIN r.todo :
       /\ r.todo[i][2] \in {"out", "in"} => r.todo[i][1] \in r.answer.nodes
       /\ r.todo[i][2] \in {"exists", "path", "walk"} => r.arg \in r.answer.nodes
       /\ r.todo[i][2] = "story" => r.tool = "story"
  /\ r.next \in Seq(r.answer.nodes)

CallOK(h, r) ==
  /\ Fields \subseteq DOMAIN r
  /\ r.pc \in {"idle", "lookup", "open", "query", "fill", "done", "error"}
  /\ r.principal.superuser \in BOOLEAN
  /\ AnswerOK(h, r.answer)
  /\ r.pc \in {"query", "fill"} => r.answer.since > 0
  /\ r.answer.since > 0 => AnswerTrue(h, r.answer, r.principal, r.tool)
  /\ r.pc = "query" => TodoOK(r)
  /\ r.pc \in {"idle", "lookup", "open"} => r.next = <<>>

\* An entry is true for whoever has the scope of its key.
EntryOK(h, k, entry) ==
  /\ {"answer", "ttl"} \subseteq DOMAIN entry
  /\ entry.ttl \in 1 .. TTL
  /\ AnswerOK(h, entry.answer)
  /\ entry.answer.since > 0
  /\ \A p : p.superuser \in BOOLEAN /\ ScopeKey(p) = k[3] => AnswerTrue(h, entry.answer, p, k[2])

\* What makes AnswersTrue inductive.
AnswerInv ==
  /\ history \in Seq(Tables) /\ Now >= 1
  /\ rbac \in BOOLEAN
  /\ DOMAIN call = Caller /\ \A c \in Caller : CallOK(history, call[c])
  /\ \A k \in DOMAIN store : EntryOK(history, k, store[k])

\* The graph of the moment.
LEMMA GraphIs ==
  ASSUME AnswerInv
  PROVE  Graph = history[Now] /\ Graph \in Tables /\ Linked(Graph) /\ Now \in Nat /\ Now >= 1
<1>1. history \in Seq(Tables) /\ Len(history) >= 1
  BY DEF AnswerInv, Now
<1>2. history[Len(history)] \in Tables /\ Len(history) \in Nat
  BY <1>1
<1>3. QED
  BY <1>1, <1>2, TablesAssumption DEF Graph, Now, Last

\* Principals of one scope see the same.
LEMMA ScopeSees ==
  ASSUME NEW p, NEW q, p.superuser \in BOOLEAN, q.superuser \in BOOLEAN, ScopeKey(p) = ScopeKey(q)
  PROVE  /\ DocClause(p) = DocClause(q)
         /\ \A g, n : FoundNode(g, p, n) <=> FoundNode(g, q, n)
<1>1. p.superuser = q.superuser
  BY DEF ScopeKey
<1>2. CASE p.superuser
  BY <1>1, <1>2 DEF DocClause, FoundNode, VisibleNodes
<1>3. CASE ~ p.superuser
  <2>1. p.grants.wildcard = q.grants.wildcard /\ p.grants.specific = q.grants.specific
    BY <1>1, <1>3 DEF ScopeKey
  <2>2. DocClause(p) = DocClause(q)
    BY <1>1, <2>1 DEF DocClause
  <2>3. QED
    BY <1>1, <2>2 DEF FoundNode, VisibleNodes
<1>4. QED
  BY <1>2, <1>3

\* Two callers with one scope key are shown the same nodes and documents.
LEMMA ScopeAnswers ==
  ASSUME NEW p, NEW q, p.superuser \in BOOLEAN, q.superuser \in BOOLEAN, ScopeKey(p) = ScopeKey(q),
         NEW h, NEW a, NEW tool, AnswerTrue(h, a, p, tool)
  PROVE  AnswerTrue(h, a, q, tool)
<1>1. /\ DocClause(p) = DocClause(q)
      /\ \A g, n : FoundNode(g, p, n) <=> FoundNode(g, q, n)
  BY ScopeSees
<1>2. QED
  BY <1>1 DEF AnswerTrue

\* The first rows are of this moment.
LEMMA FoundTrue ==
  ASSUME AnswerInv, NEW p, NEW tool, NEW rows, rows \subseteq Seeable(Graph, p)
  PROVE  /\ AnswerOK(history, Found(rows)) /\ AnswerTrue(history, Found(rows), p, tool)
         /\ Found(rows).since > 0 /\ Found(rows).nodes = rows
<1>. DEFINE a == Found(rows)
<1>1. /\ {"nodes", "edges", "docs", "since", "until"} \subseteq DOMAIN a
      /\ a.nodes = rows /\ a.edges = {} /\ a.docs = {} /\ a.since = Now /\ a.until = Now
  BY DEF Found, NoAnswer
<1>2. Graph = history[Now] /\ Linked(Graph) /\ Now \in Nat /\ Now >= 1
  BY GraphIs
<1>3. \A n \in rows : n \in Node /\ FoundNode(history[Now], p, n)
  BY <1>2 DEF Seeable, Linked
<1>. HIDE DEF a
<1>4. AnswerOK(history, a)
  BY <1>1, <1>2, <1>3 DEF AnswerOK, Now
<1>5. AnswerTrue(history, a, p, tool)
  BY <1>1, <1>2, <1>3 DEF AnswerTrue
<1>6. QED
  BY <1>1, <1>2, <1>4, <1>5 DEF a

\* What a statement of the call may add to its answer.
Readable(c, N, E, D) ==
  /\ N \subseteq call[c].answer.nodes \cup Seeable(Graph, call[c].principal)
  /\ E \subseteq Graph.edges
  /\ \A e \in E : {e.src, e.dst} \subseteq call[c].answer.nodes \cup N
  /\ D \subseteq Doc
  /\ call[c].tool # "story" => D \subseteq DocClause(call[c].principal)

\* A statement adds what is seen at its moment, which the answer now covers.
LEMMA SeenTrue ==
  ASSUME AnswerInv, NEW c \in Caller, call[c].pc = "query",
         NEW N, NEW E, NEW D, Readable(c, N, E, D)
  PROVE  /\ AnswerOK(history, Seen(c, N, E, D))
         /\ AnswerTrue(history, Seen(c, N, E, D), call[c].principal, call[c].tool)
         /\ Seen(c, N, E, D).since = call[c].answer.since
         /\ Seen(c, N, E, D).nodes = call[c].answer.nodes \cup N
<1>. DEFINE a == call[c].answer
            p == call[c].principal
            b == Seen(c, N, E, D)
<1>1. AnswerOK(history, a) /\ AnswerTrue(history, a, p, call[c].tool) /\ a.since > 0
  BY DEF AnswerInv, CallOK
<1>. USE DEF Readable
<1>2. {"nodes", "edges", "docs", "since", "until"} \subseteq DOMAIN a
  BY <1>1 DEF AnswerOK, Now
<1>. HIDE DEF a
<1>3. /\ {"nodes", "edges", "docs", "since", "until"} \subseteq DOMAIN b
      /\ b.nodes = a.nodes \cup N /\ b.edges = a.edges \cup E /\ b.docs = a.docs \cup D
      /\ b.since = a.since /\ b.until = Now
  BY <1>2 DEF Seen, a
<1>4. Graph = history[Now] /\ Linked(Graph) /\ Now \in Nat /\ Now >= 1
  BY GraphIs
<1>. HIDE DEF b, p
<1>5. /\ a.since \in Nat /\ a.until \in Nat /\ a.until <= Now /\ a.since <= a.until
      /\ a.nodes \subseteq Node /\ a.docs \subseteq Doc
  BY <1>1 DEF AnswerOK, AnswerTrue, Now
<1>6. Now \in a.since .. Now /\ a.since .. a.until \subseteq a.since .. Now
  BY <1>4, <1>5
<1>7. ASSUME NEW n \in b.nodes
      PROVE  n \in Node /\ \E i \in a.since .. Now : FoundNode(history[i], p, n)
  <2>1. CASE n \in a.nodes
    BY <1>1, <1>5, <1>6, <2>1 DEF AnswerTrue
  <2>2. CASE n \in Seeable(Graph, p)
    BY <1>4, <1>6, <2>2 DEF Seeable, Linked
  <2>3. QED
    BY <1>3, <2>1, <2>2 DEF a, p
<1>8. ASSUME NEW e \in b.edges
      PROVE  /\ e.src \in b.nodes /\ e.dst \in b.nodes
             /\ \E i \in a.since .. Now : e \in history[i].edges
  <2>1. CASE e \in a.edges
    BY <1>1, <1>3, <1>6, <2>1 DEF AnswerTrue
  <2>2. CASE e \in E
    BY <1>3, <1>4, <1>6, <2>2 DEF a
  <2>3. QED
    BY <1>3, <2>1, <2>2
<1>9. call[c].tool # "story" => b.docs \subseteq DocClause(p)
  BY <1>1, <1>3 DEF AnswerTrue, p
<1>10. AnswerOK(history, b)
  BY <1>3, <1>4, <1>5, <1>7 DEF AnswerOK, Now
<1>11. AnswerTrue(history, b, p, call[c].tool)
  BY <1>3, <1>4, <1>5, <1>7, <1>8, <1>9 DEF AnswerTrue
<1>12. QED
  BY <1>3, <1>10, <1>11 DEF a, b, p

-----------------------------------------------------------------------------
(* The steps of a call. *)

\* The queries planned for some nodes are about them.
LEMMA QueriesAbout ==
  ASSUME NEW T \in SUBSET Node, NEW nodes \in Seq(T), NEW K \in SUBSET Kinds, NEW kinds \in Seq(K),
         Len(kinds) <= 3
  PROVE  /\ Queries(nodes, kinds) \in Seq((Node \cup {0}) \X Kinds)
         /\ \A i \in DOMAIN Queries(nodes, kinds) :
              Queries(nodes, kinds)[i][1] \in T /\ Queries(nodes, kinds)[i][2] \in K
<1>. DEFINE L == Len(kinds)
            n == Len(nodes)
            q == Queries(nodes, kinds)
<1>1. L \in 0 .. 3 /\ n \in Nat
  <2>1. Len(kinds) \in Nat /\ Len(nodes) \in Nat
    OBVIOUS
  <2>2. \A m \in Nat : m <= 3 => m \in 0 .. 3
    OBVIOUS
  <2>3. QED
    BY <2>1, <2>2, Zenon
<1>2. n * L \in Nat
  BY <1>1
<1>3. q = [k \in 1 .. n * L |-> <<nodes[1 + ((k - 1) \div L)], kinds[1 + ((k - 1) % L)]>>]
  BY DEF Queries
<1>4. DOMAIN nodes = 1 .. n /\ DOMAIN kinds = 1 .. L
  OBVIOUS
<1>. HIDE DEF L, n, q
<1>5. ASSUME NEW k \in 1 .. n * L
      PROVE  1 + ((k - 1) \div L) \in 1 .. n /\ 1 + ((k - 1) % L) \in 1 .. L
  <2>1. CASE L = 0
    BY <1>1, <2>1
  <2>2. CASE L = 1
    BY <1>1, <2>2
  <2>3. CASE L = 2
    BY <1>1, <2>3
  <2>4. CASE L = 3
    BY <1>1, <2>4
  <2>5. QED
    BY <1>1, <2>1, <2>2, <2>3, <2>4
<1>6. ASSUME NEW k \in 1 .. n * L PROVE q[k] \in T \X K
  <2>1. 1 + ((k - 1) \div L) \in DOMAIN nodes /\ 1 + ((k - 1) % L) \in DOMAIN kinds
    BY <1>4, <1>5
  <2>2. nodes[1 + ((k - 1) \div L)] \in T /\ kinds[1 + ((k - 1) % L)] \in K
    BY <2>1
  <2>3. QED
    BY <1>3, <2>2
<1>7. q \in [1 .. n * L -> (Node \cup {0}) \X Kinds]
  <2>1. DOMAIN q = 1 .. n * L /\ q = [k \in 1 .. n * L |-> q[k]]
    BY <1>3
  <2>2. \A k \in 1 .. n * L : q[k] \in (Node \cup {0}) \X Kinds
    BY <1>6
  <2>3. QED
    BY <2>1, <2>2
<1>8. QED
  BY <1>2, <1>6, <1>7 DEF q

\* What is left after the first query.
LEMMA RestIs ==
  ASSUME NEW T, NEW s \in Seq(T), s # <<>>
  PROVE  /\ Head(s) = s[1] /\ 1 \in DOMAIN s /\ Head(s) \in T
         /\ Tail(s) \in Seq(T) /\ \A k \in DOMAIN Tail(s) : k + 1 \in DOMAIN s /\ Tail(s)[k] = s[k + 1]
OBVIOUS

\* Some call moves on.
LEMMA CallKeeps ==
  ASSUME AnswerInv, NEW c \in Caller, NEW to, Goto(c, to), CallOK(history, to),
         UNCHANGED <<history, rbac, store>>
  PROVE  AnswerInv'
<1>1. call' = [call EXCEPT ![c] = to]
  BY DEF Goto
<1>2. DOMAIN call' = Caller /\ \A d \in Caller : CallOK(history, call'[d])
  BY <1>1 DEF AnswerInv
<1>3. Now' = Now
  BY DEF Now
<1>4. QED
  BY <1>2, <1>3 DEF AnswerInv

\* The first statement of a tool has found its rows.
LEMMA OpenedOK ==
  ASSUME AnswerInv, NEW c \in Caller, call[c].pc = "open",
         NEW rows, rows \subseteq Seeable(Graph, call[c].principal),
         NEW plan \in Seq((Node \cup {0}) \X Kinds),
         \A i \in DOMAIN plan :
            /\ plan[i][2] \in {"out", "in"} => plan[i][1] \in rows
            /\ plan[i][2] \in {"exists", "path", "walk"} => call[c].arg \in rows
            /\ plan[i][2] = "story" => call[c].tool = "story",
         NEW to, to = [call[c] EXCEPT !.pc = "query", !.answer = Found(rows), !.todo = plan]
  PROVE  CallOK(history, to)
<1>1. Fields \subseteq DOMAIN call[c] /\ call[c].principal.superuser \in BOOLEAN /\ call[c].next = <<>>
  BY DEF AnswerInv, CallOK
<1>2. /\ Fields \subseteq DOMAIN to /\ to.pc = "query" /\ to.answer = Found(rows) /\ to.todo = plan
      /\ to.principal = call[c].principal /\ to.tool = call[c].tool /\ to.arg = call[c].arg
      /\ to.next = call[c].next
  BY <1>1 DEF Fields
<1>3. /\ AnswerOK(history, Found(rows)) /\ AnswerTrue(history, Found(rows), call[c].principal, call[c].tool)
      /\ Found(rows).since > 0 /\ Found(rows).nodes = rows
  BY FoundTrue
<1>4. TodoOK(to)
  <2>1. to.answer.nodes = rows
    BY <1>2, <1>3
  <2>2. to.next = <<>> /\ \A X : <<>> \in Seq(X)
    BY <1>1, <1>2
  <2>3. QED
    BY <1>2, <2>1, <2>2 DEF TodoOK
<1>5. QED
  BY <1>1, <1>2, <1>3, <1>4 DEF CallOK

\* A step that leaves the answer as it is and has nothing to do any more.
LEMMA MovedOK ==
  ASSUME AnswerInv, NEW c \in Caller, NEW pc, pc \in {"open", "fill", "done", "error"},
         pc = "fill" => call[c].pc = "query", pc = "open" => call[c].pc = "lookup",
         NEW to, to = [call[c] EXCEPT !.pc = pc]
  PROVE  CallOK(history, to)
<1>1. CallOK(history, call[c])
  BY DEF AnswerInv
<1>2. /\ Fields \subseteq DOMAIN to /\ to.pc = pc /\ to.answer = call[c].answer
      /\ to.principal = call[c].principal /\ to.tool = call[c].tool /\ to.next = call[c].next
  BY <1>1 DEF CallOK, Fields
<1>3. QED
  BY <1>1, <1>2 DEF CallOK

\* A statement about what the answer has.
LEMMA QueriedOK ==
  ASSUME AnswerInv, NEW c \in Caller, call[c].pc = "query",
         NEW N, NEW E, NEW D, Readable(c, N, E, D),
         NEW to, Fields \subseteq DOMAIN to, to.pc = "query", to.answer = Seen(c, N, E, D),
         to.principal = call[c].principal, to.tool = call[c].tool, TodoOK(to)
  PROVE  CallOK(history, to)
<1>1. CallOK(history, call[c])
  BY DEF AnswerInv
<1>2. /\ AnswerOK(history, Seen(c, N, E, D))
      /\ AnswerTrue(history, Seen(c, N, E, D), call[c].principal, call[c].tool)
      /\ Seen(c, N, E, D).since = call[c].answer.since
  BY SeenTrue
<1>3. QED
  BY <1>1, <1>2 DEF CallOK

-----------------------------------------------------------------------------
(* Every step keeps the answers true. *)

\* A call begins: it has no answer yet, and its key holds the version it read.
LEMMA BeginKeeps ==
  ASSUME AnswerInv, NEW c \in Caller, Begin(c)
  PROVE  AnswerInv'
<1>1. PICK subject \in Subject, tool \in workload.tools[c] :
        \E arg \in IF tool \in AtNode THEN Args ELSE {0} :
          Goto(c, [Idle EXCEPT !.pc        = IF tool \in Cached THEN "lookup" ELSE "open",
                             !.tool      = tool,
                             !.arg       = arg,
                             !.principal = Resolve(subject),
                             !.version   = version,
                             !.depth     = IF tool = "export" THEN ExportDepth ELSE 1,
                             !.owed      = covered])
  BY DEF Begin
<1>1a. PICK arg : Goto(c, [Idle EXCEPT !.pc        = IF tool \in Cached THEN "lookup" ELSE "open",
                                      !.tool      = tool,
                                      !.arg       = arg,
                                      !.principal = Resolve(subject),
                                      !.version   = version,
                                      !.depth     = IF tool = "export" THEN ExportDepth ELSE 1,
                                      !.owed      = covered])
  BY <1>1
<1>. DEFINE to == [Idle EXCEPT !.pc        = IF tool \in Cached THEN "lookup" ELSE "open",
                               !.tool      = tool,
                               !.arg       = arg,
                               !.principal = Resolve(subject),
                               !.version   = version,
                               !.depth     = IF tool = "export" THEN ExportDepth ELSE 1,
                               !.owed      = covered]
<1>2. Resolve(subject).superuser \in BOOLEAN
  BY DEF Resolve, Anonymous, Scoped
<1>3. /\ Fields \subseteq DOMAIN to /\ to.pc \in {"lookup", "open"} /\ to.answer = NoAnswer
      /\ to.principal = Resolve(subject) /\ to.next = <<>>
  BY DEF Idle, Fields
<1>. HIDE DEF to
<1>4. AnswerOK(history, NoAnswer) /\ NoAnswer.since = 0
  <2>1. Len(history) \in Nat
    BY DEF AnswerInv
  <2>2. QED
    BY <2>1 DEF AnswerOK, NoAnswer
<1>5. CallOK(history, to)
  BY <1>2, <1>3, <1>4 DEF CallOK
<1>6. Goto(c, to) /\ UNCHANGED <<history, rbac, store>>
  BY <1>1a DEF Begin, to
<1>7. QED
  BY <1>5, <1>6, CallKeeps

\* A hit hands out what was stored for the same scope; a miss leaves the call to read.
LEMMA LookUpKeeps ==
  ASSUME AnswerInv, NEW c \in Caller, LookUp(c)
  PROVE  AnswerInv'
<1>1. call[c].pc = "lookup" /\ UNCHANGED <<history, rbac, store>>
  BY DEF LookUp
<1>2. CASE Hit(c)
  <2>. DEFINE entry == store[MakeKey(c)]
              to == [call[c] EXCEPT !.pc = "done", !.answer = entry.answer]
  <2>1. Goto(c, to)
    BY <1>2 DEF LookUp
  <2>2. EntryOK(history, MakeKey(c), entry) /\ CallOK(history, call[c])
    BY <1>2 DEF AnswerInv, Hit
  <2>. HIDE DEF entry
  <2>3. MakeKey(c)[2] = call[c].tool /\ MakeKey(c)[3] = ScopeKey(call[c].principal)
    BY DEF MakeKey
  <2>4. /\ Fields \subseteq DOMAIN to /\ to.pc = "done" /\ to.answer = entry.answer
        /\ to.principal = call[c].principal /\ to.tool = call[c].tool
        /\ call[c].principal.superuser \in BOOLEAN
    BY <2>2 DEF CallOK, Fields
  <2>5. AnswerTrue(history, to.answer, to.principal, to.tool) /\ AnswerOK(history, to.answer)
    BY <2>2, <2>3, <2>4 DEF EntryOK
  <2>. HIDE DEF to
  <2>6. CallOK(history, to)
    BY <2>4, <2>5 DEF CallOK
  <2>7. QED
    BY <1>1, <2>1, <2>6, CallKeeps
<1>3. CASE ~ Hit(c)
  <2>. DEFINE to == [call[c] EXCEPT !.pc = "open"]
  <2>1. Goto(c, to)
    BY <1>3 DEF LookUp
  <2>2. CallOK(history, to)
    BY <1>1, MovedOK
  <2>. HIDE DEF to
  <2>3. QED
    BY <1>1, <2>1, <2>2, CallKeeps
<1>4. QED
  BY <1>2, <1>3

\* A tool about a node, whatever its plans as long as they are about that node.
LEMMA OpenNodeKeeps ==
  ASSUME AnswerInv, NEW c \in Caller, NEW tool, NEW plans, OpenNode(c, tool, plans),
         call[c].arg \in Node =>
            \A plan \in plans : /\ plan \in Seq((Node \cup {0}) \X Kinds)
                                /\ \A i \in DOMAIN plan :
                                      /\ plan[i][2] \in {"out", "in"} => plan[i][1] = call[c].arg
                                      /\ plan[i][2] = "story" => tool = "story"
  PROVE  AnswerInv'
<1>1. call[c].pc = "open" /\ call[c].tool = tool /\ UNCHANGED <<history, rbac, store>>
  BY DEF OpenNode
<1>2. CASE FoundNode(Graph, call[c].principal, call[c].arg)
  <2>1. PICK plan \in plans : Goto(c, [call[c] EXCEPT !.pc = "query", !.answer = Found({call[c].arg}),
                                                      !.todo = plan])
    BY <1>2 DEF OpenNode
  <2>. DEFINE rows == {call[c].arg}
              to == [call[c] EXCEPT !.pc = "query", !.answer = Found(rows), !.todo = plan]
  <2>2. Linked(Graph)
    BY GraphIs
  <2>3. call[c].arg \in Seeable(Graph, call[c].principal) /\ call[c].arg \in Node
    BY <1>2, <2>2 DEF Seeable, FoundNode, Linked
  <2>4. /\ plan \in Seq((Node \cup {0}) \X Kinds)
        /\ \A i \in DOMAIN plan : /\ plan[i][2] \in {"out", "in"} => plan[i][1] = call[c].arg
                                  /\ plan[i][2] = "story" => tool = "story"
    BY <2>3
  <2>5. Goto(c, to)
    BY <2>1
  <2>6. CallOK(history, to)
    <3>1. \A i \in DOMAIN plan :
            /\ plan[i][2] \in {"out", "in"} => plan[i][1] \in rows
            /\ plan[i][2] \in {"exists", "path", "walk"} => call[c].arg \in rows
            /\ plan[i][2] = "story" => call[c].tool = "story"
      BY <1>1, <2>4
    <3>2. rows \subseteq Seeable(Graph, call[c].principal)
      BY <2>3
    <3>. HIDE DEF rows
    <3>3. QED
      BY <1>1, <2>4, <3>1, <3>2, OpenedOK
  <2>. HIDE DEF to
  <2>7. QED
    BY <1>1, <2>5, <2>6, CallKeeps
<1>3. CASE ~ FoundNode(Graph, call[c].principal, call[c].arg)
  <2>. DEFINE to == [call[c] EXCEPT !.pc = "done"]
  <2>1. Goto(c, to)
    BY <1>3 DEF OpenNode
  <2>2. CallOK(history, to)
    BY MovedOK
  <2>. HIDE DEF to
  <2>3. QED
    BY <1>1, <2>1, <2>2, CallKeeps
<1>4. QED
  BY <1>2, <1>3

\* A tool about one node: the visibility test first, then its plan of queries.
LEMMA AboutNodeKeeps ==
  ASSUME AnswerInv, NEW c \in Caller, NEW tool, NEW K \in SUBSET Kinds, NEW kinds \in Seq(K), Len(kinds) <= 3,
         "story" \in K => tool = "story", AboutNode(c, tool, kinds)
  PROVE  AnswerInv'
<1>. DEFINE n == call[c].arg
            plan == Queries(<<n>>, kinds)
<1>1. ASSUME n \in Node
      PROVE  /\ plan \in Seq((Node \cup {0}) \X Kinds)
             /\ \A i \in DOMAIN plan : /\ plan[i][2] \in {"out", "in"} => plan[i][1] = n
                                       /\ plan[i][2] = "story" => tool = "story"
  <2>1. {n} \in SUBSET Node /\ <<n>> \in Seq({n})
    BY <1>1
  <2>. HIDE DEF n
  <2>2. /\ plan \in Seq((Node \cup {0}) \X Kinds)
        /\ \A i \in DOMAIN plan : plan[i][1] \in {n} /\ plan[i][2] \in K
    BY <2>1, QueriesAbout
  <2>3. QED
    BY <2>2
<1>2. OpenNode(c, tool, {plan})
  BY DEF AboutNode
<1>. HIDE DEF plan
<1>3. n \in Node => \A p \in {plan} :
        /\ p \in Seq((Node \cup {0}) \X Kinds)
        /\ \A i \in DOMAIN p : /\ p[i][2] \in {"out", "in"} => p[i][1] = n
                               /\ p[i][2] = "story" => tool = "story"
  BY <1>1
<1>4. QED
  BY <1>2, <1>3, OpenNodeKeeps

\* A tool that lists what its caller may see.
LEMMA OpenListingKeeps ==
  ASSUME AnswerInv, NEW c \in Caller, NEW tool, NEW listings, NEW plan, OpenListing(c, tool, listings, plan),
         \A rows \in listings : rows \subseteq Seeable(Graph, call[c].principal),
         plan \in Seq((Node \cup {0}) \X Kinds),
         \A i \in DOMAIN plan : /\ plan[i][2] \notin {"exists", "path", "walk", "story"}
                                /\ plan[i][2] \in {"out", "in"} => \A rows \in listings : plan[i][1] \in rows
  PROVE  AnswerInv'
<1>1. call[c].pc = "open" /\ UNCHANGED <<history, rbac, store>>
  BY DEF OpenListing
<1>2. PICK rows \in listings :
        Goto(c, [call[c] EXCEPT !.pc = "query", !.answer = Found(rows), !.todo = plan])
  BY DEF OpenListing
<1>. DEFINE to == [call[c] EXCEPT !.pc = "query", !.answer = Found(rows), !.todo = plan]
<1>3. CallOK(history, to)
  <2>1. rows \subseteq Seeable(Graph, call[c].principal)
    OBVIOUS
  <2>2. \A i \in DOMAIN plan :
          /\ plan[i][2] \in {"out", "in"} => plan[i][1] \in rows
          /\ plan[i][2] \in {"exists", "path", "walk"} => call[c].arg \in rows
          /\ plan[i][2] = "story" => call[c].tool = "story"
    OBVIOUS
  <2>3. QED
    BY <1>1, <2>1, <2>2, OpenedOK
<1>. HIDE DEF to
<1>4. Goto(c, to)
  BY <1>2 DEF to
<1>5. QED
  BY <1>1, <1>3, <1>4, CallKeeps

\* The searches: the ranking is read from one graph and filtered by scope.
LEMMA OpenSearchKeeps ==
  ASSUME AnswerInv, NEW c \in Caller, NEW tool, NEW kinds \in Seq(Kinds \ {"exists", "path", "walk", "story"}),
         Len(kinds) <= 3, OpenSearch(c, tool, kinds)
  PROVE  AnswerInv'
<1>. DEFINE hits == SemanticSearch(Graph, call[c].principal, Limit)
            plan == Queries(hits, kinds)
<1>1. CASE OpenListing(c, tool, {Range(hits)}, plan)
  <2>1. Range(hits) \subseteq Seeable(Graph, call[c].principal) /\ Range(hits) \in SUBSET Node
    <3>1. Limit \in Nat
      BY BoundsAssumption
    <3>2. Range(hits) \subseteq Seeable(Graph, call[c].principal)
      BY <3>1, ListingsSeen
    <3>3. Linked(Graph)
      BY GraphIs
    <3>4. QED
      BY <3>2, <3>3 DEF Seeable, Linked
  <2>2. hits \in Seq(Range(hits))
    <3>1. hits \in Seq(Canonical(Graph, call[c].principal))
      BY SearchKeeps, BoundsAssumption
    <3>. HIDE DEF hits
    <3>2. QED
      BY <3>1 DEF Range
  <2>. HIDE DEF hits
  <2>3. Kinds \ {"exists", "path", "walk", "story"} \in SUBSET Kinds
    OBVIOUS
  <2>4. /\ plan \in Seq((Node \cup {0}) \X Kinds)
        /\ \A i \in DOMAIN plan :
             plan[i][1] \in Range(hits) /\ plan[i][2] \in Kinds \ {"exists", "path", "walk", "story"}
    BY <2>1, <2>2, <2>3, QueriesAbout
  <2>5. \A i \in DOMAIN plan : plan[i][2] \notin {"exists", "path", "walk", "story"}
    BY <2>4
  <2>. HIDE DEF plan
  <2>6. QED
    BY <1>1, <2>1, <2>4, <2>5, OpenListingKeeps
<1>2. CASE /\ call[c].pc = "open" /\ Goto(c, [call[c] EXCEPT !.pc = "error"])
           /\ UNCHANGED <<history, rbac, store>>
  <2>. DEFINE to == [call[c] EXCEPT !.pc = "error"]
  <2>1. CallOK(history, to)
    BY MovedOK
  <2>2. Goto(c, to)
    BY <1>2
  <2>. HIDE DEF to
  <2>3. QED
    BY <1>2, <2>1, <2>2, CallKeeps
<1>3. QED
  BY <1>1, <1>2 DEF OpenSearch

\* The first query of every tool.
LEMMA ToolKeeps ==
  ASSUME AnswerInv, NEW c \in Caller, Tool(c)
  PROVE  AnswerInv'
<1>. DEFINE p == call[c].principal
            none == <<>>
<1>1. none \in Seq((Node \cup {0}) \X Kinds) /\ \A i \in DOMAIN none : FALSE
  OBVIOUS
<1>2. Limit \in Nat /\ TRUE \in BOOLEAN
  BY BoundsAssumption
<1>3. CASE SearchTool(c)
  <2>1. none \in Seq(Kinds \ {"exists", "path", "walk", "story"}) /\ Len(none) <= 3
    OBVIOUS
  <2>2. OpenSearch(c, "search", none)
    BY <1>3 DEF SearchTool
  <2>. HIDE DEF none
  <2>3. QED
    BY <2>1, <2>2, OpenSearchKeeps
<1>4. CASE AskTool(c)
  <2>1. <<"out", "in", "docs">> \in Seq(Kinds \ {"exists", "path", "walk", "story"}) /\ Len(<<"out", "in", "docs">>) <= 3
    BY DEF Kinds
  <2>2. QED
    BY <1>4, <2>1, OpenSearchKeeps DEF AskTool
<1>5. CASE HybridTool(c)
  <2>1. PICK embedded \in BOOLEAN :
          OpenListing(c, "hybrid", {Range(ranked) : ranked \in HybridSearch(Graph, p, Limit, embedded)}, none)
    BY <1>5 DEF HybridTool
  <2>2. ASSUME NEW ranked \in HybridSearch(Graph, p, Limit, embedded)
        PROVE  Range(ranked) \subseteq Seeable(Graph, p)
    BY <1>2, ListingsSeen
  <2>3. QED
    <3>. HIDE DEF none
    <3>1. QED
      BY <1>1, <2>1, <2>2, OpenListingKeeps
<1>6. CASE NodeDetails(c) \/ EntityTimeline(c) \/ NodeStory(c) \/ NodeNeighbors(c) \/ TraverseGraphPath(c)
           \/ ExportSubgraph(c)
  <2>1. CASE NodeDetails(c)
    <3>. DEFINE kinds == <<"outdegree", "indegree", "docs">>
    <3>1. /\ {"outdegree", "indegree", "docs"} \in SUBSET Kinds
          /\ kinds \in Seq({"outdegree", "indegree", "docs"}) /\ Len(kinds) <= 3
      BY DEF Kinds
    <3>2. AboutNode(c, "details", kinds)
      BY <2>1 DEF NodeDetails
    <3>. HIDE DEF kinds
    <3>3. QED
      BY <3>1, <3>2, AboutNodeKeeps
  <2>2. CASE EntityTimeline(c)
    <3>. DEFINE kinds == <<"timeline">>
    <3>1. {"timeline"} \in SUBSET Kinds /\ kinds \in Seq({"timeline"}) /\ Len(kinds) <= 3
      BY DEF Kinds
    <3>2. AboutNode(c, "timeline", kinds)
      BY <2>2 DEF EntityTimeline
    <3>. HIDE DEF kinds
    <3>3. QED
      BY <3>1, <3>2, AboutNodeKeeps
  <2>3. CASE NodeStory(c)
    <3>. DEFINE kinds == <<"story">>
    <3>1. {"story"} \in SUBSET Kinds /\ kinds \in Seq({"story"}) /\ Len(kinds) <= 3
      BY DEF Kinds
    <3>2. AboutNode(c, "story", kinds)
      BY <2>3 DEF NodeStory
    <3>. HIDE DEF kinds
    <3>3. QED
      BY <3>1, <3>2, AboutNodeKeeps
  <2>4. CASE NodeNeighbors(c)
    <3>. DEFINE kinds == <<"out", "in">>
    <3>1. {"out", "in"} \in SUBSET Kinds /\ kinds \in Seq({"out", "in"}) /\ Len(kinds) <= 3
      BY DEF Kinds
    <3>2. AboutNode(c, "neighbors", kinds)
      BY <2>4 DEF NodeNeighbors
    <3>. HIDE DEF kinds
    <3>3. QED
      BY <3>1, <3>2, AboutNodeKeeps
  <2>5. CASE TraverseGraphPath(c)
    <3>. DEFINE kinds == <<"walk">>
    <3>1. {"walk"} \in SUBSET Kinds /\ kinds \in Seq({"walk"}) /\ Len(kinds) <= 3
      BY DEF Kinds
    <3>2. AboutNode(c, "traverse", kinds)
      BY <2>5 DEF TraverseGraphPath
    <3>. HIDE DEF kinds
    <3>3. QED
      BY <3>1, <3>2, AboutNodeKeeps
  <2>6. CASE ExportSubgraph(c)
    <3>. DEFINE kinds == ExportKinds
    <3>1. {"out", "in"} \in SUBSET Kinds /\ kinds \in Seq({"out", "in"}) /\ Len(kinds) <= 3
      BY DEF Kinds, ExportKinds
    <3>2. AboutNode(c, "export", kinds)
      BY <2>6 DEF ExportSubgraph
    <3>. HIDE DEF kinds
    <3>3. QED
      BY <3>1, <3>2, AboutNodeKeeps
  <2>7. QED
    BY <1>6, <2>1, <2>2, <2>3, <2>4, <2>5, <2>6
<1>7. CASE FindConnection(c)
  <2>. DEFINE plans == {<<<<target, "exists">>>> : target \in Node \ {call[c].arg}}
  <2>1. ASSUME NEW plan \in plans
        PROVE  /\ plan \in Seq((Node \cup {0}) \X Kinds)
               /\ \A i \in DOMAIN plan : /\ plan[i][2] \in {"out", "in"} => plan[i][1] = call[c].arg
                                         /\ plan[i][2] = "story" => "connection" = "story"
    <3>1. PICK target \in Node : plan = <<<<target, "exists">>>>
      OBVIOUS
    <3>2. QED
      BY <3>1 DEF Kinds
  <2>2. OpenNode(c, "connection", plans)
    BY <1>7 DEF FindConnection
  <2>. HIDE DEF plans
  <2>3. QED
    BY <2>1, <2>2, OpenNodeKeeps
<1>8. CASE GraphStats(c)
  <2>. DEFINE plan == <<<<0, "edges">>>>
  <2>1. /\ plan \in Seq((Node \cup {0}) \X Kinds)
        /\ \A i \in DOMAIN plan : plan[i][2] = "edges"
    BY DEF Kinds
  <2>2. Canonical(Graph, p) \subseteq Seeable(Graph, p)
    BY <1>2, ListingsSeen
  <2>3. OpenListing(c, "stats", {Canonical(Graph, p)}, plan)
    BY <1>8 DEF GraphStats
  <2>. HIDE DEF plan
  <2>4. QED
    BY <2>1, <2>2, <2>3, OpenListingKeeps
<1>9. CASE StaleTool(c)
  <2>1. \A rows \in StaleNodes(Graph, p, Limit) : rows \subseteq Seeable(Graph, p)
    BY <1>2, ListingsSeen
  <2>2. OpenListing(c, "stale", StaleNodes(Graph, p, Limit), none)
    BY <1>9 DEF StaleTool
  <2>. HIDE DEF none
  <2>3. QED
    BY <1>1, <2>1, <2>2, OpenListingKeeps
<1>10. CASE RecentChanges(c)
  <2>. DEFINE plan == <<<<0, "applied">>>>
  <2>4. /\ plan \in Seq((Node \cup {0}) \X Kinds)
        /\ \A i \in DOMAIN plan : plan[i][2] = "applied"
    BY DEF Kinds
  <2>1. \A rows \in RecentNodes(Graph, p, Node, Limit) : rows \subseteq Seeable(Graph, p)
    BY <1>2, ListingsSeen
  <2>2. OpenListing(c, "recent", RecentNodes(Graph, p, Node, Limit), plan)
    BY <1>10 DEF RecentChanges
  <2>. HIDE DEF plan
  <2>3. QED
    BY <2>1, <2>2, <2>4, OpenListingKeeps
<1>11. QED
  BY <1>3, <1>4, <1>5, <1>6, <1>7, <1>8, <1>9, <1>10 DEF Tool

\* What is left to do after a query is as well planned as before.
LEMMA TodoShrinks ==
  ASSUME NEW r, TodoOK(r), r.todo # <<>>, NEW to, to.todo = Tail(r.todo) \/ to.todo = <<>>,
         to.arg = r.arg, to.tool = r.tool, r.answer.nodes \subseteq to.answer.nodes,
         to.next \in Seq(to.answer.nodes)
  PROVE  TodoOK(to)
<1>. DEFINE T == (Node \cup {0}) \X Kinds
<1>1. r.todo \in Seq(T)
  BY DEF TodoOK
<1>. HIDE DEF T
<1>2. CASE to.todo = Tail(r.todo)
  <2>1. /\ Tail(r.todo) \in Seq(T)
        /\ \A k \in DOMAIN Tail(r.todo) : k + 1 \in DOMAIN r.todo /\ Tail(r.todo)[k] = r.todo[k + 1]
    BY <1>1, RestIs
  <2>2. ASSUME NEW k \in DOMAIN to.todo
        PROVE  /\ to.todo[k][2] \in {"out", "in"} => to.todo[k][1] \in to.answer.nodes
               /\ to.todo[k][2] \in {"exists", "path", "walk"} => to.arg \in to.answer.nodes
               /\ to.todo[k][2] = "story" => to.tool = "story"
    <3>1. k + 1 \in DOMAIN r.todo /\ to.todo[k] = r.todo[k + 1]
      BY <1>2, <2>1
    <3>2. QED
      BY <3>1 DEF TodoOK
  <2>3. QED
    BY <1>2, <2>1, <2>2 DEF TodoOK, T
<1>3. CASE to.todo = <<>>
  BY <1>3 DEF TodoOK
<1>4. QED
  BY <1>2, <1>3

\* (The sequences of a larger set.)
LEMMA SeqGrows ==
  ASSUME NEW S, NEW T, S \subseteq T, NEW s \in Seq(S)
  PROVE  s \in Seq(T)
<1>1. \A i \in 1 .. Len(s) : s[i] \in T
  OBVIOUS
<1>2. QED
  BY <1>1

\* (What a call of the query phase is.)
LEMMA InQuery ==
  ASSUME AnswerInv, NEW c \in Caller, call[c].pc = "query"
  PROVE  /\ Fields \subseteq DOMAIN call[c] /\ TodoOK(call[c])
         /\ AnswerOK(history, call[c].answer) /\ AnswerTrue(history, call[c].answer, call[c].principal, call[c].tool)
         /\ call[c].answer.since > 0 /\ call[c].answer.nodes \subseteq Node
         /\ call[c].principal.superuser \in BOOLEAN
BY DEF AnswerInv, CallOK, AnswerOK

\* A statement that has added N, E and D, and left `todo` and `next`.
LEMMA StatementKeeps ==
  ASSUME AnswerInv, NEW c \in Caller, call[c].pc = "query", call[c].todo # <<>>,
         NEW N, NEW E, NEW D, Readable(c, N, E, D),
         NEW todo, todo = Tail(call[c].todo) \/ todo = <<>>,
         NEW next, next \in Seq(call[c].answer.nodes \cup N),
         NEW to, to = [call[c] EXCEPT !.answer = Seen(c, N, E, D), !.todo = todo, !.next = next],
         Goto(c, to), UNCHANGED <<history, rbac, store>>
  PROVE  AnswerInv'
<1>1. Fields \subseteq DOMAIN call[c] /\ TodoOK(call[c])
  BY InQuery
<1>2. /\ Fields \subseteq DOMAIN to /\ to.pc = "query" /\ to.answer = Seen(c, N, E, D)
      /\ to.principal = call[c].principal /\ to.tool = call[c].tool /\ to.arg = call[c].arg
      /\ to.todo = todo /\ to.next = next
  BY <1>1 DEF Fields
<1>3. Seen(c, N, E, D).nodes = call[c].answer.nodes \cup N
  BY SeenTrue
<1>4. call[c].answer.nodes \subseteq to.answer.nodes /\ to.next \in Seq(to.answer.nodes)
  BY <1>2, <1>3
<1>5. TodoOK(to)
  BY <1>1, <1>2, <1>4, TodoShrinks
<1>6. CallOK(history, to)
  <2>1. ASSUME NEW t, Fields \subseteq DOMAIN t, t.pc = "query", t.answer = Seen(c, N, E, D),
               t.principal = call[c].principal, t.tool = call[c].tool, TodoOK(t)
        PROVE  CallOK(history, t)
    BY <2>1, QueriedOK
  <2>2. QED
    BY <1>2, <1>5, <2>1
<1>7. QED
  BY <1>6, CallKeeps

\* One that plans nothing more.
LEMMA PlainStatementKeeps ==
  ASSUME AnswerInv, NEW c \in Caller, call[c].pc = "query", call[c].todo # <<>>,
         NEW N, NEW E, NEW D, Readable(c, N, E, D),
         NEW todo, todo = Tail(call[c].todo) \/ todo = <<>>,
         Goto(c, [call[c] EXCEPT !.answer = Seen(c, N, E, D), !.todo = todo]),
         UNCHANGED <<history, rbac, store>>
  PROVE  AnswerInv'
<1>. DEFINE next == call[c].next
            to == [call[c] EXCEPT !.answer = Seen(c, N, E, D), !.todo = todo, !.next = next]
<1>1. Fields \subseteq DOMAIN call[c] /\ TodoOK(call[c])
  BY InQuery
<1>2. next \in Seq(call[c].answer.nodes \cup N)
  BY <1>1, SeqGrows DEF TodoOK
<1>3. [call[c] EXCEPT !.answer = Seen(c, N, E, D), !.todo = todo] = to
  <2>. DEFINE r == call[c]
              a == Seen(c, N, E, D)
  <2>. HIDE DEF a
  <2>1. [r EXCEPT !.answer = a, !.todo = todo] = [r EXCEPT !.answer = a, !.todo = todo, !.next = r.next]
    BY <1>1 DEF Fields
  <2>2. QED
    BY <2>1 DEF a
<1>4. Goto(c, to)
  BY <1>3
<1>. HIDE DEF to
<1>5. QED
  <2>1. to = [call[c] EXCEPT !.answer = Seen(c, N, E, D), !.todo = todo, !.next = next]
    BY DEF to
  <2>. HIDE DEF next
  <2>2. QED
    BY <1>2, <1>4, <2>1, StatementKeeps

\* The two queries of neighbors, in two READ COMMITTED statements.
LEMMA ReadNeighborsKeeps ==
  ASSUME AnswerInv, NEW c \in Caller, call[c].pc = "query", call[c].todo # <<>>,
         NEW n, n \in call[c].answer.nodes, NEW direction, ReadNeighbors(c, n, direction),
         UNCHANGED <<history, rbac, store>>
  PROVE  AnswerInv'
<1>. DEFINE p == call[c].principal
            cap == IF call[c].tool = "export" THEN MaxEdges ELSE Limit
            known == call[c].answer.edges
            room == IF call[c].tool = "export" THEN MaxEdges - Cardinality(known) ELSE Limit
            Ends(new) == UNION {{e.src, e.dst} : e \in new}
<1>1. PICK rows \in (IF direction = "out" THEN Outgoing(Graph, p, n, cap) ELSE Incoming(Graph, p, n, cap)) :
        \E new \in LimitedTo(rows \ known, room) :
          \E order \in SetToSeqs(Ends(new) \ call[c].answer.nodes) :
            Goto(c, [call[c] EXCEPT !.answer = Seen(c, Ends(new), new, {}),
                                    !.todo = Tail(@), !.next = @ \o order])
  BY DEF ReadNeighbors
<1>2. PICK new \in LimitedTo(rows \ known, room) :
        \E order \in SetToSeqs(Ends(new) \ call[c].answer.nodes) :
            Goto(c, [call[c] EXCEPT !.answer = Seen(c, Ends(new), new, {}),
                                    !.todo = Tail(@), !.next = @ \o order])
  BY <1>1
<1>3. PICK order \in SetToSeqs(Ends(new) \ call[c].answer.nodes) :
        Goto(c, [call[c] EXCEPT !.answer = Seen(c, Ends(new), new, {}),
                                !.todo = Tail(@), !.next = @ \o order])
  BY <1>2
<1>4. Linked(Graph)
  BY GraphIs
<1>5. rows \subseteq Graph.edges /\ \A e \in rows : {e.src, e.dst} \subseteq {n} \cup Seeable(Graph, p)
  <2>1. rows \in Outgoing(Graph, p, n, cap) \cup Incoming(Graph, p, n, cap)
    BY <1>1
  <2>. HIDE DEF p, cap
  <2>2. QED
    BY <1>4, <2>1, NeighboursSeen
<1>6. new \subseteq rows
  <2>. HIDE DEF known, room
  <2>1. new \subseteq rows \ known
    BY LimitKeeps
  <2>2. QED
    BY <2>1
<1>7. Ends(new) \subseteq call[c].answer.nodes \cup Seeable(Graph, p)
  BY <1>5, <1>6
<1>8. Ends(new) \subseteq Node /\ TodoOK(call[c])
  BY <1>4, <1>7, InQuery DEF Seeable, Linked
<1>9. Readable(c, Ends(new), new, {})
  BY <1>5, <1>6, <1>7 DEF Readable
<1>. DEFINE N == Ends(new)
            A == call[c].answer.nodes
            next == call[c].next \o order
            to == [call[c] EXCEPT !.answer = Seen(c, N, new, {}), !.todo = Tail(call[c].todo), !.next = next]
<1>10. next \in Seq(A \cup N)
  <2>. HIDE DEF N
  <2>1. IsFiniteSet(N \ A)
    BY <1>8, NodesAssumption, FS_Subset DEF N
  <2>2. Cardinality(N \ A) \in Nat
    BY <2>1, FS_CardinalityType
  <2>3. order \in [1 .. Cardinality(N \ A) -> N \ A]
    BY DEF SetToSeqs, N
  <2>4. order \in Seq(N \ A)
    <3>. DEFINE M == N \ A
    <3>. HIDE DEF M
    <3>1. Cardinality(M) \in Nat /\ order \in [1 .. Cardinality(M) -> M]
      BY <2>2, <2>3 DEF M
    <3>2. order \in Seq(M)
      BY <3>1
    <3>3. QED
      BY <3>2 DEF M
  <2>5. order \in Seq(A \cup N) /\ call[c].next \in Seq(A \cup N)
    BY <1>8, <2>4, SeqGrows DEF TodoOK
  <2>6. QED
    BY <2>5
<1>11. Goto(c, to)
  BY <1>3
<1>. HIDE DEF N, to, next
<1>12. to = [call[c] EXCEPT !.answer = Seen(c, N, new, {}), !.todo = Tail(call[c].todo), !.next = next]
  BY DEF to
<1>13. QED
  BY <1>9, <1>10, <1>11, <1>12, StatementKeeps DEF N

\* The recursive queries of traverse and find_path.
LEMMA ReadPathsKeeps ==
  ASSUME AnswerInv, NEW c \in Caller, call[c].pc = "query", call[c].todo # <<>>,
         NEW kind, NEW target \in Node \cup {0},
         kind \in {"exists", "path", "walk"} => call[c].arg \in call[c].answer.nodes,
         ReadPaths(c, kind, target), UNCHANGED <<history, rbac, store>>
  PROVE  AnswerInv'
<1>. DEFINE p == call[c].principal
            start == call[c].arg
            none == <<>>
<1>1. Linked(Graph)
  BY GraphIs
<1>2. Fields \subseteq DOMAIN call[c] /\ TodoOK(call[c]) /\ p.superuser \in BOOLEAN
  BY InQuery
<1>3. CASE kind = "exists" /\ FoundNode(Graph, p, target)
           /\ Goto(c, [call[c] EXCEPT !.answer = Seen(c, {target}, {}, {}),
                                      !.todo   = <<<<target, "path">>>>])
  <2>. DEFINE N == {target}
              plan == <<<<target, "path">>>>
              to == [call[c] EXCEPT !.answer = Seen(c, N, {}, {}), !.todo = plan]
  <2>1. Readable(c, N, {}, {})
    BY <1>1, <1>3 DEF Readable, Seeable, FoundNode
  <2>2. /\ Fields \subseteq DOMAIN to /\ to.pc = "query" /\ to.answer = Seen(c, N, {}, {})
        /\ to.principal = call[c].principal /\ to.tool = call[c].tool /\ to.arg = call[c].arg
        /\ to.todo = plan /\ to.next = call[c].next
    BY <1>2 DEF Fields
  <2>3. Goto(c, to)
    BY <1>3
  <2>4. plan \in Seq((Node \cup {0}) \X Kinds) /\ \A i \in DOMAIN plan : plan[i][2] = "path"
    BY DEF Kinds
  <2>. HIDE DEF to, plan, N
  <2>5. Seen(c, N, {}, {}).nodes = call[c].answer.nodes \cup N
    BY <2>1, SeenTrue
  <2>6. to.next \in Seq(to.answer.nodes) /\ to.arg \in to.answer.nodes
    BY <1>2, <1>3, <2>2, <2>5, SeqGrows DEF TodoOK
  <2>7. TodoOK(to)
    BY <2>2, <2>4, <2>6 DEF TodoOK
  <2>8. CallOK(history, to)
    BY <2>1, <2>2, <2>7, QueriedOK
  <2>9. QED
    BY <2>3, <2>8, CallKeeps
<1>4. CASE Goto(c, [call[c] EXCEPT !.pc = "done", !.answer = NoAnswer, !.todo = none])
  <2>. DEFINE to == [call[c] EXCEPT !.pc = "done", !.answer = NoAnswer, !.todo = none]
  <2>1. /\ Fields \subseteq DOMAIN to /\ to.pc = "done" /\ to.answer = NoAnswer
        /\ to.principal = call[c].principal
    BY <1>2 DEF Fields
  <2>2. AnswerOK(history, NoAnswer) /\ NoAnswer.since = 0
    <3>1. Len(history) \in Nat
      BY DEF AnswerInv
    <3>2. QED
      BY <3>1 DEF AnswerOK, NoAnswer
  <2>3. Goto(c, to)
    BY <1>4
  <2>. HIDE DEF to
  <2>4. CallOK(history, to)
    BY <1>2, <2>1, <2>2 DEF CallOK
  <2>5. QED
    BY <2>3, <2>4, CallKeeps
<1>5. CASE /\ kind = "path"
           /\ LET paths == FindPath(Graph, p, start, target, DepthCap)
              IN  \E path \in IF paths = {} THEN {none} ELSE paths :
                    Goto(c, [call[c] EXCEPT !.answer = Seen(c, NodesOf(start, path), {path[i].edge : i \in DOMAIN path}, {}),
                                            !.todo   = none])
  <2>. DEFINE paths == FindPath(Graph, p, start, target, DepthCap)
              N(path) == NodesOf(start, path)
              E(path) == {path[i].edge : i \in DOMAIN path}
  <2>1. PICK path \in (IF paths = {} THEN {none} ELSE paths) :
          Goto(c, [call[c] EXCEPT !.answer = Seen(c, N(path), E(path), {}), !.todo = none])
    BY <1>5
  <2>2. /\ E(path) \subseteq Graph.edges
        /\ N(path) \subseteq {start} \cup Seeable(Graph, p)
        /\ \A e \in E(path) : {e.src, e.dst} \subseteq N(path)
    <3>1. CASE path \in paths
      BY <1>1, <3>1, PathsSeen
    <3>2. CASE path = none
      BY <3>2 DEF NodesOf
    <3>3. QED
      BY <2>1, <3>1, <3>2
  <2>3. start \in call[c].answer.nodes
    BY <1>5
  <2>. HIDE DEF N, E
  <2>4. Readable(c, N(path), E(path), {})
    BY <2>2, <2>3 DEF Readable
  <2>. HIDE DEF none
  <2>5. QED
    BY <2>1, <2>4, PlainStatementKeeps DEF none
<1>6. CASE \E type \in Range(NodeType) :
             \E found \in Traverse(Graph, p, start, type, DepthCap, Limit) :
               Goto(c, [call[c] EXCEPT !.answer = Seen(c, found, {}, {}), !.todo = none])
  <2>1. PICK type \in Range(NodeType) :
             \E found \in Traverse(Graph, p, start, type, DepthCap, Limit) :
               Goto(c, [call[c] EXCEPT !.answer = Seen(c, found, {}, {}), !.todo = none])
    BY <1>6
  <2>2. PICK found \in Traverse(Graph, p, start, type, DepthCap, Limit) :
               Goto(c, [call[c] EXCEPT !.answer = Seen(c, found, {}, {}), !.todo = none])
    BY <2>1
  <2>3. Readable(c, found, {}, {})
    BY <1>1, TraversedSeen DEF Readable
  <2>. HIDE DEF none
  <2>4. QED
    BY <2>2, <2>3, PlainStatementKeeps DEF none
<1>7. QED
  BY <1>3, <1>4, <1>5, <1>6 DEF ReadPaths

\* The statements without scope add to neither nodes, edges nor documents.
LEMMA ReadUnscopedKeeps ==
  ASSUME AnswerInv, NEW c \in Caller, call[c].pc = "query", call[c].todo # <<>>,
         NEW n, NEW kind, ReadUnscoped(c, n, kind), UNCHANGED <<history, rbac, store>>
  PROVE  AnswerInv'
<1>. DEFINE todo == Tail(call[c].todo)
            b(N, E) == Unscoped(c, N, E)
<1>1. PICK N, E : Goto(c, [call[c] EXCEPT !.answer = b(N, E), !.todo = todo])
  BY DEF ReadUnscoped
<1>. DEFINE s == Seen(c, {}, {}, {})
            a == b(N, E)
            to == [call[c] EXCEPT !.answer = a, !.todo = todo]
<1>2. /\ Fields \subseteq DOMAIN call[c] /\ TodoOK(call[c]) /\ AnswerOK(history, call[c].answer)
      /\ call[c].answer.since > 0 /\ call[c].principal.superuser \in BOOLEAN
  BY InQuery
<1>3. /\ {"nodes", "edges", "docs", "since", "until"} \subseteq DOMAIN a
      /\ a.nodes = s.nodes /\ a.edges = s.edges /\ a.docs = s.docs
      /\ a.since = s.since /\ a.until = s.until /\ a.nodes = call[c].answer.nodes
  BY <1>2 DEF AnswerOK, Unscoped, Seen
<1>4. /\ AnswerOK(history, s) /\ AnswerTrue(history, s, call[c].principal, call[c].tool)
      /\ s.since = call[c].answer.since
  <2>1. Readable(c, {}, {}, {})
    BY DEF Readable
  <2>2. QED
    BY <2>1, SeenTrue
<1>. HIDE DEF a, s
<1>5. AnswerOK(history, a) /\ AnswerTrue(history, a, call[c].principal, call[c].tool)
  BY <1>3, <1>4 DEF AnswerOK, AnswerTrue
<1>6. /\ Fields \subseteq DOMAIN to /\ to.pc = "query" /\ to.answer = a /\ to.todo = todo
      /\ to.principal = call[c].principal /\ to.tool = call[c].tool /\ to.arg = call[c].arg
      /\ to.next = call[c].next
  BY <1>2 DEF Fields
<1>7. Goto(c, to)
  BY <1>1 DEF a
<1>. HIDE DEF to
<1>8. TodoOK(to)
  <2>1. to.next \in Seq(to.answer.nodes)
    BY <1>2, <1>3, <1>6 DEF TodoOK
  <2>2. QED
    BY <1>2, <1>3, <1>6, <2>1, TodoShrinks
<1>9. CallOK(history, to)
  BY <1>2, <1>3, <1>4, <1>5, <1>6, <1>8 DEF CallOK
<1>10. QED
  BY <1>7, <1>9, CallKeeps

\* Every further query of a call.
LEMMA QueryKeeps ==
  ASSUME AnswerInv, NEW c \in Caller, Query(c)
  PROVE  AnswerInv'
<1>. DEFINE q == Head(call[c].todo)
            p == call[c].principal
<1>1. call[c].pc = "query" /\ call[c].todo # <<>> /\ UNCHANGED <<history, rbac, store>>
  BY DEF Query
<1>2. TodoOK(call[c]) /\ call[c].todo \in Seq((Node \cup {0}) \X Kinds)
  BY <1>1, InQuery DEF TodoOK
<1>3. q = call[c].todo[1] /\ 1 \in DOMAIN call[c].todo /\ q[1] \in Node \cup {0}
  BY <1>1, <1>2, RestIs
<1>4. /\ q[2] \in {"out", "in"} => q[1] \in call[c].answer.nodes
      /\ q[2] \in {"exists", "path", "walk"} => call[c].arg \in call[c].answer.nodes
      /\ q[2] = "story" => call[c].tool = "story"
  BY <1>2, <1>3 DEF TodoOK
<1>5. Linked(Graph)
  BY GraphIs
<1>. HIDE DEF q
<1>6. CASE q[2] \in {"out", "in"} /\ ReadNeighbors(c, q[1], q[2])
  BY <1>1, <1>4, <1>6, ReadNeighborsKeeps
<1>7. CASE LET edges == EdgeStats(Graph, p)
           IN  Goto(c, [call[c] EXCEPT !.answer = Seen(c, UNION {{e.src, e.dst} : e \in edges}, edges, {}),
                                       !.todo = <<>>])
  <2>. DEFINE edges == EdgeStats(Graph, p)
              N == UNION {{e.src, e.dst} : e \in edges}
              none == <<>>
  <2>1. edges \subseteq Graph.edges /\ \A e \in edges : {e.src, e.dst} \subseteq Seeable(Graph, p)
    BY <1>5, StatsSeen
  <2>. HIDE DEF edges
  <2>2. Readable(c, N, edges, {})
    BY <2>1 DEF Readable
  <2>3. Goto(c, [call[c] EXCEPT !.answer = Seen(c, N, edges, {}), !.todo = none])
    BY <1>7 DEF edges
  <2>. HIDE DEF N, none
  <2>4. QED
    BY <1>1, <2>2, <2>3, PlainStatementKeeps DEF none
<1>8. CASE \E docs \in DocumentsBehind(c, q[1], q[2]) :
             Goto(c, [call[c] EXCEPT !.answer = Seen(c, {}, {}, docs), !.todo = Tail(@)])
  <2>1. PICK docs \in DocumentsBehind(c, q[1], q[2]) :
             Goto(c, [call[c] EXCEPT !.answer = Seen(c, {}, {}, docs), !.todo = Tail(call[c].todo)])
    BY <1>8
  <2>2. DocClause(p) \subseteq Doc
    BY DEF DocClause
  <2>3. docs \subseteq Doc /\ (call[c].tool # "story" => docs \subseteq DocClause(p))
    <3>1. CASE q[2] = "docs"
      BY <2>1, <2>2, <3>1 DEF DocumentsBehind, NodeSources
    <3>2. CASE q[2] = "timeline"
      <4>1. docs \subseteq NodeSources(Graph, p, q[1])
        BY <2>1, <3>2, LimitKeeps DEF DocumentsBehind, NodeTimeline
      <4>2. QED
        BY <2>2, <4>1 DEF NodeSources
    <3>3. CASE q[2] = "story"
      BY <1>4, <2>1, <3>3 DEF DocumentsBehind
    <3>4. QED
      BY <2>1, <3>1, <3>2, <3>3 DEF DocumentsBehind
  <2>4. Readable(c, {}, {}, docs)
    BY <2>3 DEF Readable
  <2>5. QED
    BY <1>1, <2>1, <2>4, PlainStatementKeeps
<1>9. CASE ReadPaths(c, q[2], q[1])
  BY <1>1, <1>3, <1>4, <1>9, ReadPathsKeeps
<1>10. CASE ReadUnscoped(c, q[1], q[2])
  BY <1>1, <1>10, ReadUnscopedKeeps
<1>11. QED
  BY <1>6, <1>7, <1>8, <1>9, <1>10 DEF Query, q

\* export_subgraph goes on to the next depth.
LEMMA DeepenKeeps ==
  ASSUME AnswerInv, NEW c \in Caller, Deepen(c)
  PROVE  AnswerInv'
<1>. DEFINE A == call[c].answer.nodes
            plan == Queries(call[c].next, ExportKinds)
            depth == call[c].depth - 1
            to == [call[c] EXCEPT !.todo = plan, !.next = <<>>, !.depth = depth]
<1>1. call[c].pc = "query" /\ Goto(c, to) /\ UNCHANGED <<history, rbac, store>>
  BY DEF Deepen
<1>2. CallOK(history, call[c]) /\ TodoOK(call[c]) /\ A \in SUBSET Node
  BY <1>1, InQuery DEF AnswerInv
<1>3. /\ plan \in Seq((Node \cup {0}) \X Kinds)
      /\ \A i \in DOMAIN plan : plan[i][1] \in A /\ plan[i][2] \in {"out", "in"}
  <2>1. {"out", "in"} \in SUBSET Kinds /\ ExportKinds \in Seq({"out", "in"}) /\ Len(ExportKinds) <= 3
    BY DEF Kinds, ExportKinds
  <2>2. call[c].next \in Seq(A)
    BY <1>2 DEF TodoOK
  <2>3. QED
    BY <1>2, <2>1, <2>2, QueriesAbout
<1>. HIDE DEF plan
<1>4. /\ Fields \subseteq DOMAIN to /\ to.pc = "query" /\ to.answer = call[c].answer
      /\ to.principal = call[c].principal /\ to.tool = call[c].tool /\ to.arg = call[c].arg
      /\ to.todo = plan /\ to.next = <<>>
  BY <1>1, <1>2 DEF CallOK, Fields
<1>. HIDE DEF to
<1>5. TodoOK(to)
  <2>1. to.next \in Seq(to.answer.nodes)
    BY <1>4
  <2>2. QED
    BY <1>3, <1>4, <2>1 DEF TodoOK
<1>6. CallOK(history, to)
  BY <1>1, <1>2, <1>4, <1>5 DEF CallOK
<1>7. QED
  BY <1>1, <1>6, CallKeeps

\* Auditing, or failing: the answer stays.
LEMMA PcKeeps ==
  ASSUME AnswerInv, NEW c \in Caller, NEW pc, pc \in {"fill", "done", "error"},
         pc = "fill" => call[c].pc = "query",
         Goto(c, [call[c] EXCEPT !.pc = pc]), UNCHANGED <<history, rbac, store>>
  PROVE  AnswerInv'
<1>. DEFINE to == [call[c] EXCEPT !.pc = pc]
<1>1. CallOK(history, to)
  BY MovedOK
<1>. HIDE DEF to
<1>2. Goto(c, to)
  BY DEF to
<1>3. QED
  BY <1>1, <1>2, CallKeeps

\* The audit insert, and its rollback when it fails.
LEMMA AuditKeeps ==
  ASSUME AnswerInv, NEW c \in Caller, Audit(c)
  PROVE  AnswerInv'
<1>1. call[c].pc = "query" /\ UNCHANGED <<history, rbac, store>>
  BY DEF Audit
<1>2. \E pc \in {"fill", "done", "error"} : Goto(c, [call[c] EXCEPT !.pc = pc])
  BY DEF Audit
<1>3. PICK pc \in {"fill", "done", "error"} : Goto(c, [call[c] EXCEPT !.pc = pc])
  BY <1>2
<1>4. QED
  BY <1>1, <1>3, PcKeeps

\* (Idle calls have no answer.)
LEMMA IdleOK ==
  ASSUME NEW h, Len(h) \in Nat
  PROVE  CallOK(h, Idle)
<1>1. /\ Fields \subseteq DOMAIN Idle /\ Idle.pc = "idle" /\ Idle.answer = NoAnswer
      /\ Idle.principal = Anonymous /\ Idle.next = <<>>
  BY DEF Idle, Fields
<1>2. AnswerOK(h, NoAnswer) /\ NoAnswer.since = 0
  BY DEF AnswerOK, NoAnswer
<1>3. Anonymous.superuser \in BOOLEAN
  BY DEF Anonymous
<1>4. QED
  BY <1>1, <1>2, <1>3 DEF CallOK

\* What is cached is what the caller answers, under its own scope.
LEMMA FillKeeps ==
  ASSUME AnswerInv, NEW c \in Caller, Fill(c)
  PROVE  AnswerInv'
<1>. DEFINE entry == [answer |-> call[c].answer, ttl |-> TTL]
            to == [call[c] EXCEPT !.pc = "done"]
            key == MakeKey(c)
<1>1. /\ call[c].pc = "fill" /\ Goto(c, to) /\ UNCHANGED <<history, rbac>>
      /\ store' = [k \in DOMAIN store \cup {key} |-> IF k = key THEN entry ELSE store[k]]
  BY DEF Fill
<1>2. CallOK(history, to) /\ CallOK(history, call[c])
  BY <1>1, MovedOK DEF AnswerInv
<1>3. key[2] = call[c].tool /\ key[3] = ScopeKey(call[c].principal)
  BY DEF MakeKey
<1>4. EntryOK(history, key, entry)
  <2>1. /\ AnswerOK(history, call[c].answer) /\ call[c].answer.since > 0
        /\ AnswerTrue(history, call[c].answer, call[c].principal, call[c].tool)
        /\ call[c].principal.superuser \in BOOLEAN
    BY <1>1, <1>2 DEF CallOK
  <2>2. ASSUME NEW p, p.superuser \in BOOLEAN, ScopeKey(p) = key[3]
        PROVE  AnswerTrue(history, call[c].answer, p, key[2])
    <3>1. ScopeKey(call[c].principal) = ScopeKey(p)
      BY <1>3, <2>2
    <3>. DEFINE q == call[c].principal
                a == call[c].answer
                tool == call[c].tool
    <3>2. q.superuser \in BOOLEAN /\ ScopeKey(q) = ScopeKey(p) /\ AnswerTrue(history, a, q, tool)
      BY <2>1, <3>1
    <3>. HIDE DEF q, a, tool
    <3>3. AnswerTrue(history, a, p, tool)
      BY <2>2, <3>2, ScopeAnswers
    <3>4. QED
      BY <1>3, <3>3 DEF a, tool
  <2>3. TTL \in 1 .. TTL
    BY BoundsAssumption
  <2>4. /\ {"answer", "ttl"} \subseteq DOMAIN entry
        /\ entry.ttl = TTL /\ entry.answer = call[c].answer
    OBVIOUS
  <2>. HIDE DEF entry, key
  <2>5. QED
    BY <2>1, <2>2, <2>3, <2>4 DEF EntryOK
<1>. HIDE DEF entry, key, to
<1>5. \A k \in DOMAIN store' : EntryOK(history, k, store'[k])
  BY <1>1, <1>4 DEF AnswerInv
<1>6. DOMAIN call' = Caller /\ \A d \in Caller : CallOK(history, call'[d])
  BY <1>1, <1>2 DEF AnswerInv, Goto
<1>7. history' = history /\ rbac' = rbac /\ Now' = Now
  BY <1>1 DEF Now
<1>8. QED
  BY <1>5, <1>6, <1>7 DEF AnswerInv

\* Every step of a caller.
LEMMA StepKeeps ==
  ASSUME AnswerInv, NEW c \in Caller, Step(c)
  PROVE  AnswerInv'
<1>1. CASE CacheRaises(c)
  <2>1. Goto(c, [call[c] EXCEPT !.pc = "error"]) /\ UNCHANGED <<history, rbac, store>>
    BY <1>1 DEF CacheRaises
  <2>2. QED
    BY <2>1, PcKeeps
<1>2. CASE End(c)
  <2>1. Goto(c, Idle) /\ UNCHANGED <<history, rbac, store>>
    BY <1>2 DEF End, Goto
  <2>2. CallOK(history, Idle)
    BY IdleOK DEF AnswerInv
  <2>3. QED
    BY <2>1, <2>2, CallKeeps
<1>3. QED
  BY <1>1, <1>2, LookUpKeeps, ToolKeeps, QueryKeeps, DeepenKeeps, AuditKeeps, FillKeeps DEF Step

\* Later graphs change nothing of what an answer says of its moments.
LEMMA HistoryGrows ==
  ASSUME NEW h, h \in Seq(Tables), NEW g \in Tables, NEW a, AnswerOK(h, a)
  PROVE  /\ AnswerOK(Append(h, g), a)
         /\ a.since > 0 => \A p, tool : AnswerTrue(h, a, p, tool) => AnswerTrue(Append(h, g), a, p, tool)
<1>. DEFINE H == Append(h, g)
<1>1. Len(H) = Len(h) + 1 /\ Len(h) \in Nat /\ \A i \in 1 .. Len(h) : H[i] = h[i]
  OBVIOUS
<1>. HIDE DEF H
<1>2. AnswerOK(H, a)
  BY <1>1 DEF AnswerOK
<1>3. ASSUME a.since > 0, NEW p, NEW tool, AnswerTrue(h, a, p, tool)
      PROVE  AnswerTrue(H, a, p, tool)
  <2>1. \A i \in a.since .. a.until : H[i] = h[i]
    BY <1>1, <1>3 DEF AnswerOK
  <2>2. QED
    BY <1>3, <2>1 DEF AnswerTrue
<1>4. QED
  BY <1>2, <1>3 DEF H

\* A writer's commit: what was true of the earlier graphs stays true.
LEMMA CommitKeeps ==
  ASSUME AnswerInv, NEW w \in Writer, Commit(w)
  PROVE  AnswerInv'
<1>1. PICK name \in ChangeName : history' = Append(history, Change(name, Graph))
  BY DEF Commit
<1>2. call' = call /\ store' = store /\ rbac' = rbac
  BY DEF Commit
<1>. DEFINE g == Change(name, Graph)
<1>3. g \in Tables /\ history \in Seq(Tables)
  BY GraphIs, TablesAssumption DEF AnswerInv
<1>. HIDE DEF g
<1>4. ASSUME NEW a, AnswerOK(history, a)
      PROVE  /\ AnswerOK(history', a)
             /\ a.since > 0 => \A p, tool : AnswerTrue(history, a, p, tool) => AnswerTrue(history', a, p, tool)
  <2>1. history' = Append(history, g)
    BY <1>1 DEF g
  <2>2. QED
    BY <1>3, <1>4, <2>1, HistoryGrows
<1>5. history' \in Seq(Tables) /\ Now' >= 1
  <2>1. history' = Append(history, g)
    BY <1>1 DEF g
  <2>2. Append(history, g) \in Seq(Tables) /\ Len(Append(history, g)) >= 1
    BY <1>3
  <2>3. QED
    BY <2>1, <2>2 DEF Now
<1>6. ASSUME NEW c \in Caller PROVE CallOK(history', call[c])
  <2>1. CallOK(history, call[c])
    BY DEF AnswerInv
  <2>2. /\ AnswerOK(history', call[c].answer)
        /\ call[c].answer.since > 0 =>
              AnswerTrue(history', call[c].answer, call[c].principal, call[c].tool)
    BY <1>4, <2>1 DEF CallOK
  <2>3. QED
    BY <2>1, <2>2 DEF CallOK
<1>7. ASSUME NEW k \in DOMAIN store PROVE EntryOK(history', k, store[k])
  <2>1. EntryOK(history, k, store[k])
    BY DEF AnswerInv
  <2>2. /\ AnswerOK(history', store[k].answer)
        /\ \A p, tool : AnswerTrue(history, store[k].answer, p, tool) => AnswerTrue(history', store[k].answer, p, tool)
    BY <1>4, <2>1 DEF EntryOK
  <2>3. QED
    BY <2>1, <2>2 DEF EntryOK
<1>8. DOMAIN call' = Caller /\ rbac' \in BOOLEAN
  BY <1>2 DEF AnswerInv
<1>9. (\A c \in Caller : CallOK(history', call'[c])) /\ \A k \in DOMAIN store' : EntryOK(history', k, store'[k])
  BY <1>2, <1>6, <1>7
<1>10. QED
  BY <1>5, <1>8, <1>9 DEF AnswerInv

\* A cache that forgets, or whose entries age.
LEMMA StoreKeeps ==
  ASSUME AnswerInv, UNCHANGED <<history, rbac, call>>,
         DOMAIN store' \subseteq DOMAIN store,
         \A k \in DOMAIN store' : store'[k] = store[k] \/ EntryOK(history, k, store'[k])
  PROVE  AnswerInv'
<1>1. \A k \in DOMAIN store' : EntryOK(history, k, store'[k])
  <2>1. SUFFICES ASSUME NEW k \in DOMAIN store' PROVE EntryOK(history, k, store'[k])
    OBVIOUS
  <2>2. EntryOK(history, k, store[k])
    BY DEF AnswerInv
  <2>3. QED
    BY <2>2
<1>2. Now' = Now
  BY DEF Now
<1>3. QED
  BY <1>1, <1>2 DEF AnswerInv

\* A bump of the version, in memory or in Redis.
LEMMA BumpKeeps ==
  ASSUME AnswerInv, NEW w \in Writer, Bump(w)
  PROVE  AnswerInv'
<1>1. UNCHANGED <<history, rbac, call>>
  BY DEF Bump
<1>2. DOMAIN store' \subseteq DOMAIN store /\ \A k \in DOMAIN store' : store'[k] = store[k]
  <2>1. CASE store' = store
    BY <2>1
  <2>2. CASE store' = Restrict(store, Reachable(version + 1))
    BY <2>2 DEF Restrict, Reachable
  <2>3. QED
    BY <2>1, <2>2 DEF Bump
<1>3. QED
  BY <1>1, <1>2, StoreKeeps

\* Entries age and expire.
LEMMA TickKeeps ==
  ASSUME AnswerInv, Tick
  PROVE  AnswerInv'
<1>1. UNCHANGED <<history, rbac, call>> /\ store' = Aged
  BY DEF Tick
<1>2. DOMAIN store' \subseteq DOMAIN store
  BY <1>1 DEF Aged
<1>3. ASSUME NEW k \in DOMAIN store' PROVE EntryOK(history, k, store'[k])
  <2>1. k \in DOMAIN store /\ store[k].ttl > 1 /\ store'[k] = [store[k] EXCEPT !.ttl = store[k].ttl - 1]
    BY <1>1 DEF Aged
  <2>2. EntryOK(history, k, store[k])
    BY <2>1 DEF AnswerInv
  <2>3. /\ {"answer", "ttl"} \subseteq DOMAIN store'[k]
        /\ store'[k].answer = store[k].answer /\ store'[k].ttl = store[k].ttl - 1
    BY <2>1, <2>2 DEF EntryOK
  <2>4. store'[k].ttl \in 1 .. TTL
    BY <2>1, <2>2, <2>3, BoundsAssumption DEF EntryOK
  <2>5. QED
    BY <2>2, <2>3, <2>4 DEF EntryOK
<1>4. QED
  BY <1>1, <1>2, <1>3, StoreKeeps

\* A restarted process has lost its calls, and its entries if they were in memory.
LEMMA RestartKeeps ==
  ASSUME AnswerInv, Restart
  PROVE  AnswerInv'
<1>1. history' = history /\ rbac' = rbac /\ call' = [c \in Caller |-> Idle] /\ (store' = store \/ store' = <<>>)
  BY DEF Restart
<1>2. DOMAIN call' = Caller /\ \A c \in Caller : CallOK(history, call'[c])
  <2>1. CallOK(history, Idle)
    BY IdleOK DEF AnswerInv
  <2>2. QED
    BY <1>1, <2>1
<1>3. \A k \in DOMAIN store' : EntryOK(history, k, store'[k])
  BY <1>1 DEF AnswerInv
<1>4. Now' = Now
  BY <1>1 DEF Now
<1>5. QED
  BY <1>1, <1>2, <1>3, <1>4 DEF AnswerInv

\* Every step keeps AnswerInv.
LEMMA AnswersKept ==
  ASSUME AnswerInv, [Next]_vars
  PROVE  AnswerInv'
<1>1. CASE \E c \in Caller : Begin(c) \/ Step(c)
  BY <1>1, BeginKeeps, StepKeeps
<1>2. CASE \E w \in Writer : Commit(w) \/ Bump(w)
  BY <1>2, CommitKeeps, BumpKeeps
<1>3. CASE UNCHANGED <<history, rbac, call, store>>
  BY <1>3, StoreKeeps
<1>4. CASE \E w \in Writer : SkipBump(w)
  BY <1>3, <1>4 DEF SkipBump
<1>5. CASE Regrant
  BY <1>3, <1>5 DEF Regrant
<1>6. CASE vars' = vars
  BY <1>3, <1>6 DEF vars
<1>7. QED
  BY <1>1, <1>2, <1>4, <1>5, <1>6, TickKeeps, RestartKeeps DEF Next

\* AnswerInv at the start: nobody has an answer and the cache is empty.
LEMMA AnswersBegin ==
  ASSUME Init
  PROVE  AnswerInv
<1>1. history = <<InitGraph>> /\ rbac \in BOOLEAN /\ call = [c \in Caller |-> Idle] /\ store = <<>>
  BY DEF Init
<1>2. history \in Seq(Tables) /\ Now = 1 /\ Len(history) \in Nat
  BY <1>1, TablesAssumption DEF Now
<1>3. CallOK(history, Idle)
  BY <1>2, IdleOK
<1>4. QED
  BY <1>1, <1>2, <1>3 DEF AnswerInv

\* AnswerInv holds in every behaviour.
LEMMA AnswerInvariant == Spec => []AnswerInv
<1>1. Init => AnswerInv
  BY AnswersBegin
<1>2. AnswerInv /\ [Next]_vars => AnswerInv'
  BY AnswersKept
<1>3. QED
  BY <1>1, <1>2, PTL DEF Spec

\* What a query lists under the visibility rule in an answer, read or cached, its caller's
\* grants showed of the graph at some moment of the read behind it: for any tools, grants,
\* writers and interleaving.  (Three reads do without the rule, see RowsFiltered.)
THEOREM AnswersHold == Spec => []AnswersTrue
<1>1. AnswerInv => AnswersTrue
  <2>1. SUFFICES ASSUME AnswerInv, NEW c \in Caller, Answered(c)
                 PROVE  LET a     == call[c].answer
                            p     == call[c].principal
                            reads == {history[i] : i \in a.since .. a.until}
                        IN  /\ \A n \in a.nodes : \E g \in reads : FoundNode(g, p, n)
                            /\ \A e \in a.edges : e.src \in a.nodes /\ e.dst \in a.nodes
                                                 /\ \E g \in reads : e \in g.edges
                            /\ call[c].tool # "story" => a.docs \subseteq DocClause(p)
    BY DEF AnswersTrue
  <2>2. AnswerTrue(history, call[c].answer, call[c].principal, call[c].tool)
    BY <2>1 DEF Answered, AnswerInv, CallOK
  <2>3. QED
    BY <2>2 DEF AnswerTrue
<1>2. QED
  BY <1>1, AnswerInvariant, PTL

-----------------------------------------------------------------------------
(* Freshness. *)

\* A call that will answer with what it has read.
Current(r) == r.pc \in {"query", "fill"} \/ (r.pc = "done" /\ r.answer.since > 0)

\* A call under way, when the cache has this version and covers this commit.
CallFresh(r, ver, cov) ==
  /\ r.version \in 0 .. ver /\ r.owed \in 0 .. cov
  /\ r.version = ver => r.owed = cov
  /\ r.pc \in {"lookup", "open"} => r.answer.since = 0
  /\ Current(r) => r.answer.since >= r.owed

\* What makes FreshAfterBump inductive: calls of one version are owed the same, and the
\* entries of a version have what its calls, present and to come, are owed.
FreshInv ==
  /\ version \in Nat /\ covered \in 1 .. Now
  /\ DOMAIN pending = Writer /\ \A w \in Writer : pending[w] \in 0 .. Now
  /\ \A c \in Caller : call[c].pc # "idle" =>
       /\ CallFresh(call[c], version, covered)
       /\ \A d \in Caller : call[d].pc # "idle" /\ call[d].version = call[c].version
                            => call[d].owed = call[c].owed
       /\ \A k \in DOMAIN store : k[1] = call[c].version => store[k].answer.since >= call[c].owed
  /\ \A k \in DOMAIN store : /\ k[1] \in 0 .. version
                             /\ k[1] = version => store[k].answer.since >= covered

\* Some call moves on, to answer from no earlier than it is owed.
LEMMA CallStaysFresh ==
  ASSUME AnswerInv, FreshInv, NEW c \in Caller, call[c].pc # "idle", NEW to, Goto(c, to),
         to.version = call[c].version, to.owed = call[c].owed,
         to.pc \in {"lookup", "open"} => to.answer.since = 0,
         Current(to) => to.answer.since >= call[c].owed,
         UNCHANGED <<history, pending, version, store, covered>>
  PROVE  FreshInv'
<1>1. DOMAIN call = Caller
  BY DEF AnswerInv
<1>2. call'[c] = to /\ \A d \in Caller : d # c => call'[d] = call[d]
  BY <1>1 DEF Goto
<1>3. Now' = Now
  BY DEF Now
<1>4. ASSUME NEW d \in Caller, call'[d].pc # "idle"
      PROVE  /\ CallFresh(call'[d], version, covered)
             /\ call[d].pc # "idle" /\ call'[d].version = call[d].version /\ call'[d].owed = call[d].owed
  <2>1. CASE d = c
    <3>1. CallFresh(call[c], version, covered)
      BY DEF FreshInv
    <3>2. CallFresh(to, version, covered)
      BY <3>1 DEF CallFresh
    <3>3. QED
      BY <1>2, <2>1, <3>2
  <2>2. CASE d # c
    <3>1. call'[d] = call[d]
      BY <1>2, <2>2
    <3>2. QED
      BY <1>4, <3>1 DEF FreshInv
  <2>3. QED
    BY <2>1, <2>2
<1>5. QED
  BY <1>3, <1>4 DEF FreshInv

\* (A call under way is owed no more than the present graph.)
LEMMA OwedByNow ==
  ASSUME AnswerInv, FreshInv, NEW c \in Caller, call[c].pc # "idle"
  PROVE  Now >= call[c].owed /\ call[c].owed \in Nat
<1>1. CallFresh(call[c], version, covered) /\ covered \in 1 .. Now /\ Now \in Nat
  BY GraphIs DEF FreshInv
<1>2. QED
  BY <1>1 DEF CallFresh

\* A call that begins is owed the commits whose bumps are done.
LEMMA BeginStaysFresh ==
  ASSUME AnswerInv, FreshInv, NEW c \in Caller, Begin(c)
  PROVE  FreshInv'
<1>1. PICK to :
        /\ Goto(c, to)
        /\ to.pc \in {"lookup", "open"} /\ to.version = version /\ to.owed = covered
        /\ to.answer.since = 0
  <2>1. PICK subject \in Subject, tool \in workload.tools[c] :
          \E arg \in IF tool \in AtNode THEN Args ELSE {0} :
            Goto(c, [Idle EXCEPT !.pc        = IF tool \in Cached THEN "lookup" ELSE "open",
                                 !.tool      = tool,
                                 !.arg       = arg,
                                 !.principal = Resolve(subject),
                                 !.version   = version,
                                 !.depth     = IF tool = "export" THEN ExportDepth ELSE 1,
                                 !.owed      = covered])
    BY DEF Begin
  <2>2. PICK arg : Goto(c, [Idle EXCEPT !.pc        = IF tool \in Cached THEN "lookup" ELSE "open",
                                       !.tool      = tool,
                                       !.arg       = arg,
                                       !.principal = Resolve(subject),
                                       !.version   = version,
                                       !.depth     = IF tool = "export" THEN ExportDepth ELSE 1,
                                       !.owed      = covered])
    BY <2>1
  <2>. DEFINE to == [Idle EXCEPT !.pc        = IF tool \in Cached THEN "lookup" ELSE "open",
                                 !.tool      = tool,
                                 !.arg       = arg,
                                 !.principal = Resolve(subject),
                                 !.version   = version,
                                 !.depth     = IF tool = "export" THEN ExportDepth ELSE 1,
                                 !.owed      = covered]
  <2>3. /\ to.pc \in {"lookup", "open"} /\ to.version = version /\ to.owed = covered
        /\ to.answer.since = 0
    BY DEF Idle, NoAnswer
  <2>4. Goto(c, to)
    BY <2>2
  <2>. HIDE DEF to
  <2>5. QED
    BY <2>3, <2>4
<1>2. UNCHANGED <<history, pending, version, store, covered>> /\ DOMAIN call = Caller
  BY DEF Begin, AnswerInv
<1>3. call'[c] = to /\ \A d \in Caller : d # c => call'[d] = call[d]
  BY <1>1, <1>2 DEF Goto
<1>4. Now' = Now
  BY <1>2 DEF Now
<1>5. version \in Nat /\ covered \in 1 .. Now /\ Now \in Nat
  BY GraphIs DEF FreshInv
<1>6. CallFresh(to, version, covered)
  BY <1>1, <1>5 DEF CallFresh, Current
<1>7. ASSUME NEW d \in Caller, call'[d].pc # "idle"
      PROVE  /\ CallFresh(call'[d], version, covered)
             /\ \A k \in DOMAIN store : k[1] = call'[d].version => store[k].answer.since >= call'[d].owed
  <2>1. CASE d = c
    BY <1>1, <1>3, <1>6, <2>1 DEF FreshInv
  <2>2. CASE d # c
    BY <1>3, <1>7, <2>2 DEF FreshInv
  <2>3. QED
    BY <2>1, <2>2
<1>8. ASSUME NEW d \in Caller, call'[d].pc # "idle", NEW e \in Caller, call'[e].pc # "idle",
             call'[d].version = call'[e].version
      PROVE  call'[d].owed = call'[e].owed
  <2>1. CASE d # c /\ e # c
    BY <1>3, <1>8, <2>1 DEF FreshInv
  <2>2. CASE d = c \/ e = c
    <3>1. call'[d].version = version /\ call'[e].version = version
      BY <1>1, <1>3, <1>8, <2>2
    <3>2. CallFresh(call'[d], version, covered) /\ CallFresh(call'[e], version, covered)
      BY <1>7, <1>8
    <3>3. QED
      BY <3>1, <3>2 DEF CallFresh
  <2>3. QED
    BY <2>1, <2>2
<1>9. QED
  BY <1>2, <1>4, <1>7, <1>8 DEF FreshInv

\* A hit under the version a call read is no older than what the call is owed.
LEMMA LookUpStaysFresh ==
  ASSUME AnswerInv, FreshInv, NEW c \in Caller, LookUp(c)
  PROVE  FreshInv'
<1>1. call[c].pc = "lookup" /\ UNCHANGED <<history, pending, version, store, covered>>
  BY DEF LookUp
<1>2. CallOK(history, call[c]) /\ CallFresh(call[c], version, covered)
  BY <1>1 DEF AnswerInv, FreshInv
<1>3. CASE Hit(c)
  <2>. DEFINE entry == store[MakeKey(c)]
              to == [call[c] EXCEPT !.pc = "done", !.answer = entry.answer]
  <2>1. Goto(c, to)
    BY <1>3 DEF LookUp
  <2>2. MakeKey(c)[1] = call[c].version /\ MakeKey(c) \in DOMAIN store
    BY <1>3 DEF MakeKey, Hit
  <2>3. entry.answer.since >= call[c].owed
    BY <1>1, <2>2 DEF FreshInv
  <2>. HIDE DEF entry
  <2>4. /\ to.pc = "done" /\ to.answer = entry.answer
        /\ to.version = call[c].version /\ to.owed = call[c].owed
    BY <1>2 DEF CallOK, Fields
  <2>. HIDE DEF to
  <2>5. QED
    BY <1>1, <2>1, <2>3, <2>4, CallStaysFresh
<1>4. CASE ~ Hit(c)
  <2>. DEFINE to == [call[c] EXCEPT !.pc = "open"]
  <2>1. Goto(c, to)
    BY <1>4 DEF LookUp
  <2>2. to.pc = "open" /\ to.answer = call[c].answer /\ to.version = call[c].version /\ to.owed = call[c].owed
    BY <1>2 DEF CallOK, Fields
  <2>3. to.answer.since = 0 /\ ~ Current(to)
    BY <1>1, <1>2, <2>2 DEF CallFresh, Current
  <2>. HIDE DEF to
  <2>4. QED
    BY <1>1, <2>1, <2>2, <2>3, CallStaysFresh
<1>5. QED
  BY <1>3, <1>4

\* The first rows are of the present.
LEMMA FoundStaysFresh ==
  ASSUME AnswerInv, FreshInv, NEW c \in Caller, call[c].pc = "open", NEW rows, NEW plan,
         Goto(c, [call[c] EXCEPT !.pc = "query", !.answer = Found(rows), !.todo = plan]),
         UNCHANGED <<history, pending, version, store, covered>>
  PROVE  FreshInv'
<1>. DEFINE to == [call[c] EXCEPT !.pc = "query", !.answer = Found(rows), !.todo = plan]
<1>1. Fields \subseteq DOMAIN call[c]
  BY DEF AnswerInv, CallOK
<1>2. to.pc = "query" /\ to.answer = Found(rows) /\ to.version = call[c].version /\ to.owed = call[c].owed
  BY <1>1 DEF Fields
<1>3. Found(rows).since = Now
  BY DEF Found, NoAnswer
<1>4. Now >= call[c].owed
  BY OwedByNow
<1>5. Goto(c, to)
  OBVIOUS
<1>. HIDE DEF to
<1>6. QED
  BY <1>2, <1>3, <1>4, <1>5, CallStaysFresh

\* Going on, or ending, with the answer as it is.
LEMMA PcStaysFresh ==
  ASSUME AnswerInv, FreshInv, NEW c \in Caller, call[c].pc \in {"lookup", "open", "query", "fill"},
         NEW pc, pc \in {"fill", "done", "error"}, pc = "fill" => call[c].pc = "query",
         Goto(c, [call[c] EXCEPT !.pc = pc]), UNCHANGED <<history, pending, version, store, covered>>
  PROVE  FreshInv'
<1>. DEFINE to == [call[c] EXCEPT !.pc = pc]
<1>1. Fields \subseteq DOMAIN call[c] /\ CallFresh(call[c], version, covered)
  BY DEF AnswerInv, CallOK, FreshInv
<1>2. to.pc = pc /\ to.answer = call[c].answer /\ to.version = call[c].version /\ to.owed = call[c].owed
  BY <1>1 DEF Fields
<1>3. Goto(c, to)
  OBVIOUS
<1>. HIDE DEF to
<1>4. Current(to) => to.answer.since >= call[c].owed
  BY <1>1, <1>2 DEF CallFresh, Current
<1>5. QED
  BY <1>2, <1>3, <1>4, CallStaysFresh

\* A tool's first query of a node writes neither the cache nor the history, and
\* keeps what is known of their freshness.
LEMMA OpenNodeStaysFresh ==
  ASSUME AnswerInv, FreshInv, NEW c \in Caller, NEW tool, NEW plans, OpenNode(c, tool, plans)
  PROVE  FreshInv'
<1>1. call[c].pc = "open" /\ UNCHANGED <<history, pending, version, store, covered>>
  BY DEF OpenNode
<1>2. \/ \E plan \in plans : Goto(c, [call[c] EXCEPT !.pc = "query", !.answer = Found({call[c].arg}), !.todo = plan])
      \/ Goto(c, [call[c] EXCEPT !.pc = "done"])
  BY DEF OpenNode
<1>3. QED
  BY <1>1, <1>2, FoundStaysFresh, PcStaysFresh

\* Nor does the first query of a listing.
LEMMA OpenListingStaysFresh ==
  ASSUME AnswerInv, FreshInv, NEW c \in Caller, NEW tool, NEW listings, NEW plan,
         OpenListing(c, tool, listings, plan)
  PROVE  FreshInv'
<1>1. call[c].pc = "open" /\ UNCHANGED <<history, pending, version, store, covered>>
  BY DEF OpenListing
<1>2. \E rows \in listings : Goto(c, [call[c] EXCEPT !.pc = "query", !.answer = Found(rows), !.todo = plan])
  BY DEF OpenListing
<1>3. QED
  BY <1>1, <1>2, FoundStaysFresh

\* The first query of every tool.
LEMMA ToolStaysFresh ==
  ASSUME AnswerInv, FreshInv, NEW c \in Caller, Tool(c)
  PROVE  FreshInv'
<1>1. ASSUME NEW tool, NEW kinds, OpenSearch(c, tool, kinds) PROVE FreshInv'
  <2>1. CASE \E listings, plan : OpenListing(c, tool, listings, plan)
    BY <2>1, OpenListingStaysFresh
  <2>2. CASE /\ call[c].pc = "open" /\ Goto(c, [call[c] EXCEPT !.pc = "error"])
             /\ UNCHANGED <<history, pending, version, store, covered>>
    BY <2>2, PcStaysFresh
  <2>3. QED
    BY <1>1, <2>1, <2>2 DEF OpenSearch
<1>2. CASE SearchTool(c) \/ AskTool(c)
  BY <1>1, <1>2 DEF SearchTool, AskTool
<1>3. CASE HybridTool(c) \/ GraphStats(c) \/ StaleTool(c) \/ RecentChanges(c)
  BY <1>3, OpenListingStaysFresh DEF HybridTool, GraphStats, StaleTool, RecentChanges
<1>4. CASE \/ NodeDetails(c) \/ EntityTimeline(c) \/ NodeStory(c) \/ NodeNeighbors(c) \/ TraverseGraphPath(c)
           \/ ExportSubgraph(c) \/ FindConnection(c)
  BY <1>4, OpenNodeStaysFresh
     DEF NodeDetails, EntityTimeline, NodeStory, NodeNeighbors, TraverseGraphPath, ExportSubgraph,
         FindConnection, AboutNode
<1>5. QED
  BY <1>2, <1>3, <1>4 DEF Tool

\* A statement leaves the moment since which the answer reads, or there is no answer.
LEMMA QueryStaysFresh ==
  ASSUME AnswerInv, FreshInv, NEW c \in Caller, Query(c)
  PROVE  FreshInv'
<1>1. call[c].pc = "query" /\ UNCHANGED <<history, pending, version, store, covered>>
  BY DEF Query
<1>2. /\ Fields \subseteq DOMAIN call[c] /\ AnswerOK(history, call[c].answer)
      /\ CallFresh(call[c], version, covered)
  BY <1>1, InQuery DEF FreshInv
<1>3. ASSUME NEW N, NEW E, NEW D, NEW to, Goto(c, to), to.pc = "query", to.answer = Seen(c, N, E, D),
             to.version = call[c].version, to.owed = call[c].owed
      PROVE  FreshInv'
  <2>1. Seen(c, N, E, D).since = call[c].answer.since
    BY <1>2 DEF Seen, AnswerOK
  <2>2. call[c].answer.since >= call[c].owed
    BY <1>1, <1>2 DEF CallFresh, Current
  <2>3. QED
    BY <1>1, <1>3, <2>1, <2>2, CallStaysFresh
<1>4. ASSUME NEW N, NEW E, NEW D, NEW todo, Goto(c, [call[c] EXCEPT !.answer = Seen(c, N, E, D), !.todo = todo])
      PROVE  FreshInv'
  <2>. DEFINE to == [call[c] EXCEPT !.answer = Seen(c, N, E, D), !.todo = todo]
  <2>1. /\ to.pc = "query" /\ to.answer = Seen(c, N, E, D)
        /\ to.version = call[c].version /\ to.owed = call[c].owed
    BY <1>1, <1>2 DEF Fields
  <2>2. Goto(c, to)
    BY <1>4
  <2>. HIDE DEF to
  <2>3. QED
    BY <1>3, <2>1, <2>2
<1>5. ASSUME NEW N, NEW E, NEW D, NEW todo, NEW next,
             Goto(c, [call[c] EXCEPT !.answer = Seen(c, N, E, D), !.todo = todo, !.next = next])
      PROVE  FreshInv'
  <2>. DEFINE to == [call[c] EXCEPT !.answer = Seen(c, N, E, D), !.todo = todo, !.next = next]
  <2>1. /\ to.pc = "query" /\ to.answer = Seen(c, N, E, D)
        /\ to.version = call[c].version /\ to.owed = call[c].owed
    BY <1>1, <1>2 DEF Fields
  <2>2. Goto(c, to)
    BY <1>5
  <2>. HIDE DEF to
  <2>3. QED
    BY <1>3, <2>1, <2>2
<1>6. ASSUME NEW todo, Goto(c, [call[c] EXCEPT !.pc = "done", !.answer = NoAnswer, !.todo = todo])
      PROVE  FreshInv'
  <2>. DEFINE to == [call[c] EXCEPT !.pc = "done", !.answer = NoAnswer, !.todo = todo]
  <2>1. /\ to.pc = "done" /\ to.answer = NoAnswer
        /\ to.version = call[c].version /\ to.owed = call[c].owed
    BY <1>1, <1>2 DEF Fields
  <2>2. Goto(c, to)
    BY <1>6
  <2>. HIDE DEF to
  <2>3. ~ Current(to)
    BY <2>1 DEF Current, NoAnswer
  <2>4. QED
    BY <1>1, <2>1, <2>2, <2>3, CallStaysFresh
<1>7. CASE \E n, direction : ReadNeighbors(c, n, direction)
  BY <1>5, <1>7 DEF ReadNeighbors
<1>8. CASE \E kind, target : ReadPaths(c, kind, target)
  BY <1>4, <1>6, <1>8 DEF ReadPaths
<1>9. CASE \E N, E, D, todo : Goto(c, [call[c] EXCEPT !.answer = Seen(c, N, E, D), !.todo = todo])
  BY <1>4, <1>9
<1>10. CASE \E n, kind : ReadUnscoped(c, n, kind)
  <2>1. PICK N, E, todo : Goto(c, [call[c] EXCEPT !.answer = Unscoped(c, N, E), !.todo = todo])
    BY <1>10 DEF ReadUnscoped
  <2>. DEFINE a == Unscoped(c, N, E)
              to == [call[c] EXCEPT !.answer = a, !.todo = todo]
  <2>2. a.since = call[c].answer.since
    BY <1>2 DEF Unscoped, AnswerOK
  <2>. HIDE DEF a
  <2>3. /\ to.pc = "query" /\ to.answer = a
        /\ to.version = call[c].version /\ to.owed = call[c].owed
    BY <1>1, <1>2 DEF Fields
  <2>4. Goto(c, to)
    BY <2>1 DEF a
  <2>. HIDE DEF to
  <2>5. call[c].answer.since >= call[c].owed
    BY <1>1, <1>2 DEF CallFresh, Current
  <2>6. QED
    BY <1>1, <2>2, <2>3, <2>4, <2>5, CallStaysFresh
<1>11. QED
  BY <1>7, <1>8, <1>9, <1>10 DEF Query

\* A deeper round keeps the answer's interval.
LEMMA DeepenStaysFresh ==
  ASSUME AnswerInv, FreshInv, NEW c \in Caller, Deepen(c)
  PROVE  FreshInv'
<1>. DEFINE plan == Queries(call[c].next, ExportKinds)
            depth == call[c].depth - 1
            to == [call[c] EXCEPT !.todo = plan, !.next = <<>>, !.depth = depth]
<1>1. /\ call[c].pc = "query" /\ Goto(c, to)
      /\ UNCHANGED <<history, pending, version, store, covered>>
  BY DEF Deepen
<1>2. Fields \subseteq DOMAIN call[c] /\ CallFresh(call[c], version, covered)
  BY <1>1 DEF AnswerInv, CallOK, FreshInv
<1>. HIDE DEF plan, depth
<1>3. /\ to.pc = "query" /\ to.answer = call[c].answer
      /\ to.version = call[c].version /\ to.owed = call[c].owed
  BY <1>1, <1>2 DEF Fields
<1>. HIDE DEF to
<1>4. to.answer.since >= call[c].owed
  BY <1>1, <1>2, <1>3 DEF CallFresh, Current
<1>5. QED
  BY <1>1, <1>3, <1>4, CallStaysFresh

\* What is cached under a version was read since what its calls are owed.
LEMMA FillStaysFresh ==
  ASSUME AnswerInv, FreshInv, NEW c \in Caller, Fill(c)
  PROVE  FreshInv'
<1>. DEFINE entry == [answer |-> call[c].answer, ttl |-> TTL]
            to == [call[c] EXCEPT !.pc = "done"]
            key == MakeKey(c)
<1>1. /\ call[c].pc = "fill" /\ Goto(c, to) /\ UNCHANGED <<history, pending, version, covered>>
      /\ store' = [k \in DOMAIN store \cup {key} |-> IF k = key THEN entry ELSE store[k]]
  BY DEF Fill
<1>2. /\ Fields \subseteq DOMAIN call[c] /\ CallFresh(call[c], version, covered) /\ DOMAIN call = Caller
  BY <1>1 DEF AnswerInv, CallOK, FreshInv
<1>3. key[1] = call[c].version /\ entry.answer = call[c].answer /\ entry.answer.since >= call[c].owed
  BY <1>1, <1>2 DEF MakeKey, CallFresh, Current
<1>4. to.pc = "done" /\ to.answer = call[c].answer /\ to.version = call[c].version /\ to.owed = call[c].owed
  BY <1>2 DEF Fields
<1>. HIDE DEF entry, to, key
<1>5. DOMAIN store' = DOMAIN store \cup {key} /\ store'[key] = entry
      /\ \A k \in DOMAIN store : k # key => store'[k] = store[k]
  BY <1>1
<1>6. call'[c] = to /\ \A d \in Caller : d # c => call'[d] = call[d]
  BY <1>1, <1>2 DEF Goto
<1>7. CallFresh(to, version, covered)
  BY <1>2, <1>3, <1>4 DEF CallFresh, Current
<1>8. ASSUME NEW d \in Caller, call'[d].pc # "idle"
      PROVE  /\ CallFresh(call'[d], version, covered) /\ call[d].pc # "idle"
             /\ call'[d].version = call[d].version /\ call'[d].owed = call[d].owed
  <2>1. CASE d = c
    BY <1>1, <1>4, <1>6, <1>7, <2>1
  <2>2. CASE d # c
    <3>1. call'[d] = call[d]
      BY <1>6, <2>2
    <3>2. QED
      BY <1>8, <3>1 DEF FreshInv
  <2>3. QED
    BY <2>1, <2>2
<1>9. ASSUME NEW k \in DOMAIN store', NEW d \in Caller, call[d].pc # "idle", k[1] = call[d].version
      PROVE  store'[k].answer.since >= call[d].owed
  <2>1. CASE k = key
    <3>1. call[d].owed = call[c].owed
      BY <1>1, <1>3, <1>9, <2>1 DEF FreshInv
    <3>2. QED
      BY <1>3, <1>5, <2>1, <3>1
  <2>2. CASE k # key
    <3>1. k \in DOMAIN store /\ store'[k] = store[k]
      BY <1>5, <1>9, <2>2
    <3>2. QED
      BY <1>9, <3>1 DEF FreshInv
  <2>3. QED
    BY <2>1, <2>2
<1>10. ASSUME NEW k \in DOMAIN store'
       PROVE  k[1] \in 0 .. version /\ (k[1] = version => store'[k].answer.since >= covered)
  <2>1. CASE k = key
    BY <1>2, <1>3, <1>5, <2>1 DEF CallFresh
  <2>2. CASE k # key
    BY <1>5, <1>10, <2>2 DEF FreshInv
  <2>3. QED
    BY <2>1, <2>2
<1>11. Now' = Now
  BY <1>1 DEF Now
<1>12. ASSUME NEW d \in Caller, call'[d].pc # "idle"
       PROVE  /\ CallFresh(call'[d], version, covered)
              /\ \A e \in Caller : call'[e].pc # "idle" /\ call'[e].version = call'[d].version
                                   => call'[e].owed = call'[d].owed
              /\ \A k \in DOMAIN store' : k[1] = call'[d].version
                                         => store'[k].answer.since >= call'[d].owed
  <2>1. \A e \in Caller : call'[e].pc # "idle" /\ call'[e].version = call'[d].version
                          => call'[e].owed = call'[d].owed
    BY <1>8, <1>12 DEF FreshInv
  <2>2. \A k \in DOMAIN store' : k[1] = call'[d].version => store'[k].answer.since >= call'[d].owed
    BY <1>8, <1>9, <1>12
  <2>3. QED
    BY <1>8, <1>12, <2>1, <2>2
<1>13. /\ UNCHANGED <<pending, version, covered>> /\ Now' = Now
       /\ version \in Nat /\ covered \in 1 .. Now
       /\ DOMAIN pending = Writer /\ \A w \in Writer : pending[w] \in 0 .. Now
  BY <1>1, <1>11 DEF FreshInv
<1>14. QED
  BY <1>10, <1>12, <1>13 DEF FreshInv

\* Every step of a caller.
LEMMA StepStaysFresh ==
  ASSUME AnswerInv, FreshInv, NEW c \in Caller, Step(c)
  PROVE  FreshInv'
<1>1. CASE CacheRaises(c)
  BY <1>1, PcStaysFresh DEF CacheRaises
<1>2. CASE Audit(c)
  <2>1. call[c].pc = "query" /\ UNCHANGED <<history, pending, version, store, covered>>
    BY <1>2 DEF Audit
  <2>2. \E pc \in {"fill", "done", "error"} : Goto(c, [call[c] EXCEPT !.pc = pc])
    BY <1>2 DEF Audit
  <2>3. PICK pc \in {"fill", "done", "error"} : Goto(c, [call[c] EXCEPT !.pc = pc])
    BY <2>2
  <2>4. QED
    BY <2>1, <2>3, PcStaysFresh
<1>3. CASE End(c)
  <2>1. /\ Goto(c, Idle) /\ UNCHANGED <<history, pending, version, store, covered>>
        /\ DOMAIN call = Caller /\ Idle.pc = "idle"
    BY <1>3 DEF End, Goto, AnswerInv, Idle
  <2>2. \A d \in Caller : call'[d].pc # "idle" => call'[d] = call[d]
    BY <2>1 DEF Goto
  <2>3. Now' = Now
    BY <2>1 DEF Now
  <2>4. QED
    BY <2>1, <2>2, <2>3 DEF FreshInv
<1>4. QED
  BY <1>1, <1>2, <1>3, LookUpStaysFresh, ToolStaysFresh, QueryStaysFresh, DeepenStaysFresh, FillStaysFresh DEF Step

\* A commit whose bump is still to come owes nobody anything.
LEMMA CommitStaysFresh ==
  ASSUME AnswerInv, FreshInv, NEW w \in Writer, Commit(w)
  PROVE  FreshInv' /\ Now' = Now + 1
<1>1. Now \in Nat /\ Now >= 1 /\ history \in Seq(Tables)
  BY GraphIs DEF AnswerInv
<1>2. Now' = Now + 1
  <2>1. PICK g : history' = Append(history, g)
    BY DEF Commit
  <2>2. Len(Append(history, g)) = Len(history) + 1
    BY <1>1
  <2>3. QED
    BY <2>1, <2>2 DEF Now
<1>3. pending' = [pending EXCEPT ![w] = Now + 1] /\ UNCHANGED <<version, store, call, covered>>
  BY DEF Commit
<1>4. DOMAIN pending' = Writer /\ \A v \in Writer : pending'[v] \in 0 .. Now'
  BY <1>1, <1>2, <1>3 DEF FreshInv
<1>5. covered' \in 1 .. Now'
  BY <1>1, <1>2, <1>3 DEF FreshInv
<1>6. QED
  BY <1>2, <1>3, <1>4, <1>5 DEF FreshInv

\* A bump makes a version that no entry and no call has yet.
LEMMA BumpStaysFresh ==
  ASSUME AnswerInv, FreshInv, NEW w \in Writer, Bump(w)
  PROVE  FreshInv'
<1>1. pending' = [pending EXCEPT ![w] = 0] /\ UNCHANGED <<history, call>> /\ Now' = Now
  BY DEF Bump, Now
<1>2. Now \in Nat /\ version \in Nat /\ covered \in 1 .. Now
  BY GraphIs DEF FreshInv
<1>3. DOMAIN pending' = Writer /\ \A v \in Writer : pending'[v] \in 0 .. Now
  BY <1>1, <1>2 DEF FreshInv
<1>4. CASE UNCHANGED <<version, store, covered>>
  BY <1>1, <1>3, <1>4 DEF FreshInv
<1>5. CASE /\ version' = version + 1 /\ store' = Restrict(store, Reachable(version + 1))
           /\ covered' = IF pending[w] > covered THEN pending[w] ELSE covered
  <2>1. pending[w] \in 0 .. Now
    BY DEF FreshInv
  <2>2. covered' \in 1 .. Now /\ covered' >= covered
    BY <1>2, <1>5, <2>1
  <2>3. \A k \in DOMAIN store' : k \in DOMAIN store /\ store'[k] = store[k] /\ k[1] \in 0 .. version
    BY <1>5 DEF Restrict, Reachable, FreshInv
  <2>4. ASSUME NEW c \in Caller, call[c].pc # "idle" PROVE CallFresh(call[c], version', covered')
    <3>1. CallFresh(call[c], version, covered)
      BY <2>4 DEF FreshInv
    <3>2. QED
      BY <1>2, <1>5, <2>2, <3>1 DEF CallFresh
  <2>5. \A k \in DOMAIN store' : k[1] \in 0 .. version' /\ k[1] # version'
    BY <1>2, <1>5, <2>3
  <2>6. version' \in Nat
    BY <1>2, <1>5
  <2>7. QED
    BY <1>1, <1>3, <2>2, <2>3, <2>4, <2>5, <2>6 DEF FreshInv
<1>6. QED
  BY <1>4, <1>5 DEF Bump

\* Aging, restarts, changed grants and writers that never bump.
LEMMA RestStaysFresh ==
  ASSUME AnswerInv, FreshInv, Tick \/ Restart \/ Regrant \/ (\E w \in Writer : SkipBump(w)) \/ vars' = vars
  PROVE  FreshInv'
<1>1. CASE Tick
  <2>1. UNCHANGED <<history, pending, version, call, covered>> /\ store' = Aged
    BY <1>1 DEF Tick
  <2>2. ASSUME NEW k \in DOMAIN store' PROVE k \in DOMAIN store /\ store'[k].answer = store[k].answer
    <3>1. k \in DOMAIN store /\ store'[k] = [store[k] EXCEPT !.ttl = store[k].ttl - 1]
      BY <2>1 DEF Aged
    <3>2. {"answer", "ttl"} \subseteq DOMAIN store[k]
      BY <3>1 DEF AnswerInv, EntryOK
    <3>3. QED
      BY <3>1, <3>2
  <2>3. Now' = Now
    BY <2>1 DEF Now
  <2>4. QED
    BY <2>1, <2>2, <2>3 DEF FreshInv
<1>2. CASE Restart
  <2>1. /\ history' = history /\ covered' = covered /\ call' = [c \in Caller |-> Idle]
        /\ pending' = [w \in Writer |-> IF w = "mcp" THEN 0 ELSE pending[w]]
        /\ (version' = version /\ store' = store) \/ (version' = 0 /\ store' = <<>>)
    BY <1>2 DEF Restart
  <2>2. Now' = Now /\ Now \in Nat
    BY <2>1, GraphIs DEF Now
  <2>3. \A c \in Caller : call'[c].pc = "idle"
    BY <2>1 DEF Idle
  <2>4. DOMAIN pending' = Writer /\ \A w \in Writer : pending'[w] \in 0 .. Now
    BY <2>1, <2>2 DEF FreshInv
  <2>5. \A k \in DOMAIN store' : /\ k[1] \in 0 .. version'
                                 /\ k[1] = version' => store'[k].answer.since >= covered
    BY <2>1 DEF FreshInv
  <2>6. version' \in Nat
    BY <2>1 DEF FreshInv
  <2>7. covered' \in 1 .. Now'
    BY <2>1, <2>2 DEF FreshInv
  <2>8. QED
    BY <2>1, <2>2, <2>3, <2>4, <2>5, <2>6, <2>7 DEF FreshInv
<1>3. CASE \E w \in Writer : SkipBump(w)
  <2>1. PICK w \in Writer : pending' = [pending EXCEPT ![w] = 0]
    BY <1>3 DEF SkipBump
  <2>2. UNCHANGED <<history, version, store, call, covered>>
    BY <1>3 DEF SkipBump
  <2>3. Now' = Now /\ Now \in Nat
    BY <2>2, GraphIs DEF Now
  <2>4. DOMAIN pending' = Writer /\ \A v \in Writer : pending'[v] \in 0 .. Now
    BY <2>1, <2>3 DEF FreshInv
  <2>5. QED
    BY <2>2, <2>3, <2>4 DEF FreshInv
<1>4. CASE UNCHANGED <<history, pending, version, store, call, covered>>
  <2>1. Now' = Now
    BY <1>4 DEF Now
  <2>2. QED
    BY <1>4, <2>1 DEF FreshInv
<1>5. QED
  BY <1>1, <1>2, <1>3, <1>4 DEF Regrant, vars

\* Every step keeps FreshInv, given AnswerInv.
LEMMA FreshKept ==
  ASSUME AnswerInv, FreshInv, [Next]_vars
  PROVE  FreshInv'
BY BeginStaysFresh, StepStaysFresh, CommitStaysFresh, BumpStaysFresh, RestStaysFresh DEF Next

\* FreshInv at the start.
LEMMA FreshBegins ==
  ASSUME Init
  PROVE  FreshInv
<1>1. /\ history = <<InitGraph>> /\ pending = [w \in Writer |-> 0] /\ version = 0 /\ store = <<>>
      /\ call = [c \in Caller |-> Idle] /\ covered = 1
  BY DEF Init
<1>2. Now = 1 /\ Idle.pc = "idle"
  BY <1>1 DEF Now, Idle
<1>3. QED
  BY <1>1, <1>2 DEF FreshInv

\* FreshInv holds in every behaviour.
LEMMA FreshInvariant == Spec => []FreshInv
<1>1. Init => FreshInv
  BY FreshBegins
<1>2. AnswerInv /\ FreshInv /\ [Next]_vars => FreshInv'
  BY FreshKept
<1>3. QED
  BY <1>1, <1>2, AnswerInvariant, PTL DEF Spec

\* No call that begins after a bump answers from before the commit that bump followed, however
\* fills, bumps, crashes and calls of older versions interleave.
THEOREM BumpsAreSeen == Spec => []FreshAfterBump
<1>1. FreshInv => FreshAfterBump
  BY DEF FreshInv, FreshAfterBump, Answered, CallFresh, Current
<1>2. QED
  BY <1>1, FreshInvariant, PTL

-----------------------------------------------------------------------------
(* Types. *)

\* The writers that have still to bump.
Waiting(p) == {w \in Writer : p[w] # 0}

\* Each bump is for a commit of its own.
TypeInv ==
  /\ backend \in Backends /\ workload \in Workloads /\ policy \in Range(Policies)
  /\ Now <= MaxCommits + 1
  /\ pending \in [Writer -> Nat]
  /\ version + Cardinality(Waiting(pending)) <= Now - 1

\* (How many wait.)
LEMMA WaitingCounts ==
  ASSUME NEW S \in SUBSET Writer, NEW T, T \subseteq S
  PROVE  /\ Cardinality(S) \in Nat /\ Cardinality(T) \in Nat /\ Cardinality(T) <= Cardinality(S)
         /\ \A w \in Writer : Cardinality(S \cup {w}) <= Cardinality(S) + 1
         /\ \A w \in S : Cardinality(S \ {w}) = Cardinality(S) - 1
<1>1. IsFiniteSet(S)
  BY BoundsAssumption, FS_Subset
<1>2. Cardinality(S) \in Nat
  BY <1>1, FS_CardinalityType
<1>3. Cardinality(T) \in Nat /\ Cardinality(T) <= Cardinality(S)
  BY <1>1, FS_Subset, FS_CardinalityType
<1>4. ASSUME NEW w \in Writer PROVE Cardinality(S \cup {w}) <= Cardinality(S) + 1
  <2>1. Cardinality(S \cup {w}) = IF w \in S THEN Cardinality(S) ELSE Cardinality(S) + 1
    BY <1>1, FS_AddElement
  <2>2. QED
    BY <1>2, <2>1
<1>5. ASSUME NEW w \in S PROVE Cardinality(S \ {w}) = Cardinality(S) - 1
  BY <1>1, FS_RemoveElement
<1>6. QED
  BY <1>2, <1>3, <1>4, <1>5

\* Every step keeps TypeInv, given the two other invariants.
LEMMA TypesKept ==
  ASSUME AnswerInv, FreshInv, TypeInv, [Next]_vars
  PROVE  TypeInv'
<1>. DEFINE P == Waiting(pending)
            free == Cardinality(P)
<1>1. /\ Now \in Nat /\ Now >= 1 /\ version \in Nat /\ free \in Nat /\ P \in SUBSET Writer
  BY GraphIs, WaitingCounts DEF FreshInv, Waiting
<1>2. CASE UNCHANGED <<backend, workload, policy, history, pending, version>>
  <2>1. Now' = Now
    BY <1>2 DEF Now
  <2>2. QED
    BY <1>2, <2>1 DEF TypeInv, Waiting
<1>3. CASE \E c \in Caller : Begin(c) \/ Step(c)
  <2>1. UNCHANGED <<backend, workload, policy, history, pending, version>>
    BY <1>3 DEF Begin, Step, LookUp, Tool, SearchTool, AskTool, HybridTool, NodeDetails, EntityTimeline, NodeStory,
          NodeNeighbors, TraverseGraphPath, FindConnection, ExportSubgraph, GraphStats, StaleTool, RecentChanges,
          OpenSearch, OpenListing, AboutNode, OpenNode, Query, Deepen, Audit, Fill, CacheRaises, End
  <2>2. QED
    BY <1>2, <2>1
<1>4. ASSUME NEW w \in Writer, Commit(w) PROVE TypeInv'
  <2>1. /\ Now <= workload.commits /\ pending' = [pending EXCEPT ![w] = Now + 1]
        /\ UNCHANGED <<backend, workload, policy, version>> /\ Now' = Now + 1
    BY <1>4, CommitStaysFresh DEF Commit
  <2>2. Now + 1 <= MaxCommits + 1
    <3>1. workload.commits \in 0 .. MaxCommits /\ MaxCommits \in Nat
      BY BoundsAssumption DEF TypeInv
    <3>2. QED
      BY <1>1, <2>1, <3>1
  <2>3. pending' \in [Writer -> Nat] /\ Waiting(pending') \subseteq P \cup {w}
    BY <1>1, <2>1 DEF TypeInv, Waiting
  <2>4. Cardinality(Waiting(pending')) <= free + 1 /\ Cardinality(Waiting(pending')) \in Nat
    <3>1. P \cup {w} \in SUBSET Writer
      BY <1>1
    <3>2. Cardinality(P \cup {w}) <= free + 1
      BY <1>1, WaitingCounts
    <3>3. /\ Cardinality(Waiting(pending')) <= Cardinality(P \cup {w})
          /\ Cardinality(Waiting(pending')) \in Nat /\ Cardinality(P \cup {w}) \in Nat
      <4>. DEFINE S == P \cup {w}
                  T == Waiting(pending')
      <4>1. S \in SUBSET Writer /\ T \subseteq S
        BY <2>3, <3>1
      <4>. HIDE DEF S, T
      <4>2. Cardinality(S) \in Nat /\ Cardinality(T) \in Nat /\ Cardinality(T) <= Cardinality(S)
        BY <4>1, WaitingCounts
      <4>3. QED
        BY <4>2 DEF S, T
    <3>4. QED
      BY <1>1, <3>2, <3>3
  <2>5. version + free <= Now - 1
    BY DEF TypeInv
  <2>6. version + Cardinality(Waiting(pending')) <= Now' - 1
    BY <1>1, <2>1, <2>4, <2>5
  <2>7. QED
    BY <2>1, <2>2, <2>3, <2>6 DEF TypeInv
<1>5. ASSUME NEW w \in Writer, Bump(w) \/ SkipBump(w) PROVE TypeInv'
  <2>1. /\ pending[w] # 0 /\ pending' = [pending EXCEPT ![w] = 0]
        /\ UNCHANGED <<backend, workload, policy, history>> /\ (version' = version \/ version' = version + 1)
    BY <1>5 DEF Bump, SkipBump
  <2>2. Now' = Now
    BY <2>1 DEF Now
  <2>3. pending' \in [Writer -> Nat] /\ Waiting(pending') = P \ {w} /\ w \in P
    BY <2>1 DEF TypeInv, Waiting
  <2>4. Cardinality(Waiting(pending')) = free - 1
    <3>. HIDE DEF P
    <3>1. Cardinality(P \ {w}) = Cardinality(P) - 1
      BY <1>1, <2>3, WaitingCounts
    <3>2. QED
      BY <2>3, <3>1
  <2>5. version + free <= Now - 1
    BY DEF TypeInv
  <2>6. version' + Cardinality(Waiting(pending')) <= Now' - 1
    BY <1>1, <2>1, <2>2, <2>4, <2>5
  <2>7. QED
    BY <2>1, <2>2, <2>3, <2>6 DEF TypeInv
<1>6. CASE Regrant
  <2>1. UNCHANGED <<backend, workload, history, pending, version>> /\ policy' \in Range(Tail(Policies))
    BY <1>6 DEF Regrant
  <2>2. policy' \in Range(Policies)
    <3>1. \A k \in DOMAIN Tail(Policies) : k + 1 \in DOMAIN Policies /\ Tail(Policies)[k] = Policies[k + 1]
      BY PoliciesAssumption, RestIs
    <3>2. QED
      BY <2>1, <3>1 DEF Range
  <2>3. Now' = Now
    BY <2>1 DEF Now
  <2>4. QED
    BY <2>1, <2>2, <2>3 DEF TypeInv, Waiting
<1>7. CASE Restart
  <2>1. /\ UNCHANGED <<backend, workload, policy, history>> /\ (version' = version \/ version' = 0)
        /\ pending' = [w \in Writer |-> IF w = "mcp" THEN 0 ELSE pending[w]]
    BY <1>7 DEF Restart
  <2>2. Now' = Now
    BY <2>1 DEF Now
  <2>3. pending' \in [Writer -> Nat] /\ Waiting(pending') \subseteq P
    BY <2>1 DEF TypeInv, Waiting
  <2>4. Cardinality(Waiting(pending')) <= free /\ Cardinality(Waiting(pending')) \in Nat
    <3>. HIDE DEF P
    <3>1. QED
      BY <1>1, <2>3, WaitingCounts
  <2>5. version + free <= Now - 1
    BY DEF TypeInv
  <2>6. version' + Cardinality(Waiting(pending')) <= Now' - 1
    BY <1>1, <2>1, <2>2, <2>4, <2>5
  <2>7. QED
    BY <2>1, <2>2, <2>3, <2>6 DEF TypeInv
<1>8. QED
  BY <1>2, <1>3, <1>4, <1>5, <1>6, <1>7 DEF Next, Tick, vars

\* TypeInv at the start.
LEMMA TypesBegin ==
  ASSUME Init
  PROVE  TypeInv
<1>1. /\ backend \in Backends /\ workload \in Workloads /\ policy = Head(Policies) /\ history = <<InitGraph>>
      /\ pending = [w \in Writer |-> 0] /\ version = 0
  BY DEF Init
<1>2. policy \in Range(Policies)
  <2>1. Head(Policies) = Policies[1] /\ 1 \in DOMAIN Policies
    BY PoliciesAssumption, RestIs
  <2>2. QED
    BY <1>1, <2>1 DEF Range
<1>3. Now = 1 /\ Now <= MaxCommits + 1
  BY <1>1, BoundsAssumption DEF Now
<1>4. Waiting(pending) = {} /\ Cardinality({}) = 0
  BY <1>1, FS_EmptySet DEF Waiting
<1>5. QED
  BY <1>1, <1>2, <1>3, <1>4 DEF TypeInv

\* The variables have their types: no entry outlives its time, and there are no more versions
\* than commits, as each bump is for one of its own.
THEOREM ReadsTypeCorrect == Spec => []TypeOK
<1>1. Init => TypeInv
  BY TypesBegin
<1>2. AnswerInv /\ FreshInv /\ TypeInv /\ [Next]_vars => TypeInv'
  BY TypesKept
<1>3. AnswerInv /\ FreshInv /\ TypeInv => TypeOK
  <2>. SUFFICES ASSUME AnswerInv, FreshInv, TypeInv PROVE TypeOK
    OBVIOUS
  <2>2. Now \in Nat /\ Now >= 1 /\ MaxCommits \in Nat /\ Now <= MaxCommits + 1
    BY GraphIs, BoundsAssumption DEF TypeInv
  <2>3. pending \in [Writer -> 0 .. MaxCommits + 1]
    <3>1. \A w \in Writer : pending[w] \in 0 .. MaxCommits + 1
      BY <2>2 DEF FreshInv
    <3>2. QED
      BY <3>1 DEF TypeInv
  <2>4. version \in 0 .. MaxCommits
    <3>1. Cardinality(Waiting(pending)) \in Nat
      BY WaitingCounts DEF Waiting
    <3>2. version \in Nat /\ version + Cardinality(Waiting(pending)) <= Now - 1
      BY DEF FreshInv, TypeInv
    <3>3. QED
      BY <2>2, <3>1, <3>2
  <2>5. \A k \in DOMAIN store : store[k].ttl \in 1 .. TTL
    BY DEF AnswerInv, EntryOK
  <2>6. \A c \in Caller :
          /\ call[c].pc \in {"idle", "lookup", "open", "query", "fill", "done", "error"}
          /\ call[c].answer.nodes \subseteq Node /\ call[c].answer.docs \subseteq Doc
          /\ call[c].answer.until <= Now
    BY DEF AnswerInv, CallOK, AnswerOK, Now
  <2>7. Now \in 1 .. MaxCommits + 1 /\ covered \in 1 .. Now
    BY <2>2 DEF FreshInv
  <2>8. QED
    BY <2>3, <2>4, <2>5, <2>6, <2>7 DEF TypeOK, TypeInv, AnswerInv
<1>4. QED
  BY <1>1, <1>2, <1>3, AnswerInvariant, FreshInvariant, PTL DEF Spec
=============================================================================
