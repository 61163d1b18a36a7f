--------------------------- MODULE GraphReadsProofs ---------------------------
(***************************************************************************)
(* What the statements of GraphReads compute, for any graph and grants:    *)
(* the recursive walk of find_path and traverse is a breadth-first search, *)
(* the fused ranking of hybrid_search favours what both legs rank well,    *)
(* and an export that no commit divides leaves nothing out.                *)
(***************************************************************************)
EXTENDS ReadPathProofs

-----------------------------------------------------------------------------
(* The nodes within k hops, one hop at a time. *)

\* One hop more.
Reached(g, p, B) ==
  B \cup {m \in VisibleNodes(g, p) \cap g.nodes : \E e \in g.edges :
            m \in {e.src, e.dst} /\ {e.src, e.dst} \cap B # {}}

\* The function that Within evaluates.
IsBall(g, p, n, k, ball) ==
  ball = [i \in 0 .. k |-> IF i = 0 THEN {n} ELSE Reached(g, p, ball[i - 1])]

\* (The definition, unfolded.)
LEMMA WithinDef ==
  ASSUME NEW g, NEW p, NEW n, NEW k
  PROVE  Within(g, p, n, k) = (CHOOSE ball : IsBall(g, p, n, k, ball))[k]
BY DEF Within, IsBall, Reached

\* What it says at each number of hops.
BallSteps(g, p, n, k, ball) ==
  ball[0] = {n} /\ \A i \in 1 .. k : ball[i] = Reached(g, p, ball[i - 1])

LEMMA BallAt ==
  ASSUME NEW g, NEW p, NEW n, NEW k \in Nat, NEW ball, IsBall(g, p, n, k, ball)
  PROVE  BallSteps(g, p, n, k, ball)
<1>1. \A i \in 0 .. k : ball[i] = IF i = 0 THEN {n} ELSE Reached(g, p, ball[i - 1])
  BY DEF IsBall
<1>2. QED
  BY <1>1 DEF BallSteps

\* There is such a function for every number of hops.
LEMMA BallExists ==
  ASSUME NEW g, NEW p, NEW n, NEW k \in Nat
  PROVE  \E ball : IsBall(g, p, n, k, ball)
<1>. DEFINE S == {m \in Nat : \E ball : IsBall(g, p, n, m, ball)}
<1>1. 0 \in S
  <2>. DEFINE b == [i \in 0 .. 0 |-> {n}]
  <2>1. IsBall(g, p, n, 0, b)
    BY DEF IsBall
  <2>2. QED
    BY <2>1
<1>2. ASSUME NEW m \in Nat, m \in S PROVE m + 1 \in S
  <2>1. PICK b : IsBall(g, p, n, m, b)
    BY <1>2
  <2>. DEFINE c == [i \in 0 .. m + 1 |-> IF i = m + 1 THEN Reached(g, p, b[m]) ELSE b[i]]
  <2>2. BallSteps(g, p, n, m, b)
    BY <2>1, BallAt
  <2>3. ASSUME NEW i \in 0 .. m + 1 PROVE c[i] = IF i = 0 THEN {n} ELSE Reached(g, p, c[i - 1])
    <3>1. CASE i = m + 1
      BY <3>1
    <3>2. CASE i # m + 1
      <4>1. i \in 0 .. m
        BY <3>2
      <4>2. c[i] = b[i] /\ (i # 0 => c[i - 1] = b[i - 1])
        BY <4>1
      <4>. HIDE DEF c
      <4>3. CASE i = 0
        <5>1. b[0] = {n}
          BY <2>2 DEF BallSteps
        <5>2. QED
          BY <4>2, <4>3, <5>1
      <4>4. CASE i # 0
        <5>1. i \in 1 .. m
          BY <4>1, <4>4
        <5>2. b[i] = Reached(g, p, b[i - 1])
          BY <2>2, <5>1 DEF BallSteps
        <5>3. QED
          BY <4>2, <4>4, <5>2
      <4>5. QED
        BY <4>3, <4>4
    <3>3. QED
      BY <3>1, <3>2
  <2>4. IsBall(g, p, n, m + 1, c)
    BY <2>3 DEF IsBall
  <2>5. QED
    <3>. HIDE DEF c
    <3>1. QED
      BY <2>4
<1>3. k \in S
  <2>. HIDE DEF S
  <2>1. QED
    BY <1>1, <1>2, NaturalInduction
<1>4. QED
  BY <1>3

\* Balls of different sizes agree as far as both go.
LEMMA BallsAgree ==
  ASSUME NEW g, NEW p, NEW n, NEW k \in Nat, NEW m \in Nat, m <= k,
         NEW b, IsBall(g, p, n, k, b), NEW c, IsBall(g, p, n, m, c)
  PROVE  \A i \in 0 .. m : b[i] = c[i]
<1>. DEFINE T == {i \in Nat : i <= m => b[i] = c[i]}
<1>1. BallSteps(g, p, n, k, b) /\ BallSteps(g, p, n, m, c)
  BY BallAt
<1>2. 0 \in T
  BY <1>1 DEF BallSteps
<1>3. ASSUME NEW i \in Nat, i \in T PROVE i + 1 \in T
  <2>1. SUFFICES ASSUME i + 1 <= m PROVE b[i + 1] = c[i + 1]
    OBVIOUS
  <2>2. b[i] = c[i] /\ i + 1 \in 1 .. m /\ i + 1 \in 1 .. k /\ (i + 1) - 1 = i
    BY <1>3, <2>1
  <2>3. b[i + 1] = Reached(g, p, b[i]) /\ c[i + 1] = Reached(g, p, c[i])
    <3>1. b[i + 1] = Reached(g, p, b[(i + 1) - 1]) /\ c[i + 1] = Reached(g, p, c[(i + 1) - 1])
      BY <1>1, <2>2 DEF BallSteps
    <3>2. QED
      BY <2>2, <3>1
  <2>4. QED
    BY <2>2, <2>3
<1>4. Nat \subseteq T
  <2>. HIDE DEF T
  <2>1. QED
    BY <1>2, <1>3, NaturalInduction
<1>5. QED
  BY <1>4

\* Such a function may be picked.
LEMMA WithinPicked ==
  ASSUME NEW g, NEW p, NEW n, NEW k \in Nat
  PROVE  \E ball : IsBall(g, p, n, k, ball) /\ Within(g, p, n, k) = ball[k]
<1>. DEFINE b == CHOOSE ball : IsBall(g, p, n, k, ball)
<1>1. IsBall(g, p, n, k, b)
  BY BallExists
<1>2. Within(g, p, n, k) = b[k]
  BY WithinDef
<1>. HIDE DEF b
<1>3. QED
  BY <1>1, <1>2

\* Nothing is within 0 hops but the node itself.
LEMMA WithinNone ==
  ASSUME NEW g, NEW p, NEW n
  PROVE  Within(g, p, n, 0) = {n}
<1>1. PICK b : IsBall(g, p, n, 0, b) /\ Within(g, p, n, 0) = b[0]
  BY WithinPicked
<1>2. BallSteps(g, p, n, 0, b)
  BY <1>1, BallAt
<1>3. QED
  BY <1>1, <1>2 DEF BallSteps

\* One hop more is one hop more.
LEMMA WithinNext ==
  ASSUME NEW g, NEW p, NEW n, NEW k \in Nat
  PROVE  Within(g, p, n, k + 1) = Reached(g, p, Within(g, p, n, k))
<1>. DEFINE m == k + 1
<1>1. m \in Nat /\ k <= m /\ k \in 0 .. k /\ m \in 1 .. m /\ m - 1 = k
  OBVIOUS
<1>. HIDE DEF m
<1>2. PICK b : IsBall(g, p, n, k, b) /\ Within(g, p, n, k) = b[k]
  BY WithinPicked
<1>3. PICK c : IsBall(g, p, n, m, c) /\ Within(g, p, n, m) = c[m]
  BY <1>1, WithinPicked
<1>4. \A i \in 0 .. k : c[i] = b[i]
  BY <1>1, <1>2, <1>3, BallsAgree
<1>5. BallSteps(g, p, n, m, c)
  BY <1>1, <1>3, BallAt
<1>6. c[m] = Reached(g, p, c[m - 1])
  BY <1>1, <1>5 DEF BallSteps
<1>7. c[m] = Reached(g, p, b[k])
  BY <1>1, <1>4, <1>6
<1>8. QED
  BY <1>2, <1>3, <1>7 DEF m

\* More hops reach more.
LEMMA WithinGrows ==
  ASSUME NEW g, NEW p, NEW n, NEW k \in Nat, NEW m \in Nat, k <= m
  PROVE  Within(g, p, n, k) \subseteq Within(g, p, n, m)
<1>. DEFINE T == {i \in Nat : Within(g, p, n, k) \subseteq Within(g, p, n, k + i)}
<1>1. 0 \in T
  OBVIOUS
<1>2. ASSUME NEW i \in Nat, i \in T PROVE i + 1 \in T
  <2>1. Within(g, p, n, (k + i) + 1) = Reached(g, p, Within(g, p, n, k + i))
    <3>. DEFINE j == k + i
    <3>1. j \in Nat
      OBVIOUS
    <3>. HIDE DEF T, j
    <3>2. Within(g, p, n, j + 1) = Reached(g, p, Within(g, p, n, j))
      BY <3>1, WithinNext
    <3>3. QED
      BY <3>2 DEF j
  <2>2. Within(g, p, n, k + i) \subseteq Within(g, p, n, (k + i) + 1)
    BY <2>1 DEF Reached
  <2>3. (k + i) + 1 = k + (i + 1)
    OBVIOUS
  <2>4. QED
    BY <1>2, <2>2, <2>3
<1>3. Nat \subseteq T
  <2>. HIDE DEF T
  <2>1. QED
    BY <1>1, <1>2, NaturalInduction
<1>4. m - k \in T /\ k + (m - k) = m
  BY <1>3
<1>5. QED
  BY <1>4

\* What is within k hops is first reached at some number of them.
LEMMA FirstReached ==
  ASSUME NEW g, NEW p, NEW n, NEW k \in Nat, NEW m \in Within(g, p, n, k), m # n
  PROVE  \E j \in 1 .. k : m \in Within(g, p, n, j) \ Within(g, p, n, j - 1)
<1>. DEFINE S == {j \in Nat : m \in Within(g, p, n, j)}
<1>1. S \in SUBSET Nat /\ S # {}
  OBVIOUS
<1>2. PICK j \in S : \A i \in S : j <= i
  <2>. HIDE DEF S
  <2>1. QED
    BY <1>1, LeastNatural
<1>3. j # 0
  BY WithinNone
<1>4. j - 1 \in Nat /\ j - 1 \notin S /\ j <= k
  BY <1>2, <1>3
<1>5. QED
  BY <1>2, <1>3, <1>4

-----------------------------------------------------------------------------
(* The recursive walk, layer by layer. *)

\* The hops that extend a row of the walk.
HopsOn(g, p, start, w) ==
  {h \in Hops(g, EndOf(start, w)) : h.to \in g.nodes /\ VisibilityHolds(g, p, h.to)}

\* What the recursive term makes of a layer.
LayerAfter(g, p, start, W) ==
  UNION {{Append(w, hop) : hop \in HopsOn(g, p, start, w)} : w \in {x \in W : ~ IsCycle(start, x)}}

IsWalk(g, p, start, k, walk) ==
  walk = [i \in 0 .. k |-> IF i = 0 THEN {<<>>} ELSE LayerAfter(g, p, start, walk[i - 1])]

\* (The definition, unfolded.)
LEMMA WalkDef ==
  ASSUME NEW g, NEW p, NEW start, NEW depth
  PROVE  Walk(g, p, start, depth) =
           {w \in UNION {(CHOOSE walk : IsWalk(g, p, start, depth, walk))[k] : k \in 1 .. depth} :
              ~ IsCycle(start, w)}
BY DEF Walk, IsWalk, LayerAfter, HopsOn

WalkSteps(g, p, start, k, walk) ==
  walk[0] = {<<>>} /\ \A i \in 1 .. k : walk[i] = LayerAfter(g, p, start, walk[i - 1])

\* There is such a function, and the walk returns its rows that are no cycles.
LEMMA WalkLayers ==
  ASSUME NEW g, NEW p, NEW start, NEW depth \in Nat
  PROVE  \E walk : /\ WalkSteps(g, p, start, depth, walk)
                   /\ Walk(g, p, start, depth) =
                        {w \in UNION {walk[k] : k \in 1 .. depth} : ~ IsCycle(start, w)}
<1>. DEFINE S == {m \in Nat : \E walk : IsWalk(g, p, start, m, walk)}
<1>1. ASSUME NEW m \in Nat, NEW b, IsWalk(g, p, start, m, b)
      PROVE  WalkSteps(g, p, start, m, b)
  <2>1. \A i \in 0 .. m : b[i] = IF i = 0 THEN {<<>>} ELSE LayerAfter(g, p, start, b[i - 1])
    BY <1>1 DEF IsWalk
  <2>2. QED
    BY <2>1 DEF WalkSteps
<1>2. 0 \in S
  <2>. DEFINE b == [i \in 0 .. 0 |-> {<<>>}]
  <2>1. IsWalk(g, p, start, 0, b)
    BY DEF IsWalk
  <2>2. QED
    BY <2>1
<1>3. ASSUME NEW m \in Nat, m \in S PROVE m + 1 \in S
  <2>1. PICK b : IsWalk(g, p, start, m, b)
    BY <1>3
  <2>. DEFINE c == [i \in 0 .. m + 1 |->
                      IF i = m + 1 THEN LayerAfter(g, p, start, b[m]) ELSE b[i]]
  <2>2. WalkSteps(g, p, start, m, b)
    BY <1>1, <2>1
  <2>3. ASSUME NEW i \in 0 .. m + 1
        PROVE  c[i] = IF i = 0 THEN {<<>>} ELSE LayerAfter(g, p, start, c[i - 1])
    <3>1. CASE i = m + 1
      BY <3>1
    <3>2. CASE i # m + 1
      <4>1. c[i] = b[i] /\ i \in 0 .. m
        BY <3>2
      <4>2. i # 0 => c[i - 1] = b[i - 1]
        BY <4>1
      <4>. HIDE DEF c
      <4>3. b[i] = IF i = 0 THEN {<<>>} ELSE LayerAfter(g, p, start, b[i - 1])
        <5>1. CASE i = 0
          BY <2>2, <5>1 DEF WalkSteps
        <5>2. CASE i # 0
          BY <2>2, <4>1, <5>2 DEF WalkSteps
        <5>3. QED
          BY <5>1, <5>2
      <4>4. QED
        BY <4>1, <4>2, <4>3
    <3>3. QED
      BY <3>1, <3>2
  <2>4. IsWalk(g, p, start, m + 1, c)
    BY <2>3 DEF IsWalk
  <2>5. QED
    <3>. HIDE DEF c
    <3>1. QED
      BY <2>4
<1>4. depth \in S
  <2>. HIDE DEF S
  <2>1. QED
    BY <1>2, <1>3, NaturalInduction
<1>. DEFINE walk == CHOOSE w : IsWalk(g, p, start, depth, w)
<1>5. IsWalk(g, p, start, depth, walk)
  BY <1>4
<1>6. Walk(g, p, start, depth) = {w \in UNION {walk[k] : k \in 1 .. depth} : ~ IsCycle(start, w)}
  BY WalkDef
<1>. HIDE DEF walk, S
<1>7. WalkSteps(g, p, start, depth, walk)
  BY <1>1, <1>5
<1>8. QED
  BY <1>6, <1>7

\* What a statement shows, the walk admits (cf. VisibilityAgrees).
LEMMA VisibleIsAdmitted ==
  ASSUME NEW g, NEW p, \A q \in p.grants.specific : q = <<q[1], q[2]>>,
         NEW n \in VisibleNodes(g, p)
  PROVE  VisibilityHolds(g, p, n)
<1>1. CASE p.superuser
  BY <1>1 DEF VisibilityHolds
<1>2. CASE ~ p.superuser
  <2>1. PICK d \in DocClause(p) : <<n, d>> \in g.mentions
    BY <1>2 DEF VisibleNodes
  <2>2. \/ \E s \in p.grants.wildcard : d \in {x \in Doc : DocSource[x] = s}
        \/ \E q \in p.grants.specific : d \in {x \in Doc : DocSource[x] = q[1] /\ DocResource[x] = q[2]}
    BY <1>2, <2>1 DEF DocClause
  <2>3. CASE \E s \in p.grants.wildcard : d \in {x \in Doc : DocSource[x] = s}
    BY <2>1, <2>3 DEF VisibilityHolds
  <2>4. CASE \E q \in p.grants.specific : d \in {x \in Doc : DocSource[x] = q[1] /\ DocResource[x] = q[2]}
    <3>1. PICK q \in p.grants.specific : d \in Doc /\ DocSource[d] = q[1] /\ DocResource[d] = q[2]
      BY <2>4
    <3>2. <<DocSource[d], DocResource[d]>> \in p.grants.specific
      BY <3>1
    <3>3. QED
      BY <2>1, <3>1, <3>2 DEF VisibilityHolds
  <2>5. QED
    BY <2>2, <2>3, <2>4
<1>3. QED
  BY <1>1, <1>2

-----------------------------------------------------------------------------
(* The walk is a breadth-first search. *)

\* A graph whose visible nodes the walk admits.
Searchable(g, p) == Linked(g) /\ \A n \in VisibleNodes(g, p) : VisibilityHolds(g, p, n)

From(start, w, i) == IF i = 1 THEN start ELSE w[i - 1].to

\* The i-th arrow of w goes along its edge, to a node that is seen.
ArrowOK(g, p, start, w, i) ==
  /\ w[i].edge \in g.edges
  /\ <<w[i].edge.src, w[i].edge.dst>> = IF w[i].dir = ">" THEN <<From(start, w, i), w[i].to>>
                                                          ELSE <<w[i].to, From(start, w, i)>>
  /\ w[i].to \in VisibleNodes(g, p)

\* A row of layer k.
Row(g, p, start, k, w) ==
  /\ w \in Seq(HopsSeen(g, p)) /\ Len(w) = k
  /\ \A i \in 1 .. k : ArrowOK(g, p, start, w, i)
  /\ NodesOf(start, w) \subseteq Within(g, p, start, k)

\* (A row ends at one of its nodes.)
LEMMA EndIsNode ==
  ASSUME NEW T, NEW start, NEW w \in Seq(T)
  PROVE  EndOf(start, w) \in NodesOf(start, w)
<1>1. CASE w = <<>>
  BY <1>1 DEF EndOf, NodesOf
<1>2. CASE w # <<>>
  <2>1. Len(w) \in DOMAIN w
    BY <1>2
  <2>2. QED
    BY <1>2, <2>1 DEF EndOf, NodesOf, Last
<1>3. QED
  BY <1>1, <1>2

\* v is w and the hop h.
Longer(start, w, h, v) ==
  /\ Len(v) = Len(w) + 1 /\ Len(w) \in Nat
  /\ v[Len(w) + 1] = h /\ \A i \in 1 .. Len(w) : v[i] = w[i]
  /\ EndOf(start, v) = h.to
  /\ NodesOf(start, v) = NodesOf(start, w) \cup {h.to}
  /\ \A i \in 1 .. Len(w) : From(start, v, i) = From(start, w, i)
  /\ From(start, v, Len(w) + 1) = EndOf(start, w)

\* What Append makes of a row.
LEMMA AppendedRow ==
  ASSUME NEW T, NEW start, NEW w \in Seq(T), NEW h \in T
  PROVE  Append(w, h) \in Seq(T) /\ Longer(start, w, h, Append(w, h))
<1>. DEFINE v == Append(w, h)
<1>1. /\ v \in Seq(T) /\ Len(v) = Len(w) + 1 /\ Len(w) \in Nat
      /\ v[Len(w) + 1] = h /\ \A i \in 1 .. Len(w) : v[i] = w[i]
  OBVIOUS
<1>. HIDE DEF v
<1>2. v # <<>> /\ DOMAIN v = 1 .. Len(w) + 1 /\ DOMAIN w = 1 .. Len(w)
  BY <1>1
<1>3. EndOf(start, v) = h.to
  BY <1>1, <1>2 DEF EndOf, Last
<1>4. NodesOf(start, v) = NodesOf(start, w) \cup {h.to}
  <2>1. {v[i].to : i \in DOMAIN v} = {w[i].to : i \in DOMAIN w} \cup {h.to}
    <3>1. ASSUME NEW n \in {v[i].to : i \in DOMAIN v}
          PROVE  n \in {w[i].to : i \in DOMAIN w} \cup {h.to}
      <4>1. PICK i \in DOMAIN v : n = v[i].to
        BY <3>1
      <4>2. CASE i = Len(w) + 1
        BY <1>1, <4>1, <4>2
      <4>3. CASE i # Len(w) + 1
        <5>1. i \in 1 .. Len(w)
          BY <1>1, <1>2, <4>1, <4>3
        <5>2. QED
          BY <1>1, <1>2, <4>1, <5>1
      <4>4. QED
        BY <4>2, <4>3
    <3>2. ASSUME NEW i \in DOMAIN w PROVE w[i].to \in {v[j].to : j \in DOMAIN v}
      <4>1. i \in DOMAIN v /\ v[i] = w[i]
        BY <1>1, <1>2
      <4>2. QED
        BY <4>1
    <3>3. h.to \in {v[j].to : j \in DOMAIN v}
      <4>1. Len(w) + 1 \in DOMAIN v
        BY <1>1, <1>2
      <4>2. QED
        BY <1>1, <4>1
    <3>4. QED
      BY <3>1, <3>2, <3>3
  <2>2. QED
    BY <2>1 DEF NodesOf
<1>5. \A i \in 1 .. Len(w) : From(start, v, i) = From(start, w, i)
  BY <1>1 DEF From
<1>6. From(start, v, Len(w) + 1) = EndOf(start, w)
  <2>1. CASE w = <<>>
    <3>1. Len(w) = 0
      BY <2>1
    <3>2. QED
      BY <2>1, <3>1 DEF From, EndOf
  <2>2. CASE w # <<>>
    <3>1. Len(w) \in 1 .. Len(w) /\ Len(w) + 1 # 1 /\ (Len(w) + 1) - 1 = Len(w)
      BY <1>1, <2>2
    <3>2. v[Len(w)] = w[Len(w)]
      BY <1>1, <3>1
    <3>3. QED
      BY <2>2, <3>1, <3>2 DEF From, EndOf, Last
  <2>3. QED
    BY <2>1, <2>2
<1>7. Longer(start, w, h, v)
  BY <1>1, <1>3, <1>4, <1>5, <1>6 DEF Longer
<1>8. QED
  BY <1>1, <1>7 DEF v

\* One hop more makes a row of the next layer.
LEMMA RowExtends ==
  ASSUME NEW g, NEW p, Searchable(g, p), NEW start, NEW k \in Nat, NEW w, Row(g, p, start, k, w),
         NEW h \in HopsOn(g, p, start, w)
  PROVE  /\ Row(g, p, start, k + 1, Append(w, h))
         /\ EndOf(start, Append(w, h)) = h.to
         /\ NodesOf(start, Append(w, h)) = NodesOf(start, w) \cup {h.to}
<1>. DEFINE H == HopsSeen(g, p)
            n == EndOf(start, w)
            v == Append(w, h)
<1>1. PICK e \in g.edges :
        /\ n \in {e.src, e.dst}
        /\ h = [edge |-> e, dir |-> IF e.src = n THEN ">" ELSE "<",
                to |-> IF e.src = n THEN e.dst ELSE e.src]
  BY DEF HopsOn, Hops
<1>2. h.to \in g.nodes /\ h.to \in VisibleNodes(g, p) /\ h.to \in Node
  BY VisibilityAgrees DEF HopsOn, Searchable, Linked
<1>3. h \in H
  BY <1>1, <1>2 DEF HopsSeen
<1>4. /\ w \in Seq(H) /\ Len(w) = k
      /\ \A i \in 1 .. k : ArrowOK(g, p, start, w, i)
      /\ NodesOf(start, w) \subseteq Within(g, p, start, k)
  BY DEF Row
<1>. HIDE DEF H
<1>5. n \in NodesOf(start, w)
  BY <1>4, EndIsNode
<1>6. /\ v \in Seq(H) /\ Len(v) = k + 1
      /\ v[k + 1] = h /\ \A i \in 1 .. k : v[i] = w[i]
      /\ EndOf(start, v) = h.to
      /\ NodesOf(start, v) = NodesOf(start, w) \cup {h.to}
      /\ \A i \in 1 .. k : From(start, v, i) = From(start, w, i)
      /\ From(start, v, k + 1) = n
  <2>1. v \in Seq(H) /\ Longer(start, w, h, v)
    BY <1>3, <1>4, AppendedRow
  <2>2. Len(w) = k
    BY <1>4
  <2>. HIDE DEF v
  <2>3. QED
    BY <2>1, <2>2 DEF Longer
<1>. HIDE DEF v, n
<1>7. ASSUME NEW i \in 1 .. k + 1 PROVE ArrowOK(g, p, start, v, i)
  <2>1. CASE i = k + 1
    <3>1. /\ h.edge = e /\ h.dir = (IF e.src = n THEN ">" ELSE "<")
          /\ h.to = (IF e.src = n THEN e.dst ELSE e.src)
      BY <1>1
    <3>2. <<e.src, e.dst>> = IF h.dir = ">" THEN <<n, h.to>> ELSE <<h.to, n>>
      BY <1>1, <3>1
    <3>3. QED
      BY <1>2, <1>6, <2>1, <3>1, <3>2 DEF ArrowOK
  <2>2. CASE i # k + 1
    <3>1. i \in 1 .. k
      BY <2>2
    <3>2. v[i] = w[i] /\ From(start, v, i) = From(start, w, i) /\ ArrowOK(g, p, start, w, i)
      BY <1>4, <1>6, <3>1
    <3>3. QED
      BY <3>2 DEF ArrowOK
  <2>3. QED
    BY <2>1, <2>2
<1>8. NodesOf(start, v) \subseteq Within(g, p, start, k + 1)
  <2>1. Within(g, p, start, k + 1) = Reached(g, p, Within(g, p, start, k))
    BY WithinNext
  <2>. DEFINE B == Within(g, p, start, k)
  <2>2. h.to \in {e.src, e.dst} /\ n \in {e.src, e.dst} /\ n \in B
    BY <1>1, <1>4, <1>5
  <2>. HIDE DEF B
  <2>3. {e.src, e.dst} \cap B # {}
    BY <2>2
  <2>4. h.to \in Reached(g, p, B)
    BY <1>1, <1>2, <2>2, <2>3 DEF Reached
  <2>5. B \subseteq Reached(g, p, B)
    BY DEF Reached
  <2>6. QED
    BY <1>4, <1>6, <2>1, <2>4, <2>5 DEF B
<1>9. Row(g, p, start, k + 1, v)
  BY <1>6, <1>7, <1>8 DEF Row, H
<1>10. QED
  BY <1>6, <1>9 DEF v

\* Every row of a layer is one.
LEMMA RowsOfWalk ==
  ASSUME NEW g, NEW p, Searchable(g, p), NEW start, NEW depth \in Nat,
         NEW walk, WalkSteps(g, p, start, depth, walk)
  PROVE  \A k \in 0 .. depth : \A w \in walk[k] : Row(g, p, start, k, w)
<1>. DEFINE T == {k \in Nat : k <= depth => \A w \in walk[k] : Row(g, p, start, k, w)}
<1>1. 0 \in T
  <2>1. walk[0] = {<<>>}
    BY DEF WalkSteps
  <2>2. <<>> \in Seq(HopsSeen(g, p)) /\ Len(<<>>) = 0
    OBVIOUS
  <2>3. NodesOf(start, <<>>) = {start}
    BY DEF NodesOf
  <2>4. Within(g, p, start, 0) = {start}
    BY WithinNone
  <2>5. Row(g, p, start, 0, <<>>)
    BY <2>2, <2>3, <2>4 DEF Row
  <2>6. QED
    BY <2>1, <2>5
<1>2. ASSUME NEW k \in Nat, k \in T PROVE k + 1 \in T
  <2>1. SUFFICES ASSUME k + 1 <= depth, NEW v \in walk[k + 1] PROVE Row(g, p, start, k + 1, v)
    OBVIOUS
  <2>2. walk[k + 1] = LayerAfter(g, p, start, walk[k])
    <3>1. k + 1 \in 1 .. depth /\ (k + 1) - 1 = k
      BY <2>1
    <3>2. walk[k + 1] = LayerAfter(g, p, start, walk[(k + 1) - 1])
      BY <3>1 DEF WalkSteps
    <3>3. QED
      BY <3>1, <3>2
  <2>3. PICK w \in walk[k] : \E h \in HopsOn(g, p, start, w) : v = Append(w, h)
    BY <2>1, <2>2 DEF LayerAfter
  <2>4. PICK h \in HopsOn(g, p, start, w) : v = Append(w, h)
    BY <2>3
  <2>5. Row(g, p, start, k, w)
    BY <1>2, <2>1
  <2>6. QED
    BY <2>4, <2>5, RowExtends
<1>3. Nat \subseteq T
  <2>. HIDE DEF T
  <2>1. QED
    BY <1>1, <1>2, NaturalInduction
<1>4. QED
  BY <1>3

\* (The nodes of a row are finitely many.)
LEMMA NodesOfFinite ==
  ASSUME NEW g, NEW p, NEW start, NEW k, NEW w, Row(g, p, start, k, w)
  PROVE  IsFiniteSet(NodesOf(start, w))
<1>1. {w[i].to : i \in DOMAIN w} \subseteq Node
  <2>. DEFINE H == HopsSeen(g, p)
  <2>1. \A h \in H : h.to \in Node
    BY DEF HopsSeen
  <2>. HIDE DEF H
  <2>2. w \in Seq(H)
    BY DEF Row, H
  <2>3. QED
    BY <2>1, <2>2
<1>2. IsFiniteSet({w[i].to : i \in DOMAIN w})
  BY <1>1, NodesAssumption, FS_Subset
<1>3. IsFiniteSet({start}) /\ NodesOf(start, w) = {start} \cup {w[i].to : i \in DOMAIN w}
  BY FS_Singleton DEF NodesOf
<1>4. QED
  BY <1>2, <1>3, FS_Union

\* A walk to `end` of k hops, without a cycle.
Straight(start, w, end) == EndOf(start, w) = end /\ ~ IsCycle(start, w)

\* A straight row goes on straight to a node it has not been at.
LEMMA StraightOn ==
  ASSUME NEW g, NEW p, Searchable(g, p), NEW start, NEW k \in Nat, NEW w, Row(g, p, start, k, w),
         ~ IsCycle(start, w), NEW h \in HopsOn(g, p, start, w), h.to \notin NodesOf(start, w)
  PROVE  Straight(start, Append(w, h), h.to)
<1>. DEFINE v == Append(w, h)
<1>1. Row(g, p, start, k + 1, v) /\ EndOf(start, v) = h.to
      /\ NodesOf(start, v) = NodesOf(start, w) \cup {h.to}
  BY RowExtends
<1>. HIDE DEF v
<1>2. Len(w) = k /\ Len(v) = k + 1
  BY <1>1 DEF Row
<1>3. Cardinality(NodesOf(start, w)) = k + 1
  BY <1>2 DEF IsCycle
<1>4. Cardinality(NodesOf(start, v)) = Cardinality(NodesOf(start, w)) + 1
  <2>1. IsFiniteSet(NodesOf(start, w))
    BY NodesOfFinite
  <2>2. QED
    BY <1>1, <2>1, FS_AddElement
<1>5. ~ IsCycle(start, v)
  BY <1>2, <1>3, <1>4 DEF IsCycle
<1>6. QED
  BY <1>1, <1>5 DEF Straight, v

\* Each node is reached by the layer of its distance.
LEMMA WalkReaches ==
  ASSUME NEW g, NEW p, Searchable(g, p), NEW start, NEW depth \in Nat,
         NEW walk, WalkSteps(g, p, start, depth, walk)
  PROVE  \A k \in 0 .. depth : \A n \in Within(g, p, start, k) :
           \/ k # 0 /\ n \in Within(g, p, start, k - 1)
           \/ \E w \in walk[k] : Straight(start, w, n)
<1>. DEFINE Ball(k) == Within(g, p, start, k)
            Reaches(k) == \A n \in Ball(k) : \/ k # 0 /\ n \in Ball(k - 1)
                                             \/ \E w \in walk[k] : Straight(start, w, n)
            T == {k \in Nat : k <= depth => Reaches(k)}
<1>1. \A k \in 0 .. depth : \A w \in walk[k] : Row(g, p, start, k, w)
  BY RowsOfWalk
<1>2. 0 \in T
  <2>1. walk[0] = {<<>>} /\ Ball(0) = {start}
    BY WithinNone DEF WalkSteps
  <2>2. Straight(start, <<>>, start)
    <3>1. NodesOf(start, <<>>) = {start} /\ Cardinality({start}) = 1
      BY FS_Singleton DEF NodesOf
    <3>2. QED
      <4>1. Len(<<>>) = 0 /\ EndOf(start, <<>>) = start
        BY DEF EndOf
      <4>2. Len(<<>>) + 1 = 1
        BY <4>1
      <4>3. ~ IsCycle(start, <<>>)
        BY <3>1, <4>2 DEF IsCycle
      <4>4. QED
        BY <4>1, <4>3 DEF Straight
  <2>3. QED
    BY <2>1, <2>2
<1>3. ASSUME NEW k \in Nat, k \in T PROVE k + 1 \in T
  <2>1. SUFFICES ASSUME k + 1 <= depth, NEW n \in Ball(k + 1), n \notin Ball(k)
                 PROVE  \E w \in walk[k + 1] : Straight(start, w, n)
    <3>1. (k + 1) - 1 = k /\ k + 1 \in Nat
      OBVIOUS
    <3>. HIDE DEF Ball
    <3>2. QED
      BY <3>1
  <2>2. walk[k + 1] = LayerAfter(g, p, start, walk[k])
    <3>1. k + 1 \in 1 .. depth /\ (k + 1) - 1 = k
      BY <2>1
    <3>2. walk[k + 1] = LayerAfter(g, p, start, walk[(k + 1) - 1])
      BY <3>1 DEF WalkSteps
    <3>3. QED
      BY <3>1, <3>2
  <2>3. Within(g, p, start, k + 1) = Reached(g, p, Within(g, p, start, k))
    BY WithinNext
  <2>4. PICK e \in g.edges :
          /\ n \in VisibleNodes(g, p) \cap g.nodes
          /\ n \in {e.src, e.dst} /\ {e.src, e.dst} \cap Ball(k) # {}
    BY <2>1, <2>3 DEF Reached
  <2>. HIDE DEF Ball
  <2>5. PICK x \in Ball(k) : x \in {e.src, e.dst}
    BY <2>4
  <2>6. x # n /\ {e.src, e.dst} = {x, n}
    BY <2>1, <2>4, <2>5
  <2>7. k # 0 => x \notin Ball(k - 1)
    <3>1. SUFFICES ASSUME k # 0, x \in Ball(k - 1) PROVE FALSE
      OBVIOUS
    <3>2. k - 1 \in Nat /\ (k - 1) + 1 = k
      BY <3>1
    <3>3. Ball(k) = Reached(g, p, Ball(k - 1))
      <4>. DEFINE j == k - 1
      <4>1. j \in Nat /\ j + 1 = k
        BY <3>2
      <4>. HIDE DEF j
      <4>2. Within(g, p, start, j + 1) = Reached(g, p, Within(g, p, start, j))
        BY <4>1, WithinNext
      <4>3. QED
        BY <4>1, <4>2 DEF Ball, j
    <3>4. n \in Reached(g, p, Ball(k - 1))
      BY <2>4, <2>5, <3>1 DEF Reached
    <3>5. QED
      BY <2>1, <3>3, <3>4
  <2>8. PICK w \in walk[k] : Straight(start, w, x)
    BY <1>3, <2>1, <2>7
  <2>9. Row(g, p, start, k, w) /\ EndOf(start, w) = x /\ ~ IsCycle(start, w)
    BY <1>1, <2>1, <2>8 DEF Straight
  <2>. DEFINE h == [edge |-> e, dir |-> IF e.src = x THEN ">" ELSE "<",
                    to |-> IF e.src = x THEN e.dst ELSE e.src]
  <2>10. h.to = n
    BY <2>6
  <2>11. h \in HopsOn(g, p, start, w)
    <3>1. h \in Hops(g, x)
      BY <2>5 DEF Hops
    <3>2. n \in g.nodes /\ VisibilityHolds(g, p, n)
      BY <2>4 DEF Searchable
    <3>. HIDE DEF h
    <3>3. QED
      BY <2>9, <2>10, <3>1, <3>2 DEF HopsOn
  <2>. HIDE DEF h
  <2>12. h.to \notin NodesOf(start, w)
    BY <2>1, <2>9, <2>10 DEF Row, Ball
  <2>13. Straight(start, Append(w, h), n)
    BY <2>9, <2>10, <2>11, <2>12, StraightOn
  <2>14. Append(w, h) \in walk[k + 1]
    BY <2>2, <2>8, <2>9, <2>11 DEF LayerAfter
  <2>15. QED
    BY <2>13, <2>14
<1>4. Nat \subseteq T
  <2>. HIDE DEF T
  <2>1. QED
    BY <1>2, <1>3, NaturalInduction
<1>5. QED
  BY <1>4

\* PathsTo has a path within so many hops exactly for what lies within them.
Searched(g, p, start, target, depth) ==
  /\ \A path \in PathsTo(g, p, start, target, depth) :
       /\ Len(path) \in 1 .. depth /\ Row(g, p, start, Len(path), path)
       /\ target \in Within(g, p, start, Len(path))
  /\ \A j \in 1 .. depth : target \in Within(g, p, start, j) =>
       \E path \in PathsTo(g, p, start, target, depth) : Len(path) <= j

LEMMA PathsSearched ==
  ASSUME NEW g, NEW p, Searchable(g, p), NEW start, NEW target, target # start,
         NEW depth \in 1 .. DepthCap
  PROVE  Searched(g, p, start, target, depth)
<1>1. depth \in Nat /\ Clamped(depth) = depth
  BY DepthCapIsPositive DEF Clamped
<1>2. PICK walk : /\ WalkSteps(g, p, start, depth, walk)
                  /\ Walk(g, p, start, depth) =
                       {w \in UNION {walk[k] : k \in 1 .. depth} : ~ IsCycle(start, w)}
  BY <1>1, WalkLayers
<1>3. PathsTo(g, p, start, target, depth) =
        {w \in UNION {walk[k] : k \in 1 .. depth} : Straight(start, w, target)}
  BY <1>1, <1>2 DEF PathsTo, Straight
<1>4. ASSUME NEW path \in PathsTo(g, p, start, target, depth)
      PROVE  /\ Len(path) \in 1 .. depth /\ Row(g, p, start, Len(path), path)
             /\ target \in Within(g, p, start, Len(path))
  <2>1. PICK k \in 1 .. depth : path \in walk[k]
    BY <1>3
  <2>2. EndOf(start, path) = target
    BY <1>3 DEF Straight
  <2>3. k \in 0 .. depth
    BY <1>1
  <2>4. Row(g, p, start, k, path)
    BY <1>1, <1>2, <2>1, <2>3, RowsOfWalk
  <2>5. Len(path) = k /\ EndOf(start, path) \in NodesOf(start, path)
        /\ NodesOf(start, path) \subseteq Within(g, p, start, k)
    BY <2>4, EndIsNode DEF Row
  <2>6. QED
    BY <2>2, <2>4, <2>5
<1>5. ASSUME NEW j \in 1 .. depth, target \in Within(g, p, start, j)
      PROVE  \E path \in PathsTo(g, p, start, target, depth) : Len(path) <= j
  <2>1. j \in Nat
    OBVIOUS
  <2>2. PICK i \in 1 .. j : target \in Within(g, p, start, i) \ Within(g, p, start, i - 1)
    BY <1>5, <2>1, FirstReached
  <2>3. i \in 0 .. depth /\ i \in 1 .. depth /\ i # 0
    BY <1>1
  <2>4. PICK w \in walk[i] : Straight(start, w, target)
    BY <1>1, <1>2, <2>2, <2>3, WalkReaches
  <2>5. w \in PathsTo(g, p, start, target, depth)
    BY <1>3, <2>3, <2>4
  <2>6. Row(g, p, start, i, w)
    BY <1>1, <1>2, <2>3, RowsOfWalk
  <2>7. Len(w) = i
    BY <2>6 DEF Row
  <2>8. QED
    BY <2>5, <2>7
<1>6. QED
  BY <1>4, <1>5 DEF Searched

\* Among paths there is a nearest one.
LEMMA NearestFound ==
  ASSUME NEW S, S # {}, \A path \in S : Len(path) \in Nat
  PROVE  Nearest(S) # {}
<1>. DEFINE L == {Len(path) : path \in S}
<1>1. L \in SUBSET Nat /\ L # {}
  OBVIOUS
<1>2. PICK l \in L : \A m \in L : l <= m
  <2>. HIDE DEF L
  <2>1. QED
    BY <1>1, LeastNatural
<1>3. PICK path \in S : l = Len(path)
  OBVIOUS
<1>4. \A other \in S : Len(path) <= Len(other)
  BY <1>2, <1>3
<1>5. QED
  BY <1>3, <1>4 DEF Nearest

\* A nearest path has as many hops as are needed.
LEMMA NearestIsNear ==
  ASSUME NEW g, NEW p, Searchable(g, p), NEW start, NEW target, target # start,
         NEW depth \in 1 .. DepthCap, NEW path \in Nearest(PathsTo(g, p, start, target, depth))
  PROVE  /\ Len(path) \in 1 .. depth /\ Row(g, p, start, Len(path), path)
         /\ \A k \in 0 .. depth : target \in Within(g, p, start, k) <=> Len(path) <= k
<1>1. Searched(g, p, start, target, depth)
  BY PathsSearched
<1>2. path \in PathsTo(g, p, start, target, depth)
      /\ \A other \in PathsTo(g, p, start, target, depth) : Len(path) <= Len(other)
  BY DEF Nearest
<1>3. Len(path) \in 1 .. depth /\ Row(g, p, start, Len(path), path)
      /\ target \in Within(g, p, start, Len(path))
  BY <1>1, <1>2 DEF Searched
<1>4. ASSUME NEW k \in 0 .. depth, target \in Within(g, p, start, k) PROVE Len(path) <= k
  <2>1. k # 0
    BY <1>4, WithinNone
  <2>2. PICK other \in PathsTo(g, p, start, target, depth) : Len(other) <= k
    BY <1>1, <1>4, <2>1 DEF Searched
  <2>3. Len(path) <= Len(other) /\ Len(other) \in 1 .. depth
    BY <1>1, <1>2 DEF Searched
  <2>4. QED
    BY <1>3, <2>2, <2>3
<1>5. ASSUME NEW k \in 0 .. depth, Len(path) <= k PROVE target \in Within(g, p, start, k)
  <2>1. Len(path) \in Nat /\ k \in Nat
    BY <1>3
  <2>2. Within(g, p, start, Len(path)) \subseteq Within(g, p, start, k)
    BY <1>5, <2>1, WithinGrows
  <2>3. QED
    BY <1>3, <2>2
<1>6. QED
  BY <1>3, <1>4, <1>5

\* There is a path within the depth exactly to what lies within it.
LEMMA FoundWithin ==
  ASSUME NEW g, NEW p, Searchable(g, p), NEW start, NEW target, target # start,
         NEW depth \in 1 .. DepthCap
  PROVE  /\ PathsTo(g, p, start, target, depth) # {} <=> target \in Within(g, p, start, depth)
         /\ Nearest(PathsTo(g, p, start, target, depth)) # {}
              <=> PathsTo(g, p, start, target, depth) # {}
<1>. DEFINE P == PathsTo(g, p, start, target, depth)
<1>1. Searched(g, p, start, target, depth)
  BY PathsSearched
<1>2. \A path \in P : Len(path) \in 1 .. depth /\ target \in Within(g, p, start, Len(path))
  BY <1>1 DEF Searched
<1>3. ASSUME P # {} PROVE target \in Within(g, p, start, depth)
  <2>1. PICK path \in P : TRUE
    BY <1>3
  <2>2. Len(path) \in Nat /\ depth \in Nat /\ Len(path) <= depth /\ target \in Within(g, p, start, Len(path))
    BY <1>2
  <2>3. Within(g, p, start, Len(path)) \subseteq Within(g, p, start, depth)
    BY <2>2, WithinGrows
  <2>4. QED
    BY <2>2, <2>3
<1>4. ASSUME target \in Within(g, p, start, depth) PROVE P # {}
  <2>1. depth \in 1 .. depth
    OBVIOUS
  <2>2. QED
    BY <1>1, <1>4, <2>1 DEF Searched
<1>. HIDE DEF P
<1>5. P # {} => Nearest(P) # {}
  <2>1. \A path \in P : Len(path) \in Nat
    BY <1>2
  <2>2. QED
    BY <2>1, NearestFound
<1>6. Nearest(P) \subseteq P
  BY DEF Nearest
<1>7. QED
  BY <1>3, <1>4, <1>5, <1>6 DEF P

\* Rows cut at the limit lack one only if there are as many as that.
LEMMA LimitReached ==
  ASSUME NEW rows, IsFiniteSet(rows), NEW limit \in Nat, NEW S \in LimitedTo(rows, limit), S # rows
  PROVE  Cardinality(S) = limit
<1>1. S \in SUBSET rows
      /\ Cardinality(S) = IF Cardinality(rows) < limit THEN Cardinality(rows) ELSE limit
  BY DEF LimitedTo, kSubset
<1>2. Cardinality(S) # Cardinality(rows)
  BY <1>1, FS_Subset
<1>3. QED
  BY <1>1, <1>2

\* The distance by which traverse orders its targets.
FarOf(g, p, start, n, depth) ==
  Len(CHOOSE path \in Nearest(PathsTo(g, p, start, n, depth)) : TRUE)

LEMMA FarIsDistance ==
  ASSUME NEW g, NEW p, Searchable(g, p), NEW start, NEW n, n # start, NEW depth \in 1 .. DepthCap,
         PathsTo(g, p, start, n, depth) # {}
  PROVE  /\ FarOf(g, p, start, n, depth) \in Nat
         /\ \A k \in 0 .. depth : n \in Within(g, p, start, k) <=> FarOf(g, p, start, n, depth) <= k
<1>. DEFINE N == Nearest(PathsTo(g, p, start, n, depth))
            path == CHOOSE w \in N : TRUE
<1>1. N # {}
  BY FoundWithin
<1>2. path \in N
  <2>. HIDE DEF N
  <2>1. QED
    BY <1>1
<1>3. FarOf(g, p, start, n, depth) = Len(path)
  BY DEF FarOf
<1>. HIDE DEF path
<1>4. /\ Len(path) \in 1 .. depth
      /\ \A k \in 0 .. depth : n \in Within(g, p, start, k) <=> Len(path) <= k
  BY <1>2, NearestIsNear
<1>5. QED
  BY <1>3, <1>4

\* What traverse leaves out is no nearer than what it reports.
LEMMA TraverseNearest ==
  ASSUME NEW g, NEW p, Searchable(g, p), NEW start, NEW t, t # start, NEW depth \in 1 .. DepthCap,
         NEW limit \in Nat, NEW found \in Traverse(g, p, start, NodeType[t], depth, limit),
         t \in Within(g, p, start, depth), t \notin found
  PROVE  /\ Cardinality(found) = limit
         /\ \A k \in 1 .. depth : t \in Within(g, p, start, k) => found \subseteq Within(g, p, start, k)
<1>. DEFINE targets == {n \in g.nodes : NodeType[n] = NodeType[t]
                                       /\ PathsTo(g, p, start, n, depth) # {}}
            Far(n) == FarOf(g, p, start, n, depth)
<1>1. found \in LimitedTo(targets, limit) /\ \A n \in found, m \in targets \ found : Far(n) <= Far(m)
  BY DEF Traverse, FarOf
<1>2. PathsTo(g, p, start, t, depth) # {}
  BY FoundWithin
<1>3. t \in targets
  <2>1. depth \in Nat
    OBVIOUS
  <2>2. PICK j \in 1 .. depth : t \in Within(g, p, start, j) \ Within(g, p, start, j - 1)
    BY <2>1, FirstReached
  <2>. DEFINE i == j - 1
  <2>3. i \in Nat /\ i + 1 = j
    OBVIOUS
  <2>. HIDE DEF i
  <2>4. Within(g, p, start, i + 1) = Reached(g, p, Within(g, p, start, i))
    BY <2>3, WithinNext
  <2>5. t \in Reached(g, p, Within(g, p, start, i)) /\ t \notin Within(g, p, start, i)
    BY <2>2, <2>3, <2>4 DEF i
  <2>6. t \in g.nodes
    BY <2>5 DEF Reached
  <2>7. QED
    BY <1>2, <2>6
<1>4. IsFiniteSet(targets)
  <2>1. targets \subseteq Node
    BY DEF Searchable, Linked
  <2>. HIDE DEF targets
  <2>2. QED
    BY <2>1, NodesAssumption, FS_Subset
<1>5. found \subseteq targets
  <2>. HIDE DEF targets
  <2>1. QED
    BY <1>1, LimitKeeps
<1>6. Cardinality(found) = limit
  <2>. HIDE DEF targets
  <2>1. QED
    BY <1>1, <1>3, <1>4, LimitReached
<1>7. ASSUME NEW k \in 1 .. depth, t \in Within(g, p, start, k), NEW n \in found
      PROVE  n \in Within(g, p, start, k)
  <2>1. k \in Nat /\ 0 <= k /\ k \in 0 .. depth
    OBVIOUS
  <2>2. CASE n = start
    <3>1. Within(g, p, start, 0) \subseteq Within(g, p, start, k)
      BY <2>1, WithinGrows
    <3>2. QED
      BY <2>2, <3>1, WithinNone
  <2>3. CASE n # start
    <3>1. PathsTo(g, p, start, n, depth) # {}
      BY <1>5
    <3>2. Far(n) \in Nat /\ (n \in Within(g, p, start, k) <=> Far(n) <= k)
      BY <2>1, <2>3, <3>1, FarIsDistance
    <3>3. Far(t) \in Nat /\ (t \in Within(g, p, start, k) <=> Far(t) <= k)
      BY <1>2, <2>1, FarIsDistance
    <3>4. Far(n) <= Far(t)
      BY <1>1, <1>3
    <3>. HIDE DEF Far
    <3>5. QED
      BY <1>7, <2>1, <3>2, <3>3, <3>4
  <2>4. QED
    BY <2>2, <2>3
<1>8. QED
  BY <1>6, <1>7

\* The walk admits what a principal of this system sees.
LEMMA PrincipalsSearch ==
  ASSUME NEW g, Linked(g), NEW p \in AsPrincipals
  PROVE  Searchable(g, p)
<1>1. \A q \in p.grants.specific : q = <<q[1], q[2]>>
  <2>1. PICK s \in Subject : p = Resolve(s)
    BY DEF AsPrincipals
  <2>2. CASE p = Anonymous
    BY <2>2 DEF Anonymous
  <2>3. CASE p = Scoped(policy, GroupsOf[s])
    BY <2>3 DEF Scoped, GrantsForGroups
  <2>4. QED
    BY <2>1, <2>2, <2>3 DEF Resolve
<1>2. QED
  BY <1>1, VisibleIsAdmitted DEF Searchable

\* Whatever the graph and the grants, find_path finds a path exactly when there is one within the
\* depth, of the fewest hops, along edges and over nodes that are seen, and traverse reports the
\* nearest targets: stopping the recursive walk at cycles and cutting it by depth loses nothing.
THEOREM WalksAreShortest == Spec => []PathsAreShortest
<1>1. AnswerInv => PathsAreShortest
  <2>. SUFFICES ASSUME AnswerInv PROVE PathsAreShortest
    OBVIOUS
  <2>1. ASSUME NEW p \in AsPrincipals, NEW s \in Args, NEW t \in Node, NEW depth \in 1 .. DepthCap,
               s # t
        PROVE  LET paths == FindPath(Graph, p, s, t, depth)
                   Ball(k) == Within(Graph, p, s, k)
               IN  /\ paths # {} <=> t \in Ball(depth)
                   /\ \A path \in paths :
                       /\ t \in Ball(Len(path)) \ Ball(Len(path) - 1)
                       /\ \A i \in DOMAIN path :
                           LET from == IF i = 1 THEN s ELSE path[i - 1].to
                               e    == path[i].edge
                           IN  /\ e \in Graph.edges
                               /\ <<e.src, e.dst>> = IF path[i].dir = ">" THEN <<from, path[i].to>>
                                                                          ELSE <<path[i].to, from>>
                               /\ path[i].to \in VisibleNodes(Graph, p)
                   /\ \A found \in Traverse(Graph, p, s, NodeType[t], depth, Limit) :
                       \/ t \in found
                       \/ t \notin Ball(depth)
                       \/ /\ Cardinality(found) = Limit
                          /\ \A k \in 1 .. depth : t \in Ball(k) => found \subseteq Ball(k)
    <3>. DEFINE paths == FindPath(Graph, p, s, t, depth)
                Ball(k) == Within(Graph, p, s, k)
    <3>1. Searchable(Graph, p)
      BY GraphIs, PrincipalsSearch
    <3>2. paths # {} <=> t \in Ball(depth)
      BY <2>1, <3>1, FoundWithin DEF FindPath
    <3>3. ASSUME NEW path \in paths
          PROVE  /\ t \in Ball(Len(path)) \ Ball(Len(path) - 1)
                 /\ \A i \in DOMAIN path : ArrowOK(Graph, p, s, path, i)
      <4>1. /\ Len(path) \in 1 .. depth /\ Row(Graph, p, s, Len(path), path)
            /\ \A k \in 0 .. depth : t \in Within(Graph, p, s, k) <=> Len(path) <= k
        BY <2>1, <3>1, NearestIsNear DEF FindPath
      <4>2. DOMAIN path = 1 .. Len(path) /\ \A i \in 1 .. Len(path) : ArrowOK(Graph, p, s, path, i)
        BY <4>1 DEF Row
      <4>3. Len(path) \in 0 .. depth /\ Len(path) - 1 \in 0 .. depth
            /\ ~ (Len(path) <= Len(path) - 1)
        BY <4>1
      <4>4. QED
        BY <4>1, <4>2, <4>3
    <3>4. ASSUME NEW found \in Traverse(Graph, p, s, NodeType[t], depth, Limit),
                 t \notin found, t \in Ball(depth)
          PROVE  /\ Cardinality(found) = Limit
                 /\ \A k \in 1 .. depth : t \in Ball(k) => found \subseteq Ball(k)
      BY <2>1, <3>1, <3>4, BoundsAssumption, TraverseNearest
    <3>5. QED
      BY <3>2, <3>3, <3>4 DEF ArrowOK, From
  <2>2. QED
    BY <2>1 DEF PathsAreShortest
<1>2. QED
  BY <1>1, AnswerInvariant, PTL

-----------------------------------------------------------------------------
(* The rankings that hybrid_search fuses list a node once. *)

\* s has, each once, rows among the first k of the ranking.
KeptOnce(ranking, rows, k, s) ==
  /\ s \in Seq(rows) /\ IsInjective(s)
  /\ \A j \in DOMAIN s : \E i \in 1 .. k : s[j] = ranking[i]

LEMMA OrderedOnce ==
  ASSUME NEW ranking, Len(ranking) \in Nat, DOMAIN ranking = 1 .. Len(ranking),
         IsInjective(ranking), NEW rows
  PROVE  Ordered(ranking, rows) \in Seq(rows) /\ IsInjective(Ordered(ranking, rows))
<1>. DEFINE N == Len(ranking)
<1>1. PICK kept : KeptSteps(ranking, rows, kept) /\ Ordered(ranking, rows) = kept[N]
  BY OrderedSteps
<1>. DEFINE T == {k \in Nat : k <= N => KeptOnce(ranking, rows, k, kept[k])}
<1>2. 0 \in T
  <2>1. kept[0] = <<>> /\ <<>> \in Seq(rows) /\ DOMAIN <<>> = {}
    BY <1>1 DEF KeptSteps
  <2>2. KeptOnce(ranking, rows, 0, <<>>)
    BY <2>1 DEF KeptOnce, IsInjective
  <2>3. QED
    BY <2>1, <2>2
<1>3. ASSUME NEW k \in Nat, k \in T PROVE k + 1 \in T
  <2>1. SUFFICES ASSUME k + 1 <= N PROVE KeptOnce(ranking, rows, k + 1, kept[k + 1])
    OBVIOUS
  <2>2. KeptOnce(ranking, rows, k, kept[k]) /\ k + 1 \in 1 .. N /\ (k + 1) - 1 = k
    BY <1>3, <2>1
  <2>3. kept[k + 1] = KeptNext(ranking, rows, k + 1, kept[k])
    BY <1>1, <2>2 DEF KeptSteps
  <2>. DEFINE s == kept[k]
              r == ranking[k + 1]
  <2>4. /\ s \in Seq(rows) /\ IsInjective(s)
        /\ \A j \in DOMAIN s : \E i \in 1 .. k : s[j] = ranking[i]
    BY <2>2 DEF KeptOnce
  <2>5. \A i \in 1 .. k : ranking[i] # r
    BY <2>2 DEF IsInjective
  <2>. HIDE DEF s, r, T
  <2>6. \A j \in DOMAIN s : s[j] # r
    BY <2>4, <2>5
  <2>7. CASE r \in rows
    <3>. DEFINE v == Append(s, r)
    <3>1. /\ v \in Seq(rows) /\ Len(s) \in Nat /\ DOMAIN s = 1 .. Len(s)
          /\ DOMAIN v = 1 .. Len(s) + 1 /\ v[Len(s) + 1] = r /\ \A j \in 1 .. Len(s) : v[j] = s[j]
      BY <2>4, <2>7
    <3>2. kept[k + 1] = v
      BY <2>3, <2>7 DEF KeptNext, s, r
    <3>. HIDE DEF v
    <3>3. IsInjective(v)
      <4>1. SUFFICES ASSUME NEW a \in 1 .. Len(s) + 1, NEW b \in 1 .. Len(s) + 1, v[a] = v[b]
                     PROVE  a = b
        BY <3>1 DEF IsInjective
      <4>2. CASE a # Len(s) + 1 /\ b # Len(s) + 1
        <5>1. a \in 1 .. Len(s) /\ b \in 1 .. Len(s)
          BY <3>1, <4>2
        <5>2. QED
          BY <2>4, <3>1, <4>1, <5>1 DEF IsInjective
      <4>3. CASE a = Len(s) + 1 /\ b # Len(s) + 1
        <5>1. b \in 1 .. Len(s)
          BY <3>1, <4>3
        <5>2. QED
          BY <2>6, <3>1, <4>1, <4>3, <5>1
      <4>4. CASE b = Len(s) + 1 /\ a # Len(s) + 1
        <5>1. a \in 1 .. Len(s)
          BY <3>1, <4>4
        <5>2. QED
          BY <2>6, <3>1, <4>1, <4>4, <5>1
      <4>5. QED
        BY <4>2, <4>3, <4>4
    <3>4. ASSUME NEW j \in DOMAIN v PROVE \E i \in 1 .. k + 1 : v[j] = ranking[i]
      <4>1. CASE j = Len(s) + 1
        BY <3>1, <4>1 DEF r
      <4>2. CASE j # Len(s) + 1
        <5>1. j \in DOMAIN s /\ v[j] = s[j]
          BY <3>1, <3>4, <4>2
        <5>2. PICK i \in 1 .. k : s[j] = ranking[i]
          BY <2>4, <5>1
        <5>3. QED
          BY <5>1, <5>2
      <4>3. QED
        BY <4>1, <4>2
    <3>5. KeptOnce(ranking, rows, k + 1, v)
      BY <3>1, <3>3, <3>4 DEF KeptOnce
    <3>6. QED
      BY <3>2, <3>5
  <2>8. CASE r \notin rows
    <3>1. kept[k + 1] = s
      BY <2>3, <2>8 DEF KeptNext, s, r
    <3>2. ASSUME NEW j \in DOMAIN s PROVE \E i \in 1 .. k + 1 : s[j] = ranking[i]
      <4>1. PICK i \in 1 .. k : s[j] = ranking[i]
        BY <2>4
      <4>2. QED
        BY <4>1
    <3>3. KeptOnce(ranking, rows, k + 1, s)
      BY <2>4, <3>2 DEF KeptOnce
    <3>4. QED
      BY <3>1, <3>3
  <2>9. QED
    BY <2>7, <2>8
<1>4. Nat \subseteq T
  <2>. HIDE DEF T
  <2>1. QED
    BY <1>2, <1>3, NaturalInduction
<1>5. QED
  BY <1>1, <1>4 DEF KeptOnce

\* A leg: a list of nodes, each once, and no more than the limit.
Leg(leg, limit) ==
  leg \in Seq(Node) /\ IsInjective(leg) /\ Len(leg) <= limit

LEMMA CutIsLeg ==
  ASSUME NEW s \in Seq(Node), IsInjective(s), NEW limit \in Nat
  PROVE  Leg(Head1(s, limit), limit)
<1>. DEFINE n == IF Len(s) < limit THEN Len(s) ELSE limit
            v == SubSeq(s, 1, n)
<1>1. n \in 0 .. Len(s) /\ n <= limit /\ Len(s) \in Nat
  OBVIOUS
<1>2. Head1(s, limit) = v
  BY DEF Head1
<1>. HIDE DEF n
<1>3. v \in Seq(Node) /\ Len(v) = n /\ DOMAIN v = 1 .. n /\ \A i \in 1 .. n : v[i] = s[i]
  BY <1>1
<1>. HIDE DEF v
<1>4. IsInjective(v)
  <2>1. \A i \in 1 .. n : i \in DOMAIN s
    BY <1>1
  <2>2. QED
    BY <1>3, <2>1 DEF IsInjective
<1>5. QED
  BY <1>1, <1>2, <1>3, <1>4 DEF Leg

LEMMA LegsOfSearch ==
  ASSUME NEW g, NEW p, NEW limit \in Nat
  PROVE  Leg(SemanticSearch(g, p, limit), limit) /\ Leg(KeywordSearch(g, p, limit), limit)
<1>. DEFINE C == Canonical(g, p)
<1>1. C \subseteq Node
  BY DEF Canonical, VisibleNodes
<1>2. /\ Len(Near) \in Nat /\ DOMAIN Near = 1 .. Len(Near) /\ IsInjective(Near)
      /\ Len(Wording) \in Nat /\ DOMAIN Wording = 1 .. Len(Wording) /\ IsInjective(Wording)
  BY RankingsAssumption
<1>3. /\ Ordered(Near, C) \in Seq(C) /\ IsInjective(Ordered(Near, C))
      /\ Ordered(Wording, C) \in Seq(C) /\ IsInjective(Ordered(Wording, C))
  <2>. HIDE DEF C
  <2>1. QED
    BY <1>2, OrderedOnce
<1>4. Ordered(Near, C) \in Seq(Node) /\ Ordered(Wording, C) \in Seq(Node)
  <2>. HIDE DEF C
  <2>1. QED
    BY <1>1, <1>3
<1>5. QED
  BY <1>3, <1>4, CutIsLeg DEF SemanticSearch, KeywordSearch

-----------------------------------------------------------------------------
(* Reciprocal ranks, scaled. *)

\* Every denominator in use divides the scale.
Divides(d, n) == \E q \in Nat : q >= 1 /\ n = q * d

LEMMA DividesMore ==
  ASSUME NEW d \in Nat, NEW n \in Nat, NEW m \in Nat, m >= 1, Divides(d, n)
  PROVE  Divides(d, n * m)
<1>1. PICK q \in Nat : q >= 1 /\ n = q * d
  BY DEF Divides
<1>2. q * m \in Nat /\ q * m >= 1 /\ n * m = (q * m) * d
  BY <1>1
<1>3. QED
  BY <1>2 DEF Divides

IsProduct(k, product) ==
  product = [i \in 0 .. k |-> IF i = 0 THEN 1 ELSE product[i - 1] * (60 + i)]

ProductSteps(k, product) ==
  product[0] = 1 /\ \A i \in 1 .. k : product[i] = product[i - 1] * (60 + i)

LEMMA ProductExists ==
  ASSUME NEW k \in Nat
  PROVE  \E product : ProductSteps(k, product) /\ Scale(k) = product[k]
<1>. DEFINE S == {m \in Nat : \E product : IsProduct(m, product)}
<1>1. ASSUME NEW m \in Nat, NEW b, IsProduct(m, b)
      PROVE  ProductSteps(m, b)
  <2>1. \A i \in 0 .. m : b[i] = IF i = 0 THEN 1 ELSE b[i - 1] * (60 + i)
    BY <1>1 DEF IsProduct
  <2>2. QED
    BY <2>1 DEF ProductSteps
<1>2. 0 \in S
  <2>. DEFINE b == [i \in 0 .. 0 |-> 1]
  <2>1. IsProduct(0, b)
    BY DEF IsProduct
  <2>2. QED
    BY <2>1
<1>3. ASSUME NEW m \in Nat, m \in S PROVE m + 1 \in S
  <2>1. PICK b : IsProduct(m, b)
    BY <1>3
  <2>. DEFINE c == [i \in 0 .. m + 1 |-> IF i = m + 1 THEN b[m] * (60 + (m + 1)) ELSE b[i]]
  <2>2. ProductSteps(m, b)
    BY <1>1, <2>1
  <2>3. ASSUME NEW i \in 0 .. m + 1 PROVE c[i] = IF i = 0 THEN 1 ELSE c[i - 1] * (60 + i)
    <3>1. CASE i = m + 1
      <4>1. c[i] = b[m] * (60 + i) /\ c[i - 1] = b[m] /\ i # 0
        BY <3>1
      <4>. HIDE DEF c
      <4>2. QED
        BY <4>1
    <3>2. CASE i # m + 1
      <4>1. c[i] = b[i] /\ i \in 0 .. m
        BY <3>2
      <4>2. i # 0 => c[i - 1] = b[i - 1]
        BY <4>1
      <4>. HIDE DEF c
      <4>3. CASE i = 0
        BY <2>2, <4>1, <4>3 DEF ProductSteps
      <4>4. CASE i # 0
        BY <2>2, <4>1, <4>2, <4>4 DEF ProductSteps
      <4>5. QED
        BY <4>3, <4>4
    <3>3. QED
      BY <3>1, <3>2
  <2>4. IsProduct(m + 1, c)
    <3>1. c = [i \in 0 .. m + 1 |-> IF i = 0 THEN 1 ELSE c[i - 1] * (60 + i)]
      BY <2>3
    <3>. HIDE DEF c
    <3>2. QED
      BY <3>1 DEF IsProduct
  <2>5. QED
    <3>. HIDE DEF c
    <3>1. QED
      BY <2>4
<1>4. k \in S
  <2>. HIDE DEF S
  <2>1. QED
    BY <1>2, <1>3, NaturalInduction
<1>. DEFINE product == CHOOSE b : IsProduct(k, b)
<1>5. IsProduct(k, product)
  BY <1>4
<1>6. Scale(k) = product[k]
  BY DEF Scale, IsProduct
<1>. HIDE DEF product, S
<1>7. ProductSteps(k, product)
  BY <1>1, <1>5
<1>8. QED
  BY <1>6, <1>7

LEMMA ScaleDivides ==
  ASSUME NEW limit \in Nat
  PROVE  Scale(limit) \in Nat /\ \A i \in 1 .. limit : Divides(60 + i, Scale(limit))
<1>1. PICK product : ProductSteps(limit, product) /\ Scale(limit) = product[limit]
  BY ProductExists
<1>. DEFINE T == {k \in Nat : k <= limit => /\ product[k] \in Nat /\ product[k] >= 1
                                            /\ \A i \in 1 .. k : Divides(60 + i, product[k])}
<1>2. 0 \in T
  BY <1>1 DEF ProductSteps
<1>3. ASSUME NEW k \in Nat, k \in T PROVE k + 1 \in T
  <2>1. SUFFICES ASSUME k + 1 <= limit
                 PROVE  /\ product[k + 1] \in Nat /\ product[k + 1] >= 1
                        /\ \A i \in 1 .. k + 1 : Divides(60 + i, product[k + 1])
    OBVIOUS
  <2>. DEFINE P == product[k]
              d == 60 + (k + 1)
  <2>2. /\ P \in Nat /\ P >= 1 /\ \A i \in 1 .. k : Divides(60 + i, P)
        /\ k + 1 \in 1 .. limit /\ (k + 1) - 1 = k
    BY <1>3, <2>1
  <2>3. product[k + 1] = P * d
    BY <1>1, <2>2 DEF ProductSteps
  <2>4. d \in Nat /\ d >= 1
    OBVIOUS
  <2>. HIDE DEF P, d, T
  <2>5. P * d \in Nat /\ P * d >= 1
    BY <2>2, <2>4
  <2>6. ASSUME NEW i \in 1 .. k + 1 PROVE Divides(60 + i, P * d)
    <3>1. CASE i = k + 1
      <4>1. 60 + i = d
        BY <3>1 DEF d
      <4>2. QED
        BY <2>2, <4>1 DEF Divides
    <3>2. CASE i # k + 1
      <4>1. i \in 1 .. k /\ 60 + i \in Nat
        BY <3>2
      <4>2. Divides(60 + i, P)
        BY <2>2, <4>1
      <4>3. QED
        BY <2>2, <2>4, <4>1, <4>2, DividesMore
    <3>3. QED
      BY <3>1, <3>2
  <2>7. QED
    BY <2>3, <2>5, <2>6
<1>4. Nat \subseteq T
  <2>. HIDE DEF T
  <2>1. QED
    BY <1>2, <1>3, NaturalInduction
<1>5. QED
  BY <1>1, <1>4

\* A quotient without a rest.
LEMMA QuotientIs ==
  ASSUME NEW d \in Nat, d >= 1, NEW q \in Nat
  PROVE  (q * d) \div d = q
OBVIOUS

\* A better rank scores more, and any rank scores.
LEMMA BetterRankScores ==
  ASSUME NEW limit \in Nat, NEW a \in 1 .. limit
  PROVE  /\ Scale(limit) \div (60 + a) \in Nat /\ Scale(limit) \div (60 + a) >= 1
         /\ \A b \in 1 .. limit : a < b => Scale(limit) \div (60 + a) > Scale(limit) \div (60 + b)
<1>. DEFINE S == Scale(limit)
<1>1. S \in Nat /\ \A i \in 1 .. limit : Divides(60 + i, S)
  BY ScaleDivides
<1>. HIDE DEF S
<1>2. ASSUME NEW i \in 1 .. limit
      PROVE  \E q \in Nat : q >= 1 /\ S = q * (60 + i) /\ S \div (60 + i) = q
  <2>1. PICK q \in Nat : q >= 1 /\ S = q * (60 + i)
    BY <1>1 DEF Divides
  <2>2. 60 + i \in Nat /\ 60 + i >= 1
    OBVIOUS
  <2>3. (q * (60 + i)) \div (60 + i) = q
    BY <2>2, QuotientIs
  <2>4. QED
    BY <2>1, <2>3
<1>3. PICK q \in Nat : q >= 1 /\ S = q * (60 + a) /\ S \div (60 + a) = q
  BY <1>2
<1>4. ASSUME NEW b \in 1 .. limit, a < b PROVE q > S \div (60 + b)
  <2>1. PICK r \in Nat : r >= 1 /\ S = r * (60 + b) /\ S \div (60 + b) = r
    BY <1>2
  <2>2. SUFFICES ASSUME q <= r PROVE FALSE
    BY <2>1
  <2>3. q * (60 + a) <= r * (60 + a)
    BY <2>2
  <2>4. r * (60 + a) < r * (60 + b)
    BY <1>4, <2>1
  <2>5. QED
    BY <1>3, <2>1, <2>3, <2>4
<1>5. QED
  BY <1>3, <1>4 DEF S

\* A leg's score of a node is that of its rank, and 0 where it is not.
LEMMA LegScoreIs ==
  ASSUME NEW limit \in Nat, NEW leg, Leg(leg, limit)
  PROVE  /\ \A n : (\A i \in DOMAIN leg : leg[i] # n) => LegScore(leg, n, limit) = 0
         /\ \A i \in DOMAIN leg : LegScore(leg, leg[i], limit) = Scale(limit) \div (60 + i)
<1>. DEFINE f == [i \in DOMAIN leg |-> Scale(limit) \div (60 + i)]
<1>1. ASSUME NEW n, \A i \in DOMAIN leg : leg[i] # n PROVE LegScore(leg, n, limit) = 0
  <2>1. {i \in DOMAIN leg : leg[i] = n} = {}
    BY <1>1
  <2>2. LegScore(leg, n, limit) = SumFunctionOnSet(f, {})
    BY <2>1 DEF LegScore
  <2>. HIDE DEF f
  <2>3. QED
    BY <2>2, SumFew
<1>2. ASSUME NEW i \in DOMAIN leg PROVE LegScore(leg, leg[i], limit) = Scale(limit) \div (60 + i)
  <2>1. {j \in DOMAIN leg : leg[j] = leg[i]} = {i}
    BY DEF Leg, IsInjective
  <2>2. LegScore(leg, leg[i], limit) = SumFunctionOnSet(f, {i})
    BY <2>1 DEF LegScore
  <2>3. i \in 1 .. limit
    <3>1. leg \in Seq(Node) /\ Len(leg) <= limit
      BY DEF Leg
    <3>2. DOMAIN leg = 1 .. Len(leg) /\ Len(leg) \in Nat
      BY <3>1
    <3>3. QED
      BY <3>1, <3>2
  <2>4. f[i] = Scale(limit) \div (60 + i)
    OBVIOUS
  <2>5. f[i] \in Nat
    BY <2>3, <2>4, BetterRankScores
  <2>. HIDE DEF f
  <2>6. QED
    BY <2>2, <2>4, <2>5, SumFew
<1>3. QED
  BY <1>1, <1>2

\* The rank of a node in a leg; behind the last, where the leg does not have it.
RankIn(leg, n, limit) ==
  IF \E i \in DOMAIN leg : leg[i] = n THEN CHOOSE i \in DOMAIN leg : leg[i] = n ELSE limit + 1

LEMMA RankIs ==
  ASSUME NEW limit \in Nat, NEW leg, Leg(leg, limit), NEW n
  PROVE  \/ /\ RankIn(leg, n, limit) \in 1 .. limit /\ RankIn(leg, n, limit) \in DOMAIN leg
            /\ leg[RankIn(leg, n, limit)] = n
            /\ LegScore(leg, n, limit) = Scale(limit) \div (60 + RankIn(leg, n, limit))
         \/ RankIn(leg, n, limit) = limit + 1 /\ LegScore(leg, n, limit) = 0
<1>1. CASE \E i \in DOMAIN leg : leg[i] = n
  <2>. DEFINE r == CHOOSE i \in DOMAIN leg : leg[i] = n
  <2>1. r \in DOMAIN leg /\ leg[r] = n
    BY <1>1
  <2>2. RankIn(leg, n, limit) = r
    BY <1>1 DEF RankIn
  <2>. HIDE DEF r
  <2>3. LegScore(leg, leg[r], limit) = Scale(limit) \div (60 + r)
    BY <2>1, LegScoreIs
  <2>4. r \in 1 .. limit
    <3>1. leg \in Seq(Node) /\ Len(leg) <= limit
      BY DEF Leg
    <3>2. DOMAIN leg = 1 .. Len(leg) /\ Len(leg) \in Nat
      BY <3>1
    <3>3. QED
      BY <2>1, <3>1, <3>2
  <2>5. QED
    BY <2>1, <2>2, <2>3, <2>4
<1>2. CASE ~ \E i \in DOMAIN leg : leg[i] = n
  <2>1. LegScore(leg, n, limit) = 0
    BY <1>2, LegScoreIs
  <2>2. QED
    BY <1>2, <2>1 DEF RankIn
<1>3. QED
  BY <1>1, <1>2

\* A leg scores by rank.
LEMMA LegFavours ==
  ASSUME NEW limit \in Nat, NEW leg, Leg(leg, limit), NEW n, NEW m
  PROVE  /\ RankIn(leg, n, limit) \in Nat /\ LegScore(leg, n, limit) \in Nat
         /\ RankIn(leg, n, limit) < RankIn(leg, m, limit)
              => LegScore(leg, n, limit) > LegScore(leg, m, limit)
         /\ RankIn(leg, n, limit) = RankIn(leg, m, limit)
              => LegScore(leg, n, limit) = LegScore(leg, m, limit)
<1>. DEFINE a == RankIn(leg, n, limit)
            b == RankIn(leg, m, limit)
            s == LegScore(leg, n, limit)
            t == LegScore(leg, m, limit)
            Q(i) == Scale(limit) \div (60 + i)
<1>1. \/ a \in 1 .. limit /\ s = Q(a)
      \/ a = limit + 1 /\ s = 0
  BY RankIs
<1>2. \/ b \in 1 .. limit /\ t = Q(b)
      \/ b = limit + 1 /\ t = 0
  BY RankIs
<1>3. \A i \in 1 .. limit : Q(i) \in Nat /\ Q(i) >= 1 /\ \A j \in 1 .. limit : i < j => Q(i) > Q(j)
  BY BetterRankScores
<1>. HIDE DEF a, b, s, t, Q
<1>4. a \in Nat /\ s \in Nat
  BY <1>1, <1>3
<1>5. a < b => s > t
  BY <1>1, <1>2, <1>3
<1>6. a = b => s = t
  BY <1>1, <1>2
<1>7. QED
  BY <1>4, <1>5, <1>6 DEF a, b, s, t

\* A node both legs found scores what they give it together.
LEMMA ScoreAdds ==
  ASSUME NEW limit \in Nat, NEW sem, Leg(sem, limit), NEW kw, Leg(kw, limit), NEW n
  PROVE  Score(<<sem, kw>>, n, limit) = LegScore(sem, n, limit) + LegScore(kw, n, limit)
<1>. DEFINE legs == <<sem, kw>>
            f == [k \in DOMAIN legs |-> LegScore(legs[k], n, limit)]
<1>1. f[1] = LegScore(sem, n, limit) /\ f[2] = LegScore(kw, n, limit) /\ DOMAIN legs = {1, 2}
  OBVIOUS
<1>2. Score(legs, n, limit) = SumFunctionOnSet(f, {1, 2})
  BY <1>1 DEF Score
<1>3. LegScore(sem, n, limit) \in Nat /\ LegScore(kw, n, limit) \in Nat
  BY LegFavours
<1>. HIDE DEF f
<1>4. IsFiniteSet({1, 2}) /\ \A k \in {1, 2} : f[k] \in Nat
  <2>1. IsFiniteSet({1}) /\ IsFiniteSet({2}) /\ {1, 2} = {1} \cup {2}
    BY FS_Singleton
  <2>2. IsFiniteSet({1, 2})
    BY <2>1, FS_Union
  <2>3. QED
    BY <1>1, <1>3, <2>2
<1>5. SumFunctionOnSet(f, {1, 2}) = f[1] + SumFunctionOnSet(f, {1, 2} \ {1})
  BY <1>4, SumSplit
<1>6. {1, 2} \ {1} = {2} /\ SumFunctionOnSet(f, {2}) = f[2]
  BY <1>4, SumFew
<1>7. QED
  BY <1>1, <1>2, <1>5, <1>6

\* SetToSeqs lists every element.
LEMMA ListsAll ==
  ASSUME NEW S, IsFiniteSet(S), NEW r \in SetToSeqs(S)
  PROVE  r \in Seq(S) /\ \A x \in S : \E i \in DOMAIN r : r[i] = x
<1>. DEFINE c == Cardinality(S)
<1>1. c \in Nat
  BY FS_CardinalityType
<1>2. r \in [1 .. c -> S] /\ \A i, j \in 1 .. c : i # j => r[i] # r[j]
  BY DEF SetToSeqs
<1>3. r \in Injection(1 .. c, S)
  BY <1>2 DEF Injection, IsInjective
<1>4. Cardinality(1 .. c) = c
  <2>. HIDE DEF c
  <2>1. QED
    BY <1>1, FS_Interval
<1>5. r \in Surjection(1 .. c, S)
  BY <1>3, <1>4, FS_Injection
<1>6. \A x \in S : \E i \in 1 .. c : r[i] = x
  BY <1>5 DEF Surjection
<1>7. QED
  BY <1>1, <1>2, <1>6

\* By rank no worse in either leg and better in one, a node scores more.
Better(sem, kw, n, m, limit) ==
  /\ RankIn(sem, n, limit) <= RankIn(sem, m, limit) /\ RankIn(kw, n, limit) <= RankIn(kw, m, limit)
  /\ <<RankIn(sem, n, limit), RankIn(kw, n, limit)>> # <<RankIn(sem, m, limit), RankIn(kw, m, limit)>>

LEMMA BetterScores ==
  ASSUME NEW limit \in Nat, NEW sem, Leg(sem, limit), NEW kw, Leg(kw, limit),
         NEW n, NEW m, Better(sem, kw, n, m, limit)
  PROVE  /\ Score(<<sem, kw>>, n, limit) \in Nat /\ Score(<<sem, kw>>, m, limit) \in Nat
         /\ Score(<<sem, kw>>, n, limit) > Score(<<sem, kw>>, m, limit)
<1>. DEFINE a == RankIn(sem, n, limit)
            b == RankIn(sem, m, limit)
            c == RankIn(kw, n, limit)
            d == RankIn(kw, m, limit)
            sa == LegScore(sem, n, limit)
            sb == LegScore(sem, m, limit)
            sc == LegScore(kw, n, limit)
            sd == LegScore(kw, m, limit)
<1>1. a \in Nat /\ b \in Nat /\ sa \in Nat /\ sb \in Nat /\ (a < b => sa > sb) /\ (a = b => sa = sb)
  BY LegFavours
<1>2. c \in Nat /\ d \in Nat /\ sc \in Nat /\ sd \in Nat /\ (c < d => sc > sd) /\ (c = d => sc = sd)
  BY LegFavours
<1>3. a <= b /\ c <= d /\ <<a, c>> # <<b, d>>
  BY DEF Better
<1>4. Score(<<sem, kw>>, n, limit) = sa + sc /\ Score(<<sem, kw>>, m, limit) = sb + sd
  BY ScoreAdds
<1>. HIDE DEF a, b, c, d, sa, sb, sc, sd
<1>5. a # b \/ c # d
  BY <1>3
<1>6. QED
  BY <1>1, <1>2, <1>3, <1>4, <1>5

\* So the fusion puts it first.
LEMMA FusionFavours ==
  ASSUME NEW limit \in Nat, NEW sem, Leg(sem, limit), NEW kw, Leg(kw, limit),
         NEW ranked \in Fused(<<sem, kw>>, limit), NEW n \in Range(sem) \cup Range(kw),
         NEW m \in Range(ranked), Better(sem, kw, n, m, limit)
  PROVE  \E i, j \in DOMAIN ranked : i < j /\ ranked[i] = n /\ ranked[j] = m
<1>. DEFINE legs == <<sem, kw>>
            entries == UNION {Range(legs[k]) : k \in DOMAIN legs}
<1>1. PICK r \in SetToSeqs(entries) :
        /\ \A i, j \in DOMAIN r : i < j => Score(legs, r[i], limit) >= Score(legs, r[j], limit)
        /\ ranked = Head1(r, limit)
  BY DEF Fused
<1>2. entries = Range(sem) \cup Range(kw)
  <2>1. DOMAIN legs = {1, 2} /\ legs[1] = sem /\ legs[2] = kw
    OBVIOUS
  <2>2. QED
    BY <2>1
<1>3. entries \subseteq Node /\ IsFiniteSet(entries)
  <2>1. Range(sem) \subseteq Node /\ Range(kw) \subseteq Node
    BY RangeIn DEF Leg
  <2>. HIDE DEF entries
  <2>2. entries \subseteq Node
    BY <1>2, <2>1
  <2>3. QED
    BY <2>2, NodesAssumption, FS_Subset
<1>. HIDE DEF entries
<1>4. r \in Seq(entries) /\ \A x \in entries : \E i \in DOMAIN r : r[i] = x
  BY <1>1, <1>3, ListsAll
<1>. DEFINE l == IF Len(r) < limit THEN Len(r) ELSE limit
<1>5. l \in 0 .. Len(r) /\ Len(r) \in Nat /\ DOMAIN r = 1 .. Len(r)
  BY <1>4
<1>6. DOMAIN ranked = 1 .. l /\ \A i \in 1 .. l : ranked[i] = r[i]
  <2>1. ranked = SubSeq(r, 1, l)
    BY <1>1 DEF Head1
  <2>. HIDE DEF l
  <2>2. QED
    BY <1>4, <1>5, <2>1
<1>. HIDE DEF l, legs
<1>7. PICK j \in 1 .. l : r[j] = m /\ ranked[j] = m
  BY <1>6 DEF Range
<1>8. PICK i \in 1 .. Len(r) : r[i] = n
  BY <1>2, <1>4, <1>5
<1>9. /\ Score(legs, n, limit) \in Nat /\ Score(legs, m, limit) \in Nat
      /\ Score(legs, n, limit) > Score(legs, m, limit)
  BY BetterScores DEF legs
<1>10. i # j
  BY <1>7, <1>8, <1>9
<1>11. ~ (j < i)
  <2>1. SUFFICES ASSUME j < i PROVE FALSE
    OBVIOUS
  <2>2. j \in DOMAIN r /\ i \in DOMAIN r
    BY <1>5, <1>7, <1>8
  <2>3. Score(legs, r[j], limit) >= Score(legs, r[i], limit)
    BY <1>1, <2>1, <2>2
  <2>4. QED
    BY <1>7, <1>8, <1>9, <2>3
<1>12. i < j /\ i \in 1 .. l /\ j \in 1 .. l
  BY <1>5, <1>7, <1>8, <1>10, <1>11
<1>13. QED
  BY <1>6, <1>7, <1>8, <1>12

\* For any rankings, grants and limit, whether the embedding answers or not: in what
\* hybrid_search returns, a node comes before all that neither leg ranks better, so one that both
\* legs found is not lost to one of a single leg, and the cut at the limit keeps it.
THEOREM FusionFavoursBoth == Spec => []HybridFavoursBoth
<1>1. HybridFavoursBoth
  <2>1. ASSUME NEW p \in AsPrincipals, NEW embedded \in BOOLEAN
        PROVE  LET sem == IF embedded THEN SemanticSearch(Graph, p, Limit) ELSE <<>>
                   kw  == KeywordSearch(Graph, p, Limit)
               IN  \A ranked \in HybridSearch(Graph, p, Limit, embedded) :
                   \A n \in Range(sem) \cup Range(kw), m \in Range(ranked) :
                       Better(sem, kw, n, m, Limit)
                       => \E i, j \in DOMAIN ranked : i < j /\ ranked[i] = n /\ ranked[j] = m
    <3>. DEFINE sem == IF embedded THEN SemanticSearch(Graph, p, Limit) ELSE <<>>
                kw  == KeywordSearch(Graph, p, Limit)
    <3>1. Limit \in Nat
      BY BoundsAssumption
    <3>2. Leg(<<>>, Limit)
      <4>1. <<>> \in Seq(Node) /\ Len(<<>>) = 0 /\ DOMAIN <<>> = {}
        OBVIOUS
      <4>2. QED
        BY <3>1, <4>1 DEF Leg, IsInjective
    <3>3. Leg(sem, Limit) /\ Leg(kw, Limit)
      BY <3>1, <3>2, LegsOfSearch
    <3>4. HybridSearch(Graph, p, Limit, embedded) = Fused(<<sem, kw>>, Limit)
      BY DEF HybridSearch
    <3>. HIDE DEF sem, kw
    <3>5. \A ranked \in HybridSearch(Graph, p, Limit, embedded) :
          \A n \in Range(sem) \cup Range(kw), m \in Range(ranked) :
              Better(sem, kw, n, m, Limit)
              => \E i, j \in DOMAIN ranked : i < j /\ ranked[i] = n /\ ranked[j] = m
      BY <3>1, <3>3, <3>4, FusionFavours
    <3>6. QED
      BY <3>5 DEF sem, kw
  <2>2. QED
    BY <2>1 DEF HybridFavoursBoth, Better, RankIn
<1>2. QED
  BY <1>1, PTL

-----------------------------------------------------------------------------
(* An export that nothing disturbs. *)

OutOf(g, p, n) == {e \in g.edges : e.src = n /\ e.dst \in VisibleNodes(g, p)}
InTo(g, p, n)  == {e \in g.edges : e.dst = n /\ e.src \in VisibleNodes(g, p)}

\* The edges that are seen at the nodes of B.
EdgesAt(g, p, B) ==
  {e \in g.edges : {e.src, e.dst} \subseteq VisibleNodes(g, p) /\ {e.src, e.dst} \cap B # {}}

\* A statement of an export leaves out edges only where the cap is reached.
LEMMA ReadFills ==
  ASSUME NEW all, IsFiniteSet(all), NEW known, IsFiniteSet(known), NEW cap \in Nat,
         Cardinality(known) <= cap, NEW rows \in LimitedTo(all, cap),
         NEW new \in LimitedTo(rows \ known, cap - Cardinality(known))
  PROVE  /\ new \subseteq all /\ IsFiniteSet(known \cup new) /\ Cardinality(known \cup new) <= cap
         /\ Cardinality(known \cup new) = cap \/ all \subseteq known \cup new
         /\ Cardinality(known) = cap => new = {}
<1>. DEFINE k == Cardinality(known)
            room == cap - k
            E == known \cup new
<1>1. rows \subseteq all /\ new \subseteq rows \ known
  BY LimitKeeps
<1>2. IsFiniteSet(rows) /\ IsFiniteSet(rows \ known) /\ IsFiniteSet(new) /\ k \in Nat /\ room \in Nat
  <2>1. IsFiniteSet(rows)
    BY <1>1, FS_Subset
  <2>2. IsFiniteSet(rows \ known)
    BY <2>1, FS_Subset
  <2>3. IsFiniteSet(new)
    BY <1>1, <2>2, FS_Subset
  <2>4. k \in Nat
    BY FS_CardinalityType
  <2>5. QED
    BY <2>1, <2>2, <2>3, <2>4
<1>3. IsFiniteSet(E) /\ Cardinality(E) = k + Cardinality(new) /\ Cardinality(new) \in Nat
  <2>1. known \cap new = {}
    BY <1>1
  <2>2. IsFiniteSet(known) /\ IsFiniteSet(new)
    BY <1>2
  <2>3. Cardinality(known \cap new) = 0
    BY <2>1, FS_EmptySet
  <2>4. Cardinality(E) = Cardinality(known) + Cardinality(new) - Cardinality(known \cap new)
    BY <2>2, FS_Union
  <2>5. IsFiniteSet(E)
    BY <2>2, FS_Union
  <2>6. Cardinality(new) \in Nat
    BY <2>2, FS_CardinalityType
  <2>7. QED
    BY <1>2, <2>3, <2>4, <2>5, <2>6
<1>4. new = rows \ known \/ Cardinality(new) = room
  BY <1>2, LimitReached
<1>5. Cardinality(new) <= room
  <2>1. Cardinality(new) = IF Cardinality(rows \ known) < room THEN Cardinality(rows \ known) ELSE room
    BY DEF LimitedTo, kSubset
  <2>2. Cardinality(rows \ known) \in Nat
    BY <1>2, FS_CardinalityType
  <2>3. QED
    BY <1>2, <2>1, <2>2
<1>6. Cardinality(E) <= cap
  BY <1>2, <1>3, <1>5
<1>7. rows = all \/ Cardinality(rows) = cap
  BY LimitReached
<1>8. CASE Cardinality(new) = room
  <2>1. Cardinality(E) = cap
    BY <1>2, <1>3, <1>8
  <2>2. k = cap => new = {}
    <3>1. k = cap => Cardinality(new) = 0
      BY <1>2, <1>8
    <3>2. QED
      BY <1>2, <3>1, FS_EmptySet
  <2>3. QED
    BY <1>1, <1>3, <1>6, <2>1, <2>2
<1>9. CASE new = rows \ known /\ Cardinality(new) # room
  <2>1. k # cap
    <3>1. SUFFICES ASSUME k = cap PROVE FALSE
      OBVIOUS
    <3>2. room = 0
      BY <1>2, <3>1
    <3>3. QED
      BY <1>3, <1>5, <1>9, <3>2
  <2>2. rows \subseteq E
    BY <1>9
  <2>3. Cardinality(rows) = cap => Cardinality(E) = cap
    <3>1. Cardinality(rows) <= Cardinality(E)
      BY <1>3, <2>2, FS_Subset
    <3>2. Cardinality(rows) \in Nat /\ Cardinality(E) \in Nat
      BY <1>2, <1>3, FS_CardinalityType
    <3>3. QED
      BY <1>6, <3>1, <3>2
  <2>4. QED
    BY <1>1, <1>3, <1>6, <1>7, <2>1, <2>2, <2>3
<1>10. QED
  BY <1>4, <1>8, <1>9

\* Where one hop more reaches nothing new, no more hops do.
LEMMA WithinStill ==
  ASSUME NEW g, NEW p, NEW n, NEW k \in Nat, Within(g, p, n, k + 1) = Within(g, p, n, k),
         NEW m \in Nat, k <= m
  PROVE  Within(g, p, n, m) = Within(g, p, n, k)
<1>. DEFINE T == {i \in Nat : Within(g, p, n, k + i) = Within(g, p, n, k)}
<1>1. 0 \in T
  OBVIOUS
<1>2. ASSUME NEW i \in Nat, i \in T PROVE i + 1 \in T
  <2>. DEFINE j == k + i
  <2>1. j \in Nat /\ k + (i + 1) = j + 1
    OBVIOUS
  <2>2. Within(g, p, n, j) = Within(g, p, n, k)
    BY <1>2
  <2>. HIDE DEF T, j
  <2>3. Within(g, p, n, j + 1) = Reached(g, p, Within(g, p, n, j))
    BY <2>1, WithinNext
  <2>4. Within(g, p, n, k + 1) = Reached(g, p, Within(g, p, n, k))
    BY WithinNext
  <2>5. Within(g, p, n, j + 1) = Within(g, p, n, k)
    BY <2>2, <2>3, <2>4
  <2>6. QED
    BY <2>1, <2>5 DEF T
<1>3. Nat \subseteq T
  <2>. HIDE DEF T
  <2>1. QED
    BY <1>1, <1>2, NaturalInduction
<1>4. m - k \in T /\ k + (m - k) = m
  BY <1>3
<1>5. QED
  BY <1>4

\* Each node is asked for both directions.
LEMMA QueriesAsk ==
  ASSUME NEW T, NEW nodes \in Seq(T), NEW j \in 1 .. Len(nodes)
  PROVE  \A d \in {"out", "in"} : \E i \in DOMAIN Queries(nodes, ExportKinds) :
           Queries(nodes, ExportKinds)[i] = <<nodes[j], d>>
<1>. DEFINE q == Queries(nodes, ExportKinds)
<1>1. Len(ExportKinds) = 2 /\ ExportKinds[1] = "out" /\ ExportKinds[2] = "in" /\ Len(nodes) \in Nat
  BY DEF ExportKinds
<1>2. q = [k \in 1 .. Len(nodes) * 2 |->
             <<nodes[1 + ((k - 1) \div 2)], ExportKinds[1 + ((k - 1) % 2)]>>]
  BY <1>1 DEF Queries
<1>. HIDE DEF q
<1>3. /\ 2 * j - 1 \in 1 .. Len(nodes) * 2 /\ 2 * j \in 1 .. Len(nodes) * 2
      /\ 1 + (((2 * j - 1) - 1) \div 2) = j /\ 1 + (((2 * j - 1) - 1) % 2) = 1
      /\ 1 + ((2 * j - 1) \div 2) = j /\ 1 + ((2 * j - 1) % 2) = 2
  BY <1>1
<1>4. DOMAIN q = 1 .. Len(nodes) * 2
  BY <1>2
<1>5. q[2 * j - 1] = <<nodes[j], "out">> /\ q[2 * j] = <<nodes[j], "in">>
  BY <1>1, <1>2, <1>3
<1>6. QED
  BY <1>3, <1>4, <1>5 DEF q

\* The query q is still to come, or its edges are in.
Asked(E, edges, todo, q) == E \subseteq edges \/ \E i \in DOMAIN todo : todo[i] = q

\* An export at layer k: its nodes are those within k hops and the next layer's so far, its edges
\* are edges at that layer, and of each node they are in or still asked for.
Expanding(g, p, start, k, nodes, edges, todo, next) ==
  /\ nodes = Within(g, p, start, k) \cup Range(next)
  /\ nodes \subseteq Within(g, p, start, k + 1)
  /\ edges \subseteq EdgesAt(g, p, Within(g, p, start, k))
  /\ \A i \in DOMAIN todo : todo[i][1] \in Within(g, p, start, k)
  /\ \A n \in Within(g, p, start, k) : /\ Asked(OutOf(g, p, n), edges, todo, <<n, "out">>)
                                       /\ Asked(InTo(g, p, n), edges, todo, <<n, "in">>)

EndsOf(E) == UNION {{e.src, e.dst} : e \in E}

\* (One statement less to do.)
LEMMA AskedStill ==
  ASSUME NEW T, NEW todo \in Seq(T), todo # <<>>, NEW E, NEW edges, NEW new, NEW q,
         Asked(E, edges, todo, q), q = todo[1] => E \subseteq edges \cup new
  PROVE  Asked(E, edges \cup new, Tail(todo), q)
<1>1. CASE E \subseteq edges
  BY <1>1 DEF Asked
<1>2. CASE \E i \in DOMAIN todo : todo[i] = q
  <2>1. PICK i \in DOMAIN todo : todo[i] = q
    BY <1>2
  <2>2. CASE i = 1
    BY <2>1, <2>2 DEF Asked
  <2>3. CASE i # 1
    <3>1. /\ DOMAIN todo = 1 .. Len(todo) /\ Len(todo) \in Nat
          /\ DOMAIN Tail(todo) = 1 .. Len(todo) - 1
          /\ \A j \in 1 .. Len(todo) - 1 : Tail(todo)[j] = todo[j + 1]
      OBVIOUS
    <3>2. i - 1 \in DOMAIN Tail(todo) /\ Tail(todo)[i - 1] = q
      BY <2>1, <2>3, <3>1
    <3>3. QED
      BY <3>2 DEF Asked
  <2>4. QED
    BY <2>2, <2>3
<1>3. QED
  BY <1>1, <1>2 DEF Asked

\* (The elements of two sequences.)
LEMMA RangeOfBoth ==
  ASSUME NEW S, NEW s \in Seq(S), NEW T, NEW t \in Seq(T)
  PROVE  Range(s \o t) = Range(s) \cup Range(t)
<1>. DEFINE u == s \o t
<1>1. /\ DOMAIN s = 1 .. Len(s) /\ DOMAIN t = 1 .. Len(t) /\ Len(s) \in Nat /\ Len(t) \in Nat
      /\ DOMAIN u = 1 .. Len(s) + Len(t)
      /\ \A i \in 1 .. Len(s) + Len(t) : u[i] = IF i <= Len(s) THEN s[i] ELSE t[i - Len(s)]
  <2>1. s \in Seq(S \cup T) /\ t \in Seq(S \cup T)
    OBVIOUS
  <2>2. QED
    BY <2>1
<1>. HIDE DEF u
<1>2. ASSUME NEW x \in Range(u) PROVE x \in Range(s) \cup Range(t)
  <2>1. PICK i \in DOMAIN u : x = u[i]
    BY <1>2 DEF Range
  <2>2. CASE i <= Len(s)
    <3>1. i \in DOMAIN s /\ x = s[i]
      BY <1>1, <2>1, <2>2
    <3>2. QED
      BY <3>1 DEF Range
  <2>3. CASE ~ (i <= Len(s))
    <3>1. i - Len(s) \in DOMAIN t /\ x = t[i - Len(s)]
      BY <1>1, <2>1, <2>3
    <3>2. QED
      BY <3>1 DEF Range
  <2>4. QED
    BY <2>2, <2>3
<1>3. ASSUME NEW i \in DOMAIN s PROVE s[i] \in Range(u)
  <2>1. i \in DOMAIN u /\ u[i] = s[i]
    BY <1>1
  <2>2. QED
    BY <2>1 DEF Range
<1>4. ASSUME NEW i \in DOMAIN t PROVE t[i] \in Range(u)
  <2>1. Len(s) + i \in DOMAIN u /\ u[Len(s) + i] = t[i]
    BY <1>1
  <2>2. QED
    BY <2>1 DEF Range
<1>5. QED
  BY <1>2, <1>3, <1>4 DEF Range, u

\* A statement of the layer.
LEMMA ExpandRead ==
  ASSUME NEW g, Linked(g), NEW p, NEW start, NEW k \in Nat,
         NEW nodes, NEW edges, NEW T, NEW todo \in Seq(T), NEW next \in Seq(nodes),
         Expanding(g, p, start, k, nodes, edges, todo, next),
         nodes \subseteq Seeable(g, p),
         todo # <<>>, NEW n, NEW dir \in {"out", "in"}, todo[1] = <<n, dir>>,
         NEW new, NEW all, all = IF dir = "out" THEN OutOf(g, p, n) ELSE InTo(g, p, n),
         new \subseteq all, all \subseteq edges \cup new,
         NEW order \in SetToSeqs(EndsOf(new) \ nodes)
  PROVE  Expanding(g, p, start, k, nodes \cup EndsOf(new), edges \cup new, Tail(todo), next \o order)
<1>. DEFINE B == Within(g, p, start, k)
            C == Within(g, p, start, k + 1)
            N == EndsOf(new)
<1>1. /\ nodes = B \cup Range(next) /\ nodes \subseteq C /\ edges \subseteq EdgesAt(g, p, B)
      /\ \A i \in DOMAIN todo : todo[i][1] \in B
      /\ \A m \in B : /\ Asked(OutOf(g, p, m), edges, todo, <<m, "out">>)
                      /\ Asked(InTo(g, p, m), edges, todo, <<m, "in">>)
  BY DEF Expanding
<1>2. C = Reached(g, p, B)
  BY WithinNext
<1>. HIDE DEF B, C, N
<1>3. n \in B /\ n \in VisibleNodes(g, p)
  <2>1. 1 \in DOMAIN todo
    OBVIOUS
  <2>2. n \in B
    BY <1>1, <2>1
  <2>3. QED
    BY <1>1, <2>2 DEF Seeable, FoundNode
<1>4. \A e \in new : /\ e \in g.edges /\ {e.src, e.dst} \subseteq VisibleNodes(g, p)
                     /\ {e.src, e.dst} \subseteq g.nodes /\ n \in {e.src, e.dst}
  BY <1>3 DEF OutOf, InTo, Linked
<1>5. N \subseteq C /\ N \subseteq Node
  <2>1. ASSUME NEW m \in N PROVE m \in C /\ m \in Node
    <3>1. PICK e \in new : m \in {e.src, e.dst}
      BY DEF N, EndsOf
    <3>2. e \in g.edges /\ m \in VisibleNodes(g, p) \cap g.nodes /\ {e.src, e.dst} \cap B # {}
      BY <1>3, <1>4, <3>1
    <3>3. m \in Node
      BY <3>2 DEF Linked
    <3>4. QED
      BY <1>2, <3>1, <3>2, <3>3 DEF Reached
  <2>2. QED
    BY <2>1
<1>6. nodes \cup N = B \cup Range(next \o order)
  <2>. DEFINE M == N \ nodes
  <2>1. IsFiniteSet(M)
    BY <1>5, NodesAssumption, FS_Subset
  <2>2. order \in SetToSeqs(M)
    BY DEF N
  <2>. HIDE DEF M
  <2>3. order \in Seq(M) /\ \A x \in M : \E i \in DOMAIN order : order[i] = x
    BY <2>1, <2>2, ListsAll
  <2>4. Range(order) = M
    <3>1. Range(order) \subseteq M
      BY <2>3, RangeIn
    <3>2. QED
      BY <2>3, <3>1 DEF Range
  <2>5. Range(next \o order) = Range(next) \cup M
    BY <2>3, <2>4, RangeOfBoth
  <2>6. QED
    BY <1>1, <2>5 DEF M
<1>7. edges \cup new \subseteq EdgesAt(g, p, B)
  BY <1>1, <1>3, <1>4 DEF EdgesAt
<1>8. \A i \in DOMAIN Tail(todo) : Tail(todo)[i][1] \in B
  <2>1. /\ DOMAIN todo = 1 .. Len(todo) /\ Len(todo) \in Nat
        /\ DOMAIN Tail(todo) = 1 .. Len(todo) - 1
        /\ \A j \in 1 .. Len(todo) - 1 : Tail(todo)[j] = todo[j + 1]
    OBVIOUS
  <2>2. QED
    BY <1>1, <2>1
<1>9. ASSUME NEW m \in B
      PROVE  /\ Asked(OutOf(g, p, m), edges \cup new, Tail(todo), <<m, "out">>)
             /\ Asked(InTo(g, p, m), edges \cup new, Tail(todo), <<m, "in">>)
  <2>1. <<m, "out">> = todo[1] => OutOf(g, p, m) \subseteq edges \cup new
    OBVIOUS
  <2>2. <<m, "in">> = todo[1] => InTo(g, p, m) \subseteq edges \cup new
    OBVIOUS
  <2>3. QED
    BY <1>1, <2>1, <2>2, AskedStill
<1>10. QED
  BY <1>1, <1>5, <1>6, <1>7, <1>8, <1>9 DEF Expanding, B, C, N

\* The layer is done: its edges are all in, and its nodes are those of one hop more.
LEMMA LayerDone ==
  ASSUME NEW g, Linked(g), NEW p, NEW start, NEW k \in Nat, NEW nodes, NEW edges, NEW next,
         Expanding(g, p, start, k, nodes, edges, <<>>, next),
         nodes \subseteq Seeable(g, p), EndsOf(edges) \subseteq nodes
  PROVE  /\ edges = EdgesAt(g, p, Within(g, p, start, k))
         /\ nodes = Within(g, p, start, k + 1)
<1>. DEFINE B == Within(g, p, start, k)
            C == Within(g, p, start, k + 1)
<1>1. /\ nodes = B \cup Range(next) /\ nodes \subseteq C /\ edges \subseteq EdgesAt(g, p, B)
      /\ \A m \in B : OutOf(g, p, m) \subseteq edges /\ InTo(g, p, m) \subseteq edges
  BY DEF Expanding, Asked
<1>2. C = Reached(g, p, B)
  BY WithinNext
<1>. HIDE DEF B, C
<1>3. \A m \in B : m \in VisibleNodes(g, p)
  BY <1>1 DEF Seeable, FoundNode
<1>4. EdgesAt(g, p, B) \subseteq edges
  BY <1>1 DEF EdgesAt, OutOf, InTo
<1>5. ASSUME NEW m \in C PROVE m \in nodes
  <2>1. CASE m \in B
    BY <1>1, <2>1
  <2>2. CASE m \notin B
    <3>1. PICK e \in g.edges : /\ m \in VisibleNodes(g, p) /\ m \in {e.src, e.dst}
                               /\ {e.src, e.dst} \cap B # {}
      BY <1>2, <1>5, <2>2 DEF Reached
    <3>2. {e.src, e.dst} \subseteq VisibleNodes(g, p)
      BY <1>3, <2>2, <3>1
    <3>3. e \in edges
      BY <1>4, <3>1, <3>2 DEF EdgesAt
    <3>4. QED
      BY <3>1, <3>3 DEF EndsOf
  <2>3. QED
    BY <2>1, <2>2
<1>6. QED
  BY <1>1, <1>4, <1>5 DEF B, C

\* The next layer begins.
LEMMA NextLayer ==
  ASSUME NEW g, Linked(g), NEW p, NEW start, NEW k \in Nat, NEW nodes, NEW edges, NEW next \in Seq(nodes),
         Expanding(g, p, start, k, nodes, edges, <<>>, next),
         nodes \in SUBSET Node, nodes \subseteq Seeable(g, p), EndsOf(edges) \subseteq nodes
  PROVE  Expanding(g, p, start, k + 1, nodes, edges, Queries(next, ExportKinds), <<>>)
<1>. DEFINE B == Within(g, p, start, k)
            C == Within(g, p, start, k + 1)
            D == Within(g, p, start, (k + 1) + 1)
            todo == Queries(next, ExportKinds)
<1>1. edges = EdgesAt(g, p, B) /\ nodes = C
  BY LayerDone
<1>2. /\ nodes = B \cup Range(next)
      /\ \A m \in B : OutOf(g, p, m) \subseteq edges /\ InTo(g, p, m) \subseteq edges
  BY DEF Expanding, Asked
<1>3. B \subseteq C /\ C \subseteq D
  <2>1. k + 1 \in Nat /\ (k + 1) + 1 \in Nat /\ k <= k + 1 /\ k + 1 <= (k + 1) + 1
    OBVIOUS
  <2>2. B \subseteq C
    BY <2>1, WithinGrows
  <2>3. C \subseteq D
    BY <2>1, WithinGrows
  <2>4. QED
    BY <2>2, <2>3
<1>. HIDE DEF B, C, D
<1>4. edges \subseteq EdgesAt(g, p, C)
  BY <1>1, <1>3 DEF EdgesAt
<1>5. \A i \in DOMAIN todo : todo[i][1] \in C
  <2>1. {"out", "in"} \in SUBSET Kinds /\ ExportKinds \in Seq({"out", "in"}) /\ Len(ExportKinds) <= 3
    BY DEF Kinds, ExportKinds
  <2>2. \A i \in DOMAIN todo : todo[i][1] \in nodes
    BY <2>1, QueriesAbout
  <2>3. QED
    BY <1>1, <2>2
<1>6. ASSUME NEW m \in C
      PROVE  /\ Asked(OutOf(g, p, m), edges, todo, <<m, "out">>)
             /\ Asked(InTo(g, p, m), edges, todo, <<m, "in">>)
  <2>1. CASE m \in B
    BY <1>2, <2>1 DEF Asked
  <2>2. CASE m \notin B
    <3>1. PICK j \in DOMAIN next : m = next[j]
      BY <1>1, <1>2, <2>2 DEF Range
    <3>2. j \in 1 .. Len(next)
      OBVIOUS
    <3>3. \A d \in {"out", "in"} : \E i \in DOMAIN todo : todo[i] = <<next[j], d>>
      BY <3>2, QueriesAsk
    <3>4. QED
      BY <3>1, <3>3 DEF Asked
  <2>3. QED
    BY <2>1, <2>2
<1>7. Range(<<>>) = {}
  BY DEF Range
<1>. HIDE DEF todo
<1>8. QED
  BY <1>1, <1>3, <1>4, <1>5, <1>6, <1>7 DEF Expanding, C, D, todo

\* The first layer begins.
LEMMA FirstLayer ==
  ASSUME NEW g, NEW p, NEW start \in Node
  PROVE  Expanding(g, p, start, 0, {start}, {}, Queries(<<start>>, ExportKinds), <<>>)
<1>. DEFINE B == Within(g, p, start, 0)
            todo == Queries(<<start>>, ExportKinds)
<1>1. B = {start} /\ Within(g, p, start, 0) \subseteq Within(g, p, start, 0 + 1)
  BY WithinNone, WithinGrows
<1>2. \A i \in DOMAIN todo : todo[i][1] \in {start}
  <2>1. /\ {"out", "in"} \in SUBSET Kinds /\ ExportKinds \in Seq({"out", "in"}) /\ Len(ExportKinds) <= 3
        /\ {start} \in SUBSET Node /\ <<start>> \in Seq({start})
    BY DEF Kinds, ExportKinds
  <2>2. QED
    BY <2>1, QueriesAbout
<1>3. \A d \in {"out", "in"} : \E i \in DOMAIN todo : todo[i] = <<start, d>>
  <2>1. <<start>> \in Seq({start}) /\ 1 \in 1 .. Len(<<start>>) /\ <<start>>[1] = start
    OBVIOUS
  <2>2. \A d \in {"out", "in"} : \E i \in DOMAIN todo : todo[i] = << <<start>>[1], d>>
    BY <2>1, QueriesAsk
  <2>3. QED
    BY <2>1, <2>2
<1>4. Range(<<>>) = {}
  BY DEF Range
<1>. HIDE DEF todo
<1>5. QED
  BY <1>1, <1>2, <1>3, <1>4 DEF Expanding, Asked, todo

\* The export ends where it may: at its depth, or with nothing new to expand.
LEMMA LastLayer ==
  ASSUME NEW g, Linked(g), NEW p, NEW start, NEW k \in Nat, NEW nodes, NEW edges, NEW next,
         Expanding(g, p, start, k, nodes, edges, <<>>, next),
         nodes \subseteq Seeable(g, p), EndsOf(edges) \subseteq nodes,
         NEW m \in Nat, k <= m, k = m \/ next = <<>>
  PROVE  edges = EdgesAt(g, p, Within(g, p, start, m))
<1>1. /\ edges = EdgesAt(g, p, Within(g, p, start, k))
      /\ nodes = Within(g, p, start, k + 1)
  BY LayerDone
<1>2. CASE k = m
  BY <1>1, <1>2
<1>3. CASE next = <<>>
  <2>1. Range(<<>>) = {}
    BY DEF Range
  <2>2. nodes = Within(g, p, start, k)
    BY <1>3, <2>1 DEF Expanding
  <2>3. Within(g, p, start, k + 1) = Within(g, p, start, k)
    BY <1>1, <2>2
  <2>4. Within(g, p, start, m) = Within(g, p, start, k)
    BY <2>3, WithinStill
  <2>5. QED
    BY <1>1, <2>4
<1>4. QED
  BY <1>2, <1>3

-----------------------------------------------------------------------------
(* The steps of an export. *)

\* An answer that has read one graph only.
Steady(r) == r.answer.since > 0 /\ r.answer.since = r.answer.until

\* The layer an export is at, in the graph it has read.
AtLayer(h, r) ==
  Expanding(h[r.answer.since], r.principal, r.arg, ExportDepth - r.depth,
            r.answer.nodes, r.answer.edges, r.todo, r.next)

Exported(h, r) ==
  r.answer.edges = EdgesAt(h[r.answer.since], r.principal,
                           Within(h[r.answer.since], r.principal, r.arg, ExportDepth - 1))

Full(r) == Cardinality(r.answer.edges) = MaxEdges

ExportOK(h, r) ==
  r.tool = "export" =>
    /\ r.pc \notin {"lookup", "fill"}
    /\ r.pc = "open" => r.depth = ExportDepth /\ r.answer.since = 0
    /\ r.pc = "query" =>
         /\ r.depth \in 1 .. ExportDepth
         /\ \A i \in DOMAIN r.todo : r.todo[i][2] \in {"out", "in"}
         /\ Steady(r) => /\ IsFiniteSet(r.answer.edges) /\ Cardinality(r.answer.edges) <= MaxEdges
                         /\ Full(r) \/ AtLayer(h, r)
    /\ r.pc = "done" /\ Steady(r) => Full(r) \/ Exported(h, r)

\* What makes ExportComplete inductive.
ExportInv == \A c \in Caller : ExportOK(history, call[c])

\* Some call moves on.
LEMMA ExportMoves ==
  ASSUME AnswerInv, ExportInv, NEW c \in Caller, NEW to, Goto(c, to), ExportOK(history, to), history' = history
  PROVE  ExportInv'
<1>1. call'[c] = to /\ \A d \in Caller : d # c => call'[d] = call[d]
  BY DEF Goto, AnswerInv
<1>2. QED
  BY <1>1 DEF ExportInv

\* A call of another tool moves on.
LEMMA OthersMove ==
  ASSUME AnswerInv, ExportInv, NEW c \in Caller, NEW to, Goto(c, to), to.tool # "export", history' = history
  PROVE  ExportInv'
BY ExportMoves DEF ExportOK

\* The one graph of a steady answer, and what is known of it.
LEMMA SteadyGraph ==
  ASSUME NEW h, h \in Seq(Tables), NEW r, CallOK(h, r), Steady(r)
  PROVE  /\ r.answer.since \in 1 .. Len(h) /\ h[r.answer.since] \in Tables /\ Linked(h[r.answer.since])
         /\ IsFiniteSet(h[r.answer.since].edges)
         /\ r.answer.nodes \subseteq Seeable(h[r.answer.since], r.principal)
         /\ r.answer.nodes \subseteq Node
         /\ EndsOf(r.answer.edges) \subseteq r.answer.nodes
<1>. DEFINE a == r.answer
            g == h[a.since]
<1>1. AnswerOK(h, a) /\ AnswerTrue(h, a, r.principal, r.tool) /\ a.since > 0 /\ a.since = a.until
  BY DEF CallOK, Steady
<1>2. a.since \in 1 .. Len(h)
  BY <1>1 DEF AnswerOK
<1>3. g \in Tables
  BY <1>2
<1>4. Linked(g) /\ IsFiniteSet(g.edges)
  BY <1>3, TablesAssumption
<1>5. \A i \in a.since .. a.until : i = a.since
  BY <1>1, <1>2
<1>6. \A n \in a.nodes : FoundNode(g, r.principal, n)
  BY <1>1, <1>5 DEF AnswerTrue
<1>7. \A n \in a.nodes : n \in g.nodes
  BY <1>6 DEF FoundNode
<1>8. \A e \in a.edges : e.src \in a.nodes /\ e.dst \in a.nodes
  BY <1>1 DEF AnswerTrue
<1>9. EndsOf(a.edges) \subseteq a.nodes
  BY <1>8 DEF EndsOf
<1>10. a.nodes \subseteq Node
  BY <1>1 DEF AnswerOK
<1>. HIDE DEF g, a
<1>11. a.nodes \subseteq Seeable(g, r.principal)
  BY <1>6, <1>7 DEF Seeable
<1>12. QED
  BY <1>2, <1>3, <1>4, <1>9, <1>10, <1>11 DEF g, a

\* A call begins.
LEMMA ExportBegins ==
  ASSUME AnswerInv, ExportInv, NEW c \in Caller, Begin(c)
  PROVE  ExportInv'
<1>1. PICK subject \in Subject, tool \in workload.tools[c] :
        \E arg \in IF tool \in AtNode THEN Args ELSE {0} :
          Goto(c, [Idle EXCEPT !.pc        = IF tool \in Cached THEN "lookup" ELSE "open",
                               !.tool      = tool,
                               !.arg       = arg,
                               !.principal = Resolve(subject),
                               !.version   = version,
                               !.depth     = IF tool = "export" THEN ExportDepth ELSE 1,
                               !.owed      = covered])
  BY DEF Begin
<1>2. PICK arg : Goto(c, [Idle EXCEPT !.pc        = IF tool \in Cached THEN "lookup" ELSE "open",
                                     !.tool      = tool,
                                     !.arg       = arg,
                                     !.principal = Resolve(subject),
                                     !.version   = version,
                                     !.depth     = IF tool = "export" THEN ExportDepth ELSE 1,
                                     !.owed      = covered])
  BY <1>1
<1>. DEFINE to == [Idle EXCEPT !.pc        = IF tool \in Cached THEN "lookup" ELSE "open",
                               !.tool      = tool,
                               !.arg       = arg,
                               !.principal = Resolve(subject),
                               !.version   = version,
                               !.depth     = IF tool = "export" THEN ExportDepth ELSE 1,
                               !.owed      = covered]
<1>3. Goto(c, to) /\ history' = history
  BY <1>2 DEF Begin
<1>4. to.tool = "export" => to.pc = "open" /\ to.depth = ExportDepth /\ to.answer.since = 0
  BY DEF Idle, NoAnswer, Cached
<1>. HIDE DEF to
<1>5. ExportOK(history, to)
  BY <1>4 DEF ExportOK
<1>6. QED
  BY <1>3, <1>5, ExportMoves

\* The steps that only move the pc of a call.
LEMMA ExportPasses ==
  ASSUME AnswerInv, ExportInv, NEW c \in Caller, NEW pc, Goto(c, [call[c] EXCEPT !.pc = pc]), history' = history,
         call[c].tool = "export" => \/ pc = "error"
                                    \/ pc = "done" /\ (Steady(call[c]) => Full(call[c]) \/ Exported(history, call[c]))
  PROVE  ExportInv'
<1>. DEFINE to == [call[c] EXCEPT !.pc = pc]
<1>1. Fields \subseteq DOMAIN call[c]
  BY DEF AnswerInv, CallOK
<1>2. /\ to.pc = pc /\ to.tool = call[c].tool /\ to.answer = call[c].answer /\ to.principal = call[c].principal
      /\ to.arg = call[c].arg
  BY <1>1 DEF Fields
<1>3. Goto(c, to)
  OBVIOUS
<1>. HIDE DEF to
<1>4. ExportOK(history, to)
  BY <1>2 DEF ExportOK, Steady, Full, Exported
<1>5. QED
  BY <1>3, <1>4, ExportMoves

\* The first statement of another tool.
LEMMA OthersOpen ==
  ASSUME AnswerInv, ExportInv, NEW c \in Caller, call[c].tool # "export", Tool(c)
  PROVE  ExportInv'
<1>1. Fields \subseteq DOMAIN call[c] /\ history' = history
  BY DEF AnswerInv, CallOK, Tool, SearchTool, AskTool, HybridTool, NodeDetails, EntityTimeline, NodeStory,
         NodeNeighbors, TraverseGraphPath, FindConnection, ExportSubgraph, GraphStats, StaleTool, RecentChanges,
         OpenSearch, OpenListing, AboutNode, OpenNode
<1>2. ASSUME NEW rows, NEW plan,
             Goto(c, [call[c] EXCEPT !.pc = "query", !.answer = Found(rows), !.todo = plan])
      PROVE  ExportInv'
  <2>. DEFINE to == [call[c] EXCEPT !.pc = "query", !.answer = Found(rows), !.todo = plan]
  <2>1. to.tool = call[c].tool /\ Goto(c, to)
    BY <1>1, <1>2 DEF Fields
  <2>. HIDE DEF to
  <2>2. QED
    BY <1>1, <2>1, OthersMove
<1>3. ASSUME NEW pc, Goto(c, [call[c] EXCEPT !.pc = pc]) PROVE ExportInv'
  BY <1>1, <1>3, ExportPasses
<1>4. ASSUME NEW tool, NEW plans, OpenNode(c, tool, plans) PROVE ExportInv'
  BY <1>2, <1>3, <1>4 DEF OpenNode
<1>5. ASSUME NEW tool, NEW listings, NEW plan, OpenListing(c, tool, listings, plan) PROVE ExportInv'
  BY <1>2, <1>5 DEF OpenListing
<1>6. ASSUME NEW tool, NEW kinds, OpenSearch(c, tool, kinds) PROVE ExportInv'
  BY <1>3, <1>5, <1>6 DEF OpenSearch
<1>7. CASE SearchTool(c) \/ AskTool(c)
  BY <1>6, <1>7 DEF SearchTool, AskTool
<1>8. CASE HybridTool(c) \/ GraphStats(c) \/ StaleTool(c) \/ RecentChanges(c)
  BY <1>5, <1>8 DEF HybridTool, GraphStats, StaleTool, RecentChanges
<1>9. CASE \/ NodeDetails(c) \/ EntityTimeline(c) \/ NodeStory(c) \/ NodeNeighbors(c) \/ TraverseGraphPath(c)
           \/ ExportSubgraph(c) \/ FindConnection(c)
  BY <1>4, <1>9
     DEF NodeDetails, EntityTimeline, NodeStory, NodeNeighbors, TraverseGraphPath, ExportSubgraph,
         FindConnection, AboutNode
<1>10. QED
  BY <1>7, <1>8, <1>9 DEF Tool

\* The first statement of an export: the layer of its node begins.
LEMMA ExportOpens ==
  ASSUME AnswerInv, ExportInv, NEW c \in Caller, call[c].tool = "export", Tool(c)
  PROVE  ExportInv'
<1>. DEFINE p == call[c].principal
            arg == call[c].arg
            plan == Queries(<<arg>>, ExportKinds)
<1>1. OpenNode(c, "export", {plan})
  BY DEF Tool, SearchTool, AskTool, HybridTool, NodeDetails, EntityTimeline, NodeStory,
         NodeNeighbors, TraverseGraphPath, FindConnection, ExportSubgraph, GraphStats, StaleTool, RecentChanges,
         OpenSearch, OpenListing, AboutNode, OpenNode
<1>2. call[c].pc = "open" /\ history' = history
  BY <1>1 DEF OpenNode
<1>3. /\ Fields \subseteq DOMAIN call[c] /\ call[c].next = <<>>
      /\ call[c].depth = ExportDepth /\ call[c].answer.since = 0
  BY <1>2 DEF AnswerInv, CallOK, ExportInv, ExportOK
<1>. HIDE DEF plan
<1>4. CASE FoundNode(Graph, p, arg)
  <2>. DEFINE to == [call[c] EXCEPT !.pc = "query", !.answer = Found({arg}), !.todo = plan]
  <2>1. Goto(c, to)
    BY <1>1, <1>4 DEF OpenNode
  <2>2. /\ to.pc = "query" /\ to.answer = Found({arg}) /\ to.todo = plan /\ to.next = <<>>
        /\ to.depth = ExportDepth /\ to.principal = p /\ to.arg = arg
    BY <1>3 DEF Fields
  <2>3. /\ Found({arg}).nodes = {arg} /\ Found({arg}).edges = {} /\ Found({arg}).since = Now
    BY DEF Found, NoAnswer
  <2>4. Linked(Graph) /\ Graph = history[Now]
    BY GraphIs
  <2>5. arg \in Node
    BY <1>4, <2>4 DEF FoundNode, Linked
  <2>6. \A i \in DOMAIN plan : plan[i][2] \in {"out", "in"}
    <3>1. /\ {"out", "in"} \in SUBSET Kinds /\ ExportKinds \in Seq({"out", "in"}) /\ Len(ExportKinds) <= 3
          /\ {arg} \in SUBSET Node /\ <<arg>> \in Seq({arg})
      BY <2>5 DEF Kinds, ExportKinds
    <3>2. QED
      BY <3>1, QueriesAbout DEF plan
  <2>7. Expanding(Graph, p, arg, 0, {arg}, {}, plan, <<>>)
    BY <2>5, FirstLayer DEF plan
  <2>8. ExportDepth - to.depth = 0 /\ to.depth \in 1 .. ExportDepth /\ MaxEdges \in Nat
    BY <2>2, BoundsAssumption
  <2>9. IsFiniteSet({}) /\ Cardinality({}) = 0
    BY FS_EmptySet
  <2>. HIDE DEF to, p, arg
  <2>10. AtLayer(history, to)
    BY <2>2, <2>3, <2>4, <2>7, <2>8 DEF AtLayer
  <2>11. to.answer.edges = {}
    BY <2>2, <2>3
  <2>12. IsFiniteSet(to.answer.edges) /\ Cardinality(to.answer.edges) <= MaxEdges
    BY <2>8, <2>9, <2>11
  <2>13. ExportOK(history, to)
    BY <2>2, <2>6, <2>8, <2>10, <2>12 DEF ExportOK
  <2>14. QED
    BY <1>2, <2>1, <2>13, ExportMoves
<1>5. CASE ~ FoundNode(Graph, p, arg)
  <2>1. Goto(c, [call[c] EXCEPT !.pc = "done"])
    BY <1>1, <1>5 DEF OpenNode
  <2>2. ~ Steady(call[c])
    BY <1>3 DEF Steady
  <2>3. QED
    BY <1>2, <2>1, <2>2, ExportPasses
<1>6. QED
  BY <1>4, <1>5

\* A statement of another tool.
LEMMA OthersQuery ==
  ASSUME AnswerInv, ExportInv, NEW c \in Caller, call[c].tool # "export", Query(c)
  PROVE  ExportInv'
<1>1. Fields \subseteq DOMAIN call[c] /\ history' = history
  BY DEF AnswerInv, CallOK, Query
<1>2. ASSUME NEW a, NEW todo, Goto(c, [call[c] EXCEPT !.answer = a, !.todo = todo]) PROVE ExportInv'
  <2>. DEFINE to == [call[c] EXCEPT !.answer = a, !.todo = todo]
  <2>1. to.tool = call[c].tool /\ Goto(c, to)
    BY <1>1, <1>2 DEF Fields
  <2>. HIDE DEF to
  <2>2. QED
    BY <1>1, <2>1, OthersMove
<1>3. ASSUME NEW a, NEW todo, NEW next, Goto(c, [call[c] EXCEPT !.answer = a, !.todo = todo, !.next = next])
      PROVE  ExportInv'
  <2>. DEFINE to == [call[c] EXCEPT !.answer = a, !.todo = todo, !.next = next]
  <2>1. to.tool = call[c].tool /\ Goto(c, to)
    BY <1>1, <1>3 DEF Fields
  <2>. HIDE DEF to
  <2>2. QED
    BY <1>1, <2>1, OthersMove
<1>4. ASSUME NEW pc, NEW a, NEW todo, Goto(c, [call[c] EXCEPT !.pc = pc, !.answer = a, !.todo = todo])
      PROVE  ExportInv'
  <2>. DEFINE to == [call[c] EXCEPT !.pc = pc, !.answer = a, !.todo = todo]
  <2>1. to.tool = call[c].tool /\ Goto(c, to)
    BY <1>1, <1>4 DEF Fields
  <2>. HIDE DEF to
  <2>2. QED
    BY <1>1, <2>1, OthersMove
<1>5. CASE \E n, direction : ReadNeighbors(c, n, direction)
  BY <1>3, <1>5 DEF ReadNeighbors
<1>6. CASE \E kind, target : ReadPaths(c, kind, target)
  BY <1>2, <1>4, <1>6 DEF ReadPaths
<1>7. CASE \E a, todo : Goto(c, [call[c] EXCEPT !.answer = a, !.todo = todo])
  BY <1>2, <1>7
<1>8. CASE \E n, kind : ReadUnscoped(c, n, kind)
  BY <1>2, <1>8 DEF ReadUnscoped
<1>9. QED
  BY <1>5, <1>6, <1>7, <1>8 DEF Query

\* (What a statement makes of the answer.)
LEMMA SeenIs ==
  ASSUME NEW c, {"nodes", "edges", "docs", "since", "until"} \subseteq DOMAIN call[c].answer, NEW N, NEW E, NEW D
  PROVE  /\ Seen(c, N, E, D).nodes = call[c].answer.nodes \cup N
         /\ Seen(c, N, E, D).edges = call[c].answer.edges \cup E
         /\ Seen(c, N, E, D).since = call[c].answer.since
         /\ Seen(c, N, E, D).until = Now
<1>. DEFINE a == call[c].answer
<1>. HIDE DEF a
<1>1. Seen(c, N, E, D) = [a EXCEPT !.nodes = a.nodes \cup N, !.edges = a.edges \cup E,
                                   !.docs = a.docs \cup D, !.until = Now]
  BY DEF Seen, a
<1>2. {"nodes", "edges", "docs", "since", "until"} \subseteq DOMAIN a
  BY DEF a
<1>3. QED
  BY <1>1, <1>2 DEF a

\* A statement of an export, at node n in one direction.
EdgesOf(p, n, dir) == IF dir = "out" THEN OutOf(Graph, p, n) ELSE InTo(Graph, p, n)

Exports(c, n, dir) ==
  LET known == call[c].answer.edges
  IN  \E rows \in LimitedTo(EdgesOf(call[c].principal, n, dir), MaxEdges) :
      \E new \in LimitedTo(rows \ known, MaxEdges - Cardinality(known)) :
      \E order \in SetToSeqs(EndsOf(new) \ call[c].answer.nodes) :
        Goto(c, [call[c] EXCEPT !.answer = Seen(c, EndsOf(new), new, {}),
                                !.todo = Tail(call[c].todo), !.next = call[c].next \o order])

\* An export has no other statements.
LEMMA ExportReads ==
  ASSUME AnswerInv, ExportInv, NEW c \in Caller, call[c].tool = "export", Query(c)
  PROVE  \E n : \E dir \in {"out", "in"} : call[c].todo[1] = <<n, dir>> /\ Exports(c, n, dir)
<1>. DEFINE q == Head(call[c].todo)
            p == call[c].principal
<1>1. call[c].pc = "query" /\ call[c].todo # <<>>
  BY DEF Query
<1>2. call[c].todo \in Seq((Node \cup {0}) \X Kinds)
  BY <1>1, InQuery DEF TodoOK
<1>3. q = call[c].todo[1] /\ 1 \in DOMAIN call[c].todo /\ q \in (Node \cup {0}) \X Kinds
  BY <1>1, <1>2, RestIs
<1>4. q[2] \in {"out", "in"}
  BY <1>1, <1>3 DEF ExportInv, ExportOK
<1>5. q = <<q[1], q[2]>>
  BY <1>3
<1>. HIDE DEF q
<1>6. DocumentsBehind(c, q[1], q[2]) = {}
  BY <1>4 DEF DocumentsBehind
<1>7. ~ ReadPaths(c, q[2], q[1]) /\ ~ ReadUnscoped(c, q[1], q[2])
  BY <1>4 DEF ReadPaths, ReadUnscoped
<1>8. ReadNeighbors(c, q[1], q[2])
  BY <1>4, <1>6, <1>7 DEF Query, q
<1>9. LimitedTo(EdgesOf(p, q[1], q[2]), MaxEdges) = IF q[2] = "out" THEN Outgoing(Graph, p, q[1], MaxEdges)
                                                                  ELSE Incoming(Graph, p, q[1], MaxEdges)
  <2>1. Outgoing(Graph, p, q[1], MaxEdges) = LimitedTo(OutOf(Graph, p, q[1]), MaxEdges)
    BY DEF Outgoing, OutOf
  <2>2. Incoming(Graph, p, q[1], MaxEdges) = LimitedTo(InTo(Graph, p, q[1]), MaxEdges)
    BY DEF Incoming, InTo
  <2>3. QED
    BY <2>1, <2>2 DEF EdgesOf
<1>10. Exports(c, q[1], q[2])
  BY <1>8, <1>9 DEF ReadNeighbors, EndsOf, Exports
<1>11. QED
  BY <1>3, <1>4, <1>5, <1>10

\* A statement of an export.
LEMMA ExportQueries ==
  ASSUME AnswerInv, ExportInv, NEW c \in Caller, call[c].tool = "export", Query(c)
  PROVE  ExportInv'
<1>. DEFINE r == call[c]
            p == r.principal
            known == r.answer.edges
            g == history[r.answer.since]
<1>1. r.pc = "query" /\ r.todo # <<>> /\ history' = history
  BY DEF Query
<1>2. PICK n, dir : dir \in {"out", "in"} /\ r.todo[1] = <<n, dir>> /\ Exports(c, n, dir)
  BY ExportReads
<1>. DEFINE all == EdgesOf(p, n, dir)
<1>2a. PICK rows \in LimitedTo(all, MaxEdges) :
         \E new \in LimitedTo(rows \ known, MaxEdges - Cardinality(known)) :
         \E order \in SetToSeqs(EndsOf(new) \ r.answer.nodes) :
           Goto(c, [r EXCEPT !.answer = Seen(c, EndsOf(new), new, {}),
                             !.todo = Tail(r.todo), !.next = r.next \o order])
  BY <1>2 DEF Exports
<1>2b. PICK new \in LimitedTo(rows \ known, MaxEdges - Cardinality(known)) :
         \E order \in SetToSeqs(EndsOf(new) \ r.answer.nodes) :
           Goto(c, [r EXCEPT !.answer = Seen(c, EndsOf(new), new, {}),
                             !.todo = Tail(r.todo), !.next = r.next \o order])
  BY <1>2a
<1>3. PICK order \in SetToSeqs(EndsOf(new) \ r.answer.nodes) :
        Goto(c, [r EXCEPT !.answer = Seen(c, EndsOf(new), new, {}),
                          !.todo = Tail(r.todo), !.next = r.next \o order])
  BY <1>2b
<1>. DEFINE N == EndsOf(new)
            next == r.next \o order
            to == [r EXCEPT !.answer = Seen(c, N, new, {}), !.todo = Tail(r.todo), !.next = next]
<1>4. /\ Fields \subseteq DOMAIN r /\ CallOK(history, r) /\ TodoOK(r) /\ AnswerOK(history, r.answer)
      /\ AnswerTrue(history, r.answer, p, r.tool) /\ r.answer.since > 0
  BY <1>1, InQuery DEF AnswerInv
<1>5. Goto(c, to)
  BY <1>3
<1>6. /\ to.pc = "query" /\ to.answer = Seen(c, N, new, {}) /\ to.todo = Tail(r.todo) /\ to.next = next
      /\ to.depth = r.depth /\ to.principal = p /\ to.arg = r.arg /\ to.tool = r.tool
  <2>. HIDE DEF N, next
  <2>1. QED
    BY <1>1, <1>4 DEF Fields
<1>. HIDE DEF to
<1>7. /\ to.answer.nodes = r.answer.nodes \cup N /\ to.answer.edges = known \cup new
      /\ to.answer.since = r.answer.since /\ to.answer.until = Now
  BY <1>4, <1>6, SeenIs DEF AnswerOK
<1>8. /\ r.depth \in 1 .. ExportDepth
      /\ \A i \in DOMAIN r.todo : r.todo[i][2] \in {"out", "in"}
      /\ Steady(r) => /\ IsFiniteSet(known) /\ Cardinality(known) <= MaxEdges
                      /\ Full(r) \/ AtLayer(history, r)
  BY <1>1 DEF ExportInv, ExportOK
<1>9. \A i \in DOMAIN to.todo : to.todo[i][2] \in {"out", "in"}
  <2>. DEFINE T == (Node \cup {0}) \X Kinds
  <2>1. r.todo \in Seq(T)
    BY <1>4 DEF TodoOK
  <2>. HIDE DEF T, r
  <2>2. \A k \in DOMAIN Tail(r.todo) : k + 1 \in DOMAIN r.todo /\ Tail(r.todo)[k] = r.todo[k + 1]
    BY <1>1, <2>1, RestIs
  <2>3. QED
    BY <1>6, <1>8, <2>2
<1>10. ASSUME Steady(to)
       PROVE  /\ IsFiniteSet(to.answer.edges) /\ Cardinality(to.answer.edges) <= MaxEdges
              /\ Full(to) \/ AtLayer(history, to)
  <2>1. r.answer.since = Now
    BY <1>7, <1>10 DEF Steady
  <2>2. Now \in Nat /\ Now >= 1 /\ Graph = history[Now] /\ history \in Seq(Tables)
    BY GraphIs DEF AnswerInv
  <2>3. Steady(r)
    BY <1>4, <2>1, <2>2 DEF Steady, AnswerOK, AnswerTrue, Now
  <2>4. g = Graph
    BY <2>1, <2>2
  <2>5. /\ Linked(g) /\ IsFiniteSet(g.edges) /\ r.answer.nodes \subseteq Seeable(g, p)
    BY <1>4, <2>2, <2>3, SteadyGraph
  <2>6. IsFiniteSet(known) /\ Cardinality(known) <= MaxEdges /\ (Full(r) \/ AtLayer(history, r))
    BY <1>8, <2>3
  <2>7. IsFiniteSet(all)
    <3>1. all \subseteq g.edges
      BY <2>4 DEF EdgesOf, OutOf, InTo
    <3>. HIDE DEF all, g
    <3>2. QED
      BY <2>5, <3>1, FS_Subset
  <2>8. /\ new \subseteq all /\ IsFiniteSet(known \cup new) /\ Cardinality(known \cup new) <= MaxEdges
        /\ Cardinality(known \cup new) = MaxEdges \/ all \subseteq known \cup new
        /\ Cardinality(known) = MaxEdges => new = {}
    <3>. HIDE DEF all, known
    <3>1. MaxEdges \in Nat
      BY BoundsAssumption
    <3>2. QED
      BY <2>6, <2>7, <3>1, ReadFills
  <2>9. CASE Cardinality(known \cup new) = MaxEdges
    BY <1>7, <2>8, <2>9 DEF Full
  <2>10. CASE Cardinality(known \cup new) # MaxEdges
    <3>1. all \subseteq known \cup new
      BY <2>8, <2>10
    <3>2. ~ Full(r)
      <4>1. SUFFICES ASSUME Cardinality(known) = MaxEdges PROVE FALSE
        BY DEF Full
      <4>2. known \cup new = known
        BY <2>8, <4>1
      <4>3. QED
        BY <2>10, <4>1, <4>2
    <3>. DEFINE k == ExportDepth - r.depth
                T == (Node \cup {0}) \X Kinds
    <3>3. k \in Nat
      BY <1>8, BoundsAssumption
    <3>4. Expanding(g, p, r.arg, k, r.answer.nodes, known, r.todo, r.next)
      BY <2>6, <3>2 DEF AtLayer
    <3>5. r.todo \in Seq(T) /\ r.next \in Seq(r.answer.nodes)
      BY <1>4 DEF TodoOK
    <3>6. all = IF dir = "out" THEN OutOf(g, p, n) ELSE InTo(g, p, n)
      BY <2>4 DEF EdgesOf
    <3>7. r.todo # <<>> /\ r.todo[1] = <<n, dir>>
      BY <1>1, <1>2
    <3>. HIDE DEF k, T, all, g, known, r, p
    <3>8. Expanding(g, p, r.arg, k, r.answer.nodes \cup N, known \cup new, Tail(r.todo), r.next \o order)
      BY <1>2, <2>5, <2>8, <3>1, <3>3, <3>4, <3>5, <3>6, <3>7, ExpandRead
    <3>9. AtLayer(history, to)
      BY <1>6, <1>7, <3>8 DEF AtLayer, k, g
    <3>10. QED
      BY <1>7, <2>8, <3>9
  <2>11. QED
    BY <2>9, <2>10
<1>11. ExportOK(history, to)
  BY <1>6, <1>8, <1>9, <1>10 DEF ExportOK
<1>12. QED
  BY <1>1, <1>5, <1>11, ExportMoves

\* The next layer of an export.
LEMMA ExportDeepens ==
  ASSUME AnswerInv, ExportInv, NEW c \in Caller, Deepen(c)
  PROVE  ExportInv'
<1>. DEFINE r == call[c]
            p == r.principal
            A == r.answer.nodes
            E == r.answer.edges
            g == history[r.answer.since]
            plan == Queries(r.next, ExportKinds)
            depth == r.depth - 1
            to == [r EXCEPT !.todo = plan, !.next = <<>>, !.depth = depth]
<1>1. /\ r.pc = "query" /\ r.tool = "export" /\ r.todo = <<>> /\ r.depth > 1 /\ history' = history
      /\ Goto(c, to)
  BY DEF Deepen
<1>2. Fields \subseteq DOMAIN r /\ CallOK(history, r) /\ r.next \in Seq(A) /\ A \in SUBSET Node
  BY <1>1, InQuery DEF AnswerInv, TodoOK
<1>3. \A i \in DOMAIN plan : plan[i][2] \in {"out", "in"}
  <2>1. {"out", "in"} \in SUBSET Kinds /\ ExportKinds \in Seq({"out", "in"}) /\ Len(ExportKinds) <= 3
    BY DEF Kinds, ExportKinds
  <2>2. QED
    BY <1>2, <2>1, QueriesAbout
<1>. HIDE DEF plan
<1>4. /\ to.pc = "query" /\ to.tool = "export" /\ to.answer = r.answer /\ to.principal = p /\ to.arg = r.arg
      /\ to.todo = plan /\ to.next = <<>> /\ to.depth = depth
  BY <1>1, <1>2 DEF Fields
<1>. HIDE DEF to
<1>5. /\ r.depth \in 1 .. ExportDepth
      /\ Steady(r) => /\ IsFiniteSet(E) /\ Cardinality(E) <= MaxEdges
                      /\ Full(r) \/ AtLayer(history, r)
  BY <1>1 DEF ExportInv, ExportOK
<1>6. /\ depth \in 1 .. ExportDepth /\ ExportDepth - r.depth \in Nat
      /\ ExportDepth - depth = (ExportDepth - r.depth) + 1
  BY <1>1, <1>5, BoundsAssumption
<1>7. ASSUME Steady(r), AtLayer(history, r) PROVE AtLayer(history, to)
  <2>. DEFINE k == ExportDepth - r.depth
  <2>1. /\ Linked(g) /\ A \subseteq Seeable(g, p) /\ EndsOf(E) \subseteq A
    BY <1>2, <1>7, SteadyGraph DEF AnswerInv
  <2>2. Expanding(g, p, r.arg, k, A, E, <<>>, r.next) /\ k \in Nat
    BY <1>1, <1>6, <1>7 DEF AtLayer
  <2>. HIDE DEF k, g, r, p, A, E
  <2>3. Expanding(g, p, r.arg, k + 1, A, E, Queries(r.next, ExportKinds), <<>>)
    BY <1>2, <2>1, <2>2, NextLayer
  <2>4. QED
    BY <1>4, <1>6, <2>3 DEF AtLayer, plan, k, g, A, E
<1>8. Steady(to) => Steady(r) /\ (Full(r) => Full(to))
  BY <1>4 DEF Steady, Full
<1>. HIDE DEF r, A, E, g, depth
<1>9. ASSUME Steady(to)
      PROVE  /\ IsFiniteSet(to.answer.edges) /\ Cardinality(to.answer.edges) <= MaxEdges
             /\ Full(to) \/ AtLayer(history, to)
  BY <1>4, <1>5, <1>7, <1>8, <1>9 DEF E
<1>10. ExportOK(history, to)
  BY <1>3, <1>4, <1>6, <1>9 DEF ExportOK
<1>11. QED
  BY <1>1, <1>10, ExportMoves

\* An export that is done has all of its layers.
LEMMA ExportAudited ==
  ASSUME AnswerInv, ExportInv, NEW c \in Caller, Audit(c)
  PROVE  ExportInv'
<1>. DEFINE r == call[c]
            p == r.principal
            g == history[r.answer.since]
            k == ExportDepth - r.depth
            m == ExportDepth - 1
<1>1. /\ r.pc = "query" /\ r.todo = <<>> /\ history' = history
      /\ r.tool = "export" => r.depth = 1 \/ r.next = <<>>
  BY DEF Audit
<1>2. PICK pc : /\ Goto(c, [r EXCEPT !.pc = pc])
                /\ r.tool = "export" => pc \in {"done", "error"}
  <2>1. \E pc : /\ Goto(c, [call[c] EXCEPT !.pc = pc])
                /\ call[c].tool = "export" => pc \in {"done", "error"}
    BY DEF Audit, Cached
  <2>2. QED
    BY <2>1
<1>3. ASSUME r.tool = "export", Steady(r) PROVE Full(r) \/ Exported(history, r)
  <2>1. r.depth \in 1 .. ExportDepth /\ (Full(r) \/ AtLayer(history, r))
    BY <1>1, <1>3 DEF ExportInv, ExportOK
  <2>2. k \in Nat /\ m \in Nat /\ k <= m /\ (r.depth = 1 => k = m)
    BY <2>1, BoundsAssumption
  <2>3. CallOK(history, r) /\ history \in Seq(Tables)
    BY DEF AnswerInv
  <2>4. /\ Linked(g) /\ r.answer.nodes \subseteq Seeable(g, p) /\ EndsOf(r.answer.edges) \subseteq r.answer.nodes
    BY <1>3, <2>3, SteadyGraph
  <2>5. ASSUME AtLayer(history, r) PROVE Exported(history, r)
    <3>1. Expanding(g, p, r.arg, k, r.answer.nodes, r.answer.edges, <<>>, r.next)
      BY <1>1, <2>5 DEF AtLayer
    <3>2. k = m \/ r.next = <<>>
      BY <1>1, <1>3, <2>2
    <3>. HIDE DEF k, m, g, p, r
    <3>3. r.answer.edges = EdgesAt(g, p, Within(g, p, r.arg, m))
      BY <2>2, <2>4, <3>1, <3>2, LastLayer
    <3>4. QED
      BY <3>3 DEF Exported, g, p, m
  <2>6. QED
    BY <2>1, <2>5
<1>4. QED
  BY <1>1, <1>2, <1>3, ExportPasses

\* Every step of a caller.
LEMMA ExportSteps ==
  ASSUME AnswerInv, ExportInv, NEW c \in Caller, Step(c)
  PROVE  ExportInv'
<1>1. ASSUME call[c].pc \in {"lookup", "fill"} PROVE call[c].tool # "export"
  BY <1>1 DEF ExportInv, ExportOK
<1>2. Fields \subseteq DOMAIN call[c]
  BY DEF AnswerInv, CallOK
<1>3. CASE LookUp(c)
  <2>1. ASSUME NEW pc, NEW a, Goto(c, [call[c] EXCEPT !.pc = pc, !.answer = a]) PROVE ExportInv'
    <3>. DEFINE to == [call[c] EXCEPT !.pc = pc, !.answer = a]
    <3>1. to.tool = call[c].tool /\ Goto(c, to) /\ call[c].tool # "export" /\ history' = history
      BY <1>1, <1>2, <1>3, <2>1 DEF Fields, LookUp
    <3>. HIDE DEF to
    <3>2. QED
      BY <3>1, OthersMove
  <2>2. ASSUME NEW pc, Goto(c, [call[c] EXCEPT !.pc = pc]) PROVE ExportInv'
    BY <1>1, <1>3, <2>2, ExportPasses DEF LookUp
  <2>3. QED
    BY <1>3, <2>1, <2>2 DEF LookUp
<1>4. CASE Fill(c) \/ CacheRaises(c)
  BY <1>1, <1>4, ExportPasses DEF Fill, CacheRaises
<1>5. CASE End(c)
  <2>1. Goto(c, Idle) /\ Idle.tool # "export" /\ history' = history
    BY <1>5 DEF End, Goto, Idle
  <2>2. QED
    BY <2>1, OthersMove
<1>6. CASE Tool(c)
  BY <1>6, OthersOpen, ExportOpens
<1>7. CASE Query(c)
  BY <1>7, OthersQuery, ExportQueries
<1>8. QED
  BY <1>3, <1>4, <1>5, <1>6, <1>7, ExportDeepens, ExportAudited DEF Step

\* A commit leaves the graphs that answers have read.
LEMMA ExportOutlivesCommits ==
  ASSUME AnswerInv, ExportInv, NEW w \in Writer, Commit(w)
  PROVE  ExportInv'
<1>1. PICK name \in ChangeName : history' = Append(history, Change(name, Graph))
  BY DEF Commit
<1>2. call' = call /\ history \in Seq(Tables)
  BY DEF Commit, AnswerInv
<1>3. \A i \in 1 .. Len(history) : history'[i] = history[i]
  BY <1>1, <1>2
<1>4. ASSUME NEW c \in Caller PROVE ExportOK(history', call[c])
  <2>1. ExportOK(history, call[c]) /\ CallOK(history, call[c])
    BY DEF ExportInv, AnswerInv
  <2>2. Steady(call[c]) => history'[call[c].answer.since] = history[call[c].answer.since]
    BY <1>2, <1>3, <2>1, SteadyGraph
  <2>3. QED
    BY <2>1, <2>2 DEF ExportOK, AtLayer, Exported
<1>5. QED
  BY <1>2, <1>4 DEF ExportInv

\* Every step keeps ExportInv.
LEMMA ExportKept ==
  ASSUME AnswerInv, ExportInv, [Next]_vars
  PROVE  ExportInv'
<1>1. CASE \E c \in Caller : Begin(c) \/ Step(c)
  BY <1>1, ExportBegins, ExportSteps
<1>2. CASE \E w \in Writer : Commit(w)
  BY <1>2, ExportOutlivesCommits
<1>3. CASE UNCHANGED <<history, call>>
  BY <1>3 DEF ExportInv
<1>4. CASE Restart
  BY <1>4 DEF Restart, ExportInv, ExportOK, Idle
<1>5. QED
  BY <1>1, <1>2, <1>3, <1>4 DEF Next, Bump, SkipBump, Regrant, Tick, vars

\* An export that no commit divides has the most edges it may, or each edge that is seen at a
\* node within depth - 1 hops: for any graph, grants and order of its statements.
THEOREM ExportsComplete == Spec => []ExportComplete
<1>1. Init => ExportInv
  <2>1. Idle.tool # "export"
    BY DEF Idle
  <2>2. Init => \A c \in Caller : call[c] = Idle
    BY DEF Init
  <2>3. QED
    BY <2>1, <2>2 DEF ExportInv, ExportOK
<1>2. AnswerInv /\ ExportInv /\ [Next]_vars => ExportInv'
  BY ExportKept
<1>3. ExportInv => ExportComplete
  <2>1. SUFFICES ASSUME ExportInv, NEW c \in Caller, Answered(c), call[c].tool = "export",
                        call[c].answer.since = call[c].answer.until
                 PROVE  Full(call[c]) \/ Exported(history, call[c])
    BY DEF ExportComplete, Full, Exported, EdgesAt
  <2>2. QED
    BY <2>1 DEF ExportInv, ExportOK, Answered, Steady
<1>4. QED
  BY <1>1, <1>2, <1>3, AnswerInvariant, PTL DEF Spec
=============================================================================
