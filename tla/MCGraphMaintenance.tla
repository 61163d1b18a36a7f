------------------------- MODULE MCGraphMaintenance -------------------------
(***************************************************************************)
(* Three starting graphs of similar nodes.  Dense: a and b both link       *)
(* to c (their edges fold), a links to b (it collapses to a loop), c links *)
(* to a (it is repointed); d1 mentions a and b (they fold), d2 a and c;    *)
(* all are derived, so each may be the survivor.  Sparse: a and b are two  *)
(* accounts, a an orphan, c is derived.  Vault: c is the stub of a link    *)
(* from file d to file a, b another name for it; d links to a too, c to a  *)
(* and to b.  a and b disagree on their owner, d1 is an old document.      *)
(***************************************************************************)
EXTENDS GraphMaintenance, TLC

CONSTANTS a, b, c, d, e1, e2, e3, e4, e5, e6, m1, m2, m3, m4, m5

MCNode == {a, b, c, d}
MCEdgeId == {e1, e2, e3, e4, e5, e6}
MCMentionId == {m1, m2, m3, m4, m5}
MCNodeType == [n \in MCNode |-> "document"]
MCPairs == {{a, b}, {b, c}, {c, a}}
MCFileOf == [n \in MCNode |-> IF n = c THEN a ELSE None]
MCFresh == {e6, m5}
MCWeak == {e1, e2, e3, e4}

Key == {"stale", "disputed", "summary", "owner"}

Link(s, t) == [source |-> s, target |-> t, weight |-> 1]
Mention(n, x) == [node |-> n, doc |-> x]

MCProps ==
  [n \in MCNode |-> [k \in Key |->
     IF n = a /\ k = "summary" THEN "of a"
     ELSE IF n \in {a, b} /\ k = "owner" THEN n
     ELSE None]]

Dense ==
  [node    |-> {a, b, c},
   source  |-> [n \in MCNode |-> None],
   canon   |-> [n \in MCNode |-> None],
   props   |-> MCProps,
   vec     |-> {b, c},
   edge    |-> (e1 :> Link(a, c)) @@ (e2 :> Link(b, c)) @@ (e3 :> Link(a, b))
               @@ (e4 :> Link(c, a)) @@ (e5 :> None) @@ (e6 :> None),
   mention |-> (m1 :> Mention(a, "d1")) @@ (m2 :> Mention(b, "d1"))
               @@ (m3 :> Mention(a, "d2")) @@ (m4 :> Mention(c, "d2")) @@ (m5 :> None)]

Sparse ==
  [node    |-> {a, b, c},
   source  |-> (a :> "github") @@ (b :> "slack") @@ (c :> None) @@ (d :> None),
   canon   |-> [n \in MCNode |-> None],
   props   |-> MCProps,
   vec     |-> {a, b},
   edge    |-> [e \in MCEdgeId |-> IF e = e2 THEN Link(b, c) ELSE None],
   mention |-> [m \in MCMentionId |-> IF m = m2 THEN Mention(b, "d1") ELSE None]]

Vault ==
  [node    |-> MCNode,
   source  |-> [n \in MCNode |-> IF n \in {a, d} THEN "local" ELSE None],
   canon   |-> [n \in MCNode |-> None],
   props   |-> MCProps,
   vec     |-> {b},
   edge    |-> (e1 :> Link(d, a)) @@ (e2 :> Link(d, c)) @@ (e3 :> Link(c, b))
               @@ (e4 :> Link(c, a)) @@ (e5 :> None) @@ (e6 :> None),
   mention |-> (m1 :> Mention(b, "d2")) @@ (m2 :> Mention(c, "d1"))
               @@ (m3 :> Mention(c, "d2")) @@ (m4 :> Mention(a, "d2")) @@ (m5 :> None)]

AllGraphs == {Dense, Sparse, Vault}
SparseGraph == {Sparse}

MergeAB   == [kind |-> "entity_merge", loser |-> a, winner |-> b]
MergeBC   == [kind |-> "entity_merge", loser |-> b, winner |-> c]
MergeCA   == [kind |-> "entity_merge", loser |-> c, winner |-> a]
AddEdge   == [kind |-> "edge_add", source |-> c, target |-> b, edge |-> e5]
CutEdge   == [kind |-> "edge_removal", edge |-> e2]
RemoveA   == [kind |-> "node_removal", node |-> a]
FlagB     == [kind |-> "stale_flag", node |-> b, value |-> "old"]
DisputeB  == [kind |-> "fact_conflict", node |-> b, value |-> "two values"]

AllChanges == {MergeAB, MergeBC, MergeCA, AddEdge, CutEdge, RemoveA, FlagB, DisputeB}
Removals   == {MergeAB, RemoveA}
=============================================================================
