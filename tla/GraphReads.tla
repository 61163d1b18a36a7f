------------------------------ MODULE GraphReads ------------------------------
(***************************************************************************)
(* What the MCP tools read: GraphRepository's queries, the visibility rule *)
(* that all but one of them apply, and the table of grants it comes from.  *)
(* Each operator is one SQL statement, so it sees one committed graph:     *)
(*   [nodes, aliases, stale, edges, mentions, applied]                     *)
(* An edge is [src, rel, dst], a mention <<node, document>>, an applied    *)
(* proposal the set of the nodes that its line names.  A nearest-neighbour *)
(* or full-text order is given by the query (Near, Wording); an ORDER BY   *)
(* that leaves ties open is a choice of the rows under the LIMIT.          *)
(***************************************************************************)
EXTENDS Naturals, Sequences, FiniteSets, FiniteSetsExt, SequencesExt

CONSTANTS
    Node, Doc, Whole,
    NodeType,       \* nodes.node_type
    DocSource,      \* raw_documents.source_system
    DocResource,    \* raw_documents.resource_key
    Near,           \* the nodes by their distance from the query's embedding
    Wording,        \* the nodes the full-text query matches, best rank first
    DepthCap        \* settings.traverse_max_depth

ASSUME DepthCapIsPositive == DepthCap \in Nat \ {0}
ASSUME NodesAssumption == IsFiniteSet(Node)
\* A ranking lists a node once.
ASSUME RankingsAssumption ==
    /\ Near \in Seq(Node) /\ IsInjective(Near)
    /\ Wording \in Seq(Node) /\ IsInjective(Wording)

-----------------------------------------------------------------------------
(* Grants.  A row of access_grants is [group, source, resource]; a NULL    *)
(* resource_key (Whole) grants the whole source system.                      *)

GrantsForGroups(policy, groups) ==
    LET rows     == {row \in policy : row.group \in groups}
        wildcard == {row.source : row \in {r \in rows : r.resource = Whole}}
    IN  [wildcard |-> wildcard,
         specific |-> {<<row.source, row.resource>> :
                         row \in {r \in rows : r.source \notin wildcard}}]

Anonymous == [superuser |-> TRUE, grants |-> [wildcard |-> {}, specific |-> {}]]

Scoped(policy, groups) ==
    [superuser |-> FALSE, grants |-> GrantsForGroups(policy, groups)]

ScopeKey(p) == IF p.superuser THEN <<>> ELSE <<p.grants.wildcard, p.grants.specific>>

\* _doc_clause: one disjunct per SourceGrant; without grants nothing is seen.
DocClause(p) ==
    IF p.superuser THEN Doc
    ELSE UNION ({{d \in Doc : DocSource[d] = s} : s \in p.grants.wildcard}
                \cup {{d \in Doc : DocSource[d] = g[1] /\ DocResource[d] = g[2]} :
                        g \in p.grants.specific})

VisibleNodes(g, p) ==
    IF p.superuser THEN Node
    ELSE {n \in Node : \E d \in DocClause(p) : <<n, d>> \in g.mentions}

\* A fragment that forgets the resource of a grant (a mutant).
VisibilityBySource(g, p, n) ==
    \/ p.superuser
    \/ \E d \in Doc :
        /\ <<n, d>> \in g.mentions
        /\ DocSource[d] \in p.grants.wildcard \cup {s[1] : s \in p.grants.specific}

\* visibility_sql, the same rule as text inside the recursive walk.
VisibilityHolds(g, p, n) ==
    \/ p.superuser
    \/ \E d \in Doc :
        /\ <<n, d>> \in g.mentions
        /\ \/ DocSource[d] \in p.grants.wildcard
           \/ <<DocSource[d], DocResource[d]>> \in p.grants.specific

\* Edges are between nodes (foreign keys).
Linked(g) == g.nodes \subseteq Node /\ \A e \in g.edges : {e.src, e.dst} \subseteq g.nodes

-----------------------------------------------------------------------------
(* The queries of GraphRepository.                                         *)

LimitedTo(rows, limit) == kSubset(IF Cardinality(rows) < limit
                                  THEN Cardinality(rows) ELSE limit, rows)

Head1(seq, limit) == SubSeq(seq, 1, IF Len(seq) < limit THEN Len(seq) ELSE limit)

Canonical(g, p) == (g.nodes \ g.aliases) \cap VisibleNodes(g, p)

\* ORDER BY distance, or by rank: the rows in the order of `ranking`.
Ordered(ranking, rows) ==
    LET kept[i \in 0 .. Len(ranking)] ==
            IF i = 0 THEN <<>>
            ELSE IF ranking[i] \in rows THEN Append(kept[i - 1], ranking[i]) ELSE kept[i - 1]
    IN  kept[Len(ranking)]

SemanticSearch(g, p, limit) == Head1(Ordered(Near, Canonical(g, p)), limit)

KeywordSearch(g, p, limit) == Head1(Ordered(Wording, Canonical(g, p)), limit)

FoundNode(g, p, n) == n \in g.nodes /\ n \in VisibleNodes(g, p)

\* node_degree counts every edge at the node, whoever asks.
NodeDegree(g, n) == [outdegree |-> {e \in g.edges : e.src = n},
                     indegree  |-> {e \in g.edges : e.dst = n}]

NodeSources(g, p, n) == {d \in DocClause(p) : <<n, d>> \in g.mentions}

\* At most `limit` of the documents behind the node.
NodeTimeline(g, p, n, limit) == LimitedTo(NodeSources(g, p, n), limit)

\* stats: the edges counted are those between two visible nodes.
EdgeStats(g, p) == {e \in g.edges : {e.src, e.dst} \subseteq VisibleNodes(g, p)}

StaleNodes(g, p, limit) == LimitedTo(Canonical(g, p) \cap g.stale, limit)

RecentNodes(g, p, since, limit) == LimitedTo(Canonical(g, p) \cap since, limit)

Outgoing(g, p, n, limit) ==
    LimitedTo({e \in g.edges : e.src = n /\ e.dst \in VisibleNodes(g, p)}, limit)

Incoming(g, p, n, limit) ==
    LimitedTo({e \in g.edges : e.dst = n /\ e.src \in VisibleNodes(g, p)}, limit)

-----------------------------------------------------------------------------
(* The recursive walk.  A row of the working table is the list of hops     *)
(* [edge, dir, to] from the start; a row that comes back to a node of its  *)
(* path is a cycle: it is produced, but neither extended nor returned.     *)

Clamped(depth) == IF depth < 1 THEN 1 ELSE IF depth > DepthCap THEN DepthCap ELSE depth

Hops(g, n) ==
    {[edge |-> e,
      dir  |-> IF e.src = n THEN ">" ELSE "<",
      to   |-> IF e.src = n THEN e.dst ELSE e.src] :
        e \in {f \in g.edges : n \in {f.src, f.dst}}}

EndOf(start, path) == IF path = <<>> THEN start ELSE Last(path).to

NodesOf(start, path) == {start} \cup {path[i].to : i \in DOMAIN path}

IsCycle(start, path) == Cardinality(NodesOf(start, path)) # Len(path) + 1

\* walk[k] is what the recursive term has produced at depth k.
Walk(g, p, start, depth) ==
    LET Extended(path) ==
            {Append(path, hop) : hop \in
                {h \in Hops(g, EndOf(start, path)) :
                    h.to \in g.nodes /\ VisibilityHolds(g, p, h.to)}}
        walk[k \in 0 .. depth] ==
            IF k = 0 THEN {<<>>}
            ELSE UNION {Extended(path) :
                          path \in {w \in walk[k - 1] : ~ IsCycle(start, w)}}
    IN  {path \in UNION {walk[k] : k \in 1 .. depth} : ~ IsCycle(start, path)}

\* DISTINCT ON (n.id) ... ORDER BY n.id, depth: a nearest path per target.
Nearest(paths) == {path \in paths : \A other \in paths : Len(path) <= Len(other)}

PathsTo(g, p, start, target, depth) ==
    {path \in Walk(g, p, start, Clamped(depth)) : EndOf(start, path) = target}

\* The possible answers: at most `limit` targets of the type, nearest first.
Traverse(g, p, start, type, depth, limit) ==
    LET targets == {n \in g.nodes : NodeType[n] = type
                                    /\ PathsTo(g, p, start, n, depth) # {}}
        Far(n)  == Len(CHOOSE path \in Nearest(PathsTo(g, p, start, n, depth)) : TRUE)
    IN  {chosen \in LimitedTo(targets, limit) :
            \A n \in chosen, m \in targets \ chosen : Far(n) <= Far(m)}

FindPath(g, p, start, target, depth) == Nearest(PathsTo(g, p, start, target, depth))

-----------------------------------------------------------------------------
(* hybrid_search: reciprocal rank fusion of the two legs.  A node at rank  *)
(* r of a leg scores 1 / (60 + r); scaled by a common multiple of the      *)
(* denominators in use, the score is a natural number.                     *)

Scale(limit) ==
    LET product[i \in 0 .. limit] == IF i = 0 THEN 1 ELSE product[i - 1] * (60 + i)
    IN  product[limit]

LegScore(leg, n, limit) ==
    SumFunctionOnSet([i \in DOMAIN leg |-> Scale(limit) \div (60 + i)],
                     {i \in DOMAIN leg : leg[i] = n})

\* A fusion whose later leg overwrites the score of the first (a mutant).
ScoreOfLastLeg(legs, n, limit) ==
    IF LegScore(Last(legs), n, limit) > 0 THEN LegScore(Last(legs), n, limit)
    ELSE LegScore(Head(legs), n, limit)

Score(legs, n, limit) ==
    SumFunctionOnSet([k \in DOMAIN legs |-> LegScore(legs[k], n, limit)], DOMAIN legs)

\* The rankings hybrid_search may return: by score, cut at the limit.
Fused(legs, limit) ==
    LET entries == UNION {Range(legs[k]) : k \in DOMAIN legs}
    IN  {Head1(ranked, limit) : ranked \in
            {r \in SetToSeqs(entries) : \A i, j \in DOMAIN r :
                i < j => Score(legs, r[i], limit) >= Score(legs, r[j], limit)}}

\* When the embedding fails, the keyword leg answers alone.
HybridSearch(g, p, limit, embedded) ==
    Fused(<<IF embedded THEN SemanticSearch(g, p, limit) ELSE <<>>,
            KeywordSearch(g, p, limit)>>, limit)
=============================================================================
