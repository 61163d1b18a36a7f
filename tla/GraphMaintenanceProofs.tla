----------------------- MODULE GraphMaintenanceProofs -----------------------
(***************************************************************************)
(* Theorems about GraphMaintenance, for any nodes, edges, mentions, scores *)
(* and changes.                                                            *)
(***************************************************************************)
EXTENDS GraphMaintenance, GraphHandlersProofs

-----------------------------------------------------------------------------
(* The scans and the handlers. *)

\* On any graph, what an agent's scan finds is what the handler validates: no
\* agent files a change that fails as long as the graph stays as it was read.
THEOREM FindingsValidate ==
  ASSUME NEW g, NEW c, Found(c, g),
         c.kind = "entity_merge" => c.loser # c.winner,
         c.kind = "edge_add" => c.source # c.target
  PROVE  Validates(c, g)
<1>1. CASE c.kind = "entity_merge" /\ DuplicateFound(c, g)
  BY <1>1 DEF DuplicateFound, Canonical, Validates, MergeValid
<1>2. CASE c.kind = "edge_add" /\ MissingEdgeFound(c, g)
  <2>1. ASSUME NEW e \in EdgeId, g.edge[e] # None PROVE ~SameEnds(g.edge[e], c)
    BY <1>2, <2>1 DEF MissingEdgeFound, EdgesAt, SameEnds
  <2>2. QED
    BY <1>2, <2>1 DEF MissingEdgeFound, Canonical, Validates, EdgeAddValid
<1>3. CASE c.kind = "node_removal" /\ OrphanFound(c, g)
  BY <1>3 DEF OrphanFound, Canonical, Validates, Orphan
<1>4. CASE c.kind = "edge_removal" /\ WeakEdgeFound(c, g)
  BY <1>4 DEF WeakEdgeFound, Validates
<1>5. CASE c.kind = "stale_flag" /\ QuietFound(c, g)
  BY <1>5 DEF QuietFound, Canonical, Validates, FlagValid, FlagKinds, FlagKey
<1>6. CASE c.kind = "fact_conflict" /\ ConflictFound(c, g)
  BY <1>6 DEF ConflictFound, Canonical, Validates, FlagValid, FlagKinds, FlagKey
<1>7. QED
  BY <1>1, <1>2, <1>3, <1>4, <1>5, <1>6 DEF Found

-----------------------------------------------------------------------------
(* Merges keep sourced nodes. *)

\* Every applied row has a snapshot of one of the kinds.
SnapshotsOK == \A c \in Change : status[c] = "applied" => applied[c].data.kind \in Kind

\* A merge on file was filed with its survivor first.
FiledRise ==
  \A c \in Change : c.kind = "entity_merge" /\ status[c] # "none" =>
    Outranks(c.winner, c.loser, graph)

\* What makes SourcedSurvives inductive.
RiseInv ==
  /\ ColumnsOK(graph)
  /\ DOMAIN status = Change /\ DOMAIN applied = Change
  /\ SnapshotsOK
  /\ FiledRise
  /\ HopsRise(graph)

\* Between g and h, sources stay and each pointer stays, goes, or is new.
OnlyPoints(g, h, n, m) ==
  /\ ColumnsOK(h)
  /\ h.source = g.source
  /\ \A k \in Node : h.canon[k] \in {g.canon[k], None} \/ (k = n /\ h.canon[k] = m)

\* A handler sets one pointer at most, that of the loser of a merge.
LEMMA WritesPoint ==
  ASSUME NEW g, ColumnsOK(g), NEW c \in Change
  PROVE  /\ c.kind = "entity_merge" => OnlyPoints(g, Writes(c, g, g), c.loser, c.winner)
         /\ c.kind # "entity_merge" => OnlyPoints(g, Writes(c, g, g), None, None)
<1>1. CASE c.kind = "entity_merge"
  <2>1. Writes(c, g, g) = MergeWrites(c, g, g)
    BY <1>1 DEF Writes, FlagKinds
  <2>2. QED
    BY <1>1, <2>1 DEF MergeWrites, OnlyPoints, ColumnsOK, Column
<1>2. CASE c.kind = "edge_add"
  <2>1. Writes(c, g, g) = EdgeAddWrites(c, g)
    BY <1>2 DEF Writes, FlagKinds
  <2>2. QED
    BY <1>2, <2>1 DEF EdgeAddWrites, OnlyPoints, ColumnsOK, Column
<1>3. CASE c.kind = "edge_removal"
  <2>1. Writes(c, g, g) = [g EXCEPT !.edge[c.edge] = None]
    BY <1>3 DEF Writes, FlagKinds
  <2>2. QED
    BY <1>3, <2>1 DEF OnlyPoints, ColumnsOK, Column
<1>4. CASE c.kind = "node_removal"
  <2>1. Writes(c, g, g) = DeleteNode(g, c.node)
    BY <1>4 DEF Writes, FlagKinds
  <2>2. QED
    BY <1>4, <2>1 DEF DeleteNode, OnlyPoints, ColumnsOK, Column
<1>5. CASE c.kind \in FlagKinds
  <2>1. Writes(c, g, g) = FlagWrites(c, g, g)
    BY <1>5 DEF Writes, FlagKinds
  <2>2. QED
    BY <1>5, <2>1 DEF FlagWrites, FlagKinds, OnlyPoints, ColumnsOK, Column
<1>6. QED
  BY <1>1, <1>2, <1>3, <1>4, <1>5, KindsAssumption DEF ChangeOK, Kind

\* A rollback sets no pointer.
LEMMA UndoPoints ==
  ASSUME NEW g, ColumnsOK(g), NEW d, d.kind \in Kind
  PROVE  OnlyPoints(g, Undo(d, g, g), None, None)
<1>1. CASE d.kind = "entity_merge"
  <2>1. Undo(d, g, g) = MergeUndo(d, g, g)
    BY <1>1 DEF Undo, FlagKinds
  <2>2. QED
    BY <2>1 DEF MergeUndo, OnlyPoints, ColumnsOK, Column
<1>2. CASE d.kind = "edge_add"
  <2>1. Undo(d, g, g) = [g EXCEPT !.edge[d.edge] = None]
    BY <1>2 DEF Undo, FlagKinds
  <2>2. QED
    BY <2>1 DEF OnlyPoints, ColumnsOK, Column
<1>3. CASE d.kind = "edge_removal"
  <2>1. Undo(d, g, g) = [g EXCEPT !.edge[d.edge] = d.row]
    BY <1>3 DEF Undo, FlagKinds
  <2>2. QED
    BY <2>1 DEF OnlyPoints, ColumnsOK, Column
<1>4. CASE d.kind = "node_removal"
  <2>1. Undo(d, g, g) = InsertNode(d, g)
    BY <1>4 DEF Undo, FlagKinds
  <2>2. QED
    BY <2>1 DEF InsertNode, OnlyPoints, ColumnsOK, Column
<1>5. CASE d.kind \in FlagKinds
  <2>1. Undo(d, g, g) = [g EXCEPT !.props[d.node] = d.before]
    BY <1>5 DEF Undo, FlagKinds
  <2>2. QED
    BY <2>1 DEF OnlyPoints, ColumnsOK, Column
<1>6. QED
  BY <1>1, <1>2, <1>3, <1>4, <1>5 DEF Kind

\* The new pointer is the only one to look at.
LEMMA HopsStayRisen ==
  ASSUME NEW g, NEW h, NEW n, NEW m, HopsRise(g), OnlyPoints(g, h, n, m),
         m = None \/ Outranks(m, n, g)
  PROVE  HopsRise(h)
BY DEF HopsRise, OnlyPoints, Outranks, Sourced

\* Starting graphs satisfy the inductive invariant.
LEMMA RiseInit == Init => RiseInv
BY GraphsAssumption
   DEF Init, RiseInv, ColumnsOK, SnapshotsOK, FiledRise

\* Every step keeps it.
LEMMA RiseStep == RiseInv /\ [Next]_vars => RiseInv'
<1>1. SUFFICES ASSUME RiseInv, [Next]_vars PROVE RiseInv'
  OBVIOUS
<1>2. CASE UNCHANGED vars
  BY <1>1, <1>2 DEF vars, RiseInv, ColumnsOK, SnapshotsOK, FiledRise, HopsRise, Outranks, Sourced
<1>3. CASE Scan
  <2>1. UNCHANGED <<graph, applied>>
    BY <1>3 DEF Scan
  <2>2. DOMAIN status' = Change
    BY <1>3 DEF Scan
  <2>3. \A c \in Change : \/ status'[c] = status[c]
                          \/ status'[c] = "pending" /\ Found(c, graph)
    BY <1>3 DEF Scan
  <2>4. SnapshotsOK'
    BY <1>1, <2>1, <2>3 DEF RiseInv, SnapshotsOK
  <2>5. FiledRise'
    <3>1. SUFFICES ASSUME NEW c \in Change, c.kind = "entity_merge", status'[c] # "none"
                   PROVE  Outranks(c.winner, c.loser, graph)
      BY <2>1 DEF FiledRise, Outranks, Sourced
    <3>2. CASE status'[c] = status[c]
      BY <1>1, <3>1, <3>2 DEF RiseInv, FiledRise
    <3>3. CASE Found(c, graph)
      BY <3>1, <3>3 DEF Found, DuplicateFound
    <3>4. QED
      BY <2>3, <3>2, <3>3
  <2>6. QED
    BY <1>1, <2>1, <2>2, <2>4, <2>5 DEF RiseInv, ColumnsOK, HopsRise, Outranks, Sourced
<1>4. ASSUME NEW c \in Change, Approve(c) PROVE RiseInv'
  <2>1. /\ graph' = Writes(c, graph, graph)
        /\ status' = [status EXCEPT ![c] = "applied"]
        /\ status[c] = "pending"
    BY <1>4 DEF Approve
  <2>2. /\ DOMAIN applied' = Change
        /\ \A d \in Change \ {c} : applied'[d] = applied[d]
        /\ applied'[c].data = SnapshotOf(c, graph)
    BY <1>1, <1>4 DEF Approve, RiseInv
  <2>3. SnapshotOf(c, graph).kind = c.kind
    BY KindsAssumption
       DEF ChangeOK, SnapshotOf, MergeSnapshot, EdgeRemovalSnapshot, NodeSnapshot, FlagSnapshot, Kind, FlagKinds
  <2>4. SnapshotsOK'
    BY <1>1, <2>1, <2>2, <2>3, KindsAssumption DEF RiseInv, SnapshotsOK, ChangeOK
  <2>5. c.kind = "entity_merge" => Outranks(c.winner, c.loser, graph)
    BY <1>1, <2>1 DEF RiseInv, FiledRise
  <2>6. ColumnsOK(graph)
    BY <1>1 DEF RiseInv
  <2>7. ColumnsOK(graph)' /\ graph'.source = graph.source /\ HopsRise(graph)'
    <3>1. /\ c.kind = "entity_merge" => OnlyPoints(graph, graph', c.loser, c.winner)
          /\ c.kind # "entity_merge" => OnlyPoints(graph, graph', None, None)
      BY <2>1, <2>6, WritesPoint
    <3>2. ColumnsOK(graph') /\ graph'.source = graph.source
      BY <3>1 DEF OnlyPoints
    <3>3. HopsRise(graph')
      BY <1>1, <2>5, <3>1, HopsStayRisen DEF RiseInv
    <3>4. QED
      BY <3>2, <3>3 DEF ColumnsOK, HopsRise, Outranks, Sourced
  <2>8. FiledRise'
    BY <1>1, <2>1, <2>7 DEF RiseInv, FiledRise, Outranks, Sourced
  <2>9. QED
    BY <1>1, <2>1, <2>2, <2>4, <2>7, <2>8 DEF RiseInv
<1>5. ASSUME NEW c \in Change, ApproveFails(c) PROVE RiseInv'
  BY <1>1, <1>5
     DEF ApproveFails, RiseInv, ColumnsOK, SnapshotsOK, FiledRise, HopsRise, Outranks, Sourced
<1>6. ASSUME NEW c \in Change, Rollback(c) PROVE RiseInv'
  <2>1. /\ graph' = Undo(applied[c].data, graph, graph)
        /\ status' = [status EXCEPT ![c] = "rolled_back"]
        /\ applied' = [applied EXCEPT ![c] = None]
        /\ status[c] = "applied"
    BY <1>6 DEF Rollback
  <2>2. OnlyPoints(graph, graph', None, None)
    BY <1>1, <2>1, UndoPoints DEF RiseInv, SnapshotsOK
  <2>3. ColumnsOK(graph)' /\ graph'.source = graph.source /\ HopsRise(graph)'
    <3>1. ColumnsOK(graph') /\ graph'.source = graph.source
      BY <2>2 DEF OnlyPoints
    <3>2. HopsRise(graph')
      BY <1>1, <2>2, HopsStayRisen DEF RiseInv
    <3>3. QED
      BY <3>1, <3>2 DEF ColumnsOK, HopsRise, Outranks, Sourced
  <2>4. SnapshotsOK'
    BY <1>1, <2>1 DEF RiseInv, SnapshotsOK
  <2>5. FiledRise'
    BY <1>1, <2>1, <2>3 DEF RiseInv, FiledRise, Outranks, Sourced
  <2>6. QED
    BY <1>1, <2>1, <2>3, <2>4, <2>5 DEF RiseInv
<1>7. ASSUME NEW n \in Node, Reconcile(n) PROVE RiseInv'
  <2>1. UNCHANGED <<status, applied>>
    BY <1>7 DEF Reconcile
  <2>2. OnlyPoints(graph, graph', None, None)
    <3>1. OnlyPoints(graph, DeleteNode(graph, n), None, None)
      BY <1>1 DEF RiseInv, DeleteNode, OnlyPoints, ColumnsOK, Column
    <3>2. /\ DOMAIN graph' = DOMAIN DeleteNode(graph, n)
          /\ graph'.canon = DeleteNode(graph, n).canon
          /\ graph'.source = DeleteNode(graph, n).source
      BY <1>7, <3>1 DEF Reconcile, Folded, OnlyPoints, ColumnsOK, Column
    <3>3. QED
      BY <3>1, <3>2 DEF OnlyPoints, ColumnsOK
  <2>3. ColumnsOK(graph)' /\ graph'.source = graph.source /\ HopsRise(graph)'
    <3>1. ColumnsOK(graph') /\ graph'.source = graph.source
      BY <2>2 DEF OnlyPoints
    <3>2. HopsRise(graph')
      BY <1>1, <2>2, HopsStayRisen DEF RiseInv
    <3>3. QED
      BY <3>1, <3>2 DEF ColumnsOK, HopsRise, Outranks, Sourced
  <2>4. QED
    BY <1>1, <2>1, <2>3 DEF RiseInv, SnapshotsOK, FiledRise, Outranks, Sourced
<1>8. QED
  BY <1>1, <1>2, <1>3, <1>4, <1>5, <1>6, <1>7 DEF Next

\* In every behaviour, whatever is filed, approved, refused and rolled back, the
\* root a sourced node reads as is sourced too.
THEOREM SurvivorSourced == Spec => []SourcedSurvives
<1>1. RiseInv => SourcedSurvives
  BY DEF RiseInv, SourcedSurvives
<1>2. QED
  BY <1>1, RiseInit, RiseStep, PTL DEF Spec

-----------------------------------------------------------------------------
(* The tables stay well-formed, the merges a forest. *)

\* An applied change was valid on well-formed tables; its row has the snapshot.
Recorded(c) ==
  LET f == applied[c].found
  IN  /\ ColumnsOK(f) /\ RowsOK(f) /\ Constraints(f) /\ Validates(c, f)
      /\ applied[c].data = SnapshotOf(c, f)
      /\ applied[c].left = Writes(c, f, f)
      /\ c.kind = "edge_add" => f.edge[c.edge] = None

\* The row of an edge that was never added is in no table and in no snapshot.
Unused(c) ==
  /\ graph.edge[c.edge] = None
  /\ \A d \in Change : status[d] = "applied" => applied[d].found.edge[c.edge] = None

\* What makes TypeOK, AliasForest, FindingsApply and Reversible inductive.
GraphInv ==
  /\ TypeOK
  /\ Constraints(graph)
  /\ Acyclic(graph)
  /\ \A c \in Change : status[c] = "applied" => Recorded(c)
  /\ \A c \in Change : c.kind = "edge_add" /\ status[c] \notin {"applied", "rolled_back"} => Unused(c)

\* The copies of reconcile_wikilinks meet no constraint: they are rows the file
\* does not have yet, under ids nobody has.
LEMMA FoldedKeeps ==
  ASSUME RowsOK(graph), Constraints(graph), NEW n \in Node, Stub(n),
         NEW edges \in Injection(EdgesRedirected(n), FreeEdges),
         NEW mentions \in Injection(MentionsCarried(n), FreeMentions),
         NEW h, h = Folded(n, edges, mentions)
  PROVE  RowsOK(h) /\ Constraints(h)
<1>. DEFINE c == IntoFile(n)
            w == FileOf[n]
<1>1. c.loser = n /\ c.winner = w /\ TwoNodes(c, graph)
  BY DEF IntoFile, Stub, TwoNodes
<1>. HIDE DEF c
<1>2. PICK gone : gone = DeleteNode(graph, n)
  OBVIOUS
<1>3. RowsOK(gone) /\ Constraints(gone)
  BY <1>2, DeleteNodeKeeps
<1>4. /\ gone.node = graph.node \ {n}
      /\ gone.edge = [e \in EdgeId |-> IF e \in EdgesAt(graph, n) THEN None ELSE graph.edge[e]]
      /\ gone.mention = [m \in MentionId |-> IF m \in MentionsOf(graph, n) THEN None ELSE graph.mention[m]]
  BY <1>2 DEF DeleteNode, RowsOK
<1>5. /\ IsMap(h) /\ DOMAIN h = DOMAIN gone
      /\ \A x \in DOMAIN gone \ {"edge", "mention"} : h[x] = gone[x]
  <2>1. IsMap(h)
    BY DEF Folded, IsMap
  <2>2. QED
    BY <1>2, <2>1 DEF Folded
<1>6. /\ edges \in [RepointedEdges(c, graph) -> FreeEdges]
      /\ \A x, y \in RepointedEdges(c, graph) : edges[x] = edges[y] => x = y
  BY DEF Injection, IsInjective, EdgesRedirected, c
<1>7. /\ mentions \in [RepointedMentions(c, graph) -> FreeMentions]
      /\ \A x, y \in RepointedMentions(c, graph) : mentions[x] = mentions[y] => x = y
  BY DEF Injection, IsInjective, MentionsCarried, c
<1>8. h.edge = [e \in EdgeId |->
         IF e \in Range(edges)
         THEN Moved(graph.edge[CHOOSE x \in DOMAIN edges : edges[x] = e], IntoFile(n)) ELSE gone.edge[e]]
  BY <1>2, <1>3 DEF Folded, RowsOK
<1>9. h.mention = [m \in MentionId |->
         IF m \in Range(mentions)
         THEN [graph.mention[CHOOSE x \in DOMAIN mentions : mentions[x] = m] EXCEPT !.node = FileOf[n]]
         ELSE gone.mention[m]]
  BY <1>2, <1>3 DEF Folded, RowsOK
\* Each edge is a copy of one that moves, or one that was not at the stub.
<1>10. ASSUME NEW e \in EdgeId
       PROVE  \/ \E x \in RepointedEdges(c, graph) :
                   edges[x] = e /\ h.edge[e] = Moved(graph.edge[x], c) /\ h.edge[e] \in EdgeRow
              \/ h.edge[e] = gone.edge[e] /\ gone.edge[e] = None
              \/ h.edge[e] = gone.edge[e] /\ gone.edge[e] = graph.edge[e]
  <2>1. CASE e \in Range(edges)
    <3>. DEFINE x == CHOOSE x \in DOMAIN edges : edges[x] = e
    <3>1. x \in RepointedEdges(c, graph) /\ edges[x] = e
      BY <1>6, <2>1 DEF Range
    <3>2. h.edge[e] = Moved(graph.edge[x], c)
      BY <1>8, <2>1 DEF c
    <3>. HIDE DEF x
    <3>3. QED
      BY <1>1, <3>1, <3>2, MergeSets
  <2>2. CASE e \notin Range(edges)
    BY <1>4, <1>8, <2>2
  <2>3. QED
    BY <2>1, <2>2
\* Likewise the mentions.
<1>11. ASSUME NEW m \in MentionId
       PROVE  \/ \E x \in RepointedMentions(c, graph) :
                   /\ mentions[x] = m /\ h.mention[m] = [graph.mention[x] EXCEPT !.node = w]
                   /\ h.mention[m] \in MentionRow /\ graph.mention[x] \in MentionRow
                   /\ graph.mention[x].node = n
              \/ h.mention[m] = gone.mention[m] /\ gone.mention[m] = None
              \/ h.mention[m] = gone.mention[m] /\ gone.mention[m] = graph.mention[m]
  <2>1. CASE m \in Range(mentions)
    <3>. DEFINE x == CHOOSE x \in DOMAIN mentions : mentions[x] = m
    <3>1. x \in RepointedMentions(c, graph) /\ mentions[x] = m
      BY <1>7, <2>1 DEF Range
    <3>2. h.mention[m] = [graph.mention[x] EXCEPT !.node = w]
      BY <1>9, <2>1
    <3>. HIDE DEF x
    <3>3. graph.mention[x] \in MentionRow /\ graph.mention[x].node = n /\ w \in Node
      BY <1>1, <3>1 DEF RepointedMentions, MentionsOf, RowsOK, TwoNodes
    <3>4. h.mention[m] \in MentionRow
      BY <3>2, <3>3 DEF MentionRow
    <3>5. QED
      BY <3>1, <3>2, <3>3, <3>4
  <2>2. CASE m \notin Range(mentions)
    BY <1>4, <1>9, <2>2
  <2>3. QED
    BY <2>1, <2>2
<1>12. RowsOK(h)
  <2>1. ASSUME NEW e \in EdgeId PROVE h.edge[e] \in EdgeRow \union {None}
    BY <1>3, <1>10 DEF RowsOK
  <2>2. ASSUME NEW m \in MentionId PROVE h.mention[m] \in MentionRow \union {None}
    BY <1>3, <1>11 DEF RowsOK
  <2>3. h.edge \in [EdgeId -> EdgeRow \union {None}]
    BY <1>8, <2>1
  <2>4. h.mention \in [MentionId -> MentionRow \union {None}]
    BY <1>9, <2>2
  <2>5. /\ h.node = gone.node /\ h.vec = gone.vec /\ h.canon = gone.canon /\ h.props = gone.props
    BY <1>3, <1>5 DEF RowsOK
  <2>6. QED
    BY <1>3, <1>5, <2>3, <2>4, <2>5 DEF RowsOK
<1>13. h.node = graph.node \ {n} /\ h.node = gone.node /\ h.canon = gone.canon
  BY <1>3, <1>4, <1>5 DEF RowsOK
<1>14. ASSUME NEW e \in EdgeId, h.edge[e] # None
       PROVE  /\ h.edge[e].source \in h.node /\ h.edge[e].target \in h.node
              /\ \A f \in EdgeId \ {e} : h.edge[f] # None => ~SameEnds(h.edge[e], h.edge[f])
  <2>1. ASSUME NEW f \in EdgeId, h.edge[f] # None
        PROVE  \/ \E x \in RepointedEdges(c, graph) : edges[x] = f /\ h.edge[f] = Moved(graph.edge[x], c)
               \/ /\ h.edge[f] = gone.edge[f] /\ gone.edge[f] # None
                  /\ h.edge[f] = graph.edge[f] /\ graph.edge[f] # None
    BY <1>10, <2>1
  <2>2. h.edge[e].source \in h.node /\ h.edge[e].target \in h.node
    <3>1. CASE \E x \in RepointedEdges(c, graph) : h.edge[e] = Moved(graph.edge[x], c)
      BY <1>1, <1>13, <3>1, MovedDistinct
    <3>2. CASE h.edge[e] = gone.edge[e] /\ gone.edge[e] # None
      BY <1>3, <1>13, <3>2 DEF Constraints
    <3>3. QED
      BY <1>14, <2>1, <3>1, <3>2
  <2>3. ASSUME NEW f \in EdgeId, h.edge[f] # None, f # e, SameEnds(h.edge[e], h.edge[f]) PROVE FALSE
    <3>1. CASE /\ \E x \in RepointedEdges(c, graph) : edges[x] = e /\ h.edge[e] = Moved(graph.edge[x], c)
               /\ \E y \in RepointedEdges(c, graph) : edges[y] = f /\ h.edge[f] = Moved(graph.edge[y], c)
      BY <1>1, <2>3, <3>1, MovedDistinct
    <3>2. CASE /\ \E x \in RepointedEdges(c, graph) : h.edge[e] = Moved(graph.edge[x], c)
               /\ h.edge[f] = graph.edge[f] /\ graph.edge[f] # None
      BY <1>1, <2>3, <3>2, MovedDistinct DEF SameEnds
    <3>3. CASE /\ h.edge[e] = graph.edge[e] /\ graph.edge[e] # None
               /\ \E y \in RepointedEdges(c, graph) : h.edge[f] = Moved(graph.edge[y], c)
      BY <1>1, <2>3, <3>3, MovedDistinct DEF SameEnds
    <3>4. CASE /\ h.edge[e] = graph.edge[e] /\ graph.edge[e] # None
               /\ h.edge[f] = graph.edge[f] /\ graph.edge[f] # None
      BY <2>3, <3>4 DEF Constraints
    <3>5. QED
      BY <1>14, <2>1, <2>3, <3>1, <3>2, <3>3, <3>4
  <2>4. QED
    BY <2>2, <2>3
<1>15. ASSUME NEW m \in MentionId, h.mention[m] # None
       PROVE  /\ h.mention[m].node \in h.node
              /\ \A k \in MentionId \ {m} : h.mention[k] # h.mention[m]
  <2>1. ASSUME NEW k \in MentionId, h.mention[k] # None
        PROVE  \/ \E x \in RepointedMentions(c, graph) :
                    /\ mentions[x] = k /\ h.mention[k] = [graph.mention[x] EXCEPT !.node = w]
                    /\ graph.mention[x] \in MentionRow /\ graph.mention[x].node = n
               \/ /\ h.mention[k] = gone.mention[k] /\ gone.mention[k] # None
                  /\ h.mention[k] = graph.mention[k] /\ graph.mention[k] # None
    BY <1>11, <2>1
  <2>2. h.mention[m].node \in h.node
    <3>1. CASE \E x \in RepointedMentions(c, graph) :
                 h.mention[m] = [graph.mention[x] EXCEPT !.node = w] /\ graph.mention[x] \in MentionRow
      BY <1>1, <1>13, <3>1 DEF MentionRow, TwoNodes
    <3>2. CASE h.mention[m] = gone.mention[m] /\ gone.mention[m] # None
      BY <1>3, <1>13, <3>2 DEF Constraints
    <3>3. QED
      BY <1>15, <2>1, <3>1, <3>2
  <2>3. ASSUME NEW x \in RepointedMentions(c, graph), NEW y \in RepointedMentions(c, graph), x # y,
               [graph.mention[x] EXCEPT !.node = w] = [graph.mention[y] EXCEPT !.node = w],
               graph.mention[x] \in MentionRow, graph.mention[y] \in MentionRow,
               graph.mention[x].node = n, graph.mention[y].node = n
        PROVE  FALSE
    <3>1. graph.mention[x].doc = graph.mention[y].doc
      <4>. DEFINE p == [graph.mention[x] EXCEPT !.node = w]
                  q == [graph.mention[y] EXCEPT !.node = w]
      <4>1. p.doc = graph.mention[x].doc
        BY <2>3 DEF MentionRow
      <4>2. q.doc = graph.mention[y].doc
        BY <2>3 DEF MentionRow
      <4>3. p = q
        BY <2>3
      <4>. HIDE DEF p, q
      <4>4. QED
        BY <4>1, <4>2, <4>3
    <3>2. graph.mention[x] = graph.mention[y]
      BY <2>3, <3>1, RowFields
    <3>3. graph.mention[x] # None /\ x \in MentionId /\ y \in MentionId
      BY DEF RepointedMentions, MentionsOf
    <3>4. QED
      BY <2>3, <3>2, <3>3 DEF Constraints
  <2>4. ASSUME NEW x \in RepointedMentions(c, graph), NEW k \in MentionId,
               graph.mention[x] \in MentionRow, graph.mention[k] # None,
               graph.mention[k] = [graph.mention[x] EXCEPT !.node = w]
        PROVE  FALSE
    <3>1. graph.mention[k].node = w /\ graph.mention[k].doc = graph.mention[x].doc
      BY <2>4 DEF MentionRow
    <3>2. QED
      BY <1>1, <2>4, <3>1 DEF RepointedMentions, DeletedMentions, MentionsOf
  <2>5. ASSUME NEW k \in MentionId \ {m}, h.mention[k] = h.mention[m] PROVE FALSE
    <3>1. CASE /\ \E x \in RepointedMentions(c, graph) :
                    /\ mentions[x] = m /\ h.mention[m] = [graph.mention[x] EXCEPT !.node = w]
                    /\ graph.mention[x] \in MentionRow /\ graph.mention[x].node = n
               /\ \E y \in RepointedMentions(c, graph) :
                    /\ mentions[y] = k /\ h.mention[k] = [graph.mention[y] EXCEPT !.node = w]
                    /\ graph.mention[y] \in MentionRow /\ graph.mention[y].node = n
      <4>1. PICK x \in RepointedMentions(c, graph) :
              /\ mentions[x] = m /\ h.mention[m] = [graph.mention[x] EXCEPT !.node = w]
              /\ graph.mention[x] \in MentionRow /\ graph.mention[x].node = n
        BY <3>1
      <4>2. PICK y \in RepointedMentions(c, graph) :
              /\ mentions[y] = k /\ h.mention[k] = [graph.mention[y] EXCEPT !.node = w]
              /\ graph.mention[y] \in MentionRow /\ graph.mention[y].node = n
        BY <3>1
      <4>3. x # y
        BY <2>5, <4>1, <4>2
      <4>4. QED
        BY <2>3, <2>5, <4>1, <4>2, <4>3
    <3>2. CASE /\ \E x \in RepointedMentions(c, graph) :
                    h.mention[m] = [graph.mention[x] EXCEPT !.node = w] /\ graph.mention[x] \in MentionRow
               /\ h.mention[k] = graph.mention[k] /\ graph.mention[k] # None
      BY <2>4, <2>5, <3>2
    <3>3. CASE /\ h.mention[m] = graph.mention[m] /\ graph.mention[m] # None
               /\ \E y \in RepointedMentions(c, graph) :
                    h.mention[k] = [graph.mention[y] EXCEPT !.node = w] /\ graph.mention[y] \in MentionRow
      BY <2>4, <2>5, <3>3
    <3>4. CASE /\ h.mention[m] = graph.mention[m] /\ graph.mention[m] # None
               /\ h.mention[k] = graph.mention[k] /\ graph.mention[k] # None
      BY <2>5, <3>4 DEF Constraints
    <3>5. h.mention[k] # None
      BY <1>15, <2>5
    <3>6. QED
      BY <1>15, <2>1, <2>5, <3>1, <3>2, <3>3, <3>4, <3>5
  <2>6. QED
    BY <2>2, <2>5
<1>16. \A a \in h.node : h.canon[a] \in h.node \union {None}
  BY <1>3, <1>13 DEF Constraints
<1>17. Constraints(h)
  BY <1>14, <1>15, <1>16 DEF Constraints
<1>18. QED
  BY <1>12, <1>17

\* A change of merges keeps them a forest.
LEMMA WritesForest ==
  ASSUME NEW g, RowsOK(g), ColumnsOK(g), Constraints(g), Acyclic(g),
         NEW c \in Change, Validates(c, g), NEW h, h = Writes(c, g, g), RowsOK(h)
  PROVE  Acyclic(h)
<1>1. Forest(g) /\ h.canon \in [Node -> Node \union {None}]
  BY DEF Forest, RowsOK
<1>2. CASE c.kind = "entity_merge"
  <2>1. MergeValid(c, g) /\ h = MergeWrites(c, g, g)
    BY <1>2 DEF Validates, Writes, FlagKinds
  <2>2. h.canon = [g.canon EXCEPT ![c.loser] = c.winner]
    <3>1. MergedColumns(c, g, h)
      BY <2>1, MergeColumns
    <3>2. QED
      BY <3>1 DEF MergedColumns
  <2>3. Points(g, h, c.loser, c.winner)
    BY <2>1, <2>2 DEF Points, MergeValid, RowsOK
  <2>4. QED
    BY <1>1, <2>3, MergedForest DEF Forest
<1>3. CASE c.kind # "entity_merge"
  <2>1. OnlyPoints(g, h, None, None)
    BY <1>3, WritesPoint
  <2>2. \A n \in Node : h.canon[n] \in {g.canon[n], None}
    BY <2>1 DEF OnlyPoints
  <2>3. QED
    BY <1>1, <2>2, FewerPointers DEF Forest
<1>4. QED
  BY <1>2, <1>3

\* Only edge_add makes a row of an id that had none.
LEMMA WritesNoEdge ==
  ASSUME NEW g, RowsOK(g), NEW c, ChangeOK(c), Validates(c, g), NEW h, h = Writes(c, g, g),
         NEW e \in EdgeId, g.edge[e] = None, c.kind = "edge_add" => c.edge # e
  PROVE  h.edge[e] = None
<1>1. CASE c.kind = "entity_merge"
  <2>1. MergeValid(c, g) /\ h = MergeWrites(c, g, g)
    BY <1>1 DEF Validates, Writes, FlagKinds
  <2>2. h.edge = MergeEdges(c, g, g)
    BY <2>1, MergeColumns DEF MergedColumns
  <2>3. e \notin RepointedEdges(c, g) /\ e \notin FoldTargets(c, g)
    BY DEF RepointedEdges, EdgesAt, FoldTargets, FoldsInto
  <2>4. QED
    BY <2>2, <2>3 DEF MergeEdges
<1>2. CASE c.kind = "edge_add"
  <2>1. h = EdgeAddWrites(c, g)
    BY <1>2 DEF Writes, FlagKinds
  <2>2. QED
    BY <1>2, <2>1 DEF EdgeAddWrites, RowsOK
<1>3. CASE c.kind = "edge_removal"
  <2>1. h = [g EXCEPT !.edge[c.edge] = None]
    BY <1>3 DEF Writes, FlagKinds
  <2>2. QED
    BY <2>1 DEF RowsOK
<1>4. CASE c.kind = "node_removal"
  <2>1. h = DeleteNode(g, c.node)
    BY <1>4 DEF Writes, FlagKinds
  <2>2. QED
    BY <2>1 DEF DeleteNode, RowsOK
<1>5. CASE c.kind \in FlagKinds
  <2>1. h = FlagWrites(c, g, g)
    BY <1>5 DEF Writes, FlagKinds
  <2>2. QED
    BY <2>1 DEF FlagWrites, RowsOK
<1>6. QED
  BY <1>1, <1>2, <1>3, <1>4, <1>5 DEF ChangeOK, Kind

\* A rollback makes no row of an id that its change did not find in use.
LEMMA UndoNoEdge ==
  ASSUME NEW g, RowsOK(g), NEW f, RowsOK(f), NEW c, ChangeOK(c), Validates(c, f),
         NEW d, d = SnapshotOf(c, f), NEW h, h = Undo(d, g, g),
         NEW e \in EdgeId, g.edge[e] = None, f.edge[e] = None
  PROVE  h.edge[e] = None
<1>1. CASE c.kind = "entity_merge"
  <2>1. MergeValid(c, f) /\ d = MergeSnapshot(c, f)
    BY <1>1 DEF Validates, SnapshotOf, FlagKinds
  <2>2. d.kind = "entity_merge" /\ DOMAIN d.deleted = DeletedEdges(c, f)
    BY <2>1 DEF MergeSnapshot
  <2>3. h = MergeUndo(d, g, g)
    BY <2>2 DEF Undo, FlagKinds
  <2>4. e \notin DOMAIN d.deleted
    BY <2>2 DEF DeletedEdges, LoopEdges, FoldedEdges, FoldsInto, EdgesAt
  <2>5. QED
    BY <2>3, <2>4 DEF MergeUndo, RowsOK
<1>2. CASE c.kind = "edge_add"
  <2>1. d.kind = "edge_add"
    BY <1>2 DEF SnapshotOf, FlagKinds
  <2>2. QED
    BY <2>1 DEF Undo, FlagKinds, RowsOK
<1>3. CASE c.kind = "edge_removal"
  <2>1. d.kind = "edge_removal" /\ d.edge = c.edge /\ f.edge[c.edge] # None
    BY <1>3 DEF SnapshotOf, EdgeRemovalSnapshot, Validates, FlagKinds
  <2>2. h = [g EXCEPT !.edge[d.edge] = d.row]
    BY <2>1 DEF Undo, FlagKinds
  <2>3. QED
    BY <2>1, <2>2 DEF RowsOK
<1>4. CASE c.kind = "node_removal"
  <2>1. d.kind = "node_removal"
    BY <1>4 DEF SnapshotOf, NodeSnapshot, FlagKinds
  <2>2. h = InsertNode(d, g)
    BY <2>1 DEF Undo, FlagKinds
  <2>3. QED
    BY <2>2 DEF InsertNode, RowsOK
<1>5. CASE c.kind \in FlagKinds
  <2>1. d.kind \in FlagKinds
    BY <1>5 DEF SnapshotOf, FlagSnapshot, FlagKinds
  <2>2. h = [g EXCEPT !.props[d.node] = d.before]
    BY <2>1 DEF Undo, FlagKinds
  <2>3. QED
    BY <2>2 DEF RowsOK
<1>6. QED
  BY <1>1, <1>2, <1>3, <1>4, <1>5 DEF ChangeOK, Kind

\* Starting graphs satisfy the inductive invariant.
LEMMA GraphInit == Init => GraphInv
<1>1. SUFFICES ASSUME Init PROVE GraphInv
  OBVIOUS
<1>2. /\ graph \in InitGraphs
      /\ status = [c \in Change |-> "none"] /\ applied = [c \in Change |-> None]
  BY <1>1 DEF Init
<1>3. ColumnsOK(graph) /\ RowsOK(graph) /\ Constraints(graph) /\ Acyclic(graph)
  BY <1>2, GraphsAssumption
<1>4. TypeOK
  BY <1>2, <1>3 DEF TypeOK, RowStatus
<1>5. \A c \in Change : c.kind = "edge_add" => graph.edge[c.edge] = None
  BY <1>2, NewIdsAssumption
<1>6. QED
  BY <1>2, <1>3, <1>4, <1>5 DEF GraphInv, Unused

\* Filing touches no table.
LEMMA GraphScan == GraphInv /\ Scan => GraphInv'
<1>1. SUFFICES ASSUME GraphInv, Scan PROVE GraphInv'
  OBVIOUS
<1>2. UNCHANGED <<graph, applied>>
  BY <1>1 DEF Scan
<1>3. /\ status' \in [Change -> RowStatus]
      /\ \A c \in Change : \/ status'[c] = status[c]
                           \/ status[c] = "none" /\ status'[c] = "pending"
  BY <1>1 DEF Scan, AlreadyFiled, GraphInv, TypeOK, RowStatus
<1>4. TypeOK'
  BY <1>1, <1>2, <1>3 DEF GraphInv, TypeOK
<1>5. QED
  BY <1>1, <1>2, <1>3, <1>4 DEF GraphInv, Recorded, Unused

\* Nor does a change that is refused.
LEMMA GraphFails == \A c \in Change : GraphInv /\ ApproveFails(c) => GraphInv'
<1>1. SUFFICES ASSUME NEW c \in Change, GraphInv, ApproveFails(c) PROVE GraphInv'
  OBVIOUS
<1>2. UNCHANGED <<graph, applied>>
  BY <1>1 DEF ApproveFails
<1>3. /\ status' \in [Change -> RowStatus]
      /\ \A d \in Change : \/ status'[d] = status[d]
                           \/ status[d] = "pending" /\ status'[d] = "failed"
  BY <1>1 DEF ApproveFails, GraphInv, TypeOK, RowStatus
<1>4. TypeOK'
  BY <1>1, <1>2, <1>3 DEF GraphInv, TypeOK
<1>5. QED
  BY <1>1, <1>2, <1>3, <1>4 DEF GraphInv, Recorded, Unused

\* An approval records what its change was valid on.
LEMMA GraphApprove == \A c \in Change : GraphInv /\ Approve(c) => GraphInv'
<1>1. SUFFICES ASSUME NEW c \in Change, GraphInv, Approve(c) PROVE GraphInv'
  OBVIOUS
<1>2. /\ graph' = Writes(c, graph, graph)
      /\ status[c] = "pending" /\ status' = [status EXCEPT ![c] = "applied"]
      /\ Validates(c, graph) /\ Storable(c, graph, graph)
  BY <1>1 DEF Approve, Accepts
<1>3. /\ DOMAIN applied = Change /\ DOMAIN applied' = Change
      /\ \A d \in Change \ {c} : applied'[d] = applied[d]
      /\ applied'[c] = [data |-> SnapshotOf(c, graph), found |-> graph, left |-> graph']
  BY <1>1 DEF Approve, GraphInv, TypeOK
<1>4. /\ ColumnsOK(graph) /\ RowsOK(graph) /\ Constraints(graph) /\ Acyclic(graph)
      /\ status \in [Change -> RowStatus] /\ ChangeOK(c)
  BY <1>1, KindsAssumption DEF GraphInv, TypeOK
<1>5. RowsOK(graph') /\ Constraints(graph')
  <2>1. RowsOK(graph')
    BY <1>2, <1>4, WritesKeep
  <2>2. QED
    BY <1>2, <2>1 DEF Storable
<1>6. ColumnsOK(graph')
  BY <1>2, <1>4, WritesPoint DEF OnlyPoints
<1>7. Acyclic(graph')
  BY <1>2, <1>4, <1>5, WritesForest
<1>8. status' \in [Change -> RowStatus] /\ \A d \in Change \ {c} : status'[d] = status[d]
  BY <1>2, <1>4 DEF RowStatus
<1>9. SnapshotOf(c, graph).kind = c.kind
  BY KindsAssumption
     DEF ChangeOK, SnapshotOf, MergeSnapshot, EdgeRemovalSnapshot, NodeSnapshot, FlagSnapshot, Kind, FlagKinds
<1>10. TypeOK'
  <2>1. ASSUME NEW d \in Change
        PROVE  IF status'[d] = "applied" THEN applied'[d].data.kind = d.kind ELSE applied'[d] = None
    BY <1>1, <1>2, <1>3, <1>4, <1>8, <1>9 DEF GraphInv, TypeOK
  <2>2. QED
    BY <1>2, <1>3, <1>4, <1>5, <1>6, <1>8, <2>1 DEF TypeOK
<1>11. c.kind = "edge_add" => Unused(c)
  BY <1>1, <1>2 DEF GraphInv
<1>12. ASSUME NEW d \in Change, status'[d] = "applied" PROVE Recorded(d)'
  <2>1. CASE d = c
    BY <1>2, <1>3, <1>4, <1>11, <2>1 DEF Recorded, Unused
  <2>2. CASE d # c
    <3>1. Recorded(d) /\ applied'[d] = applied[d]
      BY <1>1, <1>3, <1>8, <1>12, <2>2 DEF GraphInv
    <3>2. QED
      BY <3>1 DEF Recorded
  <2>3. QED
    BY <2>1, <2>2
<1>13. ASSUME NEW d \in Change, d.kind = "edge_add", status'[d] \notin {"applied", "rolled_back"}
       PROVE  Unused(d)'
  <2>1. d # c /\ Unused(d) /\ d.edge \in EdgeId
    BY <1>1, <1>2, <1>4, <1>8, <1>13, KindsAssumption DEF GraphInv, ChangeOK
  <2>2. c.kind = "edge_add" => c.edge # d.edge
    BY <1>13, <2>1, NewIdsAssumption
  <2>3. graph'.edge[d.edge] = None
    BY <1>2, <1>4, <2>1, <2>2, WritesNoEdge DEF Unused
  <2>4. ASSUME NEW b \in Change, status'[b] = "applied" PROVE applied'[b].found.edge[d.edge] = None
    BY <1>3, <1>8, <2>1, <2>4 DEF Unused
  <2>5. QED
    BY <2>3, <2>4 DEF Unused
<1>14. QED
  BY <1>5, <1>7, <1>10, <1>12, <1>13 DEF GraphInv

\* A rollback brings back what was there once.
LEMMA GraphRollback == \A c \in Change : GraphInv /\ Rollback(c) => GraphInv'
<1>1. SUFFICES ASSUME NEW c \in Change, GraphInv, Rollback(c) PROVE GraphInv'
  OBVIOUS
<1>. DEFINE f == applied[c].found
            s == applied[c].data
<1>2. /\ graph' = Undo(s, graph, graph)
      /\ status[c] = "applied" /\ status' = [status EXCEPT ![c] = "rolled_back"]
      /\ Undoable(s, graph) /\ UndoStorable(s, graph, graph)
  BY <1>1 DEF Rollback
<1>3. /\ DOMAIN applied = Change /\ applied' = [applied EXCEPT ![c] = None]
      /\ DOMAIN applied' = Change
      /\ applied'[c] = None /\ \A d \in Change \ {c} : applied'[d] = applied[d]
  BY <1>1 DEF Rollback, GraphInv, TypeOK
<1>4. /\ ColumnsOK(graph) /\ RowsOK(graph) /\ Constraints(graph) /\ Acyclic(graph)
      /\ status \in [Change -> RowStatus] /\ ChangeOK(c)
      /\ s.kind = c.kind
  BY <1>1, <1>2, KindsAssumption DEF GraphInv, TypeOK
<1>5. RowsOK(f) /\ Validates(c, f) /\ s = SnapshotOf(c, f)
  BY <1>1, <1>2 DEF GraphInv, Recorded
<1>. HIDE DEF f, s
<1>6. SnapshotOK(s)
  BY <1>4, <1>5 DEF SnapshotOK
<1>7. RowsOK(graph') /\ Constraints(graph')
  <2>1. RowsOK(graph')
    BY <1>2, <1>4, <1>6, UndoKeeps
  <2>2. QED
    BY <1>2, <2>1 DEF UndoStorable
<1>8. OnlyPoints(graph, graph', None, None)
  BY <1>2, <1>4, UndoPoints DEF ChangeOK
<1>9. ColumnsOK(graph') /\ Acyclic(graph')
  <2>1. \A n \in Node : graph'.canon[n] \in {graph.canon[n], None}
    BY <1>8 DEF OnlyPoints
  <2>2. Forest(graph) /\ graph'.canon \in [Node -> Node \union {None}]
    BY <1>4, <1>7 DEF Forest, RowsOK
  <2>3. QED
    BY <1>8, <2>1, <2>2, FewerPointers DEF OnlyPoints, Forest
<1>10. status' \in [Change -> RowStatus] /\ \A d \in Change \ {c} : status'[d] = status[d]
  BY <1>2, <1>4 DEF RowStatus
<1>11. TypeOK'
  <2>1. ASSUME NEW d \in Change
        PROVE  IF status'[d] = "applied" THEN applied'[d].data.kind = d.kind ELSE applied'[d] = None
    BY <1>1, <1>2, <1>3, <1>4, <1>10 DEF GraphInv, TypeOK
  <2>2. QED
    BY <1>2, <1>3, <1>4, <1>7, <1>9, <1>10, <2>1 DEF TypeOK
<1>12. ASSUME NEW d \in Change, status'[d] = "applied" PROVE Recorded(d)'
  <2>1. d # c
    BY <1>2, <1>4, <1>12
  <2>2. Recorded(d) /\ applied'[d] = applied[d]
    BY <1>1, <1>3, <1>10, <1>12, <2>1 DEF GraphInv
  <2>3. QED
    BY <2>2 DEF Recorded
<1>13. ASSUME NEW d \in Change, d.kind = "edge_add", status'[d] \notin {"applied", "rolled_back"}
       PROVE  Unused(d)'
  <2>1. d # c /\ Unused(d) /\ d.edge \in EdgeId
    BY <1>1, <1>2, <1>4, <1>10, <1>13, KindsAssumption DEF GraphInv, ChangeOK
  <2>2. f.edge[d.edge] = None /\ graph.edge[d.edge] = None
    BY <1>2, <2>1 DEF Unused, f
  <2>3. graph'.edge[d.edge] = None
    BY <1>2, <1>4, <1>5, <2>1, <2>2, UndoNoEdge
  <2>4. ASSUME NEW b \in Change, status'[b] = "applied" PROVE applied'[b].found.edge[d.edge] = None
    <3>1. b # c
      BY <1>2, <1>4, <2>4
    <3>2. QED
      BY <1>3, <1>10, <2>1, <2>4, <3>1 DEF Unused
  <2>5. QED
    BY <2>3, <2>4 DEF Unused
<1>14. QED
  BY <1>7, <1>9, <1>11, <1>12, <1>13 DEF GraphInv

\* A stub that goes takes rows along, and its copies have new ids.
LEMMA GraphReconcile == \A n \in Node : GraphInv /\ Reconcile(n) => GraphInv'
<1>1. SUFFICES ASSUME NEW n \in Node, GraphInv, Reconcile(n) PROVE GraphInv'
  OBVIOUS
<1>2. PICK edges \in Injection(EdgesRedirected(n), FreeEdges),
           mentions \in Injection(MentionsCarried(n), FreeMentions) :
        graph' = Folded(n, edges, mentions)
  BY <1>1 DEF Reconcile
<1>3. Stub(n) /\ UNCHANGED <<status, applied>>
  BY <1>1 DEF Reconcile
<1>4. ColumnsOK(graph) /\ RowsOK(graph) /\ Constraints(graph) /\ Acyclic(graph)
  BY <1>1 DEF GraphInv, TypeOK
<1>5. RowsOK(graph') /\ Constraints(graph')
  BY <1>2, <1>3, <1>4, FoldedKeeps
<1>6. PICK gone : gone = DeleteNode(graph, n)
  OBVIOUS
<1>7. /\ DOMAIN gone = Column
      /\ gone.canon = [a \in Node |-> IF a = n \/ graph.canon[a] = n THEN None ELSE graph.canon[a]]
      /\ gone.edge = [e \in EdgeId |-> IF e \in EdgesAt(graph, n) THEN None ELSE graph.edge[e]]
  BY <1>4, <1>6 DEF DeleteNode, ColumnsOK, Column
<1>8. DOMAIN graph' = Column /\ graph'.canon = gone.canon
  BY <1>2, <1>6, <1>7 DEF Folded, Column
<1>9. ColumnsOK(graph') /\ Acyclic(graph')
  <2>1. \A a \in Node : graph'.canon[a] \in {graph.canon[a], None}
    BY <1>7, <1>8
  <2>2. Forest(graph) /\ graph'.canon \in [Node -> Node \union {None}]
    BY <1>4, <1>5 DEF Forest, RowsOK
  <2>3. QED
    BY <1>7, <1>8, <2>1, <2>2, FewerPointers DEF ColumnsOK, Forest
<1>10. TypeOK'
  BY <1>1, <1>3, <1>5, <1>9 DEF GraphInv, TypeOK
<1>11. ASSUME NEW d \in Change, status'[d] = "applied" PROVE Recorded(d)'
  BY <1>1, <1>3, <1>11 DEF GraphInv, Recorded
<1>12. ASSUME NEW d \in Change, d.kind = "edge_add", status'[d] \notin {"applied", "rolled_back"}
       PROVE  Unused(d)'
  <2>1. Unused(d) /\ d.edge \in EdgeId /\ d.edge \notin Fresh
    BY <1>1, <1>3, <1>12, KindsAssumption, NewIdsAssumption DEF GraphInv, ChangeOK
  <2>2. d.edge \notin Range(edges)
    BY <2>1 DEF Injection, Range, FreeEdges
  <2>3. graph'.edge[d.edge] = gone.edge[d.edge]
    BY <1>2, <1>6, <1>7, <2>1, <2>2 DEF Folded, Column
  <2>4. graph'.edge[d.edge] = None
    BY <1>7, <2>1, <2>3 DEF Unused
  <2>5. QED
    BY <1>3, <2>1, <2>4 DEF Unused
<1>13. QED
  BY <1>5, <1>9, <1>10, <1>11, <1>12 DEF GraphInv

\* No step of the loop leaves the invariant.
LEMMA GraphStep == GraphInv /\ [Next]_vars => GraphInv'
<1>1. CASE UNCHANGED vars
  BY <1>1 DEF vars, GraphInv, TypeOK, Recorded, Unused
<1>2. QED
  BY <1>1, GraphScan, GraphFails, GraphApprove, GraphRollback, GraphReconcile DEF Next

\* In every behaviour the tables keep their columns' types, and a row says
\* "applied" just when it has its own kind's snapshot.
THEOREM GraphTypeCorrect == Spec => []TypeOK
<1>1. GraphInv => TypeOK
  BY DEF GraphInv
<1>2. QED
  BY <1>1, GraphInit, GraphStep, PTL DEF Spec

\* In every behaviour the loop of _canonical_id ends at a canonical node after at
\* most as many hops as there are nodes, whatever was merged and rolled back.
THEOREM AliasesEnd == Spec => []AliasForest
<1>1. GraphInv => AliasForest
  <2>1. SUFFICES ASSUME GraphInv, NEW n \in graph.node PROVE graph.canon[RootOf(graph, n)] = None
    BY DEF AliasForest
  <2>2. Forest(graph) /\ n \in Node
    BY <2>1 DEF GraphInv, TypeOK, Forest, RowsOK
  <2>3. QED
    BY <2>2, RootIsRoot
<1>2. QED
  BY <1>1, GraphInit, GraphStep, PTL DEF Spec

\* In every behaviour, what a scan files on the graph it reads is valid there and
\* meets no constraint of the schema.
THEOREM FindingsStored == Spec => []FindingsApply
<1>1. GraphInv => FindingsApply
  <2>1. SUFFICES ASSUME GraphInv, NEW c \in Change, Found(c, graph) PROVE Accepts(c)
    BY DEF FindingsApply
  <2>2. RowsOK(graph) /\ Constraints(graph) /\ ChangeOK(c)
    BY <2>1, KindsAssumption DEF GraphInv, TypeOK
  <2>3. c.kind = "entity_merge" => c.loser # c.winner
    <3>1. SUFFICES ASSUME c.kind = "entity_merge", c.loser = c.winner PROVE FALSE
      OBVIOUS
    <3>2. {c.loser} \in Similar /\ c.loser \in Node
      BY <2>1, <2>2, <3>1 DEF Found, DuplicateFound, Canonical, RowsOK
    <3>3. QED
      BY <3>2, PairsAssumption
  <2>4. c.kind = "edge_add" => c.source # c.target
    <3>1. SUFFICES ASSUME c.kind = "edge_add", c.source = c.target PROVE FALSE
      OBVIOUS
    <3>2. {c.source} \in Close /\ c.source \in Node
      BY <2>1, <2>2, <3>1 DEF Found, MissingEdgeFound, Canonical, RowsOK
    <3>3. QED
      BY <3>2, PairsAssumption
  <2>5. Validates(c, graph)
    BY <2>1, <2>3, <2>4, FindingsValidate
  <2>6. QED
    BY <2>2, <2>5, WritesKeep DEF Accepts
<1>2. QED
  BY <1>1, GraphInit, GraphStep, PTL DEF Spec

\* In every behaviour, as long as the graph is as a change left it, its rollback is
\* accepted and restores the graph the change found, whatever came before.
THEOREM RollbackRestores == Spec => []Reversible
<1>1. GraphInv => Reversible
  <2>1. SUFFICES ASSUME GraphInv, NEW c \in Change, Current(c), ~RemovesAlias(c) PROVE Restores(c)
    BY DEF Reversible
  <2>. DEFINE f == applied[c].found
              d == applied[c].data
  <2>2. Recorded(c) /\ graph = applied[c].left /\ ChangeOK(c)
    BY <2>1, KindsAssumption DEF GraphInv, Current
  <2>3. /\ RowsOK(f) /\ Constraints(f) /\ Validates(c, f) /\ d = SnapshotOf(c, f)
        /\ graph = Writes(c, f, f)
        /\ c.kind = "edge_add" => f.edge[c.edge] = None
    BY <2>2 DEF Recorded
  <2>4. ~AliasRemoval(c, f)
    BY <2>1 DEF RemovesAlias, AliasRemoval
  <2>. HIDE DEF f, d
  <2>5. Undoable(d, graph) /\ UndoStorable(d, graph, graph) /\ Undo(d, graph, graph) = f
    BY <2>2, <2>3, <2>4, UndoRestores
  <2>6. QED
    BY <2>5 DEF Restores, f, d
<1>2. QED
  BY <1>1, GraphInit, GraphStep, PTL DEF Spec

-----------------------------------------------------------------------------
(* What a graph says, before and after rows move from one node to another. *)

\* The node that the end of an edge or a mention moves to.
MovedTo(c, n) == IF n = c.loser THEN c.winner ELSE n

\* h has the edges of g with their ends moved, and no other; loops may be gone.
EdgesMoved(c, g, h) ==
  /\ \A e \in EdgeId : h.edge[e] # None =>
       \E x \in EdgeId : g.edge[x] # None /\ SameEnds(h.edge[e], Moved(g.edge[x], c))
  /\ \A x \in EdgeId : g.edge[x] # None =>
       \/ x \in LoopEdges(c, g)
       \/ \E e \in EdgeId : h.edge[e] # None /\ SameEnds(h.edge[e], Moved(g.edge[x], c))

\* Likewise the mentions.
MentionsMoved(c, g, h) ==
  /\ \A m \in MentionId : h.mention[m] # None =>
       \E k \in MentionId : /\ g.mention[k] # None /\ h.mention[m].doc = g.mention[k].doc
                            /\ h.mention[m].node = MovedTo(c, g.mention[k].node)
  /\ \A k \in MentionId : g.mention[k] # None =>
       \E m \in MentionId : /\ h.mention[m] # None /\ h.mention[m].doc = g.mention[k].doc
                            /\ h.mention[m].node = MovedTo(c, g.mention[k].node)

\* (Moved, end by end.)
LEMMA MovedEnds ==
  ASSUME NEW row \in EdgeRow, NEW c
  PROVE  Moved(row, c).source = MovedTo(c, row.source) /\ Moved(row, c).target = MovedTo(c, row.target)
BY DEF Moved, MovedTo, EdgeRow

\* Read where loser and winner are one, moved rows say what they said.
LEMMA MovedFacts ==
  ASSUME NEW g, RowsOK(g), NEW h, RowsOK(h), NEW c, NEW r, RootOf(r, c.loser) = RootOf(r, c.winner),
         EdgesMoved(c, g, h)
  PROVE  NoLoops(FactsIn(r, h)) = NoLoops(FactsIn(r, g))
<1>1. ASSUME NEW n PROVE RootOf(r, MovedTo(c, n)) = RootOf(r, n)
  BY DEF MovedTo
<1>2. ASSUME NEW x \in EdgeId, g.edge[x] # None, NEW row, SameEnds(row, Moved(g.edge[x], c))
      PROVE  /\ RootOf(r, row.source) = RootOf(r, g.edge[x].source)
             /\ RootOf(r, row.target) = RootOf(r, g.edge[x].target)
  <2>1. g.edge[x] \in EdgeRow
    BY <1>2 DEF RowsOK
  <2>2. row.source = MovedTo(c, g.edge[x].source) /\ row.target = MovedTo(c, g.edge[x].target)
    BY <1>2, <2>1, MovedEnds DEF SameEnds
  <2>3. QED
    BY <1>1, <2>2
<1>3. ASSUME NEW x \in LoopEdges(c, g) PROVE RootOf(r, g.edge[x].source) = RootOf(r, g.edge[x].target)
  <2>1. g.edge[x] \in EdgeRow /\ Moved(g.edge[x], c).source = Moved(g.edge[x], c).target
    BY DEF LoopEdges, EdgesAt, RowsOK
  <2>2. MovedTo(c, g.edge[x].source) = MovedTo(c, g.edge[x].target)
    BY <2>1, MovedEnds
  <2>3. QED
    BY <1>1, <2>2
<1>4. ASSUME NEW f \in NoLoops(FactsIn(r, h)) PROVE f \in NoLoops(FactsIn(r, g))
  <2>1. PICK e \in EdgeId : /\ h.edge[e] # None
                            /\ f = <<RootOf(r, h.edge[e].source), RootOf(r, h.edge[e].target)>>
    BY DEF NoLoops, FactsIn
  <2>2. PICK x \in EdgeId : g.edge[x] # None /\ SameEnds(h.edge[e], Moved(g.edge[x], c))
    BY <2>1 DEF EdgesMoved
  <2>3. f = <<RootOf(r, g.edge[x].source), RootOf(r, g.edge[x].target)>>
    BY <1>2, <2>1, <2>2
  <2>4. f \in FactsIn(r, g)
    BY <2>2, <2>3 DEF FactsIn
  <2>5. QED
    BY <2>4 DEF NoLoops
<1>5. ASSUME NEW f \in NoLoops(FactsIn(r, g)) PROVE f \in NoLoops(FactsIn(r, h))
  <2>1. PICK x \in EdgeId : /\ g.edge[x] # None
                            /\ f = <<RootOf(r, g.edge[x].source), RootOf(r, g.edge[x].target)>>
    BY DEF NoLoops, FactsIn
  <2>2. x \notin LoopEdges(c, g)
    BY <1>3, <2>1 DEF NoLoops
  <2>3. PICK e \in EdgeId : h.edge[e] # None /\ SameEnds(h.edge[e], Moved(g.edge[x], c))
    BY <2>1, <2>2 DEF EdgesMoved
  <2>4. f = <<RootOf(r, h.edge[e].source), RootOf(r, h.edge[e].target)>>
    BY <1>2, <2>1, <2>3
  <2>5. f \in FactsIn(r, h)
    BY <2>3, <2>4 DEF FactsIn
  <2>6. QED
    BY <2>5 DEF NoLoops
<1>6. QED
  BY <1>4, <1>5

\* Likewise the mentions.
LEMMA MovedEvidence ==
  ASSUME NEW g, NEW h, NEW c, NEW r, RootOf(r, c.loser) = RootOf(r, c.winner), MentionsMoved(c, g, h)
  PROVE  EvidenceIn(r, h) = EvidenceIn(r, g)
<1>1. ASSUME NEW n PROVE RootOf(r, MovedTo(c, n)) = RootOf(r, n)
  BY DEF MovedTo
<1>2. ASSUME NEW f \in EvidenceIn(r, h) PROVE f \in EvidenceIn(r, g)
  <2>1. PICK m \in MentionId : h.mention[m] # None /\ f = <<RootOf(r, h.mention[m].node), h.mention[m].doc>>
    BY DEF EvidenceIn
  <2>2. PICK k \in MentionId : /\ g.mention[k] # None /\ h.mention[m].doc = g.mention[k].doc
                               /\ h.mention[m].node = MovedTo(c, g.mention[k].node)
    BY <2>1 DEF MentionsMoved
  <2>3. f = <<RootOf(r, g.mention[k].node), g.mention[k].doc>>
    BY <1>1, <2>1, <2>2
  <2>4. QED
    BY <2>2, <2>3 DEF EvidenceIn
<1>3. ASSUME NEW f \in EvidenceIn(r, g) PROVE f \in EvidenceIn(r, h)
  <2>1. PICK k \in MentionId : g.mention[k] # None /\ f = <<RootOf(r, g.mention[k].node), g.mention[k].doc>>
    BY DEF EvidenceIn
  <2>2. PICK m \in MentionId : /\ h.mention[m] # None /\ h.mention[m].doc = g.mention[k].doc
                               /\ h.mention[m].node = MovedTo(c, g.mention[k].node)
    BY <2>1 DEF MentionsMoved
  <2>3. f = <<RootOf(r, h.mention[m].node), h.mention[m].doc>>
    BY <1>1, <2>1, <2>2
  <2>4. QED
    BY <2>2, <2>3 DEF EvidenceIn
<1>4. QED
  BY <1>2, <1>3

\* A row that is not at the loser does not move.
LEMMA NotMoved ==
  ASSUME NEW g, RowsOK(g), NEW c, NEW e \in EdgeId, g.edge[e] # None, e \notin EdgesAt(g, c.loser)
  PROVE  SameEnds(g.edge[e], Moved(g.edge[e], c))
<1>1. g.edge[e] \in EdgeRow /\ g.edge[e].source # c.loser /\ g.edge[e].target # c.loser
  BY DEF RowsOK, EdgesAt
<1>2. QED
  BY <1>1 DEF Moved, SameEnds, EdgeRow

\* A merge moves the edges ...
LEMMA MergeMovesEdges ==
  ASSUME NEW g, RowsOK(g), NEW c, MergeValid(c, g), NEW h, h.edge = MergeEdges(c, g, g)
  PROVE  EdgesMoved(c, g, h)
<1>1. TwoNodes(c, g)
  BY ValidTwoNodes
<1>2. ASSUME NEW e \in EdgeId, e \in FoldTargets(c, g)
      PROVE  h.edge[e] # None /\ SameEnds(h.edge[e], g.edge[e]) /\ g.edge[e] # None /\ e \notin EdgesAt(g, c.loser)
  <2>1. /\ h.edge[e] = [g.edge[e] EXCEPT !.weight = FoldedWeight(e, c, g)] /\ h.edge[e] \in EdgeRow
        /\ g.edge[e] \in EdgeRow /\ e \notin EdgesAt(g, c.loser)
    BY <1>1, <1>2, MergedEdge, MergeSets
  <2>2. QED
    BY <2>1, NoneAssumption DEF SameEnds, EdgeRow
<1>3. ASSUME NEW e \in EdgeId, h.edge[e] # None
      PROVE  \E x \in EdgeId : g.edge[x] # None /\ SameEnds(h.edge[e], Moved(g.edge[x], c))
  <2>1. CASE e \in RepointedEdges(c, g)
    <3>1. h.edge[e] = Moved(g.edge[e], c) /\ g.edge[e] # None
      BY <2>1, MergedEdge DEF RepointedEdges, EdgesAt
    <3>2. QED
      BY <3>1 DEF SameEnds
  <2>2. CASE e \in FoldTargets(c, g)
    <3>1. SameEnds(g.edge[e], Moved(g.edge[e], c))
      BY <1>2, <2>2, NotMoved
    <3>2. QED
      BY <1>2, <2>2, <3>1 DEF SameEnds
  <2>3. CASE e \notin RepointedEdges(c, g) /\ e \notin FoldTargets(c, g)
    <3>1. e \notin EdgesAt(g, c.loser)
      BY <1>3, <2>3, MergedEdge DEF RepointedEdges
    <3>2. h.edge[e] = g.edge[e]
      BY <2>3, <3>1, MergedEdge
    <3>3. QED
      BY <1>3, <3>1, <3>2, NotMoved
  <2>4. QED
    BY <2>1, <2>2, <2>3
<1>4. ASSUME NEW x \in EdgeId, g.edge[x] # None, x \notin LoopEdges(c, g)
      PROVE  \E e \in EdgeId : h.edge[e] # None /\ SameEnds(h.edge[e], Moved(g.edge[x], c))
  <2>1. CASE x \in RepointedEdges(c, g)
    <3>1. h.edge[x] = Moved(g.edge[x], c) /\ h.edge[x] \in EdgeRow
      BY <2>1, MergedEdge
    <3>2. QED
      BY <3>1, NoneAssumption DEF SameEnds
  <2>2. CASE x \in FoldedEdges(c, g)
    <3>1. PICK f \in EdgeId : FoldsInto(x, f, c, g)
      BY <2>2 DEF FoldedEdges
    <3>2. h.edge[f] # None /\ SameEnds(h.edge[f], g.edge[f])
      BY <1>2, <3>1 DEF FoldTargets
    <3>3. QED
      BY <3>1, <3>2 DEF FoldsInto, SameEnds
  <2>3. CASE x \in FoldTargets(c, g)
    <3>1. SameEnds(g.edge[x], Moved(g.edge[x], c))
      BY <1>2, <2>3, NotMoved
    <3>2. QED
      BY <1>2, <2>3, <3>1 DEF SameEnds
  <2>4. CASE x \notin EdgesAt(g, c.loser) /\ x \notin FoldTargets(c, g)
    <3>1. h.edge[x] = g.edge[x]
      BY <2>4, MergedEdge
    <3>2. QED
      BY <1>4, <2>4, <3>1, NotMoved
  <2>5. QED
    BY <1>4, <2>1, <2>2, <2>3, <2>4 DEF RepointedEdges, DeletedEdges
<1>5. QED
  BY <1>3, <1>4 DEF EdgesMoved

\* ... and the mentions.
LEMMA MergeMovesMentions ==
  ASSUME NEW g, RowsOK(g), NEW c, MergeValid(c, g), NEW h, h.mention = MergeMentions(c, g, g)
  PROVE  MentionsMoved(c, g, h)
<1>1. c.loser # c.winner
  BY DEF MergeValid
<1>2. ASSUME NEW m \in MentionId, m \in RepointedMentions(c, g)
      PROVE  /\ g.mention[m] # None /\ h.mention[m] # None /\ h.mention[m].doc = g.mention[m].doc
             /\ h.mention[m].node = MovedTo(c, g.mention[m].node)
  <2>1. /\ g.mention[m] \in MentionRow /\ g.mention[m].node = c.loser
        /\ h.mention[m] = [g.mention[m] EXCEPT !.node = c.winner] /\ h.mention[m] \in MentionRow
    BY <1>2, MergedMention
  <2>2. QED
    BY <2>1, NoneAssumption DEF MovedTo, MentionRow
<1>3. ASSUME NEW m \in MentionId, m \notin MentionsOf(g, c.loser), g.mention[m] # None
      PROVE  h.mention[m] = g.mention[m] /\ g.mention[m].node = MovedTo(c, g.mention[m].node)
  BY <1>3, MergedMention DEF MovedTo, MentionsOf
<1>4. ASSUME NEW m \in MentionId, h.mention[m] # None
      PROVE  \E k \in MentionId : /\ g.mention[k] # None /\ h.mention[m].doc = g.mention[k].doc
                                  /\ h.mention[m].node = MovedTo(c, g.mention[k].node)
  <2>1. CASE m \in RepointedMentions(c, g)
    BY <1>2, <2>1
  <2>2. CASE m \notin RepointedMentions(c, g)
    <3>1. m \notin MentionsOf(g, c.loser)
      BY <1>4, <2>2, MergedMention DEF RepointedMentions
    <3>2. h.mention[m] = g.mention[m]
      BY <3>1, MergedMention
    <3>3. QED
      BY <1>3, <1>4, <3>1, <3>2
  <2>3. QED
    BY <2>1, <2>2
<1>5. ASSUME NEW k \in MentionId, g.mention[k] # None
      PROVE  \E m \in MentionId : /\ h.mention[m] # None /\ h.mention[m].doc = g.mention[k].doc
                                  /\ h.mention[m].node = MovedTo(c, g.mention[k].node)
  <2>1. CASE k \in RepointedMentions(c, g)
    BY <1>2, <2>1
  <2>2. CASE k \in DeletedMentions(c, g)
    <3>1. PICK m \in MentionsOf(g, c.winner) : g.mention[m].doc = g.mention[k].doc
      BY <2>2 DEF DeletedMentions
    <3>2. m \in MentionId /\ g.mention[m] # None /\ g.mention[m].node = c.winner /\ m \notin MentionsOf(g, c.loser)
      BY <1>1, <3>1 DEF MentionsOf
    <3>3. h.mention[m] = g.mention[m]
      BY <1>3, <3>2
    <3>4. g.mention[k].node = c.loser
      BY <2>2 DEF DeletedMentions, MentionsOf
    <3>5. QED
      BY <3>1, <3>2, <3>3, <3>4 DEF MovedTo
  <2>3. CASE k \notin MentionsOf(g, c.loser)
    BY <1>3, <1>5, <2>3
  <2>4. QED
    BY <2>1, <2>2, <2>3 DEF RepointedMentions
<1>6. QED
  BY <1>4, <1>5 DEF MentionsMoved

\* An edge folds into one edge only, and no other folds into that.
LEMMA FoldsApart ==
  ASSUME NEW g, RowsOK(g), Constraints(g), NEW c, TwoNodes(c, g),
         NEW x \in EdgeId, NEW f \in EdgeId, FoldsInto(x, f, c, g)
  PROVE  /\ \A k \in EdgeId : FoldsInto(x, k, c, g) => k = f
         /\ \A y \in EdgeId : FoldsInto(y, f, c, g) => y = x
<1>1. ASSUME NEW k \in EdgeId, FoldsInto(x, k, c, g), k # f PROVE FALSE
  <2>1. g.edge[k] # None /\ g.edge[f] # None /\ SameEnds(g.edge[k], g.edge[f])
    BY <1>1 DEF FoldsInto, SameEnds
  <2>2. QED
    BY <1>1, <2>1 DEF Constraints
<1>2. ASSUME NEW y \in EdgeId, FoldsInto(y, f, c, g)
      PROVE  /\ g.edge[y] # None /\ g.edge[y] \in EdgeRow /\ c.loser \in {g.edge[y].source, g.edge[y].target}
             /\ Moved(g.edge[y], c).source # Moved(g.edge[y], c).target
             /\ SameEnds(g.edge[f], Moved(g.edge[y], c))
  BY <1>2, MergeSets DEF FoldsInto, EdgesAt, LoopEdges
<1>3. ASSUME NEW y \in EdgeId, FoldsInto(y, f, c, g), y # x PROVE FALSE
  <2>1. SameEnds(Moved(g.edge[x], c), Moved(g.edge[y], c))
    BY <1>2, <1>3 DEF SameEnds
  <2>2. ~SameEnds(g.edge[x], g.edge[y])
    BY <1>2, <1>3 DEF Constraints
  <2>3. /\ g.edge[x] \in EdgeRow /\ c.loser \in {g.edge[x].source, g.edge[x].target}
        /\ Moved(g.edge[x], c).source # Moved(g.edge[x], c).target
    BY <1>2
  <2>4. /\ g.edge[y] \in EdgeRow /\ c.loser \in {g.edge[y].source, g.edge[y].target}
        /\ Moved(g.edge[y], c).source # Moved(g.edge[y], c).target
    BY <1>2, <1>3
  <2>5. QED
    BY <2>1, <2>2, <2>3, <2>4 DEF Moved, SameEnds, EdgeRow
<1>4. QED
  BY <1>1, <1>3

\* The weights of the rows after a merge.
LEMMA MergedWeights ==
  ASSUME NEW g, RowsOK(g), Constraints(g), NEW c, MergeValid(c, g), NEW h, h.edge = MergeEdges(c, g, g)
  PROVE  /\ \A e \in DeletedEdges(c, g) : Weights(h)[e] = 0
         /\ \A x, f \in EdgeId : FoldsInto(x, f, c, g) =>
              Weights(h)[f] = Weights(g)[f] + Weights(g)[x]
         /\ \A e \in EdgeId : e \notin DeletedEdges(c, g) /\ e \notin FoldTargets(c, g) =>
              Weights(h)[e] = Weights(g)[e]
<1>1. TwoNodes(c, g)
  BY ValidTwoNodes
<1>2. ASSUME NEW e \in DeletedEdges(c, g) PROVE Weights(h)[e] = 0
  <2>1. e \in EdgeId /\ h.edge[e] = None
    BY <1>1, MergeSets, MergedEdge DEF EdgesAt
  <2>2. QED
    BY <2>1 DEF Weights
<1>3. ASSUME NEW x \in EdgeId, NEW f \in EdgeId, FoldsInto(x, f, c, g)
      PROVE  Weights(h)[f] = Weights(g)[f] + Weights(g)[x]
  <2>1. f \in FoldTargets(c, g) /\ x \in EdgesAt(g, c.loser)
    BY <1>3 DEF FoldTargets, FoldsInto
  <2>2. /\ h.edge[f] = [g.edge[f] EXCEPT !.weight = FoldedWeight(f, c, g)] /\ h.edge[f] \in EdgeRow
        /\ g.edge[f] \in EdgeRow /\ g.edge[x] \in EdgeRow
    BY <1>1, <2>1, MergedEdge, MergeSets
  <2>3. (CHOOSE y \in EdgeId : FoldsInto(y, f, c, g)) = x
    BY <1>1, <1>3, FoldsApart
  <2>4. FoldedWeight(f, c, g) = g.edge[f].weight + g.edge[x].weight
    BY <2>3 DEF FoldedWeight
  <2>5. h.edge[f].weight = g.edge[f].weight + g.edge[x].weight
    BY <2>2, <2>4 DEF EdgeRow
  <2>6. h.edge[f] # None /\ g.edge[f] # None /\ g.edge[x] # None
    BY <2>2, NoneAssumption
  <2>7. QED
    BY <2>5, <2>6 DEF Weights
<1>4. ASSUME NEW e \in EdgeId, e \notin DeletedEdges(c, g), e \notin FoldTargets(c, g)
      PROVE  Weights(h)[e] = Weights(g)[e]
  <2>1. CASE e \in RepointedEdges(c, g)
    <3>1. h.edge[e] = Moved(g.edge[e], c) /\ h.edge[e] \in EdgeRow /\ g.edge[e] \in EdgeRow
      BY <1>1, <2>1, MergedEdge, MergeSets
    <3>2. h.edge[e].weight = g.edge[e].weight
      BY <3>1 DEF Moved, EdgeRow
    <3>3. h.edge[e] # None /\ g.edge[e] # None
      BY <3>1, NoneAssumption
    <3>4. QED
      BY <3>2, <3>3 DEF Weights
  <2>2. CASE e \notin RepointedEdges(c, g)
    <3>1. h.edge[e] = g.edge[e]
      BY <1>4, <2>2, MergedEdge DEF RepointedEdges
    <3>2. QED
      BY <3>1 DEF Weights
  <2>3. QED
    BY <2>1, <2>2
<1>5. QED
  BY <1>2, <1>3, <1>4

\* (They are numbers.)
LEMMA WeightsNat ==
  ASSUME NEW g, RowsOK(g)
  PROVE  \A e \in EdgeId : Weights(g)[e] \in Nat
<1>1. ASSUME NEW e \in EdgeId PROVE Weights(g)[e] \in Nat
  <2>1. g.edge[e] # None => g.edge[e].weight \in Nat
    BY DEF RowsOK, EdgeRow
  <2>2. QED
    BY <2>1 DEF Weights
<1>2. QED
  BY <1>1

\* A merge loses no weight but that of the loops.
LEMMA MergeKeepsWeight ==
  ASSUME NEW g, RowsOK(g), Constraints(g), NEW c, MergeValid(c, g),
         NEW h, RowsOK(h), h.edge = MergeEdges(c, g, g)
  PROVE  WeightOf(h, EdgeId) = WeightOf(g, EdgeId \ LoopEdges(c, g))
<1>. DEFINE L == LoopEdges(c, g)
            S == EdgeId \ L
            F == FoldedEdges(c, g)
            to == [x \in F |-> CHOOSE f \in EdgeId : FoldsInto(x, f, c, g)]
<1>1. TwoNodes(c, g)
  BY ValidTwoNodes
<1>2. L \subseteq EdgeId /\ F \in SUBSET S /\ DeletedEdges(c, g) = L \union F /\ IsFiniteSet(S)
  <2>1. IsFiniteSet(S)
    BY EdgesAssumption, FS_Subset
  <2>2. QED
    BY <2>1 DEF LoopEdges, EdgesAt, FoldedEdges, FoldsInto, DeletedEdges
<1>3. ASSUME NEW x \in F PROVE to[x] \in EdgeId /\ FoldsInto(x, to[x], c, g)
  <2>1. \E f \in EdgeId : FoldsInto(x, f, c, g)
    BY DEF FoldedEdges
  <2>2. to[x] = CHOOSE f \in EdgeId : FoldsInto(x, f, c, g)
    OBVIOUS
  <2>. HIDE DEF to
  <2>3. QED
    BY <2>1, <2>2
<1>. HIDE DEF L, F, S
<1>4. to \in [F -> S \ F]
  <2>1. ASSUME NEW x \in F PROVE to[x] \in S \ F
    <3>1. x \in EdgeId
      BY <1>2 DEF S
    <3>2. to[x] \in FoldTargets(c, g)
      BY <1>3, <3>1 DEF FoldTargets
    <3>3. to[x] \notin EdgesAt(g, c.loser)
      BY <1>1, <3>2, MergeSets
    <3>4. L \subseteq EdgesAt(g, c.loser) /\ F \subseteq EdgesAt(g, c.loser)
      BY DEF L, F, LoopEdges, FoldedEdges, FoldsInto
    <3>5. QED
      BY <1>3, <3>3, <3>4 DEF S
  <2>2. QED
    BY <2>1
<1>5. DOMAIN to = F
  OBVIOUS
<1>. HIDE DEF to
<1>6. \A x, y \in F : to[x] = to[y] => x = y
  <2>1. F \subseteq EdgeId
    BY <1>2 DEF S
  <2>2. QED
    BY <1>1, <1>3, <2>1, FoldsApart
<1>. DEFINE p == Weights(g)
            q == Weights(h)
<1>7. \A x \in F : q[x] = 0 /\ q[to[x]] = p[to[x]] + p[x]
  <2>1. F \subseteq EdgeId
    BY <1>2 DEF S
  <2>2. QED
    BY <1>2, <1>3, <2>1, MergedWeights
<1>8. ASSUME NEW z \in S \ F, \A x \in F : to[x] # z PROVE q[z] = p[z]
  <2>1. z \in EdgeId /\ z \notin DeletedEdges(c, g)
    BY <1>2 DEF S
  <2>2. ASSUME z \in FoldTargets(c, g) PROVE FALSE
    <3>1. PICK x \in EdgeId : FoldsInto(x, z, c, g)
      BY <2>2 DEF FoldTargets
    <3>2. x \in F
      BY <2>1, <3>1 DEF F, FoldedEdges
    <3>3. to[x] = z
      BY <1>1, <1>3, <2>1, <3>1, <3>2, FoldsApart
    <3>4. QED
      BY <1>8, <3>2, <3>3
  <2>3. QED
    BY <2>1, <2>2, MergedWeights
<1>9. (\A e \in EdgeId : p[e] \in Nat) /\ (\A e \in EdgeId : q[e] \in Nat)
  BY WeightsNat
<1>10. \A e \in L : q[e] = 0
  BY <1>2, MergedWeights
<1>11. WeightOf(h, EdgeId) = SumFunctionOnSet(q, EdgeId)
       /\ WeightOf(g, EdgeId \ LoopEdges(c, g)) = SumFunctionOnSet(p, S)
  BY DEF WeightOf, S, L
<1>. HIDE DEF p, q
<1>12. SumFunctionOnSet(q, S) = SumFunctionOnSet(q, EdgeId)
  BY <1>2, <1>9, <1>10, EdgesAssumption, SumZeros DEF S
<1>13. SumFunctionOnSet(q, S) = SumFunctionOnSet(p, S)
  <2>1. \A x \in S : p[x] \in Nat
    BY <1>9 DEF S
  <2>2. QED
    BY <1>2, <1>4, <1>6, <1>7, <1>8, <2>1, SumFolds
<1>14. QED
  BY <1>11, <1>12, <1>13

\* Nothing is left on the loser.
LEMMA MergeLeavesNothing ==
  ASSUME NEW g, RowsOK(g), Constraints(g), NEW c, MergeValid(c, g),
         NEW h, h.edge = MergeEdges(c, g, g), h.mention = MergeMentions(c, g, g)
  PROVE  EdgesAt(h, c.loser) = {} /\ MentionsOf(h, c.loser) = {}
<1>1. TwoNodes(c, g)
  BY ValidTwoNodes
<1>2. ASSUME NEW e \in EdgesAt(h, c.loser) PROVE FALSE
  <2>1. e \in EdgeId /\ h.edge[e] # None /\ c.loser \in {h.edge[e].source, h.edge[e].target}
    BY DEF EdgesAt
  <2>2. CASE e \in RepointedEdges(c, g)
    BY <1>1, <2>1, <2>2, MovedDistinct, MergedEdge
  <2>3. CASE e \in FoldTargets(c, g)
    <3>1. /\ h.edge[e] = [g.edge[e] EXCEPT !.weight = FoldedWeight(e, c, g)]
          /\ g.edge[e] \in EdgeRow /\ e \notin EdgesAt(g, c.loser)
      BY <1>1, <2>1, <2>3, MergedEdge, MergeSets
    <3>2. h.edge[e].source = g.edge[e].source /\ h.edge[e].target = g.edge[e].target /\ g.edge[e] # None
      BY <3>1, NoneAssumption DEF EdgeRow
    <3>3. QED
      BY <2>1, <3>1, <3>2 DEF EdgesAt
  <2>4. CASE e \notin RepointedEdges(c, g) /\ e \notin FoldTargets(c, g)
    <3>1. e \notin EdgesAt(g, c.loser)
      BY <2>1, <2>4, MergedEdge DEF RepointedEdges
    <3>2. h.edge[e] = g.edge[e]
      BY <2>1, <2>4, <3>1, MergedEdge
    <3>3. QED
      BY <2>1, <3>1, <3>2 DEF EdgesAt
  <2>5. QED
    BY <2>2, <2>3, <2>4
<1>3. ASSUME NEW m \in MentionsOf(h, c.loser) PROVE FALSE
  <2>1. m \in MentionId /\ h.mention[m] # None /\ h.mention[m].node = c.loser
    BY DEF MentionsOf
  <2>2. CASE m \in RepointedMentions(c, g)
    <3>1. g.mention[m] \in MentionRow /\ h.mention[m] = [g.mention[m] EXCEPT !.node = c.winner]
      BY <2>1, <2>2, MergedMention
    <3>2. h.mention[m].node = c.winner
      BY <3>1 DEF MentionRow
    <3>3. QED
      BY <1>1, <2>1, <3>2 DEF TwoNodes
  <2>3. CASE m \notin RepointedMentions(c, g)
    <3>1. m \notin MentionsOf(g, c.loser)
      BY <2>1, <2>3, MergedMention DEF RepointedMentions
    <3>2. h.mention[m] = g.mention[m]
      BY <2>1, <3>1, MergedMention
    <3>3. QED
      BY <2>1, <3>1, <3>2 DEF MentionsOf
  <2>4. QED
    BY <2>2, <2>3
<1>4. QED
  BY <1>2, <1>3

\* In every behaviour a merge moves all that was said of the loser to the survivor.
THEOREM MergesKeepFacts == Spec => MergeKeepsFacts
<1>. DEFINE Kept(c) == /\ NoLoops(FactsIn(graph', graph')) = NoLoops(FactsIn(graph', graph))
                       /\ EvidenceIn(graph', graph') = EvidenceIn(graph', graph)
                       /\ WeightOf(graph', EdgeId) = WeightOf(graph, EdgeId \ LoopEdges(c, graph))
                       /\ EdgesAt(graph', c.loser) = {} /\ MentionsOf(graph', c.loser) = {}
<1>1. ASSUME GraphInv, [Next]_vars, NEW c \in Change,
             c.kind = "entity_merge", status[c] = "pending", status'[c] = "applied"
      PROVE  Kept(c)
  <2>1. Approve(c)
    BY <1>1 DEF Next, vars, Scan, Reconcile, Approve, ApproveFails, Rollback, GraphInv, TypeOK
  <2>2. PICK g : g = graph
    OBVIOUS
  <2>3. PICK h : h = graph'
    OBVIOUS
  <2>4. RowsOK(g) /\ Constraints(g) /\ Acyclic(g)
    BY <1>1, <2>2 DEF GraphInv, TypeOK
  <2>5. MergeValid(c, g) /\ h = MergeWrites(c, g, g)
    BY <1>1, <2>1, <2>2, <2>3 DEF Approve, Accepts, Validates, Writes, FlagKinds
  <2>6. RowsOK(h) /\ MergedColumns(c, g, h)
    BY <2>4, <2>5, MergeRowsOK, MergeColumns
  <2>7. h.edge = MergeEdges(c, g, g) /\ h.mention = MergeMentions(c, g, g)
        /\ h.canon = [g.canon EXCEPT ![c.loser] = c.winner]
    BY <2>6 DEF MergedColumns
  <2>8. RootOf(h, c.loser) = RootOf(h, c.winner)
    <3>1. Forest(g) /\ Points(g, h, c.loser, c.winner)
      BY <2>4, <2>5, <2>7 DEF Forest, Points, RowsOK, MergeValid
    <3>2. Forest(h)
      BY <3>1, MergedForest
    <3>3. c.loser \in Node /\ h.canon[c.loser] = c.winner /\ c.winner # None
      BY <2>7, <3>1, NoneAssumption DEF Points, Forest
    <3>4. QED
      BY <3>2, <3>3, RootOfHop
  <2>9. NoLoops(FactsIn(h, h)) = NoLoops(FactsIn(h, g))
    BY <2>4, <2>5, <2>6, <2>7, <2>8, MergeMovesEdges, MovedFacts
  <2>10. EvidenceIn(h, h) = EvidenceIn(h, g)
    BY <2>4, <2>5, <2>7, <2>8, MergeMovesMentions, MovedEvidence
  <2>11. WeightOf(h, EdgeId) = WeightOf(g, EdgeId \ LoopEdges(c, g))
    BY <2>4, <2>5, <2>6, <2>7, MergeKeepsWeight
  <2>12. EdgesAt(h, c.loser) = {} /\ MentionsOf(h, c.loser) = {}
    BY <2>4, <2>5, <2>7, MergeLeavesNothing
  <2>13. QED
    BY <2>2, <2>3, <2>9, <2>10, <2>11, <2>12
<1>2. GraphInv /\ [Next]_vars =>
        [\A c \in Change : c.kind = "entity_merge" /\ status[c] = "pending" /\ status'[c] = "applied" =>
           Kept(c)]_vars
  BY <1>1
<1>3. QED
  BY <1>2, GraphInit, GraphStep, PTL DEF Spec, MergeKeepsFacts

-----------------------------------------------------------------------------
(* A stub that becomes its file. *)

\* The row of a mention that moves to a node.
MentionCopy(row, old, w) == row # None /\ row.doc = old.doc /\ row.node = w

\* Each edge of h is one of graph, at the same id if it was not at the stub, at the id
\* of its copy if it was and the file had no such edge.
StubEdges(n, h) ==
  /\ \A e \in EdgeId : h.edge[e] # None =>
       \/ e \notin EdgesAt(graph, n) /\ h.edge[e] = graph.edge[e]
       \/ \E x \in RepointedEdges(IntoFile(n), graph) : h.edge[e] = Moved(graph.edge[x], IntoFile(n))
  /\ \A e \in EdgeId : graph.edge[e] # None /\ e \notin EdgesAt(graph, n) => h.edge[e] = graph.edge[e]
  /\ \A x \in RepointedEdges(IntoFile(n), graph) :
       \E e \in EdgeId : h.edge[e] = Moved(graph.edge[x], IntoFile(n))

\* Likewise each mention.
StubMentions(n, h) ==
  /\ \A m \in MentionId : h.mention[m] # None =>
       \/ m \notin MentionsOf(graph, n) /\ h.mention[m] = graph.mention[m]
       \/ \E k \in RepointedMentions(IntoFile(n), graph) :
            MentionCopy(h.mention[m], graph.mention[k], FileOf[n])
  /\ \A m \in MentionId : graph.mention[m] # None /\ m \notin MentionsOf(graph, n) =>
       h.mention[m] = graph.mention[m]
  /\ \A k \in RepointedMentions(IntoFile(n), graph) :
       \E m \in MentionId : MentionCopy(h.mention[m], graph.mention[k], FileOf[n])

\* That is what reconcile_wikilinks does.
LEMMA FoldedRows ==
  ASSUME RowsOK(graph), NEW n \in Node, Stub(n),
         NEW edges \in Injection(EdgesRedirected(n), FreeEdges),
         NEW mentions \in Injection(MentionsCarried(n), FreeMentions),
         NEW h, h = Folded(n, edges, mentions)
  PROVE  /\ h.node = graph.node \ {n}
         /\ h.canon = [a \in Node |-> IF a = n \/ graph.canon[a] = n THEN None ELSE graph.canon[a]]
         /\ StubEdges(n, h)
         /\ StubMentions(n, h)
<1>0. PICK c : c = IntoFile(n)
  OBVIOUS
<1>1. PICK gone : gone = DeleteNode(graph, n)
  OBVIOUS
<1>2. /\ gone.node = graph.node \ {n}
      /\ gone.canon = [a \in Node |-> IF a = n \/ graph.canon[a] = n THEN None ELSE graph.canon[a]]
      /\ gone.edge = [e \in EdgeId |-> IF e \in EdgesAt(graph, n) THEN None ELSE graph.edge[e]]
      /\ gone.mention = [m \in MentionId |-> IF m \in MentionsOf(graph, n) THEN None ELSE graph.mention[m]]
      /\ {"node", "canon", "edge", "mention"} \subseteq DOMAIN gone
  BY <1>1 DEF DeleteNode, RowsOK
<1>3. /\ edges \in [RepointedEdges(c, graph) -> FreeEdges]
      /\ \A x, y \in RepointedEdges(c, graph) : edges[x] = edges[y] => x = y
      /\ mentions \in [RepointedMentions(c, graph) -> FreeMentions]
      /\ \A x, y \in RepointedMentions(c, graph) : mentions[x] = mentions[y] => x = y
  BY <1>0 DEF Injection, IsInjective, EdgesRedirected, MentionsCarried
<1>4. h.node = gone.node /\ h.canon = gone.canon
  BY <1>1, <1>2 DEF Folded
<1>5. h.edge = [e \in EdgeId |->
         IF e \in Range(edges)
         THEN Moved(graph.edge[CHOOSE x \in DOMAIN edges : edges[x] = e], c) ELSE gone.edge[e]]
  BY <1>0, <1>1, <1>2 DEF Folded
<1>6. h.mention = [m \in MentionId |->
         IF m \in Range(mentions)
         THEN [graph.mention[CHOOSE x \in DOMAIN mentions : mentions[x] = m] EXCEPT !.node = FileOf[n]]
         ELSE gone.mention[m]]
  BY <1>1, <1>2 DEF Folded
<1>7. ASSUME NEW x \in RepointedEdges(c, graph)
      PROVE  /\ edges[x] \in EdgeId /\ graph.edge[edges[x]] = None
             /\ h.edge[edges[x]] = Moved(graph.edge[x], c)
  <2>1. edges[x] \in Range(edges) /\ edges[x] \in EdgeId /\ graph.edge[edges[x]] = None
    BY <1>3 DEF Range, FreeEdges
  <2>2. (CHOOSE y \in DOMAIN edges : edges[y] = edges[x]) = x
    BY <1>3
  <2>3. QED
    BY <1>5, <2>1, <2>2
<1>8. ASSUME NEW x \in RepointedMentions(c, graph)
      PROVE  /\ mentions[x] \in MentionId /\ graph.mention[mentions[x]] = None
             /\ MentionCopy(h.mention[mentions[x]], graph.mention[x], FileOf[n])
  <2>1. mentions[x] \in Range(mentions) /\ mentions[x] \in MentionId /\ graph.mention[mentions[x]] = None
    BY <1>3 DEF Range, FreeMentions
  <2>2. (CHOOSE y \in DOMAIN mentions : mentions[y] = mentions[x]) = x
    BY <1>3
  <2>3. h.mention[mentions[x]] = [graph.mention[x] EXCEPT !.node = FileOf[n]]
    BY <1>6, <2>1, <2>2
  <2>4. graph.mention[x] \in MentionRow /\ FileOf[n] \in Node
    BY DEF RepointedMentions, MentionsOf, RowsOK, Stub
  <2>5. [graph.mention[x] EXCEPT !.node = FileOf[n]] \in MentionRow
    BY <2>4 DEF MentionRow
  <2>6. QED
    BY <2>1, <2>3, <2>4, <2>5, NoneAssumption DEF MentionCopy, MentionRow
<1>9. \A e \in Range(edges) : \E x \in RepointedEdges(c, graph) : e = edges[x]
  BY <1>3 DEF Range
<1>10. \A m \in Range(mentions) : \E x \in RepointedMentions(c, graph) : m = mentions[x]
  BY <1>3 DEF Range
<1>11. ASSUME NEW e \in EdgeId
       PROVE  /\ h.edge[e] # None =>
                   \/ e \notin EdgesAt(graph, n) /\ h.edge[e] = graph.edge[e]
                   \/ \E x \in RepointedEdges(c, graph) : h.edge[e] = Moved(graph.edge[x], c)
              /\ graph.edge[e] # None /\ e \notin EdgesAt(graph, n) => h.edge[e] = graph.edge[e]
  <2>1. CASE e \in Range(edges)
    BY <1>7, <1>9, <2>1
  <2>2. CASE e \notin Range(edges)
    BY <1>2, <1>5, <2>2
  <2>3. QED
    BY <2>1, <2>2
<1>12. ASSUME NEW m \in MentionId
       PROVE  /\ h.mention[m] # None =>
                   \/ m \notin MentionsOf(graph, n) /\ h.mention[m] = graph.mention[m]
                   \/ \E k \in RepointedMentions(c, graph) :
                        MentionCopy(h.mention[m], graph.mention[k], FileOf[n])
              /\ graph.mention[m] # None /\ m \notin MentionsOf(graph, n) => h.mention[m] = graph.mention[m]
  <2>1. CASE m \in Range(mentions)
    BY <1>8, <1>10, <2>1
  <2>2. CASE m \notin Range(mentions)
    BY <1>2, <1>6, <2>2
  <2>3. QED
    BY <2>1, <2>2
<1>13. StubEdges(n, h)
  BY <1>0, <1>7, <1>11 DEF StubEdges
<1>14. StubMentions(n, h)
  BY <1>0, <1>8, <1>12 DEF StubMentions
<1>15. QED
  BY <1>2, <1>4, <1>13, <1>14

\* Its edges move to the file ...
LEMMA FoldedMovesEdges ==
  ASSUME RowsOK(graph), NEW n \in Node, Stub(n),
         NEW h, StubEdges(n, h), NEW c, c = IntoFile(n)
  PROVE  EdgesMoved(c, graph, h)
<1>1. c.loser = n /\ TwoNodes(c, graph)
  BY DEF IntoFile, Stub, TwoNodes
<1>2. \A x \in RepointedEdges(c, graph) :
        x \in EdgeId /\ graph.edge[x] # None /\ Moved(graph.edge[x], c) # None
  BY <1>1, MergeSets, NoneAssumption DEF RepointedEdges, EdgesAt
<1>3. ASSUME NEW e \in EdgeId, h.edge[e] # None
      PROVE  \E x \in EdgeId : graph.edge[x] # None /\ SameEnds(h.edge[e], Moved(graph.edge[x], c))
  <2>1. CASE e \notin EdgesAt(graph, n) /\ h.edge[e] = graph.edge[e]
    BY <1>1, <1>3, <2>1, NotMoved
  <2>2. CASE \E x \in RepointedEdges(c, graph) : h.edge[e] = Moved(graph.edge[x], c)
    BY <1>2, <2>2 DEF SameEnds
  <2>3. QED
    BY <1>3, <2>1, <2>2 DEF StubEdges
<1>4. ASSUME NEW x \in EdgeId, graph.edge[x] # None, x \notin LoopEdges(c, graph)
      PROVE  \E e \in EdgeId : h.edge[e] # None /\ SameEnds(h.edge[e], Moved(graph.edge[x], c))
  <2>1. CASE x \in RepointedEdges(c, graph)
    <3>1. PICK e \in EdgeId : h.edge[e] = Moved(graph.edge[x], c)
      BY <2>1 DEF StubEdges
    <3>2. QED
      BY <1>2, <2>1, <3>1 DEF SameEnds
  <2>2. CASE x \in FoldedEdges(c, graph)
    <3>1. PICK f \in EdgeId : FoldsInto(x, f, c, graph)
      BY <2>2 DEF FoldedEdges
    <3>2. f \notin EdgesAt(graph, n) /\ graph.edge[f] # None
      BY <1>1, <3>1, MergeSets DEF FoldTargets, FoldsInto
    <3>3. h.edge[f] = graph.edge[f]
      BY <3>2 DEF StubEdges
    <3>4. QED
      BY <3>1, <3>2, <3>3 DEF FoldsInto
  <2>3. CASE x \notin EdgesAt(graph, n)
    <3>1. h.edge[x] = graph.edge[x]
      BY <1>4, <2>3 DEF StubEdges
    <3>2. QED
      BY <1>1, <1>4, <2>3, <3>1, NotMoved
  <2>4. QED
    BY <1>1, <1>4, <2>1, <2>2, <2>3 DEF RepointedEdges, DeletedEdges
<1>5. QED
  BY <1>3, <1>4 DEF EdgesMoved

\* ... and so do its mentions.
LEMMA FoldedMovesMentions ==
  ASSUME RowsOK(graph), NEW n \in Node, Stub(n),
         NEW h, StubMentions(n, h), NEW c, c = IntoFile(n)
  PROVE  MentionsMoved(c, graph, h)
<1>1. c.loser = n /\ c.winner = FileOf[n] /\ TwoNodes(c, graph) /\ FileOf[n] \in Node
  BY DEF IntoFile, Stub, TwoNodes, RowsOK
<1>2. ASSUME NEW k \in RepointedMentions(c, graph), NEW row, MentionCopy(row, graph.mention[k], FileOf[n])
      PROVE  /\ k \in MentionId /\ graph.mention[k] # None /\ row # None
             /\ row.doc = graph.mention[k].doc /\ row.node = MovedTo(c, graph.mention[k].node)
  <2>1. k \in MentionId /\ graph.mention[k] # None /\ graph.mention[k].node = n /\ graph.mention[k] \in MentionRow
    BY <1>1 DEF RepointedMentions, MentionsOf, RowsOK
  <2>2. QED
    BY <1>1, <1>2, <2>1 DEF MovedTo, MentionCopy
<1>3. ASSUME NEW m \in MentionId, graph.mention[m] # None, m \notin MentionsOf(graph, n)
      PROVE  graph.mention[m].node = MovedTo(c, graph.mention[m].node)
  BY <1>1, <1>3 DEF MovedTo, MentionsOf
<1>4. ASSUME NEW m \in MentionId, h.mention[m] # None
      PROVE  \E k \in MentionId : /\ graph.mention[k] # None /\ h.mention[m].doc = graph.mention[k].doc
                                  /\ h.mention[m].node = MovedTo(c, graph.mention[k].node)
  <2>1. CASE m \notin MentionsOf(graph, n) /\ h.mention[m] = graph.mention[m]
    BY <1>3, <1>4, <2>1
  <2>2. CASE \E k \in RepointedMentions(c, graph) : MentionCopy(h.mention[m], graph.mention[k], FileOf[n])
    BY <1>2, <2>2
  <2>3. QED
    BY <1>4, <2>1, <2>2 DEF StubMentions
<1>5. ASSUME NEW k \in MentionId, graph.mention[k] # None
      PROVE  \E m \in MentionId : /\ h.mention[m] # None /\ h.mention[m].doc = graph.mention[k].doc
                                  /\ h.mention[m].node = MovedTo(c, graph.mention[k].node)
  <2>1. CASE k \in RepointedMentions(c, graph)
    <3>1. PICK m \in MentionId : MentionCopy(h.mention[m], graph.mention[k], FileOf[n])
      BY <2>1 DEF StubMentions
    <3>2. QED
      BY <1>2, <2>1, <3>1
  <2>2. CASE k \in DeletedMentions(c, graph)
    <3>1. PICK m \in MentionsOf(graph, c.winner) : graph.mention[m].doc = graph.mention[k].doc
      BY <2>2 DEF DeletedMentions
    <3>2. /\ m \in MentionId /\ graph.mention[m] # None /\ graph.mention[m].node = FileOf[n]
          /\ m \notin MentionsOf(graph, n)
      BY <1>1, <3>1 DEF MentionsOf, TwoNodes
    <3>3. h.mention[m] = graph.mention[m]
      BY <3>2 DEF StubMentions
    <3>4. graph.mention[k].node = n
      BY <1>1, <2>2 DEF DeletedMentions, MentionsOf
    <3>5. QED
      BY <1>1, <3>1, <3>2, <3>3, <3>4 DEF MovedTo
  <2>3. CASE k \notin MentionsOf(graph, n)
    <3>1. h.mention[k] = graph.mention[k]
      BY <1>5, <2>3 DEF StubMentions
    <3>2. QED
      BY <1>3, <1>5, <2>3, <3>1
  <2>4. QED
    BY <1>1, <2>1, <2>2, <2>3 DEF RepointedMentions
<1>6. QED
  BY <1>4, <1>5 DEF MentionsMoved

\* Read as its file, the stub ends where the file does, and no other node's chain
\* passes through it.
LEMMA ReadAsFileRoots ==
  ASSUME NEW g, ColumnsOK(g), RowsOK(g), Acyclic(g), NEW n \in g.node, FileOf[n] \in g.node \ {n},
         NEW h, h.canon = [a \in Node |-> IF a = n \/ g.canon[a] = n THEN None ELSE g.canon[a]],
         NEW r, r = ReadAsFile(g, n)
  PROVE  /\ RootOf(r, n) = RootOf(r, FileOf[n])
         /\ \A k \in Node \ {n} : RootOf(h, k) = RootOf(r, k)
<1>1. r.canon = [a \in Node |-> IF a = n THEN FileOf[n] ELSE IF g.canon[a] = n THEN None ELSE g.canon[a]]
  BY DEF ReadAsFile, RowsOK
<1>2. /\ n \in Node /\ FileOf[n] \in Node /\ FileOf[n] # n /\ g.canon \in [Node -> Node \union {None}]
      /\ None \notin Node
  BY NoneAssumption DEF RowsOK
<1>3. Forest(h)
  <2>1. Forest(g)
    BY <1>2 DEF Forest
  <2>2. h.canon \in [Node -> Node \union {None}] /\ \A a \in Node : h.canon[a] \in {g.canon[a], None}
    BY <1>2
  <2>3. QED
    BY <2>1, <2>2, FewerPointers
<1>4. Forest(r)
  <2>1. r.canon \in [Node -> Node \union {None}]
    BY <1>1, <1>2
  <2>2. ASSUME NEW S \in SUBSET Node, S # {}, \A x \in S : r.canon[x] \in S PROVE FALSE
    <3>. DEFINE T == S \ {n}
    <3>1. T # {}
      <4>1. n \in S => FileOf[n] \in T
        BY <1>1, <1>2, <2>2
      <4>2. QED
        BY <2>2, <4>1
    <3>2. \A x \in T : g.canon[x] \in T
      BY <1>1, <1>2, <2>2
    <3>3. QED
      BY <3>1, <3>2 DEF Acyclic
  <2>3. QED
    BY <2>1, <2>2 DEF Forest, Acyclic
<1>5. RootOf(r, n) = RootOf(r, FileOf[n])
  <2>1. r.canon[n] = FileOf[n]
    BY <1>1, <1>2
  <2>2. QED
    BY <1>2, <1>4, <2>1, RootOfHop
<1>. DEFINE S == {k \in Node : k = n \/ RootOf(h, k) = RootOf(r, k)}
<1>6. ASSUME NEW k \in Node, h.canon[k] = None \/ h.canon[k] \in S PROVE k \in S
  <2>1. SUFFICES ASSUME k # n PROVE RootOf(h, k) = RootOf(r, k)
    OBVIOUS
  <2>2. h.canon[k] = r.canon[k] /\ h.canon[k] # n
    BY <1>1, <1>2, <2>1
  <2>3. /\ RootOf(h, k) = IF h.canon[k] = None THEN k ELSE RootOf(h, h.canon[k])
        /\ RootOf(r, k) = IF r.canon[k] = None THEN k ELSE RootOf(r, r.canon[k])
    BY <1>3, <1>4, RootOfHop
  <2>4. QED
    BY <1>6, <2>2, <2>3
<1>7. Node \subseteq S
  <2>. HIDE DEF S
  <2>1. QED
    BY <1>3, <1>6, HopInduction
<1>8. QED
  BY <1>5, <1>7

\* What is said depends on nothing but where the ends of the rows end.
LEMMA SameReading ==
  ASSUME NEW h, Constraints(h), NEW r, \A k \in h.node : RootOf(h, k) = RootOf(r, k)
  PROVE  FactsIn(h, h) = FactsIn(r, h) /\ EvidenceIn(h, h) = EvidenceIn(r, h)
<1>1. ASSUME NEW e \in EdgeId, h.edge[e] # None
      PROVE  /\ RootOf(h, h.edge[e].source) = RootOf(r, h.edge[e].source)
             /\ RootOf(h, h.edge[e].target) = RootOf(r, h.edge[e].target)
  BY <1>1 DEF Constraints
<1>2. ASSUME NEW m \in MentionId, h.mention[m] # None
      PROVE  RootOf(h, h.mention[m].node) = RootOf(r, h.mention[m].node)
  BY <1>2 DEF Constraints
<1>3. FactsIn(h, h) = FactsIn(r, h)
  BY <1>1 DEF FactsIn
<1>4. EvidenceIn(h, h) = EvidenceIn(r, h)
  BY <1>2 DEF EvidenceIn
<1>5. QED
  BY <1>3, <1>4

\* In every behaviour a stub that is folded into its file leaves all that was said of
\* it to the file, and breaks no constraint.
THEOREM StubsKeepFacts == Spec => StubKeepsFacts
<1>. DEFINE Kept(n) == /\ NoLoops(FactsIn(graph', graph')) = NoLoops(FactsIn(ReadAsFile(graph, n), graph))
                       /\ EvidenceIn(graph', graph') = EvidenceIn(ReadAsFile(graph, n), graph)
                       /\ Constraints(graph')
<1>1. ASSUME GraphInv, [Next]_vars, NEW n \in graph.node \ graph'.node, Stub(n), UNCHANGED status
      PROVE  Kept(n)
  <2>1. RowsOK(graph) /\ ColumnsOK(graph) /\ Constraints(graph) /\ Acyclic(graph)
    BY <1>1 DEF GraphInv, TypeOK
  <2>2. PICK k \in Node : Reconcile(k)
    <3>1. graph' # graph
      BY <1>1
    <3>2. \A c \in Change : ~Approve(c) /\ ~Rollback(c)
      BY <1>1 DEF Approve, Rollback, GraphInv, TypeOK
    <3>3. QED
      BY <1>1, <3>1, <3>2 DEF Next, vars, Scan, ApproveFails
  <2>3. PICK edges \in Injection(EdgesRedirected(k), FreeEdges),
             mentions \in Injection(MentionsCarried(k), FreeMentions) :
          graph' = Folded(k, edges, mentions)
    BY <2>2 DEF Reconcile
  <2>4. Stub(k)
    BY <2>2 DEF Reconcile
  <2>5. PICK h : h = graph'
    OBVIOUS
  <2>6. h = Folded(k, edges, mentions)
    BY <2>3, <2>5
  <2>7. PICK c : c = IntoFile(k)
    OBVIOUS
  <2>8. /\ h.node = graph.node \ {k}
        /\ h.canon = [a \in Node |-> IF a = k \/ graph.canon[a] = k THEN None ELSE graph.canon[a]]
        /\ StubEdges(k, h) /\ StubMentions(k, h)
    BY <2>1, <2>4, <2>6, FoldedRows
  <2>9. n = k
    BY <1>1, <2>5, <2>8
  <2>10. RowsOK(h) /\ Constraints(h)
    BY <2>1, <2>4, <2>6, FoldedKeeps
  <2>11. EdgesMoved(c, graph, h) /\ MentionsMoved(c, graph, h)
    BY <2>1, <2>4, <2>7, <2>8, FoldedMovesEdges, FoldedMovesMentions
  <2>12. PICK r : r = ReadAsFile(graph, k)
    OBVIOUS
  <2>13. RootOf(r, k) = RootOf(r, FileOf[k]) /\ \A a \in Node \ {k} : RootOf(h, a) = RootOf(r, a)
    BY <2>1, <2>4, <2>8, <2>12, ReadAsFileRoots DEF Stub
  <2>14. c.loser = k /\ c.winner = FileOf[k]
    BY <2>7 DEF IntoFile
  <2>15. NoLoops(FactsIn(r, h)) = NoLoops(FactsIn(r, graph)) /\ EvidenceIn(r, h) = EvidenceIn(r, graph)
    BY <2>1, <2>10, <2>11, <2>13, <2>14, MovedFacts, MovedEvidence
  <2>16. \A a \in h.node : RootOf(h, a) = RootOf(r, a)
    BY <2>1, <2>8, <2>13 DEF RowsOK
  <2>17. FactsIn(h, h) = FactsIn(r, h) /\ EvidenceIn(h, h) = EvidenceIn(r, h)
    BY <2>10, <2>16, SameReading
  <2>18. QED
    BY <2>5, <2>9, <2>10, <2>12, <2>15, <2>17
<1>2. GraphInv /\ [Next]_vars =>
        [\A n \in graph.node \ graph'.node : Stub(n) /\ UNCHANGED status => Kept(n)]_vars
  BY <1>1
<1>3. QED
  BY <1>2, GraphInit, GraphStep, PTL DEF Spec, StubKeepsFacts
=============================================================================
