--------------------------- MODULE GraphHandlers ---------------------------
(***************************************************************************)
(* The proposal handlers that change the graph tables (app/proposals:      *)
(* merge.py, edge_add.py, hygiene.py, stale.py, conflict.py), as functions *)
(* of the tables.  A graph g is a record of the rows the handlers touch:   *)
(*   g.node     ids of the rows of nodes                                   *)
(*   g.canon    nodes.canonical_node_id, None = NULL                       *)
(*   g.props    nodes.properties, with summary as one more key: a function *)
(*              from keys to values, None = the key is missing             *)
(*   g.vec      the nodes that have an embedding                           *)
(*   g.edge     the rows of edges by id, None = no row; one relationship   *)
(*              type, weight for everything a fold combines                *)
(*   g.mention  the rows of node_mentions by id, None = no row             *)
(*                                                                         *)
(* A handler reads the tables once, in validate() and apply(), and its     *)
(* rows are committed later, over what the tables are by then (now).  With *)
(* one session g and now are the same graph.                               *)
(***************************************************************************)
EXTENDS Naturals, FiniteSets

CONSTANTS
  Node, EdgeId, MentionId,   \* ids of rows
  Doc,                       \* documents, of which mentions tell
  NodeType,                  \* nodes.node_type of each node
  None                       \* SQL NULL

EdgeRow == [source : Node, target : Node, weight : Nat \ {0}]
MentionRow == [node : Node, doc : Doc]

ASSUME NodeAssumption == IsFiniteSet(Node)
ASSUME NoneAssumption == None \notin Node \union EdgeRow \union MentionRow

IsMap(f) == f = [x \in DOMAIN f |-> f[x]]

\* What the columns hold; a node that has no row has no pointer.
RowsOK(g) ==
  /\ IsMap(g) /\ {"node", "canon", "props", "vec", "edge", "mention"} \subseteq DOMAIN g
  /\ g.node \subseteq Node /\ g.vec \subseteq g.node
  /\ g.canon \in [Node -> Node \union {None}]
  /\ \A n \in Node \ g.node : g.canon[n] = None
  /\ IsMap(g.props) /\ DOMAIN g.props = Node
  /\ g.edge \in [EdgeId -> EdgeRow \union {None}]
  /\ g.mention \in [MentionId -> MentionRow \union {None}]

EdgesAt(g, n) ==
  {e \in EdgeId : g.edge[e] # None /\ n \in {g.edge[e].source, g.edge[e].target}}

MentionsOf(g, n) == {m \in MentionId : g.mention[m] # None /\ g.mention[m].node = n}

AliasesOf(g, n) == {a \in g.node : g.canon[a] = n}

SameEnds(r, q) == r.source = q.source /\ r.target = q.target

\* What the schema enforces: foreign keys, uq_edges_identity and
\* uq_node_mentions_identity.
Constraints(g) ==
  /\ \A n \in g.node : g.canon[n] \in g.node \union {None}
  /\ \A e \in EdgeId : g.edge[e] # None =>
       /\ g.edge[e].source \in g.node
       /\ g.edge[e].target \in g.node
       /\ \A f \in EdgeId \ {e} : g.edge[f] # None => ~SameEnds(g.edge[e], g.edge[f])
  /\ \A m \in MentionId : g.mention[m] # None =>
       /\ g.mention[m].node \in g.node
       /\ \A k \in MentionId \ {m} : g.mention[k] # g.mention[m]

-----------------------------------------------------------------------------
(* Reading through merges. *)

\* One turn of the loop of Resolver._canonical_id.
Hop(g, n) == IF g.canon[n] = None THEN n ELSE g.canon[n]

\* Resolver._canonical_id: where a chain of merges ends.
RootOf(g, n) ==
  LET at[k \in 0 .. Cardinality(Node)] == IF k = 0 THEN n ELSE Hop(g, at[k - 1])
  IN  at[Cardinality(Node)]

\* canonical_node_id leads nowhere in a circle.
Acyclic(g) == \A S \in SUBSET Node : S # {} => \E n \in S : g.canon[n] \notin S

\* What the edges and mentions say of the canonical nodes of h.
FactsIn(h, g) ==
  {<<RootOf(h, g.edge[e].source), RootOf(h, g.edge[e].target)>> :
     e \in {x \in EdgeId : g.edge[x] # None}}
EvidenceIn(h, g) ==
  {<<RootOf(h, g.mention[m].node), g.mention[m].doc>> :
     m \in {x \in MentionId : g.mention[x] # None}}

-----------------------------------------------------------------------------
(* entity_merge: [kind, loser, winner] *)

\* {**p, **q}: every key of either, q's values win.
Override(p, q) == [k \in DOMAIN p |-> IF q[k] # None THEN q[k] ELSE p[k]]

\* Mutant: merged nodes may be merged on.
MergeValidOfAliases(c, g) ==
  {c.loser, c.winner} \subseteq g.node /\ c.loser # c.winner

MergeValid(c, g) ==
  /\ {c.loser, c.winner} \subseteq g.node
  /\ c.loser # c.winner
  /\ NodeType[c.loser] = NodeType[c.winner]
  /\ g.canon[c.loser] = None /\ g.canon[c.winner] = None

\* A row of the loser with its ends moved to the winner.
Moved(row, c) ==
  [row EXCEPT !.source = IF @ = c.loser THEN c.winner ELSE @,
              !.target = IF @ = c.loser THEN c.winner ELSE @]

\* The edges that collapse to a self-loop.
LoopEdges(c, g) ==
  {e \in EdgesAt(g, c.loser) : LET r == Moved(g.edge[e], c) IN r.source = r.target}

\* f already asserts what e asserts once e is moved.
FoldsInto(e, f, c, g) ==
  /\ e \in EdgesAt(g, c.loser) \ LoopEdges(c, g)
  /\ g.edge[f] # None
  /\ SameEnds(g.edge[f], Moved(g.edge[e], c))

FoldedEdges(c, g) == {e \in EdgeId : \E f \in EdgeId : FoldsInto(e, f, c, g)}
FoldTargets(c, g) == {f \in EdgeId : \E e \in EdgeId : FoldsInto(e, f, c, g)}
DeletedEdges(c, g) == LoopEdges(c, g) \union FoldedEdges(c, g)
RepointedEdges(c, g) == EdgesAt(g, c.loser) \ DeletedEdges(c, g)

DeletedMentions(c, g) ==
  {m \in MentionsOf(g, c.loser) :
     \E k \in MentionsOf(g, c.winner) : g.mention[k].doc = g.mention[m].doc}
RepointedMentions(c, g) == MentionsOf(g, c.loser) \ DeletedMentions(c, g)

\* Mutant: the heavier of the two, not their sum.
FoldedWeightMax(f, c, g) ==
  LET e == CHOOSE x \in EdgeId : FoldsInto(x, f, c, g)
  IN  IF g.edge[e].weight > g.edge[f].weight THEN g.edge[e].weight ELSE g.edge[f].weight

\* The weight of f after the loser's twin of f is added to it.
FoldedWeight(f, c, g) ==
  LET e == CHOOSE x \in EdgeId : FoldsInto(x, f, c, g)
  IN  g.edge[f].weight + g.edge[e].weight

MergeEdges(c, g, now) ==
  [e \in EdgeId |->
     IF e \in DeletedEdges(c, g) THEN None
     ELSE IF e \in RepointedEdges(c, g) THEN Moved(now.edge[e], c)
     ELSE IF e \in FoldTargets(c, g)
          THEN [now.edge[e] EXCEPT !.weight = FoldedWeight(e, c, g)]
     ELSE now.edge[e]]

MergeMentions(c, g, now) ==
  [m \in MentionId |->
     IF m \in DeletedMentions(c, g) THEN None
     ELSE IF m \in RepointedMentions(c, g) THEN [now.mention[m] EXCEPT !.node = c.winner]
     ELSE now.mention[m]]

Backfills(c, g) == c.winner \notin g.vec /\ c.loser \in g.vec

MergeWrites(c, g, now) ==
  [now EXCEPT
     !.edge = MergeEdges(c, g, now),
     !.mention = MergeMentions(c, g, now),
     !.props[c.winner] = Override(g.props[c.loser], g.props[c.winner]),
     !.vec = IF Backfills(c, g) THEN @ \union {c.winner} ELSE @,
     !.canon[c.loser] = c.winner]

\* An UPDATE of a row that is gone raises StaleDataError; a DELETE does not.
MergeRows(c, g, now) ==
  /\ {c.loser, c.winner} \subseteq now.node
  /\ \A e \in RepointedEdges(c, g) \union FoldTargets(c, g) : now.edge[e] # None
  /\ \A m \in RepointedMentions(c, g) : now.mention[m] # None

\* Mutant: winner_before is taken after the winner absorbed the loser.
MergeSnapshotLate(c, g) ==
  [kind       |-> "entity_merge",
   loser      |-> c.loser,
   winner     |-> c.winner,
   before     |-> Override(g.props[c.loser], g.props[c.winner]),
   backfilled |-> Backfills(c, g),
   repointed  |-> [e \in RepointedEdges(c, g) |-> g.edge[e]],
   folded     |-> [f \in FoldTargets(c, g) |-> g.edge[f].weight],
   deleted    |-> [e \in DeletedEdges(c, g) |-> g.edge[e]],
   mentions   |-> RepointedMentions(c, g),
   forgotten  |-> [m \in DeletedMentions(c, g) |-> g.mention[m]]]

MergeSnapshot(c, g) ==
  [kind       |-> "entity_merge",
   loser      |-> c.loser,
   winner     |-> c.winner,
   before     |-> g.props[c.winner],
   backfilled |-> Backfills(c, g),
   repointed  |-> [e \in RepointedEdges(c, g) |-> g.edge[e]],
   folded     |-> [f \in FoldTargets(c, g) |-> g.edge[f].weight],
   deleted    |-> [e \in DeletedEdges(c, g) |-> g.edge[e]],
   mentions   |-> RepointedMentions(c, g),
   forgotten  |-> [m \in DeletedMentions(c, g) |-> g.mention[m]]]

MergeUndoable(d, g) == {d.loser, d.winner} \subseteq g.node /\ g.canon[d.loser] = d.winner

\* Rows that are gone stay gone; the rest goes back; what was deleted returns.
MergeUndo(d, g, now) ==
  [now EXCEPT
     !.canon[d.loser] = None,
     !.props[d.winner] = d.before,
     !.vec = IF d.backfilled THEN @ \ {d.winner} ELSE @,
     !.edge = [e \in EdgeId |->
        IF e \in DOMAIN d.deleted THEN d.deleted[e]
        ELSE IF e \in DOMAIN d.repointed /\ g.edge[e] # None
             THEN [now.edge[e] EXCEPT !.source = d.repointed[e].source,
                                      !.target = d.repointed[e].target]
        ELSE IF e \in DOMAIN d.folded /\ g.edge[e] # None
             THEN [now.edge[e] EXCEPT !.weight = d.folded[e]]
        ELSE now.edge[e]],
     !.mention = [m \in MentionId |->
        IF m \in DOMAIN d.forgotten THEN d.forgotten[m]
        ELSE IF m \in d.mentions /\ g.mention[m] # None
             THEN [now.mention[m] EXCEPT !.node = d.loser]
        ELSE now.mention[m]]]

MergeUndoRows(d, g, now) ==
  /\ {d.loser, d.winner} \subseteq now.node
  /\ \A e \in DOMAIN d.repointed \union DOMAIN d.folded :
       g.edge[e] # None => now.edge[e] # None
  /\ \A m \in d.mentions : g.mention[m] # None => now.mention[m] # None
  \* the re-inserted primary keys are free
  /\ \A e \in DOMAIN d.deleted : now.edge[e] = None
  /\ \A m \in DOMAIN d.forgotten : now.mention[m] = None

-----------------------------------------------------------------------------
(* edge_add: [kind, source, target, edge], edge being the new row's id *)

EdgeAddValid(c, g) ==
  /\ {c.source, c.target} \subseteq g.node
  /\ c.source # c.target
  /\ g.canon[c.source] = None /\ g.canon[c.target] = None
  /\ \A e \in EdgeId : g.edge[e] # None => ~SameEnds(g.edge[e], c)

EdgeAddWrites(c, now) ==
  [now EXCEPT !.edge[c.edge] = [source |-> c.source, target |-> c.target, weight |-> 1]]

-----------------------------------------------------------------------------
(* edge_removal: [kind, edge] *)

EdgeRemovalSnapshot(c, g) == [kind |-> "edge_removal", edge |-> c.edge, row |-> g.edge[c.edge]]

-----------------------------------------------------------------------------
(* node_removal: [kind, node] *)

Orphan(g, n) == EdgesAt(g, n) = {} /\ MentionsOf(g, n) = {} /\ AliasesOf(g, n) = {}

\* Mutant: the vector outlives its node.
DeleteNodeKeepsVector(g, n) ==
  [g EXCEPT !.node = @ \ {n}, !.canon[n] = None, !.props[n] = [k \in DOMAIN @ |-> None]]

\* The DELETE, with what the foreign keys do: CASCADE on edges and mentions,
\* SET NULL on canonical_node_id.
DeleteNode(g, n) ==
  [g EXCEPT
     !.node = @ \ {n},
     !.canon = [a \in Node |-> IF a = n \/ @[a] = n THEN None ELSE @[a]],
     !.props[n] = [k \in DOMAIN @ |-> None],
     !.vec = @ \ {n},
     !.edge = [e \in EdgeId |-> IF e \in EdgesAt(g, n) THEN None ELSE @[e]],
     !.mention = [m \in MentionId |-> IF m \in MentionsOf(g, n) THEN None ELSE @[m]]]

\* Every column but canonical_node_id.
NodeSnapshot(c, g) ==
  [kind  |-> "node_removal", node |-> c.node,
   props |-> g.props[c.node], embedded |-> c.node \in g.vec]

InsertNode(d, now) ==
  [now EXCEPT !.node = @ \union {d.node},
              !.props[d.node] = d.props,
              !.vec = IF d.embedded THEN @ \union {d.node} ELSE @]

-----------------------------------------------------------------------------
(* stale_flag and fact_conflict: [kind, node, value].  Both rewrite the    *)
(* whole properties column and keep the whole column for rollback.         *)

FlagKey(c) == IF c.kind = "stale_flag" THEN "stale" ELSE "disputed"

FlagValid(c, g) ==
  /\ c.node \in g.node
  /\ g.canon[c.node] = None
  /\ g.props[c.node][FlagKey(c)] = None

FlagWrites(c, g, now) ==
  [now EXCEPT !.props[c.node] = [g.props[c.node] EXCEPT ![FlagKey(c)] = c.value]]

FlagSnapshot(c, g) == [kind |-> c.kind, node |-> c.node, before |-> g.props[c.node]]

-----------------------------------------------------------------------------
(* The dispatch of get_handler. *)

FlagKinds == {"stale_flag", "fact_conflict"}
Kind == {"entity_merge", "edge_add", "edge_removal", "node_removal"} \union FlagKinds

\* A change of one of the kinds, with the id of an edge where it is about one.
ChangeOK(c) == c.kind \in Kind /\ (c.kind \in {"edge_add", "edge_removal"} => c.edge \in EdgeId)

Validates(c, g) ==
  \/ c.kind = "entity_merge" /\ MergeValid(c, g)
  \/ c.kind = "edge_add"     /\ EdgeAddValid(c, g)
  \/ c.kind = "edge_removal" /\ g.edge[c.edge] # None
  \/ c.kind = "node_removal" /\ c.node \in g.node /\ Orphan(g, c.node)
  \/ c.kind \in FlagKinds    /\ FlagValid(c, g)

Writes(c, g, now) ==
  CASE c.kind = "entity_merge" -> MergeWrites(c, g, now)
    [] c.kind = "edge_add"     -> EdgeAddWrites(c, now)
    [] c.kind = "edge_removal" -> [now EXCEPT !.edge[c.edge] = None]
    [] c.kind = "node_removal" -> DeleteNode(now, c.node)
    [] c.kind \in FlagKinds    -> FlagWrites(c, g, now)

Storable(c, g, now) ==
  /\ c.kind = "entity_merge" => MergeRows(c, g, now)
  /\ c.kind \in FlagKinds => c.node \in now.node
  /\ Constraints(Writes(c, g, now))

SnapshotOf(c, g) ==
  CASE c.kind = "entity_merge" -> MergeSnapshot(c, g)
    [] c.kind = "edge_add"     -> [kind |-> "edge_add", edge |-> c.edge]
    [] c.kind = "edge_removal" -> EdgeRemovalSnapshot(c, g)
    [] c.kind = "node_removal" -> NodeSnapshot(c, g)
    [] c.kind \in FlagKinds    -> FlagSnapshot(c, g)

\* Re-inserts (edge_removal, node_removal) raise nothing before the flush.
Undoable(d, g) ==
  /\ d.kind = "entity_merge" => MergeUndoable(d, g)
  /\ d.kind = "edge_add" => g.edge[d.edge] # None
  /\ d.kind \in FlagKinds => d.node \in g.node

Undo(d, g, now) ==
  CASE d.kind = "entity_merge" -> MergeUndo(d, g, now)
    [] d.kind = "edge_add"     -> [now EXCEPT !.edge[d.edge] = None]
    [] d.kind = "edge_removal" -> [now EXCEPT !.edge[d.edge] = d.row]
    [] d.kind = "node_removal" -> InsertNode(d, now)
    [] d.kind \in FlagKinds    -> [now EXCEPT !.props[d.node] = d.before]

UndoStorable(d, g, now) ==
  /\ d.kind = "entity_merge" => MergeUndoRows(d, g, now)
  /\ d.kind = "edge_removal" => now.edge[d.edge] = None
  /\ d.kind = "node_removal" => d.node \notin now.node
  /\ d.kind \in FlagKinds => d.node \in now.node
  /\ Constraints(Undo(d, g, now))
=============================================================================
