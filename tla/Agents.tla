------------------------------- MODULE Agents -------------------------------
(***************************************************************************)
(* What the maintenance agents find in a graph (app/agents: dedup.py,      *)
(* edge_suggest.py, hygiene.py, staleness.py, contradiction.py), and the   *)
(* dedup key under which they file it.  One operator per scan: it says     *)
(* whether the scan of graph g files the change c.  g has one more column, *)
(*   g.source   nodes.source_system of a node with an external_id,         *)
(*              None for a derived one                                     *)
(*                                                                         *)
(* Scores are relations between nodes.  An LLM judge may keep any pair out *)
(* of the queue for now; that is like a filed pair nobody approves, so the *)
(* scans here find every pair.  scan_limit is above what an instance has.  *)
(***************************************************************************)
EXTENDS GraphHandlers

CONSTANTS
  Similar,       \* pairs of nodes that dedup's thresholds call candidates
  Close,         \* pairs within edge_suggest_vec_threshold
  MinMentions,   \* edge_suggest_min_mentions
  Weak,          \* edges below hygiene_edge_confidence, without evidence
  Quiet,         \* documents older than stale_after_days
  FactKey        \* the keys of properties with scalar facts of the sources

Canonical(g) == {n \in g.node : g.canon[n] = None}

Sourced(g, n) == g.source[n] # None

\* Two distinct ids of one system are two distinct things.
BothSameSource(g, n, m) == Sourced(g, n) /\ g.source[n] = g.source[m]

\* Mutant: the survivor is chosen by mentions alone.
OutranksByMentions(w, l, g) == TRUE

\* _pick_winner: sourced beats derived; between two of a kind mentions and age
\* decide, and as documents come in either may be ahead when the pair is filed.
Outranks(w, l, g) == Sourced(g, l) => Sourced(g, w)

DuplicateFound(c, g) ==
  /\ {c.loser, c.winner} \subseteq Canonical(g)
  /\ NodeType[c.loser] = NodeType[c.winner]
  /\ {c.loser, c.winner} \in Similar
  /\ ~BothSameSource(g, c.loser, c.winner)
  /\ Outranks(c.winner, c.loser, g)

MissingEdgeFound(c, g) ==
  /\ {c.source, c.target} \subseteq Canonical(g) \intersect g.vec
  /\ {c.source, c.target} \in Close
  /\ EdgesAt(g, c.source) \intersect EdgesAt(g, c.target) = {}
  /\ \A n \in {c.source, c.target} : Cardinality(MentionsOf(g, n)) >= MinMentions

\* Mutant: a node that survives a merge counts as an orphan.
OrphanFoundUnderAliases(c, g) ==
  /\ c.node \in Canonical(g)
  /\ EdgesAt(g, c.node) = {} /\ MentionsOf(g, c.node) = {}

OrphanFound(c, g) ==
  /\ c.node \in Canonical(g)
  /\ EdgesAt(g, c.node) = {} /\ MentionsOf(g, c.node) = {} /\ AliasesOf(g, c.node) = {}

WeakEdgeFound(c, g) == c.edge \in Weak /\ g.edge[c.edge] # None

\* The newest document that mentions the node is old.
QuietFound(c, g) ==
  /\ c.node \in Canonical(g)
  /\ MentionsOf(g, c.node) # {}
  /\ \A m \in MentionsOf(g, c.node) : g.mention[m].doc \in Quiet
  /\ g.props[c.node]["stale"] = None

\* An alias and its canonical node carry different values of one property.
ConflictFound(c, g) ==
  /\ c.node \in Canonical(g)
  /\ g.props[c.node]["disputed"] = None
  /\ \E a \in AliasesOf(g, c.node), k \in FactKey :
       /\ None \notin {g.props[c.node][k], g.props[a][k]}
       /\ g.props[c.node][k] # g.props[a][k]

Found(c, g) ==
  \/ c.kind = "entity_merge"  /\ DuplicateFound(c, g)
  \/ c.kind = "edge_add"      /\ MissingEdgeFound(c, g)
  \/ c.kind = "node_removal"  /\ OrphanFound(c, g)
  \/ c.kind = "edge_removal"  /\ WeakEdgeFound(c, g)
  \/ c.kind = "stale_flag"    /\ QuietFound(c, g)
  \/ c.kind = "fact_conflict" /\ ConflictFound(c, g)

\* The kind and the dedup_key of a row: one proposal per pair, in whichever
\* direction, per edge, per orphan, per quiet node (one date here) and per
\* disputed property (one here).
DedupKey(c) ==
  [kind |-> c.kind,
   of   |-> CASE c.kind = "entity_merge" -> {c.loser, c.winner}
              [] c.kind = "edge_add"     -> {c.source, c.target}
              [] c.kind = "edge_removal" -> {c.edge}
              [] OTHER                   -> {c.node}]
=============================================================================
