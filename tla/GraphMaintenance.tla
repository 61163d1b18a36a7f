-------------------------- MODULE GraphMaintenance --------------------------
(***************************************************************************)
(* The maintenance loop: the agents scan the graph and file what they find *)
(* (Agents), one reviewer decides: approve and rollback                    *)
(* (app/proposals/engine.py) run to their end, in any order, over          *)
(* GraphHandlers.  Beside them a run of the local connector folds the      *)
(* stubs of wikilinks into their files (app/connectors/local.py), without  *)
(* a proposal.  ProposalEngine has the sessions, the rows and the          *)
(* failures; here the question is what the changes do to the graph and     *)
(* whether their snapshots bring it back.                                  *)
(***************************************************************************)
EXTENDS Agents, Functions

CONSTANTS
  Change,         \* what can be proposed, one row per dedup key
  InitGraphs,     \* the graphs a behaviour may start from
  FileOf,         \* the node of the file a name's slug belongs to, or None
  Fresh,          \* ids of edges and mentions for the rows of reconcile_wikilinks
  MaxApplied      \* bound: approvals that succeed in one behaviour

Column == {"node", "source", "canon", "props", "vec", "edge", "mention"}

ASSUME EdgesAssumption == IsFiniteSet(EdgeId)
ASSUME KindsAssumption == \A c \in Change : ChangeOK(c)
ASSUME OneChangePerKey == \A c, d \in Change : DedupKey(c) = DedupKey(d) => c = d
ASSUME PairsAssumption == \A n \in Node : {n} \notin Similar \union Close

ColumnsOK(g) == DOMAIN g = Column /\ DOMAIN g.canon = Node

\* No hop along canonical_node_id leads from a sourced node to a derived one.
HopsRise(g) == \A n \in Node : g.canon[n] # None /\ Sourced(g, n) => Sourced(g, g.canon[n])

ASSUME GraphsAssumption ==
  \A g \in InitGraphs : ColumnsOK(g) /\ RowsOK(g) /\ Constraints(g) /\ HopsRise(g) /\ Acyclic(g)

\* A new row has an id of its own (uuid4).
ASSUME NewIdsAssumption ==
  \A c \in Change : c.kind = "edge_add" =>
    /\ c.edge \notin Fresh
    /\ \A d \in Change \ {c} : d.kind = "edge_add" => d.edge # c.edge
    /\ \A g \in InitGraphs : g.edge[c.edge] = None

VARIABLES
  graph,          \* the graph tables
  status,         \* proposals.status, "none" = no row yet
  applied         \* of an applied change: its rollback_data, and (history)
                  \* the graph it found and the graph it left; else None

vars == <<graph, status, applied>>

RowStatus == {"none", "pending", "applied", "failed", "rolled_back"}

TypeOK ==
  /\ ColumnsOK(graph) /\ RowsOK(graph)
  /\ status \in [Change -> RowStatus]
  /\ DOMAIN applied = Change
  /\ \A c \in Change : IF status[c] = "applied" THEN applied[c].data.kind = c.kind
                                                ELSE applied[c] = None

Init ==
  /\ graph \in InitGraphs
  /\ status = [c \in Change |-> "none"]
  /\ applied = [c \in Change |-> None]

\* A row under the finding's key, whatever became of it.  dedup looks its keys up
\* without the kind, and an edge's key is the same pair.
AlreadyFiled(c) ==
  \E d \in Change :
    /\ status[d] # "none" /\ DedupKey(d).of = DedupKey(c).of
    /\ d.kind = c.kind \/ c.kind = "entity_merge"

\* A run of the agents (dedup before edge_suggest): each files what it finds and what
\* has no row yet.  Filing changes no graph, so a finding that is filed later than it
\* was read is one that is decided later.
Scan ==
  LET found == {c \in Change : ~AlreadyFiled(c) /\ Found(c, graph)}
  IN  /\ found # {}
      /\ status' = [c \in Change |-> IF c \in found THEN "pending" ELSE status[c]]
      /\ UNCHANGED <<graph, applied>>

Accepts(c) == Validates(c, graph) /\ Storable(c, graph, graph)

Approvals == {c \in Change : status[c] \in {"applied", "rolled_back"}}

\* approve: validate, apply, one commit.
Approve(c) ==
  /\ Cardinality(Approvals) < MaxApplied
  /\ status[c] = "pending"
  /\ Accepts(c)
  /\ graph' = Writes(c, graph, graph)
  /\ status' = [status EXCEPT ![c] = "applied"]
  /\ applied' = [applied EXCEPT ![c] =
                   [data |-> SnapshotOf(c, graph), found |-> graph, left |-> graph']]

\* approve of a change the graph has no place for by now.
ApproveFails(c) ==
  /\ status[c] = "pending"
  /\ ~Accepts(c)
  /\ status' = [status EXCEPT ![c] = "failed"]
  /\ UNCHANGED <<graph, applied>>

\* rollback, of any applied change: nothing asks for the latest one first.
\* (One that the handler or a constraint refuses changes nothing.)
Rollback(c) ==
  /\ status[c] = "applied"
  /\ Undoable(applied[c].data, graph)
  /\ UndoStorable(applied[c].data, graph, graph)
  /\ graph' = Undo(applied[c].data, graph, graph)
  /\ status' = [status EXCEPT ![c] = "rolled_back"]
  /\ applied' = [applied EXCEPT ![c] = None]

-----------------------------------------------------------------------------
(* reconcile_wikilinks, at the end of a run of the local connector. *)

\* A derived document that a local file refers to and that names another one.
Stub(n) ==
  /\ n \in graph.node /\ ~Sourced(graph, n) /\ NodeType[n] = "document"
  /\ \E e \in EdgeId :
       graph.edge[e] # None /\ graph.edge[e].target = n
         /\ graph.source[graph.edge[e].source] = "local"
  /\ FileOf[n] \in graph.node \ {n}

\* The stub and its file, as a merge has loser and winner.
IntoFile(n) == [loser |-> n, winner |-> FileOf[n]]

\* Mutant: only the edges that lead to the stub are redirected.
EdgesRedirectedIn(n) ==
  {e \in RepointedEdges(IntoFile(n), graph) : graph.edge[e].target = n}

\* What the file does not have already: ON CONFLICT DO NOTHING.
EdgesRedirected(n) == RepointedEdges(IntoFile(n), graph)

MentionsCarried(n) == RepointedMentions(IntoFile(n), graph)

\* Ids that neither a row has nor one that a rollback would bring back.
FreeEdges ==
  {e \in EdgeId \intersect Fresh : graph.edge[e] = None /\
     \A c \in Change : status[c] = "applied" => applied[c].found.edge[e] = None}
FreeMentions ==
  {m \in MentionId \intersect Fresh : graph.mention[m] = None /\
     \A c \in Change : status[c] = "applied" => applied[c].found.mention[m] = None}

\* _merge_concept_into_file: copies under new ids (edges and mentions map old rows
\* to them), then the DELETE, which takes the originals along and lets go of the
\* aliases of the stub.
Folded(n, edges, mentions) ==
  LET gone == DeleteNode(graph, n)
      of(copies, id) == CHOOSE x \in DOMAIN copies : copies[x] = id
  IN  [gone EXCEPT
        !.edge = [e \in EdgeId |->
           IF e \in Range(edges) THEN Moved(graph.edge[of(edges, e)], IntoFile(n)) ELSE gone.edge[e]],
        !.mention = [m \in MentionId |->
           IF m \in Range(mentions)
           THEN [graph.mention[of(mentions, m)] EXCEPT !.node = FileOf[n]] ELSE gone.mention[m]]]

\* (Fresh bounds the rows that may be copied.)
Reconcile(n) ==
  /\ Stub(n)
  /\ \E edges \in Injection(EdgesRedirected(n), FreeEdges),
        mentions \in Injection(MentionsCarried(n), FreeMentions) :
       graph' = Folded(n, edges, mentions)
  /\ UNCHANGED <<status, applied>>

Next ==
  \/ Scan
  \/ \E n \in Node : Reconcile(n)
  \/ \E c \in Change : Approve(c) \/ ApproveFails(c) \/ Rollback(c)

Spec == Init /\ [][Next]_vars

-----------------------------------------------------------------------------
(* What a graph says. *)

NoLoops(facts) == {f \in facts : f[1] # f[2]}

Weights(g) == [e \in EdgeId |-> IF g.edge[e] = None THEN 0 ELSE g.edge[e].weight]
WeightOf(g, E) == SumFunctionOnSet(Weights(g), E)

\* A graph whose stub n is read as its file; an alias of n stands for itself again.
ReadAsFile(g, n) ==
  [g EXCEPT !.canon = [a \in Node |-> IF a = n THEN FileOf[n] ELSE IF @[a] = n THEN None ELSE @[a]]]

-----------------------------------------------------------------------------
\* Merges, removals and rollbacks in any order leave every chain of
\* canonical_node_id ending at a canonical node: _canonical_id never needs its
\* cap of 16 hops against a cycle.
AliasForest == \A n \in graph.node : graph.canon[RootOf(graph, n)] = None

\* The survivor of a merge is a node that ingestion keeps finding: whatever is
\* merged into what, and undone, no hop of an alias chain, and so no chain, leads
\* from a sourced node to a derived one.
SourcedSurvives == HopsRise(graph)

\* The scans and the handlers agree: on the graph an agent has read, each change
\* it files passes validation and every constraint (an auto-applied finding
\* does not end as a failed row, and its key is not spent on one).
FindingsApply == \A c \in Change : Found(c, graph) => Accepts(c)

\* A merge moves everything: each fact and each mentioning document of the
\* loser is one of the survivor's, a folded edge's weight is added to its twin's,
\* only an edge between the two is dropped, and nothing is left on the loser.
MergeKeepsFacts ==
  [][\A c \in Change :
       c.kind = "entity_merge" /\ status[c] = "pending" /\ status'[c] = "applied" =>
         /\ NoLoops(FactsIn(graph', graph')) = NoLoops(FactsIn(graph', graph))
         /\ EvidenceIn(graph', graph') = EvidenceIn(graph', graph)
         /\ WeightOf(graph', EdgeId) = WeightOf(graph, EdgeId \ LoopEdges(c, graph))
         /\ EdgesAt(graph', c.loser) = {} /\ MentionsOf(graph', c.loser) = {}]_vars

\* Nor does a wikilink's stub take a fact with it, though no proposal could bring
\* it back: what was said of the stub, what merges moved to it included, is said of
\* the file.
StubKeepsFacts ==
  [][\A n \in graph.node \ graph'.node :
       Stub(n) /\ UNCHANGED status =>
         LET merged == ReadAsFile(graph, n)
         IN  /\ NoLoops(FactsIn(graph', graph')) = NoLoops(FactsIn(merged, graph))
             /\ EvidenceIn(graph', graph') = EvidenceIn(merged, graph)
             /\ Constraints(graph')]_vars

\* While the graph is as the change left it, its rollback is accepted and
\* restores the graph it found.
Restores(c) ==
  /\ Undoable(applied[c].data, graph)
  /\ UndoStorable(applied[c].data, graph, graph)
  /\ Undo(applied[c].data, graph, graph) = applied[c].found

Current(c) == status[c] = "applied" /\ graph = applied[c].left

RemovesAlias(c) == c.kind = "node_removal" /\ applied[c].found.canon[c.node] # None

\* Every snapshot is enough to undo its own change, whatever was applied and
\* rolled back before it. (Not the removal of a merged alias, see below.)
Reversible == \A c \in Change : Current(c) => RemovesAlias(c) \/ Restores(c)

\* "rollback_proposal undoes it exactly" (app/mcp/server.py, approve_proposal).
ExactUndo == \A c \in Change : Current(c) => Restores(c)
=============================================================================
