------------------------------ MODULE Resolver ------------------------------
(***************************************************************************)
(* app/ontology/resolver.py: the graph rows of one document after the      *)
(* other, each document in one transaction, while people approve and roll  *)
(* back merges.  The resolver reads what is committed (READ COMMITTED) and *)
(* its own rows; a merge sees none of those before the commit, and waits   *)
(* where it would touch a row the transaction has written.                 *)
(*                                                                         *)
(* The graph is that of GraphHandlers with one column more: g.entity, the  *)
(* entity a node was created for.  It stands for the natural key of a      *)
(* sourced node, and for name and embedding of a derived one.              *)
(***************************************************************************)
EXTENDS GraphHandlers, Sequences

CONSTANTS
  Entity,         \* what documents speak of
  Sourced,        \* those with an external_id
  Alike(_, _),    \* names or embeddings of derived entities above the thresholds
  Extraction,     \* what the model may extract: nodes (entities), edges (<<i, j>>)
  Merge,          \* the entity_merge proposals
  InitGraph,
  MaxRuns         \* bound: documents resolved

ASSUME SourcedAssumption == Sourced \subseteq Entity
ASSUME AlikeAssumption == \A e \in Entity \ Sourced : Alike(e, e)
ASSUME MergeAssumption == \A c \in Merge : c.kind = "entity_merge"
ASSUME RunsAssumption == MaxRuns \in Nat

\* An edge is between two of the document's own nodes (a dangling end is skipped).
ASSUME ExtractionAssumption ==
  \A x \in Extraction :
    /\ x.nodes \in Seq(Entity)
    /\ x.edges \in Seq((1 .. Len(x.nodes)) \X (1 .. Len(x.nodes)))

ASSUME InitGraphAssumption ==
  /\ RowsOK(InitGraph) /\ Constraints(InitGraph) /\ Acyclic(InitGraph)
  /\ "entity" \in DOMAIN InitGraph /\ DOMAIN InitGraph.entity = Node
  /\ \A n \in InitGraph.node : InitGraph.entity[n] \in Entity
  /\ \A n, m \in InitGraph.node : InitGraph.entity[n] = InitGraph.entity[m] => n = m

\* A document's transaction.  ids: the nodes of the entities resolved so far
\* (temp_to_id); due: the mention of the last one is still to come; links: the
\* edges done; the rows it inserted or updated, None for all others (of a node the
\* entity it was inserted for); locked: the nodes updated.
Transaction ==
  [doc : Doc, of : Extraction, ids : Seq(Node), due : BOOLEAN, links : Nat,
   nodes : [Node -> Entity \union {None}],
   mentions : [MentionId -> MentionRow \union {None}],
   edges : [EdgeId -> EdgeRow \union {None}],
   locked : SUBSET Node]

ASSUME NothingAssumption == None \notin Transaction \union Entity

VARIABLES
  graph,          \* the committed tables
  tx,             \* the document under way, None between two documents
  status,         \* of each merge: "pending", "applied" or "rolled_back"
  data,           \* its rollback_data
  runs,
  seen,           \* history: <<node, document>> that a resolution recorded
  told,           \* history: <<source, target>> nodes that a resolution linked
  undone          \* history: the nodes a rolled-back merge had to do with, and
                  \* those that these are merged into later

vars == <<graph, tx, status, data, runs, seen, told, undone>>

\* The tables as the transaction t sees them when g is committed.
View(g, t) ==
  IF t = None THEN g
  ELSE [g EXCEPT !.node    = @ \union {n \in Node : t.nodes[n] # None},
                 !.entity  = Override(@, t.nodes),
                 !.mention = Override(@, t.mentions),
                 !.edge    = Override(@, t.edges)]

view == View(graph, tx)

AppliedMerges == {c \in Merge : status[c] = "applied"}

\* Ids of rows that some rollback_data speaks of, the rows there or not.
KeptMentions == UNION {data[c].mentions \union DOMAIN data[c].forgotten : c \in AppliedMerges}
KeptEdges == UNION {DOMAIN data[c].deleted \union DOMAIN data[c].repointed
                      \union DOMAIN data[c].folded : c \in AppliedMerges}

\* A new row has an id that was never taken (uuid4).
FreeNodes == Node \ view.node
FreeMentions == {m \in MentionId \ KeptMentions : view.mention[m] = None}
FreeEdges == {e \in EdgeId \ KeptEdges : view.edge[e] = None}

Init ==
  /\ graph = InitGraph
  /\ tx = None
  /\ status = [c \in Merge |-> "pending"]
  /\ data = [c \in Merge |-> None]
  /\ runs = 0
  /\ seen = {} /\ told = {} /\ undone = {}

-----------------------------------------------------------------------------
(* resolve_document *)

Begin(d, x) ==
  /\ tx = None /\ runs < MaxRuns
  /\ tx' = [doc |-> d, of |-> x, ids |-> <<>>, due |-> FALSE, links |-> 0,
            nodes |-> [n \in Node |-> None], mentions |-> [m \in MentionId |-> None],
            edges |-> [e \in EdgeId |-> None], locked |-> {}]
  /\ runs' = runs + 1
  /\ UNCHANGED <<graph, status, data, seen, told, undone>>

\* The next entity.
Current == tx.of.nodes[Len(tx.ids) + 1]

NextNode ==
  /\ tx # None
  /\ ~tx.due /\ Len(tx.ids) < Len(tx.of.nodes)
  /\ UNCHANGED <<graph, status, data, runs, seen, told, undone>>

Found(n, lock) ==
  tx' = [tx EXCEPT !.ids = Append(@, n), !.due = TRUE,
                   !.locked = IF lock THEN @ \union {n} ELSE @]

Inserted(e) ==
  /\ FreeNodes # {}
  /\ LET n == CHOOSE x \in FreeNodes : TRUE
     IN  tx' = [tx EXCEPT !.ids = Append(@, n), !.due = TRUE, !.nodes[n] = e]

Rows(e) == {n \in view.node : view.entity[n] = e}

\* _upsert_sourced_node: the row of the natural key, whether merged or not; the
\* conflict clause always updates it.
UpsertSourced ==
  /\ NextNode
  /\ Current \in Sourced
  /\ IF Rows(Current) = {} THEN Inserted(Current)
     ELSE \E n \in Rows(Current) : Found(n, TRUE)

\* Mutant: merged nodes are not searched.
CanonicalMatches(e) ==
  {n \in view.node : view.entity[n] \notin Sourced /\ Alike(view.entity[n], e)
                     /\ view.canon[n] = None}

\* _find_duplicate; which of several is the closest depends on the data.
Matches(e) == {n \in view.node : view.entity[n] \notin Sourced /\ Alike(view.entity[n], e)}

\* _upsert_derived_node: the survivor of the match, which is updated where the
\* document has something new to say of it; a new node if nothing matches.
UpsertDerived ==
  /\ NextNode
  /\ Current \notin Sourced
  /\ IF Matches(Current) = {} THEN Inserted(Current)
     ELSE \E n \in Matches(Current), news \in BOOLEAN : Found(RootOf(view, n), news)

\* Mutant: only this run's own mentions are looked at.
MentionedThisRun(n, d) == \E m \in MentionId : tx.mentions[m] = [node |-> n, doc |-> d]

\* Mutant: one mention per node.
MentionedByAny(n, d) == \E m \in MentionId : view.mention[m] # None /\ view.mention[m].node = n

Mentioned(n, d) == \E m \in MentionId : view.mention[m] = [node |-> n, doc |-> d]

\* _record_mention, ON CONFLICT DO NOTHING.
RecordMention ==
  /\ tx # None
  /\ tx.due
  /\ LET n == tx.ids[Len(tx.ids)]
         row == [node |-> n, doc |-> tx.doc]
     IN  IF Mentioned(n, tx.doc) THEN tx' = [tx EXCEPT !.due = FALSE]
         ELSE /\ FreeMentions # {}
              /\ LET m == CHOOSE x \in FreeMentions : TRUE
                 IN  tx' = [tx EXCEPT !.due = FALSE, !.mentions[m] = row]
  /\ UNCHANGED <<graph, status, data, runs, seen, told, undone>>

\* Mutant: an edge in the other direction is taken for the same fact.
SameFactEitherWay(r, s, t) == {r.source, r.target} = {s, t}

SameFact(r, s, t) == r.source = s /\ r.target = t

\* The rows of edges that assert the fact.
SameFacts(s, t) == {e \in EdgeId : view.edge[e] # None /\ SameFact(view.edge[e], s, t)}

\* _resolve_edge: insert, or one more observation of the same fact.
ResolveEdge ==
  /\ tx # None
  /\ ~tx.due /\ Len(tx.ids) = Len(tx.of.nodes) /\ tx.links < Len(tx.of.edges)
  /\ LET link == tx.of.edges[tx.links + 1]
         s == tx.ids[link[1]]
         t == tx.ids[link[2]]
         row == [source |-> s, target |-> t, weight |-> 1]
     IN  IF SameFacts(s, t) = {}
         THEN /\ FreeEdges # {}
              /\ LET e == CHOOSE x \in FreeEdges : TRUE
                 IN  tx' = [tx EXCEPT !.links = @ + 1, !.edges[e] = row]
         ELSE \E e \in SameFacts(s, t) :
                tx' = [tx EXCEPT !.links = @ + 1,
                                 !.edges[e] = [view.edge[e] EXCEPT !.weight = @ + 1]]
  /\ UNCHANGED <<graph, status, data, runs, seen, told, undone>>

Commit ==
  /\ tx # None
  /\ ~tx.due /\ Len(tx.ids) = Len(tx.of.nodes) /\ tx.links = Len(tx.of.edges)
  /\ graph' = view
  /\ seen' = seen \union {<<tx.ids[k], tx.doc>> : k \in DOMAIN tx.ids}
  /\ told' = told \union {<<tx.ids[l[1]], tx.ids[l[2]]>> :
                            l \in {tx.of.edges[k] : k \in DOMAIN tx.of.edges}}
  /\ tx' = None
  /\ UNCHANGED <<status, data, runs, undone>>

\* The run raises or its process dies: the transaction is rolled back.
Abort ==
  /\ tx # None
  /\ tx' = None
  /\ UNCHANGED <<graph, status, data, runs, seen, told, undone>>

-----------------------------------------------------------------------------
(* Merges, by other sessions. *)

\* The merge's statements meet no row the open transaction has written, and no
\* unique key that it has inserted; otherwise they wait for its end.
NoWait(g, nodes) ==
  tx # None =>
    /\ nodes \intersect tx.locked = {}
    /\ \A e \in EdgeId : tx.edges[e] # None => g.edge[e] = graph.edge[e]
    /\ \A m \in MentionId : tx.mentions[m] # None => g.mention[m] = graph.mention[m]
    /\ Constraints(View(g, tx))

Approve(c) ==
  /\ status[c] = "pending"
  /\ MergeValid(c, graph)
  /\ graph' = MergeWrites(c, graph, graph)
  /\ NoWait(graph', {c.loser, c.winner})
  /\ status' = [status EXCEPT ![c] = "applied"]
  /\ data' = [data EXCEPT ![c] = MergeSnapshot(c, graph)]
  /\ undone' = IF c.loser \in undone THEN undone \union {c.winner} ELSE undone
  /\ UNCHANGED <<tx, runs, seen, told>>

Rollback(c) ==
  /\ status[c] = "applied"
  /\ MergeUndoable(data[c], graph)
  /\ MergeUndoRows(data[c], graph, graph)
  /\ graph' = MergeUndo(data[c], graph, graph)
  /\ Constraints(graph')
  /\ NoWait(graph', {c.loser, c.winner})
  /\ status' = [status EXCEPT ![c] = "rolled_back"]
  /\ undone' = undone \union {c.loser, c.winner, RootOf(graph, c.winner)}
  /\ UNCHANGED <<tx, data, runs, seen, told>>

Next ==
  \/ \E d \in Doc, x \in Extraction : Begin(d, x)
  \/ UpsertSourced \/ UpsertDerived \/ RecordMention \/ ResolveEdge
  \/ Commit \/ Abort
  \/ \E c \in Merge : Approve(c) \/ Rollback(c)

Spec == Init /\ [][Next]_vars

-----------------------------------------------------------------------------
(* Properties. *)

\* The tables keep the schema's constraints, with the open transaction's rows
\* over them too: none of the resolver's upserts raises, whatever is merged
\* beneath it.
TypeOK ==
  /\ graph.node \subseteq Node
  /\ graph.canon \in [Node -> Node \union {None}]
  /\ \A n \in view.node : view.entity[n] \in Entity
  /\ Constraints(graph) /\ Constraints(view)
  /\ tx # None =>
       /\ tx \in Transaction
       /\ Len(tx.ids) <= Len(tx.of.nodes) /\ tx.links <= Len(tx.of.edges)
       /\ tx.locked \subseteq view.node
  /\ runs \in 0 .. MaxRuns

\* Re-ingestion never makes a second row for an entity it has a row for: a merged
\* row goes on answering to its name, and is found again after a rollback.
OneNodePerEntity ==
  \A n, m \in graph.node : n # m => graph.entity[n] # graph.entity[m]

\* Provenance is not lost: a document that was recorded as evidence of a node is
\* evidence of what the node is merged into, however merges come between the
\* resolver's statements.  (A rollback moves evidence recorded since back with the
\* rest, so the nodes of rolled-back merges are left out.)
EvidenceKept ==
  \A p \in seen :
    RootOf(graph, p[1]) \notin undone =>
      <<RootOf(graph, p[1]), p[2]>> \in EvidenceIn(graph, graph)

\* Nor is a fact: an edge once written connects the survivors of its ends.
FactsKept ==
  \A p \in told :
    LET s == RootOf(graph, p[1])
        t == RootOf(graph, p[2])
    IN  s # t /\ {s, t} \intersect undone = {} => <<s, t>> \in FactsIn(graph, graph)

\* "The resolver keeps matching future mentions of either name and following the
\* chain to the survivor" (app/proposals/merge.py).  (A sourced node's upsert does
\* not follow it.)
SurvivorGetsAll ==
  \A m \in MentionId : graph.mention[m] # None => graph.canon[graph.mention[m].node] = None
=============================================================================
