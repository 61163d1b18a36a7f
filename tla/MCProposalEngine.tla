-------------------------- MODULE MCProposalEngine --------------------------
(***************************************************************************)
(* ProposalEngine with the graph handlers on two nodes without edges: the  *)
(* two directions of one suggested edge, the removal of the orphan the     *)
(* edge would lead to and a stale flag on that orphan, so that every       *)
(* change can disturb another one between its read and its commit.  The    *)
(* two edges share a dedup key, as edge_suggest files them; the removal    *)
(* and one of the edges are filed with a confidence that auto-applies.     *)
(***************************************************************************)
EXTENDS ProposalEngine

CONSTANTS n1, n2, e1, e2

H == INSTANCE GraphHandlers WITH
       Node <- {n1, n2}, EdgeId <- {e1, e2}, MentionId <- {}, Doc <- {},
       NodeType <- [n \in {n1, n2} |-> "concept"]

AddEdge    == [kind |-> "edge_add", source |-> n1, target |-> n2, edge |-> e1]
AddReverse == [kind |-> "edge_add", source |-> n2, target |-> n1, edge |-> e2]
RemoveNode == [kind |-> "node_removal", node |-> n2]
FlagNode   == [kind |-> "stale_flag", node |-> n2, value |-> "old"]

AllChanges   == {AddEdge, AddReverse, RemoveNode, FlagNode}
TwoKeys      == {AddEdge, AddReverse, RemoveNode}   \* as many keys as the run has ids
EdgeOnly     == {AddEdge}
ConfidentAll == {AddReverse, RemoveNode}

\* One proposal per node pair, per orphan and per quiet node.
MCDedupKey(c) == c.kind

MCInitGraph ==
  [node    |-> {n1, n2},
   canon   |-> [n \in {n1, n2} |-> None],
   props   |-> [n \in {n1, n2} |-> [k \in {"stale"} |-> None]],
   vec     |-> {},
   edge    |-> [e \in {e1, e2} |-> None],
   mention |-> <<>>]

MCValidates(c, g) == H!Validates(c, g)
MCWrites(c, g, now) == H!Writes(c, g, now)
MCStorable(c, g, now) == H!Storable(c, g, now)
MCSnapshotOf(c, g) == H!SnapshotOf(c, g)
MCUndoable(d, g) == H!Undoable(d, g)
MCUndo(d, g, now) == H!Undo(d, g, now)
MCUndoStorable(d, g, now) == H!UndoStorable(d, g, now)

=============================================================================
