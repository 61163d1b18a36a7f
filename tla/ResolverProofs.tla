--------------------------- MODULE ResolverProofs ---------------------------
(***************************************************************************)
(* Theorems about Resolver, for any documents, entities, merges and        *)
(* tables: what the transaction of a document sees and commits, whatever   *)
(* is merged and rolled back beneath it.                                   *)
(***************************************************************************)
EXTENDS Resolver, GraphHandlersProofs

-----------------------------------------------------------------------------
(* The tables with the transaction's rows over them. *)

\* The nodes a transaction has inserted.
OwnNodes(t) == {n \in Node : t.nodes[n] # None}

\* The committed tables, with the resolver's column.
Tables(g) ==
  /\ RowsOK(g) /\ Acyclic(g) /\ Constraints(g)
  /\ "entity" \in DOMAIN g /\ DOMAIN g.entity = Node
  /\ \A n \in g.node : g.entity[n] \in Entity

\* A transaction over them, and how far it is.
TxOK(g, t) ==
  /\ t \in Transaction
  /\ OwnNodes(t) \intersect g.node = {}
  /\ Len(t.ids) <= Len(t.of.nodes)
  /\ \A k \in 1 .. Len(t.ids) : t.ids[k] \in g.node \union OwnNodes(t)
  /\ t.due => Len(t.ids) > 0
  /\ t.links <= Len(t.of.edges)
  /\ t.links > 0 => Len(t.ids) = Len(t.of.nodes) /\ ~t.due
  /\ t.locked \subseteq g.node \union OwnNodes(t)

Distinct(v) == \A n, m \in v.node : v.entity[n] = v.entity[m] => n = m

\* What a transaction leaves in each column.
LEMMA ViewColumns ==
  ASSUME NEW g, Tables(g), NEW t, t \in Transaction, NEW v, v = View(g, t)
  PROVE  /\ IsMap(v) /\ DOMAIN v = DOMAIN g
         /\ v.node = g.node \union OwnNodes(t)
         /\ v.canon = g.canon /\ v.props = g.props /\ v.vec = g.vec
         /\ DOMAIN v.entity = Node /\ DOMAIN v.mention = MentionId /\ DOMAIN v.edge = EdgeId
         /\ \A n \in Node : v.entity[n] = IF t.nodes[n] # None THEN t.nodes[n] ELSE g.entity[n]
         /\ \A m \in MentionId :
              v.mention[m] = IF t.mentions[m] # None THEN t.mentions[m] ELSE g.mention[m]
         /\ \A e \in EdgeId : v.edge[e] = IF t.edges[e] # None THEN t.edges[e] ELSE g.edge[e]
         /\ IsMap(v.mention) /\ IsMap(v.edge)
         /\ v.entity = Override(g.entity, t.nodes)
         /\ v.mention = Override(g.mention, t.mentions)
         /\ v.edge = Override(g.edge, t.edges)
<1>1. v = [g EXCEPT !.node    = @ \union {n \in Node : t.nodes[n] # None},
                    !.entity  = Override(@, t.nodes),
                    !.mention = Override(@, t.mentions),
                    !.edge    = Override(@, t.edges)]
  BY NothingAssumption DEF View
<1>2. {"node", "entity", "mention", "edge", "canon", "props", "vec"} \subseteq DOMAIN g
  BY DEF Tables, RowsOK
<1>3. IsMap(v) /\ DOMAIN v = DOMAIN g
  BY <1>1 DEF IsMap
<1>4. /\ v.node = g.node \union OwnNodes(t)
      /\ v.canon = g.canon /\ v.props = g.props /\ v.vec = g.vec
      /\ v.entity = Override(g.entity, t.nodes)
      /\ v.mention = Override(g.mention, t.mentions)
      /\ v.edge = Override(g.edge, t.edges)
  BY <1>1, <1>2 DEF OwnNodes
<1>5. DOMAIN g.entity = Node /\ DOMAIN g.mention = MentionId /\ DOMAIN g.edge = EdgeId
  BY DEF Tables, RowsOK
<1>6. /\ v.entity = [n \in Node |-> IF t.nodes[n] # None THEN t.nodes[n] ELSE g.entity[n]]
      /\ v.mention = [m \in MentionId |-> IF t.mentions[m] # None THEN t.mentions[m] ELSE g.mention[m]]
      /\ v.edge = [e \in EdgeId |-> IF t.edges[e] # None THEN t.edges[e] ELSE g.edge[e]]
  BY <1>4, <1>5 DEF Override
<1>7. IsMap(v.mention) /\ IsMap(v.edge)
  BY <1>6 DEF IsMap
<1>8. QED
  BY <1>3, <1>4, <1>6, <1>7

\* Between two documents the tables are what is committed.
LEMMA ViewNone ==
  ASSUME NEW g, NEW t, t = None
  PROVE  View(g, t) = g
BY DEF View

\* What a transaction sees depends on its rows only.
LEMMA SameView ==
  ASSUME NEW g, NEW t \in Transaction, NEW u \in Transaction,
         u.nodes = t.nodes, u.mentions = t.mentions, u.edges = t.edges
  PROVE  View(g, u) = View(g, t)
BY NothingAssumption DEF View

\* A transaction's rows.
LEMMA TxColumns ==
  ASSUME NEW t \in Transaction
  PROVE  /\ t # None
         /\ t.doc \in Doc /\ t.of \in Extraction /\ t.due \in BOOLEAN /\ t.links \in Nat
         /\ t.ids \in Seq(Node) /\ t.locked \subseteq Node
         /\ t.nodes \in [Node -> Entity \union {None}]
         /\ t.mentions \in [MentionId -> MentionRow \union {None}]
         /\ t.edges \in [EdgeId -> EdgeRow \union {None}]
BY NothingAssumption DEF Transaction

\* The tables with the transaction's rows are tables.
LEMMA ViewTables ==
  ASSUME NEW g, Tables(g), NEW t, TxOK(g, t), NEW v, v = View(g, t)
  PROVE  /\ RowsOK(v) /\ Acyclic(v)
         /\ \A n \in v.node : v.entity[n] \in Entity
<1>1. /\ IsMap(v) /\ DOMAIN v = DOMAIN g
      /\ v.node = g.node \union OwnNodes(t)
      /\ v.canon = g.canon /\ v.props = g.props /\ v.vec = g.vec
      /\ DOMAIN v.entity = Node /\ DOMAIN v.mention = MentionId /\ DOMAIN v.edge = EdgeId
      /\ \A n \in Node : v.entity[n] = IF t.nodes[n] # None THEN t.nodes[n] ELSE g.entity[n]
      /\ \A m \in MentionId :
           v.mention[m] = IF t.mentions[m] # None THEN t.mentions[m] ELSE g.mention[m]
      /\ \A e \in EdgeId : v.edge[e] = IF t.edges[e] # None THEN t.edges[e] ELSE g.edge[e]
      /\ IsMap(v.mention) /\ IsMap(v.edge)
  BY ViewColumns DEF TxOK
<1>2. v.edge \in [EdgeId -> EdgeRow \union {None}]
  <2>1. \A e \in EdgeId : v.edge[e] \in EdgeRow \union {None}
    BY <1>1, TxColumns DEF Tables, RowsOK, TxOK
  <2>2. QED
    BY <1>1, <2>1 DEF IsMap
<1>3. v.mention \in [MentionId -> MentionRow \union {None}]
  <2>1. \A m \in MentionId : v.mention[m] \in MentionRow \union {None}
    BY <1>1, TxColumns DEF Tables, RowsOK, TxOK
  <2>2. QED
    BY <1>1, <2>1 DEF IsMap
<1>4. \A n \in v.node : v.entity[n] \in Entity
  BY <1>1, TxColumns DEF OwnNodes, Tables, TxOK, RowsOK
<1>5. v.node \subseteq Node /\ v.vec \subseteq v.node
  BY <1>1 DEF OwnNodes, Tables, RowsOK
<1>6. Acyclic(v)
  BY <1>1 DEF Acyclic, Tables
<1>7. RowsOK(v)
  BY <1>1, <1>2, <1>3, <1>5 DEF RowsOK, Tables
<1>8. QED
  BY <1>4, <1>6, <1>7

\* Where a chain ends is a row, if where it starts is one.
LEMMA RootIsRow ==
  ASSUME NEW g, RowsOK(g), Acyclic(g), Constraints(g), NEW n \in g.node
  PROVE  RootOf(g, n) \in g.node
<1>. DEFINE S == {k \in Node : k \in g.node => RootOf(g, k) \in g.node}
<1>1. Forest(g)
  BY DEF Forest, RowsOK
<1>2. ASSUME NEW k \in Node, g.canon[k] = None \/ g.canon[k] \in S PROVE k \in S
  <2>1. RootOf(g, k) = IF g.canon[k] = None THEN k ELSE RootOf(g, g.canon[k])
    BY <1>1, RootOfHop
  <2>2. k \in g.node => g.canon[k] \in g.node \union {None}
    BY DEF Constraints
  <2>3. QED
    BY <1>2, <2>1, <2>2
<1>3. Node \subseteq S
  <2>. HIDE DEF S
  <2>1. QED
    BY <1>1, <1>2, HopInduction
<1>4. QED
  BY <1>3 DEF RowsOK

-----------------------------------------------------------------------------
(* The steps of a transaction. *)

\* A sequence with one element more.
LEMMA AppendIs ==
  ASSUME NEW S, NEW s \in Seq(S), NEW x \in S, NEW a, a = Append(s, x)
  PROVE  /\ a \in Seq(S) /\ Len(s) \in Nat /\ Len(a) = Len(s) + 1
         /\ \A k \in 1 .. Len(a) : a[k] = IF k <= Len(s) THEN s[k] ELSE x
OBVIOUS

\* u is t one entity further, whose node is n.
Resolved(t, u, n) ==
  /\ u \in Transaction
  /\ u.ids = Append(t.ids, n) /\ u.due = TRUE
  /\ u.doc = t.doc /\ u.of = t.of /\ u.links = t.links
  /\ u.mentions = t.mentions /\ u.edges = t.edges

\* Such a step leaves a transaction.
LEMMA ResolvedOK ==
  ASSUME NEW g, Tables(g), NEW t, TxOK(g, t), ~t.due, Len(t.ids) < Len(t.of.nodes),
         NEW n \in Node, NEW u, Resolved(t, u, n),
         n \in g.node \union OwnNodes(u), OwnNodes(t) \subseteq OwnNodes(u),
         OwnNodes(u) \intersect g.node = {}, u.locked \subseteq g.node \union OwnNodes(u)
  PROVE  TxOK(g, u)
<1>1. t \in Transaction /\ u \in Transaction
  BY DEF TxOK, Resolved
<1>2. t.ids \in Seq(Node) /\ t.links \in Nat
  BY <1>1, TxColumns
<1>3. /\ Len(t.ids) \in Nat /\ Len(u.ids) = Len(t.ids) + 1
      /\ \A k \in 1 .. Len(u.ids) : u.ids[k] = IF k <= Len(t.ids) THEN t.ids[k] ELSE n
  BY <1>2, AppendIs DEF Resolved
<1>4. \A k \in 1 .. Len(t.ids) : t.ids[k] \in g.node \union OwnNodes(t)
  BY DEF TxOK
<1>5. \A k \in 1 .. Len(u.ids) : u.ids[k] \in g.node \union OwnNodes(u)
  BY <1>3, <1>4
<1>6. Len(t.of.nodes) \in Nat
  BY <1>1, TxColumns, ExtractionAssumption
<1>7. ~(t.links > 0)
  BY <1>2, <1>3, <1>6 DEF TxOK
<1>8. Len(u.ids) <= Len(u.of.nodes) /\ Len(u.ids) > 0
  BY <1>3, <1>6 DEF Resolved
<1>9. QED
  BY <1>1, <1>5, <1>7, <1>8 DEF TxOK, Resolved

\* A node that is there already.
LEMMA FoundKeeps ==
  ASSUME NEW g, Tables(g), NEW t, TxOK(g, t), ~t.due, Len(t.ids) < Len(t.of.nodes),
         NEW n \in g.node \union OwnNodes(t), NEW lock \in BOOLEAN,
         NEW u, u = [t EXCEPT !.ids = Append(@, n), !.due = TRUE,
                              !.locked = IF lock THEN @ \union {n} ELSE @]
  PROVE  TxOK(g, u) /\ Resolved(t, u, n) /\ View(g, u) = View(g, t)
<1>1. t \in Transaction /\ n \in Node
  BY DEF TxOK, OwnNodes, Tables, RowsOK
<1>2. t.ids \in Seq(Node) /\ t.locked \subseteq Node
  BY <1>1, TxColumns
<1>3. /\ u.ids = Append(t.ids, n) /\ u.due = TRUE /\ u.links = t.links /\ u.of = t.of
      /\ u.doc = t.doc /\ u.nodes = t.nodes /\ u.mentions = t.mentions /\ u.edges = t.edges
      /\ u.locked = IF lock THEN t.locked \union {n} ELSE t.locked
  BY <1>1 DEF Transaction
<1>4. u.ids \in Seq(Node) /\ u.locked \subseteq Node
  BY <1>1, <1>2, <1>3
<1>5. u \in Transaction
  BY <1>1, <1>3, <1>4 DEF Transaction
<1>6. Resolved(t, u, n)
  BY <1>3, <1>5 DEF Resolved
<1>7. OwnNodes(u) = OwnNodes(t)
  BY <1>3 DEF OwnNodes
<1>8. OwnNodes(u) \intersect g.node = {} /\ u.locked \subseteq g.node \union OwnNodes(u)
  BY <1>3, <1>7 DEF TxOK
<1>9. TxOK(g, u)
  BY <1>1, <1>6, <1>7, <1>8, ResolvedOK
<1>10. View(g, u) = View(g, t)
  BY <1>1, <1>3, <1>5, NothingAssumption DEF View
<1>11. QED
  BY <1>6, <1>9, <1>10

\* w is v with the node n, of the entity e, and nothing that speaks of it yet.
WithNode(v, n, e, w) ==
  /\ w.node = v.node \union {n} /\ w.canon = v.canon
  /\ w.edge = v.edge /\ w.mention = v.mention
  /\ \A k \in Node : w.entity[k] = IF k = n THEN e ELSE v.entity[k]

\* u is t with the node n of the entity e inserted.
AddsNode(t, u, n, e) ==
  /\ u.mentions = t.mentions /\ u.edges = t.edges
  /\ \A k \in Node : u.nodes[k] = IF k = n THEN e ELSE t.nodes[k]

\* What the transaction sees once it has inserted a node.
LEMMA NodeSeen ==
  ASSUME NEW g, Tables(g), NEW t \in Transaction, NEW u \in Transaction,
         NEW n \in Node, NEW e \in Entity, AddsNode(t, u, n, e),
         NEW v, v = View(g, t), NEW w, w = View(g, u)
  PROVE  WithNode(v, n, e, w)
<1>1. /\ v.node = g.node \union OwnNodes(t) /\ v.canon = g.canon
      /\ v.mention = Override(g.mention, t.mentions) /\ v.edge = Override(g.edge, t.edges)
      /\ \A k \in Node : v.entity[k] = IF t.nodes[k] # None THEN t.nodes[k] ELSE g.entity[k]
  BY ViewColumns
<1>2. /\ w.node = g.node \union OwnNodes(u) /\ w.canon = g.canon
      /\ w.mention = Override(g.mention, u.mentions) /\ w.edge = Override(g.edge, u.edges)
      /\ \A k \in Node : w.entity[k] = IF u.nodes[k] # None THEN u.nodes[k] ELSE g.entity[k]
  BY ViewColumns
<1>3. OwnNodes(u) = OwnNodes(t) \union {n}
  BY NothingAssumption DEF OwnNodes, AddsNode
<1>4. \A k \in Node : w.entity[k] = IF k = n THEN e ELSE v.entity[k]
  BY <1>1, <1>2, NothingAssumption DEF AddsNode
<1>5. QED
  BY <1>1, <1>2, <1>3, <1>4 DEF WithNode, AddsNode

\* A node that is inserted.
LEMMA InsertedKeeps ==
  ASSUME NEW g, Tables(g), NEW t, TxOK(g, t), ~t.due, Len(t.ids) < Len(t.of.nodes),
         NEW n \in Node \ View(g, t).node, NEW e \in Entity,
         NEW u, u = [t EXCEPT !.ids = Append(@, n), !.due = TRUE, !.nodes[n] = e]
  PROVE  TxOK(g, u) /\ Resolved(t, u, n) /\ WithNode(View(g, t), n, e, View(g, u))
<1>1. t \in Transaction
  BY DEF TxOK
<1>2. t.ids \in Seq(Node) /\ t.nodes \in [Node -> Entity \union {None}]
  BY <1>1, TxColumns
<1>3. /\ u.ids = Append(t.ids, n) /\ u.due = TRUE /\ u.links = t.links /\ u.of = t.of
      /\ u.nodes = [t.nodes EXCEPT ![n] = e] /\ u.mentions = t.mentions /\ u.edges = t.edges
      /\ u.locked = t.locked /\ u.doc = t.doc
  BY <1>1 DEF Transaction
<1>4. u.ids \in Seq(Node) /\ u.nodes \in [Node -> Entity \union {None}]
  BY <1>2, <1>3
<1>5. u \in Transaction
  BY <1>1, <1>3, <1>4 DEF Transaction
<1>6. Resolved(t, u, n) /\ AddsNode(t, u, n, e)
  BY <1>2, <1>3, <1>5 DEF Resolved, AddsNode
<1>7. OwnNodes(u) = OwnNodes(t) \union {n}
  BY <1>6, NothingAssumption DEF OwnNodes, AddsNode
<1>8. View(g, t).node = g.node \union OwnNodes(t)
  BY <1>1, ViewColumns
<1>9. OwnNodes(u) \intersect g.node = {} /\ u.locked \subseteq g.node \union OwnNodes(u)
  BY <1>3, <1>7, <1>8 DEF TxOK
<1>10. TxOK(g, u)
  BY <1>6, <1>7, <1>9, ResolvedOK
<1>11. QED
  BY <1>1, <1>5, <1>6, <1>10, NodeSeen

\* A node of its own meets every constraint.
LEMMA NodeMeets ==
  ASSUME NEW v, RowsOK(v), Constraints(v), NEW n \in Node \ v.node, NEW e, NEW w, WithNode(v, n, e, w)
  PROVE  Constraints(w)
<1>1. \A k \in w.node : w.canon[k] \in w.node \union {None}
  BY DEF WithNode, RowsOK, Constraints
<1>2. QED
  BY <1>1 DEF WithNode, Constraints

\* A new entity's node is the only one of it.
LEMMA NodeIsNew ==
  ASSUME NEW v, RowsOK(v), Distinct(v), NEW n \in Node \ v.node, NEW e, NEW w, WithNode(v, n, e, w),
         \A k \in v.node : v.entity[k] # e
  PROVE  Distinct(w)
BY DEF Distinct, WithNode, RowsOK

\* w is v with the row of a mention.
WithMention(v, m, row, w) ==
  /\ w.node = v.node /\ w.canon = v.canon /\ w.edge = v.edge /\ w.entity = v.entity
  /\ \A k \in MentionId : w.mention[k] = IF k = m THEN row ELSE v.mention[k]

\* u is t with the row of a mention inserted.
AddsMention(t, u, m, row) ==
  /\ u.nodes = t.nodes /\ u.edges = t.edges
  /\ \A k \in MentionId : u.mentions[k] = IF k = m THEN row ELSE t.mentions[k]

\* What the transaction sees once it has inserted a mention.
LEMMA MentionSeen ==
  ASSUME NEW g, Tables(g), NEW t \in Transaction, NEW u \in Transaction, NEW m \in MentionId,
         NEW row, row # None, AddsMention(t, u, m, row),
         NEW v, v = View(g, t), NEW w, w = View(g, u)
  PROVE  WithMention(v, m, row, w)
<1>1. /\ v.node = g.node \union OwnNodes(t) /\ v.canon = g.canon
      /\ v.entity = Override(g.entity, t.nodes) /\ v.edge = Override(g.edge, t.edges)
      /\ \A k \in MentionId :
           v.mention[k] = IF t.mentions[k] # None THEN t.mentions[k] ELSE g.mention[k]
  BY ViewColumns
<1>2. /\ w.node = g.node \union OwnNodes(u) /\ w.canon = g.canon
      /\ w.entity = Override(g.entity, u.nodes) /\ w.edge = Override(g.edge, u.edges)
      /\ \A k \in MentionId :
           w.mention[k] = IF u.mentions[k] # None THEN u.mentions[k] ELSE g.mention[k]
  BY ViewColumns
<1>3. \A k \in MentionId : w.mention[k] = IF k = m THEN row ELSE v.mention[k]
  BY <1>1, <1>2 DEF AddsMention
<1>4. OwnNodes(u) = OwnNodes(t)
  BY DEF AddsMention, OwnNodes
<1>5. QED
  BY <1>1, <1>2, <1>3, <1>4 DEF WithMention, AddsMention

\* The mention of the last entity's node is inserted.
LEMMA MentionKeeps ==
  ASSUME NEW g, Tables(g), NEW t, TxOK(g, t), t.due,
         NEW n \in Node, NEW row, row = [node |-> n, doc |-> t.doc], NEW m \in MentionId,
         NEW u, u = [t EXCEPT !.due = FALSE, !.mentions[m] = row]
  PROVE  /\ TxOK(g, u) /\ u.ids = t.ids /\ u.doc = t.doc /\ u.of = t.of /\ u.links = t.links
         /\ ~u.due /\ AddsMention(t, u, m, row) /\ row \in MentionRow
         /\ WithMention(View(g, t), m, row, View(g, u))
<1>1. t \in Transaction
  BY DEF TxOK
<1>2. /\ t.mentions \in [MentionId -> MentionRow \union {None}] /\ t.links \in Nat
      /\ row \in MentionRow
  BY <1>1, TxColumns DEF MentionRow
<1>3. /\ u.ids = t.ids /\ u.due = FALSE /\ u.links = t.links /\ u.of = t.of /\ u.doc = t.doc
      /\ u.nodes = t.nodes /\ u.mentions = [t.mentions EXCEPT ![m] = row] /\ u.edges = t.edges
      /\ u.locked = t.locked
  BY <1>1 DEF Transaction
<1>4. u.mentions \in [MentionId -> MentionRow \union {None}]
  BY <1>2, <1>3
<1>5. u \in Transaction
  BY <1>1, <1>3, <1>4 DEF Transaction
<1>6. OwnNodes(u) = OwnNodes(t)
  BY <1>3 DEF OwnNodes
<1>7. ~(t.links > 0)
  BY DEF TxOK
<1>8. TxOK(g, u)
  BY <1>2, <1>3, <1>5, <1>6, <1>7 DEF TxOK
<1>9. AddsMention(t, u, m, row)
  BY <1>2, <1>3 DEF AddsMention
<1>10. row # None
  BY <1>2, NoneAssumption
<1>11. WithMention(View(g, t), m, row, View(g, u))
  BY <1>1, <1>5, <1>9, <1>10, MentionSeen
<1>12. QED
  BY <1>2, <1>3, <1>8, <1>9, <1>11

\* A mention of a row's node that is not there yet meets every constraint.
LEMMA MentionMeets ==
  ASSUME NEW v, RowsOK(v), Constraints(v), NEW m \in MentionId, NEW row, row.node \in v.node,
         v.mention[m] = None, \A k \in MentionId : v.mention[k] # row,
         NEW w, WithMention(v, m, row, w)
  PROVE  Constraints(w)
<1>1. ASSUME NEW x \in MentionId, w.mention[x] # None
      PROVE  /\ w.mention[x].node \in w.node
             /\ \A k \in MentionId \ {x} : w.mention[k] # w.mention[x]
  <2>1. /\ w.mention[x] = IF x = m THEN row ELSE v.mention[x]
        /\ \A k \in MentionId : w.mention[k] = IF k = m THEN row ELSE v.mention[k]
        /\ w.node = v.node
    BY DEF WithMention
  <2>2. CASE x = m
    BY <2>1, <2>2
  <2>3. CASE x # m
    <3>1. /\ v.mention[x] # None /\ v.mention[x].node \in v.node
          /\ \A k \in MentionId \ {x} : v.mention[k] # v.mention[x]
      BY <1>1, <2>1, <2>3 DEF Constraints
    <3>2. QED
      BY <2>1, <2>3, <3>1
  <2>4. QED
    BY <2>2, <2>3
<1>2. w.edge = v.edge /\ w.node = v.node /\ w.canon = v.canon
  BY DEF WithMention
<1>3. QED
  BY <1>1, <1>2 DEF Constraints

\* The mention is there already.
LEMMA NoMentionKeeps ==
  ASSUME NEW g, Tables(g), NEW t, TxOK(g, t), t.due,
         NEW u, u = [t EXCEPT !.due = FALSE]
  PROVE  /\ TxOK(g, u) /\ u.ids = t.ids /\ u.doc = t.doc /\ u.of = t.of /\ u.links = t.links
         /\ ~u.due /\ u.nodes = t.nodes /\ u.mentions = t.mentions /\ u.edges = t.edges
         /\ View(g, u) = View(g, t)
<1>1. t \in Transaction
  BY DEF TxOK
<1>2. /\ u.ids = t.ids /\ u.due = FALSE /\ u.links = t.links /\ u.of = t.of /\ u.doc = t.doc
      /\ u.nodes = t.nodes /\ u.mentions = t.mentions /\ u.edges = t.edges
      /\ u.locked = t.locked
  BY <1>1 DEF Transaction
<1>3. u \in Transaction
  BY <1>1, <1>2 DEF Transaction
<1>4. OwnNodes(u) = OwnNodes(t)
  BY <1>2 DEF OwnNodes
<1>5. TxOK(g, u)
  BY <1>2, <1>3, <1>4 DEF TxOK
<1>6. View(g, u) = View(g, t)
  BY <1>1, <1>2, <1>3, SameView
<1>7. QED
  BY <1>2, <1>5, <1>6

\* w is v with the row of an edge.
WithEdge(v, e, row, w) ==
  /\ w.node = v.node /\ w.canon = v.canon /\ w.mention = v.mention /\ w.entity = v.entity
  /\ \A k \in EdgeId : w.edge[k] = IF k = e THEN row ELSE v.edge[k]

\* u is t with the row of an edge inserted or updated.
AddsEdge(t, u, e, row) ==
  /\ u.nodes = t.nodes /\ u.mentions = t.mentions
  /\ \A k \in EdgeId : u.edges[k] = IF k = e THEN row ELSE t.edges[k]

\* What the transaction sees once it has written an edge.
LEMMA EdgeSeen ==
  ASSUME NEW g, Tables(g), NEW t \in Transaction, NEW u \in Transaction, NEW e \in EdgeId,
         NEW row, row # None, AddsEdge(t, u, e, row),
         NEW v, v = View(g, t), NEW w, w = View(g, u)
  PROVE  WithEdge(v, e, row, w)
<1>1. /\ v.node = g.node \union OwnNodes(t) /\ v.canon = g.canon
      /\ v.entity = Override(g.entity, t.nodes) /\ v.mention = Override(g.mention, t.mentions)
      /\ \A k \in EdgeId : v.edge[k] = IF t.edges[k] # None THEN t.edges[k] ELSE g.edge[k]
  BY ViewColumns
<1>2. /\ w.node = g.node \union OwnNodes(u) /\ w.canon = g.canon
      /\ w.entity = Override(g.entity, u.nodes) /\ w.mention = Override(g.mention, u.mentions)
      /\ \A k \in EdgeId : w.edge[k] = IF u.edges[k] # None THEN u.edges[k] ELSE g.edge[k]
  BY ViewColumns
<1>3. \A k \in EdgeId : w.edge[k] = IF k = e THEN row ELSE v.edge[k]
  BY <1>1, <1>2 DEF AddsEdge
<1>4. OwnNodes(u) = OwnNodes(t)
  BY DEF AddsEdge, OwnNodes
<1>5. QED
  BY <1>1, <1>2, <1>3, <1>4 DEF WithEdge, AddsEdge

\* An edge of the document is inserted, or updated.
LEMMA EdgeKeeps ==
  ASSUME NEW g, Tables(g), NEW t, TxOK(g, t), ~t.due,
         Len(t.ids) = Len(t.of.nodes), t.links < Len(t.of.edges),
         NEW e \in EdgeId, NEW row \in EdgeRow,
         NEW u, u = [t EXCEPT !.links = @ + 1, !.edges[e] = row]
  PROVE  /\ TxOK(g, u) /\ u.ids = t.ids /\ u.doc = t.doc /\ u.of = t.of /\ u.links = t.links + 1
         /\ ~u.due /\ AddsEdge(t, u, e, row)
         /\ WithEdge(View(g, t), e, row, View(g, u))
<1>1. t \in Transaction
  BY DEF TxOK
<1>2. /\ t.edges \in [EdgeId -> EdgeRow \union {None}] /\ t.links \in Nat
      /\ Len(t.of.edges) \in Nat
  BY <1>1, TxColumns, ExtractionAssumption
<1>3. /\ u.ids = t.ids /\ u.due = t.due /\ u.links = t.links + 1 /\ u.of = t.of /\ u.doc = t.doc
      /\ u.nodes = t.nodes /\ u.edges = [t.edges EXCEPT ![e] = row] /\ u.mentions = t.mentions
      /\ u.locked = t.locked
  BY <1>1 DEF Transaction
<1>4. u.edges \in [EdgeId -> EdgeRow \union {None}] /\ u.links \in Nat
  BY <1>2, <1>3
<1>5. u \in Transaction
  BY <1>1, <1>3, <1>4 DEF Transaction
<1>6. OwnNodes(u) = OwnNodes(t)
  BY <1>3 DEF OwnNodes
<1>7. u.links <= Len(u.of.edges)
  BY <1>2, <1>3
<1>8. TxOK(g, u)
  BY <1>3, <1>5, <1>6, <1>7 DEF TxOK
<1>9. AddsEdge(t, u, e, row)
  BY <1>2, <1>3 DEF AddsEdge
<1>10. row # None
  BY NoneAssumption
<1>11. WithEdge(View(g, t), e, row, View(g, u))
  BY <1>1, <1>5, <1>9, <1>10, EdgeSeen
<1>12. QED
  BY <1>3, <1>8, <1>9, <1>11

\* An edge between rows that no other edge joins meets every constraint.
LEMMA EdgeMeets ==
  ASSUME NEW v, RowsOK(v), Constraints(v), NEW e \in EdgeId, NEW row \in EdgeRow,
         {row.source, row.target} \subseteq v.node,
         \A k \in EdgeId \ {e} : v.edge[k] # None => ~SameEnds(row, v.edge[k]),
         NEW w, WithEdge(v, e, row, w)
  PROVE  Constraints(w)
<1>1. ASSUME NEW x \in EdgeId, w.edge[x] # None
      PROVE  /\ w.edge[x].source \in w.node
             /\ w.edge[x].target \in w.node
             /\ \A k \in EdgeId \ {x} : w.edge[k] # None => ~SameEnds(w.edge[x], w.edge[k])
  <2>1. /\ w.edge[x] = IF x = e THEN row ELSE v.edge[x]
        /\ \A k \in EdgeId : w.edge[k] = IF k = e THEN row ELSE v.edge[k]
        /\ w.node = v.node
    BY DEF WithEdge
  <2>2. CASE x = e
    BY <2>1, <2>2
  <2>3. CASE x # e
    <3>1. /\ v.edge[x] # None /\ v.edge[x].source \in v.node /\ v.edge[x].target \in v.node
          /\ \A k \in EdgeId \ {x} : v.edge[k] # None => ~SameEnds(v.edge[x], v.edge[k])
      BY <1>1, <2>1, <2>3 DEF Constraints
    <3>2. ~SameEnds(v.edge[x], row)
      BY <2>3, <3>1 DEF SameEnds
    <3>3. QED
      BY <2>1, <2>3, <3>1, <3>2
  <2>4. QED
    BY <2>2, <2>3
<1>2. w.mention = v.mention /\ w.node = v.node /\ w.canon = v.canon
  BY DEF WithEdge
<1>3. QED
  BY <1>1, <1>2 DEF Constraints

-----------------------------------------------------------------------------
(* The invariant of the tables: what is committed, and what the open       *)
(* transaction makes of it, keeps the schema's constraints, and no entity  *)
(* has two nodes.  A snapshot was taken of tables once.                    *)

World(g, t) ==
  /\ Tables(g)
  /\ t = None \/ TxOK(g, t)
  /\ Constraints(View(g, t)) /\ Distinct(View(g, t))

TakenBy(c, d) == \E f : RowsOK(f) /\ MergeValid(c, f) /\ d = MergeSnapshot(c, f)

TablesInv ==
  /\ World(graph, tx)
  /\ status \in [Merge -> {"pending", "applied", "rolled_back"}] /\ DOMAIN data = Merge
  /\ \A c \in AppliedMerges : TakenBy(c, data[c])
  /\ runs \in 0 .. MaxRuns

\* With or without a transaction, what is seen are rows without a circle.
LEMMA WorldView ==
  ASSUME NEW g, NEW t, World(g, t), NEW v, v = View(g, t)
  PROVE  /\ RowsOK(v) /\ Acyclic(v) /\ Constraints(v) /\ Distinct(v) /\ v.canon = g.canon
         /\ \A n \in v.node : v.entity[n] \in Entity
         /\ t # None => v.node = g.node \union OwnNodes(t)
<1>1. CASE t = None
  BY <1>1, ViewNone DEF World, Tables
<1>2. CASE t # None
  <2>1. TxOK(g, t) /\ t \in Transaction /\ Tables(g) /\ Constraints(v) /\ Distinct(v)
    BY <1>2 DEF World, TxOK
  <2>2. v.canon = g.canon /\ v.node = g.node \union OwnNodes(t)
    BY <2>1, ViewColumns
  <2>3. QED
    BY <2>1, <2>2, ViewTables
<1>3. QED
  BY <1>1, <1>2

\* A document begins: it sees what is committed.
LEMMA BeginWorld ==
  ASSUME World(graph, tx), NEW d \in Doc, NEW x \in Extraction, Begin(d, x)
  PROVE  World(graph', tx')
<1>. DEFINE v == View(graph, tx')
<1>1. /\ graph' = graph /\ Tables(graph) /\ Constraints(graph) /\ Distinct(graph)
  BY ViewNone DEF Begin, World
<1>2. /\ tx' = [doc |-> d, of |-> x, ids |-> <<>>, due |-> FALSE, links |-> 0,
                nodes |-> [n \in Node |-> None], mentions |-> [m \in MentionId |-> None],
                edges |-> [e \in EdgeId |-> None], locked |-> {}]
  BY DEF Begin
<1>3. tx' \in Transaction
  BY <1>2 DEF Transaction
<1>4. OwnNodes(tx') = {}
  BY <1>2 DEF OwnNodes
<1>5. Len(x.nodes) \in Nat /\ Len(x.edges) \in Nat
  BY ExtractionAssumption
<1>6. /\ tx'.ids = <<>> /\ tx'.of = x /\ tx'.links = 0 /\ ~tx'.due /\ tx'.locked = {}
  BY <1>2
<1>7. TxOK(graph, tx')
  BY <1>3, <1>4, <1>5, <1>6 DEF TxOK
<1>8. /\ v.node = graph.node /\ v.canon = graph.canon
      /\ \A n \in Node : v.entity[n] = graph.entity[n]
      /\ \A m \in MentionId : v.mention[m] = graph.mention[m]
      /\ \A e \in EdgeId : v.edge[e] = graph.edge[e]
  <2>1. /\ \A n \in Node : tx'.nodes[n] = None
        /\ \A m \in MentionId : tx'.mentions[m] = None
        /\ \A e \in EdgeId : tx'.edges[e] = None
    BY <1>2
  <2>. HIDE DEF v
  <2>2. ASSUME NEW t, t = tx', NEW w, w = View(graph, t)
        PROVE  /\ w.node = graph.node \union OwnNodes(t) /\ w.canon = graph.canon
               /\ \A n \in Node : w.entity[n] = IF t.nodes[n] # None THEN t.nodes[n] ELSE graph.entity[n]
               /\ \A m \in MentionId :
                    w.mention[m] = IF t.mentions[m] # None THEN t.mentions[m] ELSE graph.mention[m]
               /\ \A e \in EdgeId : w.edge[e] = IF t.edges[e] # None THEN t.edges[e] ELSE graph.edge[e]
    BY <1>1, <1>3, <2>2, ViewColumns
  <2>3. QED
    BY <1>4, <2>1, <2>2 DEF v
<1>9. Constraints(v)
  <2>. HIDE DEF v
  <2>1. QED
    BY <1>1, <1>8 DEF Constraints
<1>10. Distinct(v)
  <2>. HIDE DEF v
  <2>1. graph.node \subseteq Node
    BY <1>1 DEF Tables, RowsOK
  <2>2. QED
    BY <1>1, <1>8, <2>1 DEF Distinct
<1>11. QED
  BY <1>1, <1>7, <1>9, <1>10 DEF World

\* The next entity is one.
LEMMA CurrentEntity ==
  ASSUME World(graph, tx), tx # None, Len(tx.ids) < Len(tx.of.nodes)
  PROVE  Current \in Entity
<1>1. tx \in Transaction
  BY DEF World, TxOK
<1>2. tx.ids \in Seq(Node) /\ tx.of.nodes \in Seq(Entity)
  BY <1>1, TxColumns, ExtractionAssumption
<1>3. QED
  BY <1>2 DEF Current

\* What the two upserts come to: a node that is there, or a new one for an entity
\* without.
Upserted(t, u) ==
  \/ \E n \in View(graph, t).node, lock \in BOOLEAN :
       u = [t EXCEPT !.ids = Append(@, n), !.due = TRUE,
                     !.locked = IF lock THEN @ \union {n} ELSE @]
  \/ \E n \in Node \ View(graph, t).node, e \in Entity :
       /\ \A k \in View(graph, t).node : View(graph, t).entity[k] # e
       /\ u = [t EXCEPT !.ids = Append(@, n), !.due = TRUE, !.nodes[n] = e]

\* The survivor of a matched node is a row, and an entity without a match has none.
LEMMA UpsertIs ==
  ASSUME World(graph, tx), UpsertSourced \/ UpsertDerived
  PROVE  Upserted(tx, tx')
<1>1. tx # None /\ Len(tx.ids) < Len(tx.of.nodes)
  BY DEF UpsertSourced, UpsertDerived, NextNode
<1>2. Current \in Entity
  BY <1>1, CurrentEntity
<1>3. /\ RowsOK(view) /\ Acyclic(view) /\ Constraints(view)
      /\ \A n \in view.node : view.entity[n] \in Entity
  BY WorldView DEF view
<1>4. ASSUME NEW e \in Entity, \A k \in view.node : view.entity[k] # e, Inserted(e)
      PROVE  Upserted(tx, tx')
  <2>1. PICK n : n = CHOOSE x \in FreeNodes : TRUE
    OBVIOUS
  <2>2. n \in FreeNodes
    BY <1>4, <2>1 DEF Inserted
  <2>3. tx' = [tx EXCEPT !.ids = Append(@, n), !.due = TRUE, !.nodes[n] = e]
    BY <1>4, <2>1 DEF Inserted
  <2>4. QED
    BY <1>4, <2>2, <2>3 DEF FreeNodes, Upserted, view
<1>5. ASSUME NEW n \in view.node, NEW lock \in BOOLEAN, Found(n, lock)
      PROVE  Upserted(tx, tx')
  BY <1>5 DEF Found, Upserted, view
<1>6. CASE UpsertSourced
  <2>1. CASE Rows(Current) = {}
    BY <1>2, <1>4, <1>6, <2>1 DEF UpsertSourced, Rows
  <2>2. CASE Rows(Current) # {}
    BY <1>5, <1>6, <2>2 DEF UpsertSourced, Rows
  <2>3. QED
    BY <2>1, <2>2
<1>7. CASE UpsertDerived
  <2>1. CASE Matches(Current) = {}
    <3>1. Current \in Entity \ Sourced
      BY <1>2, <1>7 DEF UpsertDerived
    <3>2. Alike(Current, Current)
      BY <3>1, AlikeAssumption
    <3>3. \A k \in view.node : view.entity[k] # Current
      BY <2>1, <3>1, <3>2 DEF Matches
    <3>4. QED
      BY <1>2, <1>4, <1>7, <2>1, <3>3 DEF UpsertDerived
  <2>2. CASE Matches(Current) # {}
    <3>1. PICK n \in Matches(Current), news \in BOOLEAN : Found(RootOf(view, n), news)
      BY <1>7, <2>2 DEF UpsertDerived
    <3>2. RootOf(view, n) \in view.node
      BY <1>3, RootIsRow DEF Matches
    <3>3. QED
      BY <1>5, <3>1, <3>2
  <2>3. QED
    BY <2>1, <2>2
<1>8. QED
  BY <1>6, <1>7

\* Either keeps the tables.
LEMMA UpsertWorld ==
  ASSUME World(graph, tx), UpsertSourced \/ UpsertDerived
  PROVE  World(graph', tx')
<1>1. tx # None /\ ~tx.due /\ Len(tx.ids) < Len(tx.of.nodes) /\ graph' = graph
  BY DEF UpsertSourced, UpsertDerived, NextNode
<1>2. TxOK(graph, tx) /\ Tables(graph)
  BY <1>1 DEF World
<1>3. ASSUME NEW v, v = View(graph, tx)
      PROVE  /\ RowsOK(v) /\ Constraints(v) /\ Distinct(v)
             /\ v.node = graph.node \union OwnNodes(tx)
  BY <1>1, <1>3, WorldView
<1>4. ASSUME NEW n \in View(graph, tx).node, NEW lock \in BOOLEAN, NEW u,
             u = [tx EXCEPT !.ids = Append(@, n), !.due = TRUE,
                            !.locked = IF lock THEN @ \union {n} ELSE @]
      PROVE  World(graph, u)
  <2>1. n \in graph.node \union OwnNodes(tx)
    BY <1>3, <1>4
  <2>2. TxOK(graph, u) /\ View(graph, u) = View(graph, tx)
    BY <1>1, <1>2, <1>4, <2>1, FoundKeeps
  <2>3. QED
    BY <1>2, <2>2 DEF World
<1>5. ASSUME NEW n \in Node \ View(graph, tx).node, NEW e \in Entity, NEW u,
             \A k \in View(graph, tx).node : View(graph, tx).entity[k] # e,
             u = [tx EXCEPT !.ids = Append(@, n), !.due = TRUE, !.nodes[n] = e]
      PROVE  World(graph, u)
  <2>1. TxOK(graph, u) /\ WithNode(View(graph, tx), n, e, View(graph, u))
    BY <1>1, <1>2, <1>5, InsertedKeeps
  <2>2. ASSUME NEW v, v = View(graph, tx), NEW w, w = View(graph, u)
        PROVE  Constraints(w) /\ Distinct(w)
    <3>1. RowsOK(v) /\ Constraints(v) /\ Distinct(v)
      BY <1>3, <2>2
    <3>2. WithNode(v, n, e, w) /\ n \in Node \ v.node /\ \A k \in v.node : v.entity[k] # e
      BY <1>5, <2>1, <2>2
    <3>3. QED
      BY <3>1, <3>2, NodeMeets, NodeIsNew
  <2>3. QED
    BY <1>2, <2>1, <2>2 DEF World
<1>6. World(graph, tx')
  BY <1>4, <1>5, UpsertIs DEF Upserted
<1>7. QED
  BY <1>1, <1>6

\* The mention of the last entity keeps the tables.
LEMMA MentionWorld ==
  ASSUME World(graph, tx), RecordMention
  PROVE  World(graph', tx')
<1>. DEFINE n == tx.ids[Len(tx.ids)]
            row == [node |-> n, doc |-> tx.doc]
<1>1. tx # None /\ tx.due /\ graph' = graph
  BY DEF RecordMention
<1>2. TxOK(graph, tx) /\ Tables(graph) /\ tx \in Transaction
  BY <1>1 DEF World, TxOK
<1>3. /\ RowsOK(view) /\ Constraints(view) /\ Distinct(view)
      /\ view.node = graph.node \union OwnNodes(tx)
  BY <1>1, WorldView DEF view
<1>4. n \in view.node /\ n \in Node
  <2>1. Len(tx.ids) \in 1 .. Len(tx.ids)
    BY <1>1, <1>2, TxColumns DEF TxOK
  <2>2. n \in view.node
    BY <1>2, <1>3, <2>1 DEF TxOK
  <2>3. QED
    BY <1>3, <2>2 DEF RowsOK
<1>5. CASE Mentioned(n, tx.doc)
  <2>1. tx' = [tx EXCEPT !.due = FALSE]
    BY <1>5 DEF RecordMention
  <2>2. TxOK(graph, tx') /\ View(graph, tx') = View(graph, tx)
    BY <1>1, <1>2, <2>1, NoMentionKeeps
  <2>3. QED
    BY <1>1, <1>2, <1>3, <2>2 DEF World, view
<1>6. CASE ~Mentioned(n, tx.doc)
  <2>1. PICK m : m \in FreeMentions /\ tx' = [tx EXCEPT !.due = FALSE, !.mentions[m] = row]
    BY <1>6 DEF RecordMention
  <2>2. m \in MentionId /\ view.mention[m] = None
    BY <2>1 DEF FreeMentions
  <2>3. \A k \in MentionId : view.mention[k] # row
    BY <1>6 DEF Mentioned
  <2>. HIDE DEF n
  <2>4. ASSUME NEW r, r = row, NEW u, u = tx'
        PROVE  TxOK(graph, u) /\ WithMention(view, m, r, View(graph, u))
    <3>1. u = [tx EXCEPT !.due = FALSE, !.mentions[m] = r]
      BY <2>1, <2>4
    <3>2. r = [node |-> n, doc |-> tx.doc]
      BY <2>4
    <3>. HIDE DEF row
    <3>3. QED
      BY <1>1, <1>2, <1>4, <2>2, <3>1, <3>2, MentionKeeps DEF view
  <2>5. TxOK(graph, tx') /\ WithMention(view, m, row, View(graph, tx'))
    BY <2>4
  <2>6. row.node \in view.node
    BY <1>4
  <2>. HIDE DEF row
  <2>7. ASSUME NEW w, w = View(graph, tx')
        PROVE  Constraints(w) /\ Distinct(w)
    <3>1. WithMention(view, m, row, w)
      BY <2>5, <2>7
    <3>2. Constraints(w)
      BY <1>3, <2>2, <2>3, <2>6, <3>1, MentionMeets
    <3>3. QED
      BY <1>3, <3>1, <3>2 DEF Distinct, WithMention
  <2>8. QED
    BY <1>1, <1>2, <2>5, <2>7 DEF World
<1>7. QED
  BY <1>5, <1>6

\* The ends of the next edge.
NextSource == tx.ids[tx.of.edges[tx.links + 1][1]]
NextTarget == tx.ids[tx.of.edges[tx.links + 1][2]]

\* They are nodes of the document, and what is written of them is a row that joins
\* them, new or one that did before.
LEMMA EdgeIs ==
  ASSUME World(graph, tx), ResolveEdge
  PROVE  /\ {NextSource, NextTarget} \subseteq view.node
         /\ \E e \in EdgeId, row \in EdgeRow :
              /\ row.source = NextSource /\ row.target = NextTarget
              /\ tx' = [tx EXCEPT !.links = @ + 1, !.edges[e] = row]
              /\ \/ e \in FreeEdges /\ SameFacts(NextSource, NextTarget) = {}
                 \/ e \in SameFacts(NextSource, NextTarget)
<1>1. /\ tx # None /\ ~tx.due /\ graph' = graph
      /\ Len(tx.ids) = Len(tx.of.nodes) /\ tx.links < Len(tx.of.edges)
  BY DEF ResolveEdge
<1>2. TxOK(graph, tx) /\ Tables(graph) /\ tx \in Transaction
  BY <1>1 DEF World, TxOK
<1>3. /\ RowsOK(view) /\ Constraints(view)
      /\ view.node = graph.node \union OwnNodes(tx)
  BY <1>1, WorldView DEF view
<1>4. /\ tx.links \in Nat /\ tx.of \in Extraction
      /\ tx.of.edges \in Seq((1 .. Len(tx.of.nodes)) \X (1 .. Len(tx.of.nodes)))
  BY <1>2, TxColumns, ExtractionAssumption
<1>5. /\ tx.of.edges[tx.links + 1][1] \in 1 .. Len(tx.ids)
      /\ tx.of.edges[tx.links + 1][2] \in 1 .. Len(tx.ids)
  <2>1. tx.of.edges[tx.links + 1] \in (1 .. Len(tx.of.nodes)) \X (1 .. Len(tx.of.nodes))
    <3>1. \A T : \A q \in Seq(T) : \A i \in Nat : i < Len(q) => q[i + 1] \in T
      OBVIOUS
    <3>2. QED
      BY <1>1, <1>4, <3>1
  <2>2. QED
    BY <1>1, <2>1
<1>6. {NextSource, NextTarget} \subseteq view.node
  BY <1>2, <1>3, <1>5 DEF TxOK, NextSource, NextTarget
<1>7. NextSource \in Node /\ NextTarget \in Node
  BY <1>3, <1>6 DEF RowsOK
<1>8. CASE SameFacts(NextSource, NextTarget) = {}
  <2>. DEFINE row == [source |-> NextSource, target |-> NextTarget, weight |-> 1]
  <2>1. FreeEdges # {} /\ tx' = [tx EXCEPT !.links = @ + 1, !.edges[CHOOSE x \in FreeEdges : TRUE] = row]
    BY <1>8 DEF ResolveEdge, NextSource, NextTarget
  <2>2. PICK e : e = CHOOSE x \in FreeEdges : TRUE
    OBVIOUS
  <2>3. e \in FreeEdges
    BY <2>1, <2>2
  <2>4. e \in EdgeId
    BY <2>3 DEF FreeEdges
  <2>5. row \in EdgeRow /\ row.source = NextSource /\ row.target = NextTarget
    BY <1>7 DEF EdgeRow
  <2>6. tx' = [tx EXCEPT !.links = @ + 1, !.edges[e] = row]
    BY <2>1, <2>2
  <2>. HIDE DEF row
  <2>7. QED
    BY <1>6, <1>8, <2>3, <2>4, <2>5, <2>6
<1>9. CASE SameFacts(NextSource, NextTarget) # {}
  <2>1. PICK e \in SameFacts(NextSource, NextTarget) :
          tx' = [tx EXCEPT !.links = @ + 1, !.edges[e] = [view.edge[e] EXCEPT !.weight = @ + 1]]
    BY <1>9 DEF ResolveEdge, NextSource, NextTarget
  <2>2. /\ e \in EdgeId /\ view.edge[e] # None
        /\ view.edge[e].source = NextSource /\ view.edge[e].target = NextTarget
    BY <2>1 DEF SameFacts, SameFact
  <2>3. view.edge[e] \in EdgeRow
    BY <1>3, <2>2 DEF RowsOK
  <2>4. PICK row : row = [view.edge[e] EXCEPT !.weight = @ + 1]
    OBVIOUS
  <2>5. row \in EdgeRow /\ row.source = NextSource /\ row.target = NextTarget
    BY <2>2, <2>3, <2>4 DEF EdgeRow
  <2>6. QED
    BY <1>6, <2>1, <2>2, <2>4, <2>5
<1>10. QED
  BY <1>8, <1>9

\* An edge of the document keeps the tables.
LEMMA EdgeWorld ==
  ASSUME World(graph, tx), ResolveEdge
  PROVE  World(graph', tx')
<1>1. /\ tx # None /\ ~tx.due /\ graph' = graph
      /\ Len(tx.ids) = Len(tx.of.nodes) /\ tx.links < Len(tx.of.edges)
  BY DEF ResolveEdge
<1>2. TxOK(graph, tx) /\ Tables(graph)
  BY <1>1 DEF World
<1>3. RowsOK(view) /\ Constraints(view) /\ Distinct(view)
  BY WorldView DEF view
<1>4. PICK e \in EdgeId, row \in EdgeRow :
              /\ row.source = NextSource /\ row.target = NextTarget
              /\ tx' = [tx EXCEPT !.links = @ + 1, !.edges[e] = row]
              /\ \/ e \in FreeEdges /\ SameFacts(NextSource, NextTarget) = {}
                 \/ e \in SameFacts(NextSource, NextTarget)
  BY EdgeIs
<1>5. {row.source, row.target} \subseteq view.node
  BY <1>4, EdgeIs
<1>6. TxOK(graph, tx') /\ WithEdge(view, e, row, View(graph, tx'))
  <2>1. ASSUME NEW u, u = tx' PROVE TxOK(graph, u) /\ WithEdge(view, e, row, View(graph, u))
    <3>1. u = [tx EXCEPT !.links = @ + 1, !.edges[e] = row]
      BY <1>4, <2>1
    <3>2. QED
      BY <1>1, <1>2, <3>1, EdgeKeeps DEF view
  <2>2. QED
    BY <2>1
<1>7. \A k \in EdgeId \ {e} : view.edge[k] # None => ~SameEnds(row, view.edge[k])
  <2>1. CASE SameFacts(NextSource, NextTarget) = {}
    BY <1>4, <2>1 DEF SameFacts, SameFact, SameEnds
  <2>2. CASE e \in SameFacts(NextSource, NextTarget)
    <3>1. view.edge[e] # None /\ SameEnds(row, view.edge[e])
      BY <1>4, <2>2 DEF SameFacts, SameFact, SameEnds
    <3>2. QED
      BY <1>3, <3>1 DEF Constraints, SameEnds
  <2>3. QED
    BY <1>4, <2>1, <2>2
<1>8. ASSUME NEW w, w = View(graph, tx')
      PROVE  Constraints(w) /\ Distinct(w)
  <2>1. WithEdge(view, e, row, w)
    BY <1>6, <1>8
  <2>2. Constraints(w)
    BY <1>3, <1>5, <1>7, <2>1, EdgeMeets
  <2>3. QED
    BY <1>3, <2>1, <2>2 DEF Distinct, WithEdge
<1>9. QED
  BY <1>1, <1>2, <1>6, <1>8 DEF World

\* The transaction is committed: what it saw is what all see.
LEMMA CommitWorld ==
  ASSUME World(graph, tx), Commit
  PROVE  World(graph', tx')
<1>1. tx # None /\ graph' = view /\ tx' = None
  BY DEF Commit
<1>2. TxOK(graph, tx) /\ Tables(graph) /\ tx \in Transaction
  BY <1>1 DEF World, TxOK
<1>3. /\ RowsOK(view) /\ Acyclic(view) /\ Constraints(view) /\ Distinct(view)
      /\ \A n \in view.node : view.entity[n] \in Entity
  BY WorldView DEF view
<1>4. "entity" \in DOMAIN view /\ DOMAIN view.entity = Node
  BY <1>2, ViewColumns DEF view, Tables
<1>5. Tables(view)
  BY <1>3, <1>4 DEF Tables
<1>6. View(view, None) = view
  BY ViewNone
<1>7. World(view, None)
  BY <1>3, <1>5, <1>6 DEF World
<1>8. QED
  BY <1>1, <1>7

\* The transaction is rolled back.
LEMMA AbortWorld ==
  ASSUME World(graph, tx), Abort
  PROVE  World(graph', tx')
<1>1. tx # None /\ graph' = graph /\ tx' = None
  BY DEF Abort
<1>2. TxOK(graph, tx) /\ Tables(graph) /\ tx \in Transaction
  BY <1>1 DEF World, TxOK
<1>3. /\ Distinct(view) /\ view.node = graph.node \union OwnNodes(tx)
  BY <1>1, WorldView DEF view
<1>4. \A n \in Node : view.entity[n] = IF tx.nodes[n] # None THEN tx.nodes[n] ELSE graph.entity[n]
  BY <1>2, ViewColumns DEF view
<1>5. Distinct(graph)
  <2>1. \A n \in graph.node : n \in Node /\ view.entity[n] = graph.entity[n]
    BY <1>2, <1>4 DEF OwnNodes, TxOK, Tables, RowsOK
  <2>2. QED
    BY <1>3, <2>1 DEF Distinct
<1>6. View(graph, None) = graph
  BY ViewNone
<1>7. World(graph, None)
  BY <1>2, <1>5, <1>6 DEF World, Tables
<1>8. QED
  BY <1>1, <1>7

\* What changes neither nodes nor entities keeps the tables with the transaction.
LEMMA SameNodesWorld ==
  ASSUME NEW g, NEW t, World(g, t), NEW h, Tables(h), h.node = g.node, h.entity = g.entity,
         t # None => Constraints(View(h, t))
  PROVE  World(h, t)
<1>1. CASE t = None
  <2>1. View(g, t) = g /\ View(h, t) = h
    BY <1>1, ViewNone
  <2>2. Distinct(h)
    BY <2>1 DEF World, Distinct
  <2>3. QED
    BY <1>1, <2>1, <2>2 DEF World, Tables
<1>2. CASE t # None
  <2>1. TxOK(g, t) /\ Tables(g) /\ t \in Transaction
    BY <1>2 DEF World, TxOK
  <2>2. TxOK(h, t)
    BY <2>1 DEF TxOK
  <2>3. ASSUME NEW v, v = View(g, t), NEW w, w = View(h, t) PROVE Distinct(v) => Distinct(w)
    <3>1. /\ v.node = g.node \union OwnNodes(t)
          /\ \A n \in Node : v.entity[n] = IF t.nodes[n] # None THEN t.nodes[n] ELSE g.entity[n]
      BY <2>1, <2>3, ViewColumns
    <3>2. /\ w.node = h.node \union OwnNodes(t)
          /\ \A n \in Node : w.entity[n] = IF t.nodes[n] # None THEN t.nodes[n] ELSE h.entity[n]
      BY <2>1, <2>3, ViewColumns
    <3>3. v.node \subseteq Node
      BY <2>1, <3>1 DEF OwnNodes, Tables, RowsOK
    <3>4. QED
      BY <3>1, <3>2, <3>3 DEF Distinct
  <2>4. QED
    BY <1>2, <2>2, <2>3 DEF World
<1>3. QED
  BY <1>1, <1>2

\* An approved merge leaves tables.
LEMMA ApproveTables ==
  ASSUME NEW g, Tables(g), NEW c, MergeValid(c, g), NEW h, h = MergeWrites(c, g, g)
  PROVE  /\ Tables(h) /\ MergedColumns(c, g, h) /\ Points(g, h, c.loser, c.winner)
         /\ h.node = g.node /\ h.entity = g.entity
<1>1. RowsOK(g) /\ Constraints(g) /\ Acyclic(g)
  BY DEF Tables
<1>2. MergedColumns(c, g, h)
  BY <1>1, MergeColumns
<1>3. RowsOK(h) /\ Constraints(h)
  BY <1>1, MergeRowsOK, MergeStorable
<1>4. /\ {c.loser, c.winner} \subseteq Node /\ c.loser # c.winner
      /\ g.canon[c.loser] = None /\ g.canon[c.winner] = None
  BY <1>1 DEF MergeValid, RowsOK
<1>5. Points(g, h, c.loser, c.winner)
  BY <1>2, <1>4 DEF Points, MergedColumns
<1>6. Forest(g)
  BY <1>1 DEF Forest, RowsOK
<1>7. Acyclic(h)
  BY <1>5, <1>6, MergedForest DEF Forest
<1>8. h.node = g.node /\ h.entity = g.entity /\ "entity" \in DOMAIN h
  BY <1>2 DEF MergedColumns, Tables
<1>9. Tables(h)
  BY <1>3, <1>7, <1>8 DEF Tables
<1>10. QED
  BY <1>2, <1>5, <1>8, <1>9

\* What a rollback leaves in each column.
UndoneColumns(d, g, u) ==
  /\ u.node = g.node /\ u.entity = g.entity
  /\ u.canon = [g.canon EXCEPT ![d.loser] = None]
  /\ \A e \in EdgeId :
       u.edge[e] = IF e \in DOMAIN d.deleted THEN d.deleted[e]
                   ELSE IF e \in DOMAIN d.repointed /\ g.edge[e] # None
                        THEN [g.edge[e] EXCEPT !.source = d.repointed[e].source,
                                               !.target = d.repointed[e].target]
                   ELSE IF e \in DOMAIN d.folded /\ g.edge[e] # None
                        THEN [g.edge[e] EXCEPT !.weight = d.folded[e]]
                   ELSE g.edge[e]
  /\ \A m \in MentionId :
       u.mention[m] = IF m \in DOMAIN d.forgotten THEN d.forgotten[m]
                      ELSE IF m \in d.mentions /\ g.mention[m] # None
                           THEN [g.mention[m] EXCEPT !.node = d.loser]
                      ELSE g.mention[m]

\* A rolled-back merge leaves tables, whatever has become of them since the snapshot.
LEMMA RollbackTables ==
  ASSUME NEW g, Tables(g), NEW c, c.kind = "entity_merge", NEW d, TakenBy(c, d),
         MergeUndoable(d, g), MergeUndoRows(d, g, g),
         NEW u, u = MergeUndo(d, g, g), Constraints(u)
  PROVE  Tables(u) /\ UndoneColumns(d, g, u)
<1>1. PICK f : RowsOK(f) /\ MergeValid(c, f) /\ d = MergeSnapshot(c, f)
  BY DEF TakenBy
<1>2. d = SnapshotOf(c, f) /\ ChangeOK(c) /\ Validates(c, f) /\ d.kind = "entity_merge"
  BY <1>1 DEF SnapshotOf, ChangeOK, Kind, Validates, MergeSnapshot, FlagKinds
<1>3. SnapshotOK(d)
  BY <1>1, <1>2 DEF SnapshotOK
<1>4. u = Undo(d, g, g)
  BY <1>2 DEF Undo, FlagKinds
<1>5. Undoable(d, g) /\ UndoStorable(d, g, g)
  BY <1>2, <1>4 DEF Undoable, UndoStorable, FlagKinds
<1>6. RowsOK(g)
  BY DEF Tables
<1>7. RowsOK(u) /\ DOMAIN u = DOMAIN g
  BY <1>3, <1>4, <1>5, <1>6, UndoKeeps
<1>8. UndoneColumns(d, g, u)
  <2>1. {"node", "entity", "canon", "props", "vec", "edge", "mention"} \subseteq DOMAIN g
    BY DEF Tables, RowsOK
  <2>2. u.node = g.node /\ u.entity = g.entity /\ u.canon = [g.canon EXCEPT ![d.loser] = None]
    BY <2>1 DEF MergeUndo
  <2>3. \A e \in EdgeId :
          u.edge[e] = IF e \in DOMAIN d.deleted THEN d.deleted[e]
                      ELSE IF e \in DOMAIN d.repointed /\ g.edge[e] # None
                           THEN [g.edge[e] EXCEPT !.source = d.repointed[e].source,
                                                  !.target = d.repointed[e].target]
                      ELSE IF e \in DOMAIN d.folded /\ g.edge[e] # None
                           THEN [g.edge[e] EXCEPT !.weight = d.folded[e]]
                      ELSE g.edge[e]
    BY <2>1 DEF MergeUndo
  <2>4. \A m \in MentionId :
          u.mention[m] = IF m \in DOMAIN d.forgotten THEN d.forgotten[m]
                         ELSE IF m \in d.mentions /\ g.mention[m] # None
                              THEN [g.mention[m] EXCEPT !.node = d.loser]
                         ELSE g.mention[m]
    BY <2>1 DEF MergeUndo
  <2>5. QED
    BY <2>2, <2>3, <2>4 DEF UndoneColumns
<1>9. Acyclic(u)
  <2>1. Forest(g)
    BY DEF Tables, Forest, RowsOK
  <2>2. \A n \in Node : u.canon[n] \in {g.canon[n], None}
    BY <1>8, <2>1 DEF UndoneColumns, Forest
  <2>3. u.canon \in [Node -> Node \union {None}]
    BY <1>7 DEF RowsOK
  <2>4. QED
    BY <2>1, <2>2, <2>3, FewerPointers DEF Forest
<1>10. "entity" \in DOMAIN u /\ DOMAIN u.entity = Node /\ \A n \in u.node : u.entity[n] \in Entity
  BY <1>7, <1>8 DEF UndoneColumns, Tables
<1>11. QED
  BY <1>7, <1>8, <1>9, <1>10 DEF Tables

\* A merge beneath the transaction.
LEMMA ApproveWorld ==
  ASSUME World(graph, tx), NEW c \in Merge, Approve(c)
  PROVE  World(graph', tx')
<1>1. /\ MergeValid(c, graph) /\ graph' = MergeWrites(c, graph, graph) /\ tx' = tx
      /\ tx # None => Constraints(View(graph', tx))
  BY DEF Approve, NoWait
<1>2. Tables(graph)
  BY DEF World
<1>3. Tables(graph') /\ graph'.node = graph.node /\ graph'.entity = graph.entity
  BY <1>1, <1>2, ApproveTables
<1>4. QED
  BY <1>1, <1>3, SameNodesWorld

\* A rollback beneath the transaction.
LEMMA RollbackWorld ==
  ASSUME World(graph, tx), NEW c \in Merge, TakenBy(c, data[c]), Rollback(c)
  PROVE  World(graph', tx')
<1>1. /\ MergeUndoable(data[c], graph) /\ MergeUndoRows(data[c], graph, graph)
      /\ graph' = MergeUndo(data[c], graph, graph) /\ Constraints(graph') /\ tx' = tx
      /\ tx # None => Constraints(View(graph', tx))
  BY DEF Rollback, NoWait
<1>2. Tables(graph) /\ c.kind = "entity_merge"
  BY MergeAssumption DEF World
<1>3. Tables(graph') /\ UndoneColumns(data[c], graph, graph')
  BY <1>1, <1>2, RollbackTables
<1>4. graph'.node = graph.node /\ graph'.entity = graph.entity
  BY <1>3 DEF UndoneColumns
<1>5. QED
  BY <1>1, <1>3, <1>4, SameNodesWorld

\* Every step keeps the tables.
LEMMA WorldKept ==
  ASSUME TablesInv, [Next]_vars
  PROVE  World(graph', tx')
<1>1. World(graph, tx)
  BY DEF TablesInv
<1>2. CASE UNCHANGED vars
  BY <1>1, <1>2 DEF vars
<1>3. ASSUME NEW d \in Doc, NEW x \in Extraction, Begin(d, x) PROVE World(graph', tx')
  BY <1>1, <1>3, BeginWorld
<1>4. CASE UpsertSourced \/ UpsertDerived
  BY <1>1, <1>4, UpsertWorld
<1>5. CASE RecordMention
  BY <1>1, <1>5, MentionWorld
<1>6. CASE ResolveEdge
  BY <1>1, <1>6, EdgeWorld
<1>7. CASE Commit
  BY <1>1, <1>7, CommitWorld
<1>8. CASE Abort
  BY <1>1, <1>8, AbortWorld
<1>9. ASSUME NEW c \in Merge, Approve(c) PROVE World(graph', tx')
  BY <1>1, <1>9, ApproveWorld
<1>10. ASSUME NEW c \in Merge, Rollback(c) PROVE World(graph', tx')
  <2>1. c \in AppliedMerges
    BY <1>10 DEF Rollback, AppliedMerges
  <2>2. TakenBy(c, data[c])
    BY <2>1 DEF TablesInv
  <2>3. QED
    BY <1>1, <1>10, <2>2, RollbackWorld
<1>11. QED
  BY <1>2, <1>3, <1>4, <1>5, <1>6, <1>7, <1>8, <1>9, <1>10 DEF Next

\* And every snapshot.
LEMMA TablesKept ==
  ASSUME TablesInv, [Next]_vars
  PROVE  TablesInv'
<1>1. World(graph', tx')
  BY WorldKept
<1>2. /\ status' \in [Merge -> {"pending", "applied", "rolled_back"}] /\ DOMAIN data' = Merge
      /\ runs' \in 0 .. MaxRuns
      /\ \A c \in Merge : status'[c] = "applied" => TakenBy(c, data'[c])
  <2>1. /\ status \in [Merge -> {"pending", "applied", "rolled_back"}] /\ DOMAIN data = Merge
        /\ runs \in 0 .. MaxRuns
        /\ \A c \in Merge : status[c] = "applied" => TakenBy(c, data[c])
    BY DEF TablesInv, AppliedMerges
  <2>2. CASE UNCHANGED <<status, data, runs>>
    BY <2>1, <2>2
  <2>3. ASSUME NEW d \in Doc, NEW x \in Extraction, Begin(d, x)
        PROVE  UNCHANGED <<status, data>> /\ runs' \in 0 .. MaxRuns
    BY <2>1, <2>3, RunsAssumption DEF Begin
  <2>4. ASSUME NEW c \in Merge, Approve(c)
        PROVE  /\ status' = [status EXCEPT ![c] = "applied"] /\ runs' = runs
               /\ data' = [data EXCEPT ![c] = MergeSnapshot(c, graph)]
               /\ TakenBy(c, MergeSnapshot(c, graph))
    <3>1. MergeValid(c, graph) /\ RowsOK(graph)
      BY <2>4 DEF Approve, TablesInv, World, Tables
    <3>2. QED
      BY <2>4, <3>1 DEF Approve, TakenBy
  <2>5. ASSUME NEW c \in Merge, Rollback(c)
        PROVE  status' = [status EXCEPT ![c] = "rolled_back"] /\ UNCHANGED <<data, runs>>
    BY <2>5 DEF Rollback
  <2>6. UpsertSourced \/ UpsertDerived \/ RecordMention \/ ResolveEdge \/ Commit \/ Abort
          => UNCHANGED <<status, data, runs>>
    BY DEF UpsertSourced, UpsertDerived, NextNode, RecordMention, ResolveEdge, Commit, Abort
  <2>7. CASE \E d \in Doc, x \in Extraction : Begin(d, x)
    BY <2>1, <2>3, <2>7
  <2>8. ASSUME NEW c \in Merge, Approve(c)
        PROVE  /\ status' \in [Merge -> {"pending", "applied", "rolled_back"}] /\ DOMAIN data' = Merge
               /\ runs' \in 0 .. MaxRuns
               /\ \A k \in Merge : status'[k] = "applied" => TakenBy(k, data'[k])
    BY <2>1, <2>4, <2>8
  <2>9. ASSUME NEW c \in Merge, Rollback(c)
        PROVE  /\ status' \in [Merge -> {"pending", "applied", "rolled_back"}] /\ DOMAIN data' = Merge
               /\ runs' \in 0 .. MaxRuns
               /\ \A k \in Merge : status'[k] = "applied" => TakenBy(k, data'[k])
    BY <2>1, <2>5, <2>9
  <2>10. QED
    BY <2>2, <2>6, <2>7, <2>8, <2>9 DEF Next, vars
<1>3. QED
  BY <1>1, <1>2 DEF TablesInv, AppliedMerges

\* At the start the tables are those of InitGraph.
LEMMA TablesBegin ==
  ASSUME Init
  PROVE  TablesInv
<1>1. graph = InitGraph /\ tx = None /\ runs = 0
      /\ status = [c \in Merge |-> "pending"] /\ data = [c \in Merge |-> None]
  BY DEF Init
<1>2. Tables(graph) /\ Distinct(graph) /\ Constraints(graph)
  BY <1>1, InitGraphAssumption DEF Tables, Distinct
<1>3. View(graph, tx) = graph
  BY <1>1, ViewNone
<1>4. World(graph, tx)
  BY <1>1, <1>2, <1>3 DEF World
<1>5. QED
  BY <1>1, <1>4, RunsAssumption DEF TablesInv, AppliedMerges

\* The inductive invariant behind the two theorems that follow.
LEMMA TablesInvariant == Spec => []TablesInv
<1>1. Init => TablesInv
  BY TablesBegin
<1>2. TablesInv /\ [Next]_vars => TablesInv'
  BY TablesKept
<1>3. QED
  BY <1>1, <1>2, PTL DEF Spec

\* Whatever documents say and whatever is merged and rolled back between the
\* statements of their transactions, the tables keep the schema's constraints, with
\* the open transaction's rows over them too.
THEOREM ResolverTypeCorrect == Spec => []TypeOK
<1>1. TablesInv => TypeOK
  <2>1. SUFFICES ASSUME TablesInv PROVE TypeOK
    OBVIOUS
  <2>2. RowsOK(graph) /\ Constraints(graph) /\ World(graph, tx) /\ runs \in 0 .. MaxRuns
    BY <2>1 DEF TablesInv, World, Tables
  <2>3. /\ Constraints(view) /\ \A n \in view.node : view.entity[n] \in Entity
        /\ tx # None => view.node = graph.node \union OwnNodes(tx)
    BY <2>2, WorldView DEF view
  <2>4. tx # None => TxOK(graph, tx)
    BY <2>2 DEF World
  <2>5. graph.node \subseteq Node /\ graph.canon \in [Node -> Node \union {None}]
    BY <2>2 DEF RowsOK
  <2>6. QED
    BY <2>2, <2>3, <2>4, <2>5 DEF TypeOK, TxOK
<1>2. QED
  BY <1>1, TablesInvariant, PTL

\* Re-ingestion never makes a second row for an entity that has one, whether that
\* is canonical or merged away, in any behaviour of the resolver and the merges.
THEOREM OneRowPerEntity == Spec => []OneNodePerEntity
<1>1. TablesInv => OneNodePerEntity
  <2>1. SUFFICES ASSUME TablesInv PROVE OneNodePerEntity
    OBVIOUS
  <2>2. World(graph, tx) /\ Tables(graph)
    BY <2>1 DEF TablesInv, World
  <2>3. Distinct(view)
    BY <2>2 DEF World, view
  <2>4. CASE tx = None
    BY <2>3, <2>4, ViewNone DEF view, Distinct, OneNodePerEntity
  <2>5. CASE tx # None
    <3>1. TxOK(graph, tx) /\ tx \in Transaction
      BY <2>2, <2>5 DEF World, TxOK
    <3>2. /\ view.node = graph.node \union OwnNodes(tx)
          /\ \A n \in Node : view.entity[n] = IF tx.nodes[n] # None THEN tx.nodes[n] ELSE graph.entity[n]
      BY <2>2, <3>1, ViewColumns DEF view
    <3>3. \A n \in graph.node : n \in Node /\ view.entity[n] = graph.entity[n]
      BY <2>2, <3>1, <3>2 DEF OwnNodes, TxOK, Tables, RowsOK
    <3>4. QED
      BY <2>3, <3>2, <3>3 DEF Distinct, OneNodePerEntity
  <2>6. QED
    BY <2>4, <2>5
<1>2. QED
  BY <1>1, TablesInvariant, PTL

-----------------------------------------------------------------------------
(* What was heard of a node, and what it was linked to, through merges.    *)

\* Chains of merges are in one column.
LEMMA RootSame ==
  ASSUME NEW g, NEW h, h.canon = g.canon, NEW n
  PROVE  RootOf(h, n) = RootOf(g, n)
BY DEF RootOf, Hop

\* u is g with the hop from l taken back: chains through l end there.
LEMMA UndoneRoots ==
  ASSUME NEW g, Forest(g), NEW u, NEW l \in Node, g.canon[l] # None,
         u.canon = [g.canon EXCEPT ![l] = None], NEW n \in Node
  PROVE  \/ RootOf(u, n) = RootOf(g, n)
         \/ RootOf(u, n) = l /\ RootOf(g, n) = RootOf(g, l)
<1>. DEFINE S == {k \in Node : \/ RootOf(u, k) = RootOf(g, k)
                               \/ RootOf(u, k) = l /\ RootOf(g, k) = RootOf(g, l)}
<1>1. u.canon \in [Node -> Node \union {None}] /\ \A k \in Node : u.canon[k] \in {g.canon[k], None}
  BY DEF Forest
<1>2. Forest(u)
  BY <1>1, FewerPointers
<1>3. ASSUME NEW k \in Node, g.canon[k] = None \/ g.canon[k] \in S PROVE k \in S
  <2>1. RootOf(g, k) = IF g.canon[k] = None THEN k ELSE RootOf(g, g.canon[k])
    BY RootOfHop
  <2>2. RootOf(u, k) = IF u.canon[k] = None THEN k ELSE RootOf(u, u.canon[k])
    BY <1>2, RootOfHop
  <2>3. u.canon[k] = IF k = l THEN None ELSE g.canon[k]
    BY DEF Forest
  <2>4. CASE k = l
    BY <2>2, <2>3, <2>4
  <2>5. CASE k # l
    BY <1>3, <2>1, <2>2, <2>3, <2>5
  <2>6. QED
    BY <2>4, <2>5
<1>4. Node \subseteq S
  <2>. HIDE DEF S
  <2>1. QED
    BY <1>3, HopInduction
<1>5. QED
  BY <1>4

\* In what v shows: a mention of n, or of what has come to be the same node as n
\* in g, and an edge from n to k.
HeardOf(g, v, n, d) ==
  \E m \in MentionId :
    /\ v.mention[m] # None /\ v.mention[m].doc = d
    /\ RootOf(g, v.mention[m].node) = RootOf(g, n)

Joins(g, row, n, k) ==
  RootOf(g, row.source) = RootOf(g, n) /\ RootOf(g, row.target) = RootOf(g, k)

Joined(g, v, n, k) == \E e \in EdgeId : v.edge[e] # None /\ Joins(g, v.edge[e], n, k)

\* v and w show g and h with the rows of one transaction over them, which h leaves alone.
Beneath(g, h, v, w) ==
  /\ \A m \in MentionId :
       \/ v.mention[m] = g.mention[m] /\ w.mention[m] = h.mention[m]
       \/ v.mention[m] = w.mention[m] /\ g.mention[m] = None
  /\ \A e \in EdgeId :
       \/ v.edge[e] = g.edge[e] /\ w.edge[e] = h.edge[e]
       \/ /\ v.edge[e] = w.edge[e] /\ v.edge[e] # None /\ g.edge[e] = h.edge[e]
          /\ (g.edge[e] # None => SameEnds(g.edge[e], v.edge[e]))

\* h is g with the merge c, in the rows that v and w show.
Merging(c, g, h, v, w) ==
  /\ Tables(g) /\ RowsOK(v) /\ MergeValid(c, g) /\ h = MergeWrites(c, g, g)
  /\ Beneath(g, h, v, w)

\* After a merge the loser's canonical node is the winner, as are those of its aliases.
LEMMA MergingRoots ==
  ASSUME NEW c, NEW g, NEW h, NEW v, NEW w, Merging(c, g, h, v, w)
  PROVE  /\ c.loser \in Node /\ c.winner \in Node /\ c.loser # c.winner
         /\ RootOf(g, c.loser) = c.loser /\ RootOf(g, c.winner) = c.winner
         /\ \A n \in Node : RootOf(h, n) = IF RootOf(g, n) = c.loser THEN c.winner ELSE RootOf(g, n)
<1>1. Tables(g) /\ MergeValid(c, g) /\ h = MergeWrites(c, g, g)
  BY DEF Merging
<1>2. Points(g, h, c.loser, c.winner)
  BY <1>1, ApproveTables
<1>3. Forest(g)
  BY <1>1 DEF Tables, Forest, RowsOK
<1>4. /\ c.loser \in Node /\ c.winner \in Node /\ c.loser # c.winner
      /\ g.canon[c.loser] = None /\ g.canon[c.winner] = None
  BY <1>2 DEF Points
<1>5. \A n \in Node : RootOf(h, n) = IF RootOf(g, n) = c.loser THEN c.winner ELSE RootOf(g, n)
  BY <1>2, <1>3, MergedRoots
<1>6. RootOf(g, c.loser) = c.loser /\ RootOf(g, c.winner) = c.winner
  BY <1>3, <1>4, RootOfHop
<1>7. QED
  BY <1>4, <1>5, <1>6

\* A merge loses no evidence.
LEMMA MergeHeard ==
  ASSUME NEW c, NEW g, NEW h, NEW v, NEW w, Merging(c, g, h, v, w),
         NEW n \in Node, NEW d, HeardOf(g, v, n, d)
  PROVE  HeardOf(h, w, n, d)
<1>1. RowsOK(g) /\ RowsOK(v) /\ MergeValid(c, g) /\ Beneath(g, h, v, w)
  BY DEF Merging, Tables
<1>2. h.mention = MergeMentions(c, g, g)
  <2>1. Tables(g) /\ MergeValid(c, g) /\ h = MergeWrites(c, g, g)
    BY DEF Merging
  <2>2. MergedColumns(c, g, h)
    BY <2>1, ApproveTables
  <2>3. QED
    BY <2>2 DEF MergedColumns
<1>3. /\ c.loser \in Node /\ c.winner \in Node /\ c.loser # c.winner
      /\ RootOf(g, c.loser) = c.loser /\ RootOf(g, c.winner) = c.winner
      /\ \A x \in Node : RootOf(h, x) = IF RootOf(g, x) = c.loser THEN c.winner ELSE RootOf(g, x)
  BY MergingRoots
<1>4. PICK m \in MentionId : /\ v.mention[m] # None /\ v.mention[m].doc = d
                             /\ RootOf(g, v.mention[m].node) = RootOf(g, n)
  BY DEF HeardOf
<1>5. v.mention[m] \in MentionRow /\ v.mention[m].node \in Node
  BY <1>1, <1>4 DEF RowsOK, MentionRow
<1>6. RootOf(h, v.mention[m].node) = RootOf(h, n)
  BY <1>3, <1>4, <1>5
<1>7. CASE v.mention[m] = w.mention[m]
  BY <1>4, <1>6, <1>7 DEF HeardOf
<1>8. CASE v.mention[m] = g.mention[m] /\ w.mention[m] = h.mention[m]
  <2>1. CASE m \in DeletedMentions(c, g)
    <3>1. PICK k \in MentionsOf(g, c.winner) : g.mention[k].doc = g.mention[m].doc
      BY <2>1 DEF DeletedMentions
    <3>2. k \in MentionId /\ g.mention[k] # None /\ g.mention[k].node = c.winner
      BY <3>1 DEF MentionsOf
    <3>3. k \notin MentionsOf(g, c.loser)
      BY <1>3, <3>2 DEF MentionsOf
    <3>4. h.mention[k] = g.mention[k]
      BY <1>1, <1>2, <3>2, <3>3, MergedMention
    <3>5. w.mention[k] = h.mention[k]
      BY <1>1, <3>2 DEF Beneath
    <3>6. g.mention[m].node = c.loser
      BY <2>1 DEF DeletedMentions, MentionsOf
    <3>7. RootOf(h, c.winner) = RootOf(h, n)
      BY <1>3, <1>6, <1>8, <3>6
    <3>8. QED
      BY <1>4, <1>8, <3>1, <3>2, <3>4, <3>5, <3>7 DEF HeardOf
  <2>2. CASE m \in RepointedMentions(c, g)
    <3>1. /\ g.mention[m] \in MentionRow /\ g.mention[m].node = c.loser
          /\ h.mention[m] = [g.mention[m] EXCEPT !.node = c.winner] /\ h.mention[m] \in MentionRow
      BY <1>1, <1>2, <2>2, MergedMention
    <3>2. h.mention[m].node = c.winner /\ h.mention[m].doc = d /\ h.mention[m] # None
      BY <1>4, <1>8, <3>1, NoneAssumption DEF MentionRow
    <3>3. RootOf(h, c.winner) = RootOf(h, n)
      BY <1>3, <1>6, <1>8, <3>1
    <3>4. QED
      BY <1>8, <3>2, <3>3 DEF HeardOf
  <2>3. CASE m \notin MentionsOf(g, c.loser)
    <3>1. h.mention[m] = g.mention[m]
      BY <1>1, <1>2, <2>3, MergedMention
    <3>2. QED
      BY <1>4, <1>6, <1>8, <3>1 DEF HeardOf
  <2>4. QED
    BY <2>1, <2>2, <2>3 DEF RepointedMentions
<1>9. QED
  BY <1>1, <1>7, <1>8 DEF Beneath

\* Nodes that are the same stay so, and what moves to the winner joins the same.
LEMMA MergeJoins ==
  ASSUME NEW c, NEW g, NEW h, NEW v, NEW w, Merging(c, g, h, v, w), NEW n \in Node, NEW k \in Node,
         NEW r \in EdgeRow, Joins(g, r, n, k)
  PROVE  /\ Joins(h, r, n, k)
         /\ \A s \in EdgeRow : SameEnds(s, r) \/ SameEnds(s, Moved(r, c)) => Joins(h, s, n, k)
         /\ Moved(r, c) \in EdgeRow
<1>1. /\ c.loser \in Node /\ c.winner \in Node /\ c.loser # c.winner
      /\ RootOf(g, c.loser) = c.loser /\ RootOf(g, c.winner) = c.winner
      /\ \A x \in Node : RootOf(h, x) = IF RootOf(g, x) = c.loser THEN c.winner ELSE RootOf(g, x)
  BY MergingRoots
<1>2. r.source \in Node /\ r.target \in Node
  BY DEF EdgeRow
<1>3. Joins(h, r, n, k)
  BY <1>1, <1>2 DEF Joins
<1>4. /\ Moved(r, c) \in EdgeRow
      /\ Moved(r, c).source = IF r.source = c.loser THEN c.winner ELSE r.source
      /\ Moved(r, c).target = IF r.target = c.loser THEN c.winner ELSE r.target
  BY <1>1 DEF Moved, EdgeRow
<1>5. RootOf(h, c.loser) = RootOf(h, c.winner)
  BY <1>1
<1>6. /\ RootOf(h, Moved(r, c).source) = RootOf(h, r.source)
      /\ RootOf(h, Moved(r, c).target) = RootOf(h, r.target)
  BY <1>4, <1>5
<1>7. ASSUME NEW s \in EdgeRow, SameEnds(s, r) \/ SameEnds(s, Moved(r, c))
      PROVE  Joins(h, s, n, k)
  BY <1>3, <1>6, <1>7 DEF Joins, SameEnds
<1>8. QED
  BY <1>3, <1>4, <1>7

\* A merge loses no fact but one between the two nodes it makes one.
LEMMA MergeJoined ==
  ASSUME NEW c, NEW g, NEW h, NEW v, NEW w, Merging(c, g, h, v, w),
         NEW n \in Node, NEW k \in Node, Joined(g, v, n, k), RootOf(h, n) # RootOf(h, k)
  PROVE  Joined(h, w, n, k)
<1>1. RowsOK(g) /\ RowsOK(v) /\ MergeValid(c, g) /\ Beneath(g, h, v, w)
  BY DEF Merging, Tables
<1>2. h.edge = MergeEdges(c, g, g)
  <2>1. Tables(g) /\ MergeValid(c, g) /\ h = MergeWrites(c, g, g)
    BY DEF Merging
  <2>2. MergedColumns(c, g, h)
    BY <2>1, ApproveTables
  <2>3. QED
    BY <2>2 DEF MergedColumns
<1>3. PICK e \in EdgeId : v.edge[e] # None /\ Joins(g, v.edge[e], n, k)
  BY DEF Joined
<1>. DEFINE r == v.edge[e]
<1>4. r \in EdgeRow
  BY <1>1, <1>3 DEF RowsOK
<1>5. /\ Joins(h, r, n, k)
      /\ \A s \in EdgeRow : SameEnds(s, r) \/ SameEnds(s, Moved(r, c)) => Joins(h, s, n, k)
      /\ Moved(r, c) \in EdgeRow
  BY <1>3, <1>4, MergeJoins
<1>6. TwoNodes(c, g)
  BY <1>1, ValidTwoNodes
<1>7. CASE r = w.edge[e]
  BY <1>3, <1>5, <1>7 DEF Joined
<1>8. CASE r = g.edge[e] /\ w.edge[e] = h.edge[e]
  <2>1. ASSUME NEW s, s = h.edge[e], s \in EdgeRow, SameEnds(s, r) \/ SameEnds(s, Moved(r, c))
        PROVE  Joined(h, w, n, k)
    BY <1>5, <1>8, <2>1, NoneAssumption DEF Joined
  <2>2. CASE e \in LoopEdges(c, g)
    <3>1. Moved(r, c).source = Moved(r, c).target
      BY <1>8, <2>2 DEF LoopEdges
    <3>2. Joins(h, Moved(r, c), n, k)
      BY <1>5 DEF SameEnds
    <3>3. QED
      BY <3>1, <3>2 DEF Joins
  <2>3. CASE e \in FoldedEdges(c, g)
    <3>1. PICK f \in EdgeId : FoldsInto(e, f, c, g)
      BY <2>3 DEF FoldedEdges
    <3>2. g.edge[f] # None /\ SameEnds(g.edge[f], Moved(r, c)) /\ f \in FoldTargets(c, g)
      BY <1>8, <3>1 DEF FoldsInto, FoldTargets
    <3>3. /\ h.edge[f] = [g.edge[f] EXCEPT !.weight = FoldedWeight(f, c, g)] /\ h.edge[f] \in EdgeRow
          /\ g.edge[f] \in EdgeRow
      BY <1>1, <1>2, <1>6, <3>2, MergedEdge, MergeSets
    <3>4. SameEnds(h.edge[f], Moved(r, c))
      BY <3>2, <3>3 DEF SameEnds, EdgeRow
    <3>5. CASE w.edge[f] = h.edge[f]
      BY <1>5, <3>3, <3>4, <3>5, NoneAssumption DEF Joined
    <3>6. CASE v.edge[f] = w.edge[f] /\ v.edge[f] # None /\ SameEnds(g.edge[f], v.edge[f])
      <4>1. w.edge[f] \in EdgeRow
        BY <1>1, <3>6 DEF RowsOK
      <4>2. SameEnds(w.edge[f], Moved(r, c))
        BY <3>2, <3>6 DEF SameEnds
      <4>3. QED
        BY <1>5, <4>1, <4>2, NoneAssumption DEF Joined
    <3>7. QED
      BY <1>1, <3>2, <3>5, <3>6 DEF Beneath
  <2>4. CASE e \in RepointedEdges(c, g)
    <3>1. h.edge[e] = Moved(r, c) /\ h.edge[e] \in EdgeRow
      BY <1>1, <1>2, <1>8, <2>4, MergedEdge
    <3>2. QED
      BY <2>1, <3>1 DEF SameEnds
  <2>5. CASE e \in FoldTargets(c, g)
    <3>1. h.edge[e] = [r EXCEPT !.weight = FoldedWeight(e, c, g)] /\ h.edge[e] \in EdgeRow
      BY <1>1, <1>2, <1>8, <2>5, MergedEdge
    <3>2. SameEnds(h.edge[e], r)
      BY <1>4, <3>1 DEF SameEnds, EdgeRow
    <3>3. QED
      BY <2>1, <3>1, <3>2
  <2>6. CASE e \notin EdgesAt(g, c.loser) \union FoldTargets(c, g)
    <3>1. h.edge[e] = r
      BY <1>1, <1>2, <1>8, <2>6, MergedEdge
    <3>2. QED
      BY <1>4, <2>1, <3>1 DEF SameEnds
  <2>7. QED
    BY <2>2, <2>3, <2>4, <2>5, <2>6 DEF RepointedEdges, DeletedEdges
<1>9. QED
  BY <1>1, <1>7, <1>8 DEF Beneath

-----------------------------------------------------------------------------
(* What a merge moved, and what its rollback gives back.                   *)

\* A node that the nodes of a merge have become one with, or of a merge undone.
At(g, un, d, n) == RootOf(g, n) = RootOf(g, d.winner) \/ RootOf(g, n) \in un

\* What an applied merge has moved is still with its winner.
MovesHold(g, un, d) ==
  /\ \A m \in d.mentions : g.mention[m] # None => At(g, un, d, g.mention[m].node)
  /\ \A e \in DOMAIN d.repointed : g.edge[e] # None =>
       At(g, un, d, g.edge[e].source) \/ At(g, un, d, g.edge[e].target)

MovesInv(g, un, ap, da) == \A c \in ap : MovesHold(g, un, da[c])

\* What a snapshot holds: ids, and rows at the loser.
Kept(d) ==
  /\ d.loser \in Node /\ d.winner \in Node
  /\ d.mentions \subseteq MentionId /\ DOMAIN d.forgotten \subseteq MentionId
  /\ DOMAIN d.deleted \subseteq EdgeId /\ DOMAIN d.repointed \subseteq EdgeId
  /\ DOMAIN d.folded \subseteq EdgeId
  /\ \A m \in DOMAIN d.forgotten : d.forgotten[m].node = d.loser
  /\ \A e \in DOMAIN d.deleted : d.loser \in {d.deleted[e].source, d.deleted[e].target}
  /\ \A e \in DOMAIN d.repointed :
       /\ d.repointed[e] \in EdgeRow
       /\ d.loser \in {d.repointed[e].source, d.repointed[e].target}
  /\ \A e \in DOMAIN d.folded : d.folded[e] \in Nat \ {0}

\* A merge's snapshot is one.
LEMMA SnapshotKept ==
  ASSUME NEW c, NEW d, TakenBy(c, d)
  PROVE  Kept(d) /\ d.loser = c.loser /\ d.winner = c.winner
<1>1. PICK f : RowsOK(f) /\ MergeValid(c, f) /\ d = MergeSnapshot(c, f)
  BY DEF TakenBy
<1>2. TwoNodes(c, f)
  BY <1>1, ValidTwoNodes
<1>3. /\ FoldTargets(c, f) \intersect EdgesAt(f, c.loser) = {}
      /\ DeletedEdges(c, f) \subseteq EdgesAt(f, c.loser)
      /\ RepointedEdges(c, f) \subseteq EdgesAt(f, c.loser)
      /\ \A e \in FoldTargets(c, f) : f.edge[e] \in EdgeRow
      /\ \A e \in EdgesAt(f, c.loser) : f.edge[e] \in EdgeRow
  BY <1>1, <1>2, MergeSets
<1>4. /\ d.loser = c.loser /\ d.winner = c.winner
      /\ d.repointed = [e \in RepointedEdges(c, f) |-> f.edge[e]]
      /\ d.folded = [e \in FoldTargets(c, f) |-> f.edge[e].weight]
      /\ d.deleted = [e \in DeletedEdges(c, f) |-> f.edge[e]]
      /\ d.mentions = RepointedMentions(c, f)
      /\ d.forgotten = [m \in DeletedMentions(c, f) |-> f.mention[m]]
  BY <1>1 DEF MergeSnapshot
<1>5. d.loser \in Node /\ d.winner \in Node
  BY <1>1, <1>4 DEF MergeValid, RowsOK
<1>6. /\ d.mentions \subseteq MentionId /\ DOMAIN d.forgotten \subseteq MentionId
      /\ \A m \in DOMAIN d.forgotten : d.forgotten[m].node = d.loser
  BY <1>4 DEF RepointedMentions, DeletedMentions, MentionsOf
<1>7. \A e \in EdgesAt(f, c.loser) : e \in EdgeId /\ c.loser \in {f.edge[e].source, f.edge[e].target}
  BY DEF EdgesAt
<1>8. /\ DOMAIN d.deleted \subseteq EdgeId /\ DOMAIN d.repointed \subseteq EdgeId
      /\ \A e \in DOMAIN d.deleted : d.loser \in {d.deleted[e].source, d.deleted[e].target}
      /\ \A e \in DOMAIN d.repointed :
           /\ d.repointed[e] \in EdgeRow
           /\ d.loser \in {d.repointed[e].source, d.repointed[e].target}
  BY <1>3, <1>4, <1>7
<1>9. DOMAIN d.folded \subseteq EdgeId /\ \A e \in DOMAIN d.folded : d.folded[e] \in Nat \ {0}
  BY <1>3, <1>4 DEF FoldTargets, EdgeRow
<1>10. QED
  BY <1>4, <1>5, <1>6, <1>8, <1>9 DEF Kept

\* u is g with the merge of snapshot d rolled back, in the rows that v and w show.
Undoing(d, g, u, v, w) ==
  /\ Tables(g) /\ Tables(u) /\ RowsOK(v) /\ Kept(d)
  /\ MergeUndoable(d, g) /\ MergeUndoRows(d, g, g) /\ UndoneColumns(d, g, u)
  /\ Beneath(g, u, v, w)

\* The nodes of a rolled-back merge.
Parted(d, g) == {d.loser, d.winner, RootOf(g, d.winner)}

\* A node ends where it did, or at the loser, or what it ended at has to do with the merge.
LEMMA UndoingRoots ==
  ASSUME NEW d, NEW g, NEW u, NEW v, NEW w, Undoing(d, g, u, v, w), NEW n \in Node
  PROVE  /\ RootOf(u, n) = RootOf(g, n) \/ (RootOf(u, n) = d.loser /\ RootOf(g, n) \in Parted(d, g))
         /\ RootOf(u, d.loser) = d.loser
<1>1. /\ Forest(g) /\ Forest(u) /\ d.loser \in Node /\ d.winner \in Node /\ g.canon[d.loser] = d.winner
      /\ u.canon = [g.canon EXCEPT ![d.loser] = None]
  BY DEF Undoing, Tables, Forest, RowsOK, Kept, MergeUndoable, UndoneColumns
<1>2. d.winner # None
  BY <1>1, NoneAssumption
<1>3. RootOf(g, d.loser) = RootOf(g, d.winner)
  BY <1>1, <1>2, RootOfHop
<1>4. \/ RootOf(u, n) = RootOf(g, n)
      \/ RootOf(u, n) = d.loser /\ RootOf(g, n) = RootOf(g, d.loser)
  BY <1>1, <1>2, UndoneRoots
<1>5. u.canon[d.loser] = None
  BY <1>1 DEF Forest
<1>6. RootOf(u, d.loser) = d.loser
  BY <1>1, <1>5, RootOfHop
<1>7. QED
  BY <1>3, <1>4, <1>6 DEF Parted

\* Who is among none of the parted nodes after a rollback was not before it either,
\* and keeps its canonical node.
LEMMA UndoingKeeps ==
  ASSUME NEW d, NEW g, NEW u, NEW v, NEW w, Undoing(d, g, u, v, w), NEW un,
         NEW n \in Node, RootOf(u, n) \notin un \union Parted(d, g)
  PROVE  /\ RootOf(u, n) = RootOf(g, n) /\ RootOf(g, n) \notin un \union Parted(d, g)
         /\ \A x \in Node : RootOf(g, x) = RootOf(g, n) => RootOf(u, x) = RootOf(u, n) /\ ~At(g, un, d, x)
<1>1. RootOf(u, n) # d.loser
  BY DEF Parted
<1>2. RootOf(u, n) = RootOf(g, n)
  BY <1>1, UndoingRoots
<1>3. ASSUME NEW x \in Node, RootOf(g, x) = RootOf(g, n)
      PROVE  RootOf(u, x) = RootOf(u, n) /\ ~At(g, un, d, x)
  <2>1. RootOf(g, x) \notin un \union Parted(d, g)
    BY <1>2, <1>3
  <2>2. RootOf(u, x) = RootOf(g, x)
    BY <2>1, UndoingRoots
  <2>3. ~At(g, un, d, x)
    BY <2>1 DEF At, Parted
  <2>4. QED
    BY <1>2, <1>3, <2>2, <2>3
<1>4. QED
  BY <1>2, <1>3

\* A rollback loses no evidence but that of the nodes it parts.
LEMMA UndoHeard ==
  ASSUME NEW d, NEW g, NEW u, NEW v, NEW w, Undoing(d, g, u, v, w), NEW un, MovesHold(g, un, d),
         NEW n \in Node, NEW doc, HeardOf(g, v, n, doc), RootOf(u, n) \notin un \union Parted(d, g)
  PROVE  HeardOf(u, w, n, doc)
<1>1. PICK m \in MentionId : /\ v.mention[m] # None /\ v.mention[m].doc = doc
                             /\ RootOf(g, v.mention[m].node) = RootOf(g, n)
  BY DEF HeardOf
<1>2. v.mention[m].node \in Node
  BY <1>1 DEF Undoing, RowsOK, MentionRow
<1>3. RootOf(u, v.mention[m].node) = RootOf(u, n) /\ ~At(g, un, d, v.mention[m].node)
  BY <1>1, <1>2, UndoingKeeps
<1>4. CASE v.mention[m] = w.mention[m]
  BY <1>1, <1>3, <1>4 DEF HeardOf
<1>5. CASE v.mention[m] = g.mention[m] /\ w.mention[m] = u.mention[m]
  <2>1. m \notin DOMAIN d.forgotten
    BY <1>1, <1>5 DEF Undoing, MergeUndoRows
  <2>2. m \notin d.mentions
    BY <1>1, <1>3, <1>5 DEF MovesHold
  <2>3. u.mention[m] = g.mention[m]
    BY <2>1, <2>2 DEF Undoing, UndoneColumns
  <2>4. QED
    BY <1>1, <1>3, <1>5, <2>3 DEF HeardOf
<1>6. QED
  BY <1>4, <1>5 DEF Undoing, Beneath

\* The rows of the edges that a rollback does not put back.
LEMMA UndoneEdge ==
  ASSUME NEW d, NEW g, NEW u, NEW v, NEW w, Undoing(d, g, u, v, w),
         NEW e \in EdgeId, e \notin DOMAIN d.deleted, e \notin DOMAIN d.repointed, g.edge[e] # None
  PROVE  u.edge[e] # None /\ SameEnds(u.edge[e], g.edge[e])
<1>1. g.edge[e] \in EdgeRow
  BY DEF Undoing, Tables, RowsOK
<1>2. u.edge[e] = IF e \in DOMAIN d.folded THEN [g.edge[e] EXCEPT !.weight = d.folded[e]]
                  ELSE g.edge[e]
  BY DEF Undoing, UndoneColumns
<1>3. e \in DOMAIN d.folded => d.folded[e] \in Nat \ {0}
  BY DEF Undoing, Kept
<1>4. u.edge[e] \in EdgeRow /\ SameEnds(u.edge[e], g.edge[e])
  BY <1>1, <1>2, <1>3 DEF EdgeRow, SameEnds
<1>5. QED
  BY <1>4, NoneAssumption

\* Nor a fact but those about them.
LEMMA UndoJoined ==
  ASSUME NEW d, NEW g, NEW u, NEW v, NEW w, Undoing(d, g, u, v, w), NEW un, MovesHold(g, un, d),
         NEW n \in Node, NEW k \in Node, Joined(g, v, n, k),
         RootOf(u, n) \notin un \union Parted(d, g), RootOf(u, k) \notin un \union Parted(d, g)
  PROVE  Joined(u, w, n, k)
<1>1. PICK e \in EdgeId : v.edge[e] # None /\ Joins(g, v.edge[e], n, k)
  BY DEF Joined
<1>2. v.edge[e].source \in Node /\ v.edge[e].target \in Node
  BY <1>1 DEF Undoing, RowsOK, EdgeRow
<1>3. /\ RootOf(u, v.edge[e].source) = RootOf(u, n) /\ ~At(g, un, d, v.edge[e].source)
      /\ RootOf(u, v.edge[e].target) = RootOf(u, k) /\ ~At(g, un, d, v.edge[e].target)
  BY <1>1, <1>2, UndoingKeeps DEF Joins
<1>4. CASE v.edge[e] = w.edge[e]
  BY <1>1, <1>3, <1>4 DEF Joined, Joins
<1>5. CASE v.edge[e] = g.edge[e] /\ w.edge[e] = u.edge[e]
  <2>1. e \notin DOMAIN d.deleted
    BY <1>1, <1>5 DEF Undoing, MergeUndoRows
  <2>2. e \notin DOMAIN d.repointed
    BY <1>1, <1>3, <1>5 DEF MovesHold
  <2>3. u.edge[e] # None /\ SameEnds(u.edge[e], g.edge[e])
    BY <1>1, <1>5, <2>1, <2>2, UndoneEdge
  <2>4. QED
    BY <1>3, <1>5, <2>3 DEF Joined, Joins, SameEnds
<1>6. QED
  BY <1>4, <1>5 DEF Undoing, Beneath

-----------------------------------------------------------------------------
(* What has been said, and that it holds. *)

\* The pairs P of nodes and documents are in v, but those of nodes parted (un).
MentionsHold(g, v, un, P) ==
  \A p \in P : p[1] \in Node /\ (RootOf(g, p[1]) \notin un => HeardOf(g, v, p[1], p[2]))

\* The pairs P of nodes are joined in v, but those parted, or become one.
FactsHold(g, v, un, P) ==
  \A p \in P :
    /\ p[1] \in Node /\ p[2] \in Node
    /\ (RootOf(g, p[1]) # RootOf(g, p[2]) /\ RootOf(g, p[1]) \notin un /\ RootOf(g, p[2]) \notin un)
         => Joined(g, v, p[1], p[2])

\* What the transaction t has said so far.
Said(t) == {<<t.ids[k], t.doc>> : k \in {i \in 1 .. Len(t.ids) : i < Len(t.ids) \/ ~t.due}}

SaidFacts(t) ==
  {<<t.ids[t.of.edges[k][1]], t.ids[t.of.edges[k][2]]>> : k \in 1 .. t.links}

\* The rows it writes are its own, and no applied merge's, or of the ends they had.
OwnRows(g, t, ap, da) ==
  /\ \A m \in MentionId : t.mentions[m] # None =>
       g.mention[m] = None /\ \A c \in ap : m \notin da[c].mentions
  /\ \A e \in EdgeId : t.edges[e] # None =>
       \/ g.edge[e] = None /\ \A c \in ap : e \notin DOMAIN da[c].repointed
       \/ g.edge[e] # None /\ SameEnds(g.edge[e], t.edges[e])

\* What the open transaction has said holds in what it sees.
Carries(g, t, un, ap, da) ==
  /\ OwnRows(g, t, ap, da)
  /\ MentionsHold(g, View(g, t), un, Said(t))
  /\ FactsHold(g, View(g, t), un, SaidFacts(t))

\* Every pair said and every fact told holds, and what merges have moved is with the
\* nodes they moved it to.
HistoryInv ==
  /\ MovesInv(graph, undone, AppliedMerges, data)
  /\ MentionsHold(graph, graph, undone, seen)
  /\ FactsHold(graph, graph, undone, told)
  /\ tx # None => Carries(graph, tx, undone, AppliedMerges, data)

\* w has the rows of v, with the ends they have there, and maybe more.
Grows(v, w) ==
  /\ \A m \in MentionId : v.mention[m] # None => w.mention[m] = v.mention[m]
  /\ \A e \in EdgeId : v.edge[e] # None => w.edge[e] # None /\ SameEnds(w.edge[e], v.edge[e])

\* What holds goes on holding when rows are added ...
LEMMA HoldsOn ==
  ASSUME NEW g, NEW v, NEW w, Grows(v, w), NEW un, NEW P
  PROVE  /\ MentionsHold(g, v, un, P) => MentionsHold(g, w, un, P)
         /\ FactsHold(g, v, un, P) => FactsHold(g, w, un, P)
<1>1. ASSUME NEW n, NEW d, HeardOf(g, v, n, d) PROVE HeardOf(g, w, n, d)
  BY <1>1 DEF HeardOf, Grows
<1>2. ASSUME NEW n, NEW k, Joined(g, v, n, k) PROVE Joined(g, w, n, k)
  <2>1. PICK e \in EdgeId : v.edge[e] # None /\ Joins(g, v.edge[e], n, k)
    BY <1>2 DEF Joined
  <2>2. w.edge[e] # None /\ Joins(g, w.edge[e], n, k)
    BY <2>1 DEF Grows, SameEnds, Joins
  <2>3. QED
    BY <2>2 DEF Joined
<1>3. MentionsHold(g, v, un, P) => MentionsHold(g, w, un, P)
  BY <1>1 DEF MentionsHold
<1>4. FactsHold(g, v, un, P) => FactsHold(g, w, un, P)
  BY <1>2 DEF FactsHold
<1>5. QED
  BY <1>3, <1>4

\* ... and in other tables where chains end the same.
LEMMA HoldsIn ==
  ASSUME NEW g, NEW h, h.canon = g.canon, NEW v, NEW un, NEW P
  PROVE  /\ MentionsHold(g, v, un, P) => MentionsHold(h, v, un, P)
         /\ FactsHold(g, v, un, P) => FactsHold(h, v, un, P)
<1>1. \A n : RootOf(h, n) = RootOf(g, n)
  BY RootSame
<1>2. \A n, d : HeardOf(g, v, n, d) => HeardOf(h, v, n, d)
  BY <1>1 DEF HeardOf
<1>3. \A n, k : Joined(g, v, n, k) => Joined(h, v, n, k)
  BY <1>1 DEF Joined, Joins
<1>4. QED
  BY <1>1, <1>2, <1>3 DEF MentionsHold, FactsHold

\* One more pair.
LEMMA HoldsMore ==
  ASSUME NEW g, NEW v, NEW un, NEW P, NEW Q
  PROVE  /\ MentionsHold(g, v, un, P) /\ MentionsHold(g, v, un, Q) => MentionsHold(g, v, un, P \union Q)
         /\ FactsHold(g, v, un, P) /\ FactsHold(g, v, un, Q) => FactsHold(g, v, un, P \union Q)
BY DEF MentionsHold, FactsHold

\* What a transaction's rows add to the tables.
LEMMA OwnGrows ==
  ASSUME NEW g, Tables(g), NEW t \in Transaction, NEW ap, NEW da, OwnRows(g, t, ap, da)
  PROVE  Grows(g, View(g, t))
<1>1. ASSUME NEW v, v = View(g, t) PROVE Grows(g, v)
  <2>1. /\ \A m \in MentionId :
             v.mention[m] = IF t.mentions[m] # None THEN t.mentions[m] ELSE g.mention[m]
        /\ \A e \in EdgeId : v.edge[e] = IF t.edges[e] # None THEN t.edges[e] ELSE g.edge[e]
    BY <1>1, ViewColumns
  <2>2. QED
    BY <2>1 DEF OwnRows, Grows, SameEnds
<1>2. QED
  BY <1>1

\* An entity further, nothing more is said.
LEMMA SaidResolved ==
  ASSUME NEW g, NEW t, TxOK(g, t), ~t.due, Len(t.ids) < Len(t.of.nodes), NEW n \in Node,
         NEW u, Resolved(t, u, n)
  PROVE  Said(u) = Said(t) /\ SaidFacts(u) = {} /\ SaidFacts(t) = {}
<1>1. t \in Transaction
  BY DEF TxOK
<1>2. t.ids \in Seq(Node) /\ t.links \in Nat /\ Len(t.of.nodes) \in Nat
  BY <1>1, TxColumns, ExtractionAssumption
<1>3. /\ Len(t.ids) \in Nat /\ Len(u.ids) = Len(t.ids) + 1
      /\ \A k \in 1 .. Len(u.ids) : u.ids[k] = IF k <= Len(t.ids) THEN t.ids[k] ELSE n
  BY <1>2, AppendIs DEF Resolved
<1>4. u.due = TRUE /\ u.doc = t.doc /\ u.links = t.links
  BY DEF Resolved
<1>5. {i \in 1 .. Len(u.ids) : i < Len(u.ids) \/ ~u.due} = 1 .. Len(t.ids)
  BY <1>3, <1>4
<1>6. {i \in 1 .. Len(t.ids) : i < Len(t.ids) \/ ~t.due} = 1 .. Len(t.ids)
  OBVIOUS
<1>7. \A k \in 1 .. Len(t.ids) : <<u.ids[k], u.doc>> = <<t.ids[k], t.doc>>
  BY <1>3, <1>4
<1>8. Said(u) = Said(t)
  BY <1>5, <1>6, <1>7 DEF Said
<1>9. t.links = 0
  BY <1>2, <1>3 DEF TxOK
<1>10. 1 .. t.links = {}
  BY <1>9
<1>11. QED
  BY <1>4, <1>8, <1>10 DEF SaidFacts

-----------------------------------------------------------------------------
(* Every step keeps the history.                                           *)

\* The next entity's node, found or inserted.
LEMMA UpsertCarries ==
  ASSUME World(graph, tx), UpsertSourced \/ UpsertDerived,
         NEW un, NEW ap, NEW da, Carries(graph, tx, un, ap, da)
  PROVE  Carries(graph, tx', un, ap, da)
<1>1. tx # None /\ ~tx.due /\ Len(tx.ids) < Len(tx.of.nodes)
  BY DEF UpsertSourced, UpsertDerived, NextNode
<1>2. TxOK(graph, tx) /\ Tables(graph) /\ tx \in Transaction
  BY <1>1 DEF World, TxOK
<1>3. ASSUME NEW u, NEW n \in Node, Resolved(tx, u, n), Grows(View(graph, tx), View(graph, u))
      PROVE  Carries(graph, u, un, ap, da)
  <2>1. Said(u) = Said(tx) /\ SaidFacts(u) = {} /\ SaidFacts(tx) = {}
    BY <1>1, <1>2, <1>3, SaidResolved
  <2>2. OwnRows(graph, u, ap, da)
    BY <1>3 DEF Resolved, OwnRows, Carries
  <2>3. MentionsHold(graph, View(graph, u), un, Said(u))
    BY <1>3, <2>1, HoldsOn DEF Carries
  <2>4. FactsHold(graph, View(graph, u), un, SaidFacts(u))
    BY <2>1 DEF FactsHold
  <2>5. QED
    BY <2>2, <2>3, <2>4 DEF Carries
<1>4. /\ RowsOK(View(graph, tx))
      /\ View(graph, tx).node = graph.node \union OwnNodes(tx)
  BY <1>1, WorldView
<1>5. ASSUME NEW n \in View(graph, tx).node, NEW lock \in BOOLEAN, NEW u,
             u = [tx EXCEPT !.ids = Append(@, n), !.due = TRUE,
                            !.locked = IF lock THEN @ \union {n} ELSE @]
      PROVE  Carries(graph, u, un, ap, da)
  <2>1. n \in graph.node \union OwnNodes(tx) /\ n \in Node
    BY <1>4 DEF RowsOK
  <2>2. Resolved(tx, u, n) /\ View(graph, u) = View(graph, tx)
    BY <1>1, <1>2, <1>5, <2>1, FoundKeeps
  <2>3. Grows(View(graph, tx), View(graph, u))
    BY <2>2 DEF Grows, SameEnds
  <2>4. QED
    BY <1>3, <2>1, <2>2, <2>3
<1>6. ASSUME NEW n \in Node \ View(graph, tx).node, NEW e \in Entity, NEW u,
             u = [tx EXCEPT !.ids = Append(@, n), !.due = TRUE, !.nodes[n] = e]
      PROVE  Carries(graph, u, un, ap, da)
  <2>1. Resolved(tx, u, n) /\ WithNode(View(graph, tx), n, e, View(graph, u))
    BY <1>1, <1>2, <1>6, InsertedKeeps
  <2>2. Grows(View(graph, tx), View(graph, u))
    BY <2>1 DEF WithNode, Grows, SameEnds
  <2>3. QED
    BY <1>3, <2>1, <2>2
<1>7. QED
  BY <1>5, <1>6, UpsertIs DEF Upserted

\* The mention that was due is said.
LEMMA SaidDue ==
  ASSUME NEW t, NEW u, Len(t.ids) \in Nat, t.due, u.ids = t.ids, u.doc = t.doc, ~u.due
  PROVE  Said(u) \subseteq Said(t) \union {<<t.ids[Len(t.ids)], t.doc>>}
BY DEF Said

\* A mention of a node is evidence of it.
LEMMA MentionHeard ==
  ASSUME NEW g, NEW v, NEW m \in MentionId, NEW n \in Node, NEW d,
         v.mention[m] = [node |-> n, doc |-> d], v.mention[m] # None, NEW un
  PROVE  MentionsHold(g, v, un, {<<n, d>>})
<1>1. HeardOf(g, v, n, d)
  BY DEF HeardOf
<1>2. QED
  BY <1>1 DEF MentionsHold

\* The mention of the last entity.
LEMMA MentionCarries ==
  ASSUME World(graph, tx), RecordMention,
         NEW un, Carries(graph, tx, un, AppliedMerges, data)
  PROVE  Carries(graph, tx', un, AppliedMerges, data)
<1>. DEFINE n == tx.ids[Len(tx.ids)]
            row == [node |-> n, doc |-> tx.doc]
<1>1. tx # None /\ tx.due
  BY DEF RecordMention
<1>2. TxOK(graph, tx) /\ Tables(graph) /\ tx \in Transaction
  BY <1>1 DEF World, TxOK
<1>3. Len(tx.ids) \in Nat /\ n \in Node
  <2>1. tx.ids \in Seq(Node) /\ Len(tx.ids) > 0
    BY <1>1, <1>2, TxColumns DEF TxOK
  <2>2. QED
    BY <2>1
<1>4. row \in MentionRow /\ row # None
  BY <1>2, <1>3, TxColumns, NoneAssumption DEF MentionRow
<1>5. ASSUME NEW u, NEW w, NEW m \in MentionId, w.mention[m] = row, Grows(view, w), w = View(graph, u),
             OwnRows(graph, u, AppliedMerges, data), u.ids = tx.ids, u.doc = tx.doc, ~u.due,
             u.of = tx.of, u.links = tx.links
      PROVE  Carries(graph, u, un, AppliedMerges, data)
  <2>1. Said(u) \subseteq Said(tx) \union {<<n, tx.doc>>}
    BY <1>1, <1>3, <1>5, SaidDue
  <2>2. MentionsHold(graph, w, un, Said(tx)) /\ FactsHold(graph, w, un, SaidFacts(tx))
    BY <1>5, HoldsOn DEF Carries, view
  <2>3. MentionsHold(graph, w, un, {<<n, tx.doc>>})
    <3>. HIDE DEF n
    <3>1. QED
      BY <1>3, <1>4, <1>5, MentionHeard
  <2>4. MentionsHold(graph, w, un, Said(u))
    <3>. HIDE DEF n
    <3>1. QED
      BY <2>1, <2>2, <2>3 DEF MentionsHold
  <2>5. SaidFacts(u) = SaidFacts(tx)
    BY <1>5 DEF SaidFacts
  <2>6. QED
    BY <1>5, <2>2, <2>4, <2>5 DEF Carries
<1>6. CASE Mentioned(n, tx.doc)
  <2>1. tx' = [tx EXCEPT !.due = FALSE]
    BY <1>6 DEF RecordMention
  <2>2. PICK m \in MentionId : view.mention[m] = row
    BY <1>6 DEF Mentioned
  <2>3. ASSUME NEW u, u = tx' PROVE Carries(graph, u, un, AppliedMerges, data)
    <3>1. u = [tx EXCEPT !.due = FALSE]
      BY <2>1, <2>3
    <3>2. /\ u.ids = tx.ids /\ u.doc = tx.doc /\ u.of = tx.of /\ u.links = tx.links
          /\ ~u.due /\ u.mentions = tx.mentions /\ u.edges = tx.edges
          /\ View(graph, u) = View(graph, tx)
      BY <1>1, <1>2, <3>1, NoMentionKeeps
    <3>3. OwnRows(graph, u, AppliedMerges, data)
      BY <3>2 DEF OwnRows, Carries
    <3>4. Grows(view, View(graph, u)) /\ View(graph, u).mention[m] = row
      BY <2>2, <3>2 DEF Grows, SameEnds, view
    <3>. HIDE DEF n, row
    <3>5. QED
      BY <1>5, <3>2, <3>3, <3>4
  <2>4. QED
    BY <2>3
<1>7. CASE ~Mentioned(n, tx.doc)
  <2>1. PICK m : m \in FreeMentions /\ tx' = [tx EXCEPT !.due = FALSE, !.mentions[m] = row]
    BY <1>7 DEF RecordMention
  <2>2. m \in MentionId /\ m \notin KeptMentions /\ view.mention[m] = None
    BY <2>1 DEF FreeMentions
  <2>3. ASSUME NEW c \in AppliedMerges PROVE m \notin data[c].mentions
    BY <2>2 DEF KeptMentions
  <2>4. graph.mention[m] = None
    <3>1. ASSUME NEW v, v = View(graph, tx), v.mention[m] = None PROVE graph.mention[m] = None
      BY <1>2, <2>2, <3>1, ViewColumns
    <3>2. QED
      BY <2>2, <3>1 DEF view
  <2>. HIDE DEF n
  <2>5. ASSUME NEW r, r = row, NEW u, u = tx' PROVE Carries(graph, u, un, AppliedMerges, data)
    <3>1. u = [tx EXCEPT !.due = FALSE, !.mentions[m] = r]
      BY <2>1, <2>5
    <3>2. r = [node |-> n, doc |-> tx.doc]
      BY <2>5
    <3>3. r # None
      BY <1>4, <2>5
    <3>. HIDE DEF row
    <3>4. /\ u.ids = tx.ids /\ u.doc = tx.doc /\ u.of = tx.of /\ u.links = tx.links
          /\ ~u.due /\ AddsMention(tx, u, m, r)
          /\ WithMention(view, m, r, View(graph, u))
      <4>1. n \in Node /\ m \in MentionId
        BY <1>3, <2>2
      <4>2. TxOK(graph, tx) /\ Tables(graph) /\ tx.due
        BY <1>1, <1>2
      <4>3. TxOK(graph, u) /\ WithMention(View(graph, tx), m, r, View(graph, u))
        BY <3>1, <3>2, <4>1, <4>2, MentionKeeps
      <4>4. /\ u.ids = tx.ids /\ u.doc = tx.doc /\ u.of = tx.of /\ u.links = tx.links /\ ~u.due
            /\ AddsMention(tx, u, m, r)
        BY <1>2, <3>1, <4>1 DEF Transaction, AddsMention
      <4>5. QED
        BY <4>3, <4>4 DEF view
    <3>5. OwnRows(graph, u, AppliedMerges, data)
      BY <2>3, <2>4, <3>4 DEF OwnRows, Carries, AddsMention
    <3>6. Grows(view, View(graph, u)) /\ View(graph, u).mention[m] = row
      BY <2>2, <2>5, <3>4 DEF Grows, SameEnds, WithMention
    <3>7. QED
      BY <1>5, <2>2, <3>4, <3>5, <3>6
  <2>6. QED
    BY <2>5
<1>8. QED
  BY <1>6, <1>7

\* An edge is a fact about its ends.
LEMMA EdgeJoined ==
  ASSUME NEW g, NEW v, NEW e \in EdgeId, NEW r \in EdgeRow, v.edge[e] = r, NEW un
  PROVE  FactsHold(g, v, un, {<<r.source, r.target>>})
<1>1. r.source \in Node /\ r.target \in Node
  BY DEF EdgeRow
<1>2. Joined(g, v, r.source, r.target)
  BY NoneAssumption DEF Joined, Joins
<1>3. QED
  BY <1>1, <1>2 DEF FactsHold

\* One edge further, one fact more is said.
LEMMA SaidEdge ==
  ASSUME NEW t, NEW u, t.links \in Nat, u.ids = t.ids, u.of = t.of, u.links = t.links + 1,
         NEW x, x = t.ids[t.of.edges[t.links + 1][1]], NEW y, y = t.ids[t.of.edges[t.links + 1][2]]
  PROVE  SaidFacts(u) \subseteq SaidFacts(t) \union {<<x, y>>}
<1>1. ASSUME NEW k \in 1 .. u.links
      PROVE  <<u.ids[u.of.edges[k][1]], u.ids[u.of.edges[k][2]]>> \in SaidFacts(t) \union {<<x, y>>}
  <2>1. k \in 1 .. t.links \/ k = t.links + 1
    BY <1>1
  <2>2. CASE k \in 1 .. t.links
    BY <2>2 DEF SaidFacts
  <2>3. CASE k = t.links + 1
    BY <2>3
  <2>4. QED
    BY <2>1, <2>2, <2>3
<1>2. QED
  BY <1>1 DEF SaidFacts

\* The edge of two nodes of the document.
LEMMA EdgeCarries ==
  ASSUME World(graph, tx), ResolveEdge,
         NEW un, Carries(graph, tx, un, AppliedMerges, data)
  PROVE  Carries(graph, tx', un, AppliedMerges, data)
<1>1. /\ tx # None /\ ~tx.due
      /\ Len(tx.ids) = Len(tx.of.nodes) /\ tx.links < Len(tx.of.edges)
  BY DEF ResolveEdge
<1>2. TxOK(graph, tx) /\ Tables(graph) /\ tx \in Transaction /\ tx.links \in Nat
  BY <1>1, TxColumns DEF World, TxOK
<1>3. RowsOK(view) /\ view = View(graph, tx)
  BY WorldView DEF view
<1>4. PICK e \in EdgeId, row \in EdgeRow :
              /\ row.source = NextSource /\ row.target = NextTarget
              /\ tx' = [tx EXCEPT !.links = @ + 1, !.edges[e] = row]
              /\ \/ e \in FreeEdges /\ SameFacts(NextSource, NextTarget) = {}
                 \/ e \in SameFacts(NextSource, NextTarget)
  BY EdgeIs
<1>5. ASSUME NEW u, u = tx' PROVE Carries(graph, u, un, AppliedMerges, data)
  <2>1. u = [tx EXCEPT !.links = @ + 1, !.edges[e] = row]
    BY <1>4, <1>5
  <2>2. TxOK(graph, u) /\ WithEdge(View(graph, tx), e, row, View(graph, u))
    BY <1>1, <1>2, <2>1, EdgeKeeps
  <2>3. /\ u.ids = tx.ids /\ u.doc = tx.doc /\ u.of = tx.of /\ u.links = tx.links + 1
        /\ u.due = tx.due /\ AddsEdge(tx, u, e, row) /\ u.mentions = tx.mentions
    BY <1>2, <2>1 DEF Transaction, AddsEdge
  <2>4. \A k \in EdgeId : view.edge[k] = IF tx.edges[k] # None THEN tx.edges[k] ELSE graph.edge[k]
    BY <1>2, <1>3, ViewColumns
  <2>5. \/ view.edge[e] = None /\ e \notin KeptEdges
        \/ view.edge[e] # None /\ SameEnds(row, view.edge[e])
    BY <1>4 DEF FreeEdges, SameFacts, SameFact, SameEnds
  <2>6. e \notin KeptEdges => \A c \in AppliedMerges : e \notin DOMAIN data[c].repointed
    BY DEF KeptEdges
  <2>7. OwnRows(graph, u, AppliedMerges, data)
    <3>1. \A m \in MentionId : u.mentions[m] # None =>
            graph.mention[m] = None /\ \A c \in AppliedMerges : m \notin data[c].mentions
      BY <2>3 DEF Carries, OwnRows
    <3>2. \A k \in EdgeId : tx.edges[k] # None =>
            \/ graph.edge[k] = None /\ \A c \in AppliedMerges : k \notin DOMAIN data[c].repointed
            \/ graph.edge[k] # None /\ SameEnds(graph.edge[k], tx.edges[k])
      BY DEF Carries, OwnRows
    <3>3. \A k \in EdgeId : u.edges[k] = IF k = e THEN row ELSE tx.edges[k]
      BY <2>3 DEF AddsEdge
    <3>4. \/ graph.edge[e] = None /\ \A c \in AppliedMerges : e \notin DOMAIN data[c].repointed
          \/ graph.edge[e] # None /\ SameEnds(graph.edge[e], row)
      <4>1. CASE tx.edges[e] = None
        BY <2>4, <2>5, <2>6, <4>1 DEF SameEnds
      <4>2. CASE tx.edges[e] # None
        <5>1. view.edge[e] = tx.edges[e] /\ SameEnds(row, tx.edges[e])
          BY <2>4, <2>5, <4>2
        <5>2. QED
          BY <3>2, <4>2, <5>1 DEF SameEnds
      <4>3. QED
        BY <4>1, <4>2
    <3>5. \A k \in EdgeId : u.edges[k] # None =>
            \/ graph.edge[k] = None /\ \A c \in AppliedMerges : k \notin DOMAIN data[c].repointed
            \/ graph.edge[k] # None /\ SameEnds(graph.edge[k], u.edges[k])
      BY <3>2, <3>3, <3>4
    <3>6. QED
      BY <3>1, <3>5 DEF OwnRows
  <2>8. Grows(View(graph, tx), View(graph, u))
    BY <1>3, <2>2, <2>5, NoneAssumption DEF WithEdge, Grows, SameEnds
  <2>9. /\ MentionsHold(graph, View(graph, u), un, Said(tx))
        /\ FactsHold(graph, View(graph, u), un, SaidFacts(tx))
    BY <2>8, HoldsOn DEF Carries
  <2>10. FactsHold(graph, View(graph, u), un, {<<row.source, row.target>>})
    BY <2>2, EdgeJoined DEF WithEdge
  <2>11. SaidFacts(u) \subseteq SaidFacts(tx) \union {<<row.source, row.target>>}
    BY <1>2, <1>4, <2>3, SaidEdge DEF NextSource, NextTarget
  <2>12. FactsHold(graph, View(graph, u), un, SaidFacts(u))
    BY <2>9, <2>10, <2>11 DEF FactsHold
  <2>13. Said(u) = Said(tx)
    BY <2>3 DEF Said
  <2>14. QED
    BY <2>7, <2>9, <2>12, <2>13 DEF Carries
<1>6. QED
  BY <1>5

\* All that a transaction says is in what it commits.
LEMMA CommitHistory ==
  ASSUME TablesInv, HistoryInv, Commit
  PROVE  HistoryInv'
<1>1. /\ tx # None /\ ~tx.due /\ Len(tx.ids) = Len(tx.of.nodes) /\ tx.links = Len(tx.of.edges)
      /\ graph' = view /\ tx' = None /\ UNCHANGED <<status, data, undone>>
      /\ seen' = seen \union {<<tx.ids[k], tx.doc>> : k \in DOMAIN tx.ids}
      /\ told' = told \union {<<tx.ids[l[1]], tx.ids[l[2]]>> :
                                l \in {tx.of.edges[k] : k \in DOMAIN tx.of.edges}}
  BY DEF Commit
<1>2. TxOK(graph, tx) /\ Tables(graph) /\ tx \in Transaction
  BY <1>1 DEF TablesInv, World, TxOK
<1>3. Carries(graph, tx, undone, AppliedMerges, data)
  BY <1>1 DEF HistoryInv
<1>4. /\ tx.ids \in Seq(Node)
      /\ tx.of.edges \in Seq((1 .. Len(tx.of.nodes)) \X (1 .. Len(tx.of.nodes)))
  BY <1>2, TxColumns, ExtractionAssumption
<1>5. DOMAIN tx.ids = 1 .. Len(tx.ids) /\ DOMAIN tx.of.edges = 1 .. tx.links
  BY <1>1, <1>4
<1>6. seen' = seen \union Said(tx)
  BY <1>1, <1>5 DEF Said
<1>7. told' = told \union SaidFacts(tx)
  BY <1>1, <1>5 DEF SaidFacts
<1>8. ASSUME NEW v, v = View(graph, tx)
      PROVE  /\ MovesInv(v, undone, AppliedMerges, data)
             /\ MentionsHold(v, v, undone, seen \union Said(tx))
             /\ FactsHold(v, v, undone, told \union SaidFacts(tx))
  <2>1. /\ v.canon = graph.canon
        /\ \A m \in MentionId :
             v.mention[m] = IF tx.mentions[m] # None THEN tx.mentions[m] ELSE graph.mention[m]
        /\ \A e \in EdgeId : v.edge[e] = IF tx.edges[e] # None THEN tx.edges[e] ELSE graph.edge[e]
    BY <1>2, <1>8, ViewColumns
  <2>2. Grows(graph, v) /\ OwnRows(graph, tx, AppliedMerges, data)
    BY <1>2, <1>3, <1>8, OwnGrows DEF Carries
  <2>3. /\ MentionsHold(graph, v, undone, seen \union Said(tx))
        /\ FactsHold(graph, v, undone, told \union SaidFacts(tx))
    BY <1>3, <1>8, <2>2, HoldsOn, HoldsMore DEF Carries, HistoryInv
  <2>4. /\ MentionsHold(v, v, undone, seen \union Said(tx))
        /\ FactsHold(v, v, undone, told \union SaidFacts(tx))
    BY <2>1, <2>3, HoldsIn
  <2>5. \A d, n : At(v, undone, d, n) <=> At(graph, undone, d, n)
    BY <2>1, RootSame DEF At
  <2>6. ASSUME NEW c \in AppliedMerges PROVE MovesHold(v, undone, data[c])
    <3>1. MovesHold(graph, undone, data[c])
      BY DEF HistoryInv, MovesInv
    <3>2. Kept(data[c])
      BY SnapshotKept DEF TablesInv
    <3>3. ASSUME NEW m \in data[c].mentions, v.mention[m] # None
          PROVE  At(v, undone, data[c], v.mention[m].node)
      <4>1. m \in MentionId
        BY <3>2 DEF Kept
      <4>2. tx.mentions[m] = None
        BY <2>2, <4>1 DEF OwnRows
      <4>3. QED
        BY <2>1, <2>5, <3>1, <3>3, <4>1, <4>2 DEF MovesHold
    <3>4. ASSUME NEW e \in DOMAIN data[c].repointed, v.edge[e] # None
          PROVE  At(v, undone, data[c], v.edge[e].source) \/ At(v, undone, data[c], v.edge[e].target)
      <4>1. e \in EdgeId
        BY <3>2 DEF Kept
      <4>2. graph.edge[e] # None /\ SameEnds(graph.edge[e], v.edge[e])
        BY <2>1, <2>2, <3>4, <4>1 DEF OwnRows, SameEnds
      <4>3. At(graph, undone, data[c], graph.edge[e].source) \/ At(graph, undone, data[c], graph.edge[e].target)
        BY <3>1, <4>2 DEF MovesHold
      <4>4. QED
        BY <2>5, <4>2, <4>3 DEF SameEnds
    <3>5. QED
      BY <3>3, <3>4 DEF MovesHold
  <2>7. QED
    BY <2>4, <2>6 DEF MovesInv
<1>9. QED
  BY <1>1, <1>6, <1>7, <1>8 DEF HistoryInv, view, AppliedMerges

\* h leaves the rows alone that t has written over g.
Untouched(g, h, t) ==
  /\ \A e \in EdgeId : t.edges[e] # None => h.edge[e] = g.edge[e]
  /\ \A m \in MentionId : t.mentions[m] # None => h.mention[m] = g.mention[m]

\* What a transaction sees of the tables before and after.
LEMMA BeneathHolds ==
  ASSUME NEW g, Tables(g), NEW h, Tables(h), NEW t \in Transaction, Untouched(g, h, t),
         NEW ap, NEW da, OwnRows(g, t, ap, da)
  PROVE  Beneath(g, h, View(g, t), View(h, t))
<1>1. ASSUME NEW v, v = View(g, t), NEW w, w = View(h, t) PROVE Beneath(g, h, v, w)
  <2>1. /\ \A m \in MentionId :
             v.mention[m] = IF t.mentions[m] # None THEN t.mentions[m] ELSE g.mention[m]
        /\ \A e \in EdgeId : v.edge[e] = IF t.edges[e] # None THEN t.edges[e] ELSE g.edge[e]
    BY <1>1, ViewColumns
  <2>2. /\ \A m \in MentionId :
             w.mention[m] = IF t.mentions[m] # None THEN t.mentions[m] ELSE h.mention[m]
        /\ \A e \in EdgeId : w.edge[e] = IF t.edges[e] # None THEN t.edges[e] ELSE h.edge[e]
    BY <1>1, ViewColumns
  <2>3. \A m \in MentionId :
          \/ v.mention[m] = g.mention[m] /\ w.mention[m] = h.mention[m]
          \/ v.mention[m] = w.mention[m] /\ g.mention[m] = None
    BY <2>1, <2>2 DEF OwnRows
  <2>4. ASSUME NEW e \in EdgeId, t.edges[e] # None
        PROVE  /\ v.edge[e] = w.edge[e] /\ v.edge[e] # None /\ g.edge[e] = h.edge[e]
               /\ (g.edge[e] # None => SameEnds(g.edge[e], v.edge[e]))
    BY <2>1, <2>2, <2>4 DEF OwnRows, Untouched
  <2>5. ASSUME NEW e \in EdgeId, t.edges[e] = None
        PROVE  v.edge[e] = g.edge[e] /\ w.edge[e] = h.edge[e]
    BY <2>1, <2>2, <2>5
  <2>6. QED
    BY <2>3, <2>4, <2>5 DEF Beneath
<1>2. QED
  BY <1>1

\* Without a transaction what is seen are the tables.
LEMMA BeneathNone ==
  ASSUME NEW g, NEW h
  PROVE  Beneath(g, h, g, h)
BY DEF Beneath

\* Own rows stay a transaction's own, with applied merges the same or fewer, or one
\* more that moved rows that were there.
LEMMA OwnStay ==
  ASSUME NEW g, NEW h, NEW t, Untouched(g, h, t), NEW ap, NEW da, OwnRows(g, t, ap, da),
         NEW aq, NEW db,
         \A c \in aq : \/ c \in ap /\ db[c] = da[c]
                       \/ /\ \A m \in db[c].mentions : g.mention[m] # None
                          /\ \A e \in DOMAIN db[c].repointed : g.edge[e] # None
  PROVE  OwnRows(h, t, aq, db)
<1>1. \A m \in MentionId : t.mentions[m] # None =>
        h.mention[m] = None /\ \A c \in aq : m \notin db[c].mentions
  BY DEF OwnRows, Untouched
<1>2. \A e \in EdgeId : t.edges[e] # None =>
        \/ h.edge[e] = None /\ \A c \in aq : e \notin DOMAIN db[c].repointed
        \/ h.edge[e] # None /\ SameEnds(h.edge[e], t.edges[e])
  BY DEF OwnRows, Untouched
<1>3. QED
  BY <1>1, <1>2 DEF OwnRows

\* The nodes parted, when c is merged: who is merged into one is one.
PartedBy(c, un) == IF c.loser \in un THEN un \union {c.winner} ELSE un

\* Through a merge all that was said holds ...
LEMMA MergeHolds ==
  ASSUME NEW c, NEW g, NEW h, NEW v, NEW w, Merging(c, g, h, v, w), NEW un, NEW P
  PROVE  /\ MentionsHold(g, v, un, P) => MentionsHold(h, w, PartedBy(c, un), P)
         /\ FactsHold(g, v, un, P) => FactsHold(h, w, PartedBy(c, un), P)
<1>1. ASSUME NEW n \in Node, RootOf(h, n) \notin PartedBy(c, un) PROVE RootOf(g, n) \notin un
  <2>1. RootOf(h, n) = IF RootOf(g, n) = c.loser THEN c.winner ELSE RootOf(g, n)
    BY MergingRoots
  <2>2. QED
    BY <1>1, <2>1 DEF PartedBy
<1>2. ASSUME NEW n \in Node, NEW k \in Node, RootOf(h, n) # RootOf(h, k)
      PROVE  RootOf(g, n) # RootOf(g, k)
  BY <1>2, MergingRoots
<1>3. MentionsHold(g, v, un, P) => MentionsHold(h, w, PartedBy(c, un), P)
  BY <1>1, MergeHeard DEF MentionsHold
<1>4. FactsHold(g, v, un, P) => FactsHold(h, w, PartedBy(c, un), P)
  BY <1>1, <1>2, MergeJoined DEF FactsHold
<1>5. QED
  BY <1>3, <1>4

\* ... through its rollback too, ...
LEMMA UndoHolds ==
  ASSUME NEW d, NEW g, NEW u, NEW v, NEW w, Undoing(d, g, u, v, w), NEW un, MovesHold(g, un, d), NEW P
  PROVE  /\ MentionsHold(g, v, un, P) => MentionsHold(u, w, un \union Parted(d, g), P)
         /\ FactsHold(g, v, un, P) => FactsHold(u, w, un \union Parted(d, g), P)
<1>1. ASSUME NEW n \in Node, RootOf(u, n) \notin un \union Parted(d, g)
      PROVE  RootOf(g, n) \notin un /\ RootOf(g, n) = RootOf(u, n)
  BY <1>1, UndoingKeeps
<1>2. MentionsHold(g, v, un, P) => MentionsHold(u, w, un \union Parted(d, g), P)
  BY <1>1, UndoHeard DEF MentionsHold
<1>3. FactsHold(g, v, un, P) => FactsHold(u, w, un \union Parted(d, g), P)
  <2>1. SUFFICES ASSUME FactsHold(g, v, un, P), NEW p \in P,
                        RootOf(u, p[1]) # RootOf(u, p[2]),
                        RootOf(u, p[1]) \notin un \union Parted(d, g),
                        RootOf(u, p[2]) \notin un \union Parted(d, g)
                 PROVE  Joined(u, w, p[1], p[2])
    BY DEF FactsHold
  <2>2. p[1] \in Node /\ p[2] \in Node
    BY <2>1 DEF FactsHold
  <2>3. Joined(g, v, p[1], p[2])
    BY <1>1, <2>1, <2>2 DEF FactsHold
  <2>4. QED
    BY <2>1, <2>2, <2>3, UndoJoined
<1>4. QED
  BY <1>2, <1>3

\* What a row speaks of, a merge leaves the same node as it makes it.
LEMMA MergeEnds ==
  ASSUME NEW c, NEW g, NEW h, Merging(c, g, h, g, h)
  PROVE  /\ \A m \in MentionId : h.mention[m] # None =>
              /\ g.mention[m] # None /\ g.mention[m].node \in Node
              /\ RootOf(h, h.mention[m].node) = RootOf(h, g.mention[m].node)
         /\ \A e \in EdgeId : h.edge[e] # None =>
              /\ g.edge[e] # None /\ g.edge[e].source \in Node /\ g.edge[e].target \in Node
              /\ RootOf(h, h.edge[e].source) = RootOf(h, g.edge[e].source)
              /\ RootOf(h, h.edge[e].target) = RootOf(h, g.edge[e].target)
<1>1. /\ Tables(g) /\ MergeValid(c, g) /\ RowsOK(g) /\ TwoNodes(c, g)
      /\ h.edge = MergeEdges(c, g, g) /\ h.mention = MergeMentions(c, g, g)
  <2>1. Tables(g) /\ MergeValid(c, g) /\ h = MergeWrites(c, g, g)
    BY DEF Merging
  <2>2. MergedColumns(c, g, h)
    BY <2>1, ApproveTables
  <2>3. RowsOK(g) /\ TwoNodes(c, g)
    BY <2>1, ValidTwoNodes DEF Tables
  <2>4. QED
    BY <2>1, <2>2, <2>3 DEF MergedColumns
<1>2. c.loser \in Node /\ c.winner \in Node /\ RootOf(h, c.loser) = RootOf(h, c.winner)
  BY MergingRoots
<1>3. ASSUME NEW m \in MentionId, h.mention[m] # None
      PROVE  /\ g.mention[m] # None /\ g.mention[m].node \in Node
             /\ RootOf(h, h.mention[m].node) = RootOf(h, g.mention[m].node)
  <2>1. m \notin DeletedMentions(c, g)
    BY <1>1, <1>3, MergedMention
  <2>2. CASE m \in RepointedMentions(c, g)
    <3>1. /\ g.mention[m] \in MentionRow /\ g.mention[m].node = c.loser
          /\ h.mention[m] = [g.mention[m] EXCEPT !.node = c.winner]
      BY <1>1, <2>2, MergedMention
    <3>2. h.mention[m].node = c.winner
      BY <3>1 DEF MentionRow
    <3>3. QED
      BY <1>2, <3>1, <3>2, NoneAssumption
  <2>3. CASE m \notin MentionsOf(g, c.loser)
    <3>1. h.mention[m] = g.mention[m]
      BY <1>1, <2>3, MergedMention
    <3>2. g.mention[m] \in MentionRow
      BY <1>1, <1>3, <3>1 DEF RowsOK
    <3>3. QED
      BY <1>3, <3>1, <3>2 DEF MentionRow
  <2>4. QED
    BY <2>1, <2>2, <2>3 DEF RepointedMentions
<1>4. ASSUME NEW e \in EdgeId, h.edge[e] # None
      PROVE  /\ g.edge[e] # None /\ g.edge[e].source \in Node /\ g.edge[e].target \in Node
             /\ RootOf(h, h.edge[e].source) = RootOf(h, g.edge[e].source)
             /\ RootOf(h, h.edge[e].target) = RootOf(h, g.edge[e].target)
  <2>1. e \notin DeletedEdges(c, g)
    BY <1>1, <1>4, MergedEdge
  <2>2. CASE e \in RepointedEdges(c, g)
    <3>1. g.edge[e] \in EdgeRow /\ h.edge[e] = Moved(g.edge[e], c)
      BY <1>1, <2>2, MergedEdge, MergeSets
    <3>2. /\ h.edge[e].source = IF g.edge[e].source = c.loser THEN c.winner ELSE g.edge[e].source
          /\ h.edge[e].target = IF g.edge[e].target = c.loser THEN c.winner ELSE g.edge[e].target
      BY <3>1 DEF Moved, EdgeRow
    <3>3. g.edge[e] # None /\ g.edge[e].source \in Node /\ g.edge[e].target \in Node
      BY <3>1, NoneAssumption DEF EdgeRow
    <3>4. QED
      BY <1>2, <3>2, <3>3
  <2>3. CASE e \in FoldTargets(c, g)
    <3>1. g.edge[e] \in EdgeRow /\ h.edge[e] = [g.edge[e] EXCEPT !.weight = FoldedWeight(e, c, g)]
      BY <1>1, <2>3, MergedEdge, MergeSets
    <3>2. h.edge[e].source = g.edge[e].source /\ h.edge[e].target = g.edge[e].target
      BY <3>1 DEF EdgeRow
    <3>3. QED
      BY <3>1, <3>2, NoneAssumption DEF EdgeRow
  <2>4. CASE e \notin EdgesAt(g, c.loser) \union FoldTargets(c, g)
    <3>1. h.edge[e] = g.edge[e]
      BY <1>1, <2>4, MergedEdge
    <3>2. g.edge[e] \in EdgeRow
      BY <1>1, <1>4, <3>1 DEF RowsOK
    <3>3. QED
      BY <1>4, <3>1, <3>2 DEF EdgeRow
  <2>5. QED
    BY <2>1, <2>2, <2>3, <2>4 DEF RepointedEdges
<1>5. QED
  BY <1>3, <1>4

\* What an earlier merge has moved stays with its winner through a later one ...
LEMMA MergeMoves ==
  ASSUME NEW c, NEW g, NEW h, Merging(c, g, h, g, h), NEW un,
         NEW d, Kept(d), MovesHold(g, un, d)
  PROVE  MovesHold(h, PartedBy(c, un), d)
<1>1. ASSUME NEW x \in Node, At(g, un, d, x) PROVE At(h, PartedBy(c, un), d, x)
  <2>1. /\ RootOf(h, x) = IF RootOf(g, x) = c.loser THEN c.winner ELSE RootOf(g, x)
        /\ RootOf(h, d.winner) = IF RootOf(g, d.winner) = c.loser THEN c.winner ELSE RootOf(g, d.winner)
    BY MergingRoots DEF Kept
  <2>2. QED
    BY <1>1, <2>1 DEF At, PartedBy
<1>2. ASSUME NEW m \in d.mentions, h.mention[m] # None
      PROVE  At(h, PartedBy(c, un), d, h.mention[m].node)
  <2>1. m \in MentionId
    BY DEF Kept
  <2>2. /\ g.mention[m] # None /\ g.mention[m].node \in Node
        /\ RootOf(h, h.mention[m].node) = RootOf(h, g.mention[m].node)
    BY <1>2, <2>1, MergeEnds
  <2>3. At(h, PartedBy(c, un), d, g.mention[m].node)
    BY <1>1, <2>2 DEF MovesHold
  <2>4. QED
    BY <2>2, <2>3 DEF At
<1>3. ASSUME NEW e \in DOMAIN d.repointed, h.edge[e] # None
      PROVE  \/ At(h, PartedBy(c, un), d, h.edge[e].source)
             \/ At(h, PartedBy(c, un), d, h.edge[e].target)
  <2>1. e \in EdgeId
    BY DEF Kept
  <2>2. /\ g.edge[e] # None /\ g.edge[e].source \in Node /\ g.edge[e].target \in Node
        /\ RootOf(h, h.edge[e].source) = RootOf(h, g.edge[e].source)
        /\ RootOf(h, h.edge[e].target) = RootOf(h, g.edge[e].target)
    BY <1>3, <2>1, MergeEnds
  <2>3. \/ At(h, PartedBy(c, un), d, g.edge[e].source)
        \/ At(h, PartedBy(c, un), d, g.edge[e].target)
    BY <1>1, <2>2 DEF MovesHold
  <2>4. QED
    BY <2>2, <2>3 DEF At
<1>4. QED
  BY <1>2, <1>3 DEF MovesHold

\* ... and what it moves itself is there.
LEMMA MergeMovesOwn ==
  ASSUME NEW c, NEW g, NEW h, Merging(c, g, h, g, h), NEW un, NEW d, d = MergeSnapshot(c, g)
  PROVE  /\ MovesHold(h, un, d)
         /\ \A m \in d.mentions : g.mention[m] # None
         /\ \A e \in DOMAIN d.repointed : g.edge[e] # None
<1>1. /\ d.winner = c.winner /\ d.mentions = RepointedMentions(c, g)
      /\ DOMAIN d.repointed = RepointedEdges(c, g)
  BY DEF MergeSnapshot
<1>2. c.loser \in Node /\ c.winner \in Node /\ RootOf(h, c.loser) = RootOf(h, c.winner)
  BY MergingRoots
<1>3. \A m \in d.mentions : m \in MentionId /\ g.mention[m] # None /\ g.mention[m].node = c.loser
  BY <1>1 DEF RepointedMentions, MentionsOf
<1>4. \A e \in DOMAIN d.repointed :
        e \in EdgeId /\ g.edge[e] # None /\ c.loser \in {g.edge[e].source, g.edge[e].target}
  BY <1>1 DEF RepointedEdges, EdgesAt
<1>5. ASSUME NEW m \in d.mentions, h.mention[m] # None PROVE At(h, un, d, h.mention[m].node)
  BY <1>1, <1>2, <1>3, <1>5, MergeEnds DEF At
<1>6. ASSUME NEW e \in DOMAIN d.repointed, h.edge[e] # None
      PROVE  At(h, un, d, h.edge[e].source) \/ At(h, un, d, h.edge[e].target)
  <2>1. /\ RootOf(h, h.edge[e].source) = RootOf(h, g.edge[e].source)
        /\ RootOf(h, h.edge[e].target) = RootOf(h, g.edge[e].target)
    BY <1>4, <1>6, MergeEnds
  <2>2. QED
    BY <1>1, <1>2, <1>4, <2>1 DEF At
<1>7. QED
  BY <1>3, <1>4, <1>5, <1>6 DEF MovesHold

\* A rollback leaves with its winner what another merge has moved, or parts the two.
LEMMA UndoMoves ==
  ASSUME NEW d, NEW g, NEW u, Undoing(d, g, u, g, u), NEW un, NEW q, Kept(q), MovesHold(g, un, q)
  PROVE  MovesHold(u, un \union Parted(d, g), q)
<1>. DEFINE ux == un \union Parted(d, g)
<1>1. ASSUME NEW x \in Node, At(g, un, q, x) PROVE At(u, ux, q, x)
  <2>1. /\ RootOf(u, x) = RootOf(g, x) \/ (RootOf(u, x) = d.loser /\ RootOf(g, x) \in Parted(d, g))
        /\ \/ RootOf(u, q.winner) = RootOf(g, q.winner)
           \/ RootOf(u, q.winner) = d.loser /\ RootOf(g, q.winner) \in Parted(d, g)
        /\ d.loser \in Parted(d, g)
    BY UndoingRoots DEF Kept, Parted
  <2>2. QED
    BY <1>1, <2>1 DEF At
<1>2. At(u, ux, q, d.loser)
  <2>1. d.loser \in Node
    BY DEF Undoing, Kept
  <2>2. RootOf(u, d.loser) = d.loser
    BY <2>1, UndoingRoots
  <2>3. d.loser \in ux
    BY DEF Parted
  <2>. HIDE DEF ux
  <2>4. QED
    BY <2>2, <2>3 DEF At
<1>. HIDE DEF ux
<1>3. RowsOK(g) /\ Kept(d) /\ UndoneColumns(d, g, u) /\ MergeUndoRows(d, g, g)
  BY DEF Undoing, Tables
<1>4. ASSUME NEW m \in q.mentions, u.mention[m] # None PROVE At(u, ux, q, u.mention[m].node)
  <2>1. m \in MentionId
    BY DEF Kept
  <2>2. CASE m \in DOMAIN d.forgotten
    BY <1>2, <1>3, <2>1, <2>2 DEF UndoneColumns, Kept
  <2>3. CASE m \notin DOMAIN d.forgotten /\ m \in d.mentions /\ g.mention[m] # None
    <3>1. u.mention[m] = [g.mention[m] EXCEPT !.node = d.loser] /\ g.mention[m] \in MentionRow
      BY <1>3, <2>1, <2>3 DEF UndoneColumns, RowsOK
    <3>2. u.mention[m].node = d.loser
      BY <3>1 DEF MentionRow
    <3>3. QED
      BY <1>2, <3>2
  <2>4. CASE m \notin DOMAIN d.forgotten /\ ~(m \in d.mentions /\ g.mention[m] # None)
    <3>1. u.mention[m] = g.mention[m]
      BY <1>3, <2>1, <2>4 DEF UndoneColumns
    <3>2. g.mention[m].node \in Node
      BY <1>3, <1>4, <2>1, <3>1 DEF RowsOK, MentionRow
    <3>3. QED
      BY <1>1, <1>4, <3>1, <3>2 DEF MovesHold
  <2>5. QED
    BY <2>2, <2>3, <2>4
<1>5. ASSUME NEW e \in DOMAIN q.repointed, u.edge[e] # None
      PROVE  At(u, ux, q, u.edge[e].source) \/ At(u, ux, q, u.edge[e].target)
  <2>1. e \in EdgeId
    BY DEF Kept
  <2>2. CASE e \in DOMAIN d.deleted
    <3>1. u.edge[e] = d.deleted[e]
      BY <1>3, <2>1, <2>2 DEF UndoneColumns
    <3>2. d.loser \in {d.deleted[e].source, d.deleted[e].target}
      BY <1>3, <2>2 DEF Kept
    <3>3. QED
      BY <1>2, <3>1, <3>2
  <2>3. CASE e \notin DOMAIN d.deleted /\ e \in DOMAIN d.repointed /\ g.edge[e] # None
    <3>1. /\ u.edge[e] = [g.edge[e] EXCEPT !.source = d.repointed[e].source,
                                           !.target = d.repointed[e].target]
          /\ g.edge[e] \in EdgeRow
      BY <1>3, <2>1, <2>3 DEF UndoneColumns, RowsOK
    <3>2. u.edge[e].source = d.repointed[e].source /\ u.edge[e].target = d.repointed[e].target
      BY <3>1 DEF EdgeRow
    <3>3. QED
      BY <1>2, <1>3, <2>3, <3>2 DEF Kept
  <2>4. CASE e \notin DOMAIN d.deleted /\ g.edge[e] = None
    <3>1. u.edge[e] = g.edge[e]
      BY <1>3, <2>1, <2>4 DEF UndoneColumns
    <3>2. QED
      BY <1>5, <2>4, <3>1
  <2>5. CASE e \notin DOMAIN d.deleted /\ e \notin DOMAIN d.repointed /\ g.edge[e] # None
    <3>1. SameEnds(u.edge[e], g.edge[e])
      BY <2>1, <2>5, UndoneEdge
    <3>2. g.edge[e].source \in Node /\ g.edge[e].target \in Node
      BY <1>3, <2>1, <2>5 DEF RowsOK, EdgeRow
    <3>3. At(u, ux, q, g.edge[e].source) \/ At(u, ux, q, g.edge[e].target)
      BY <1>1, <2>5, <3>2 DEF MovesHold
    <3>4. QED
      BY <3>1, <3>3 DEF SameEnds
  <2>6. QED
    BY <2>2, <2>3, <2>4, <2>5
<1>6. MovesHold(u, ux, q)
  BY <1>4, <1>5 DEF MovesHold
<1>7. QED
  BY <1>6 DEF ux

\* A merge beneath the transaction.
LEMMA ApproveHistory ==
  ASSUME TablesInv, HistoryInv, NEW c \in Merge, Approve(c)
  PROVE  HistoryInv'
<1>1. /\ status[c] = "pending" /\ MergeValid(c, graph) /\ graph' = MergeWrites(c, graph, graph)
      /\ status' = [status EXCEPT ![c] = "applied"]
      /\ data' = [data EXCEPT ![c] = MergeSnapshot(c, graph)]
      /\ undone' = PartedBy(c, undone) /\ tx' = tx /\ seen' = seen /\ told' = told
      /\ tx # None => Untouched(graph, graph', tx)
  BY DEF Approve, NoWait, PartedBy, Untouched
<1>2. /\ Tables(graph) /\ RowsOK(graph) /\ DOMAIN data = Merge
      /\ status \in [Merge -> {"pending", "applied", "rolled_back"}]
      /\ \A k \in AppliedMerges : TakenBy(k, data[k])
  BY DEF TablesInv, World, Tables
<1>3. Tables(graph')
  BY <1>1, <1>2, ApproveTables
<1>4. Merging(c, graph, graph', graph, graph')
  BY <1>1, <1>2, BeneathNone DEF Merging
<1>5. \A k \in AppliedMerges' : \/ k \in AppliedMerges /\ data'[k] = data[k]
                                \/ k = c /\ data'[k] = MergeSnapshot(c, graph)
  BY <1>1, <1>2 DEF AppliedMerges
<1>6. ASSUME NEW d, d = MergeSnapshot(c, graph)
      PROVE  /\ MovesHold(graph', undone', d)
             /\ \A m \in d.mentions : graph.mention[m] # None
             /\ \A e \in DOMAIN d.repointed : graph.edge[e] # None
  BY <1>4, <1>6, MergeMovesOwn
<1>7. MovesInv(graph', undone', AppliedMerges', data')
  <2>1. ASSUME NEW k \in AppliedMerges' PROVE MovesHold(graph', undone', data'[k])
    <3>1. CASE k \in AppliedMerges /\ data'[k] = data[k]
      <4>1. Kept(data[k]) /\ MovesHold(graph, undone, data[k])
        BY <1>2, <3>1, SnapshotKept DEF HistoryInv, MovesInv
      <4>2. MovesHold(graph', PartedBy(c, undone), data[k])
        BY <1>4, <4>1, MergeMoves
      <4>3. QED
        BY <1>1, <3>1, <4>2
    <3>2. CASE k = c /\ data'[k] = MergeSnapshot(c, graph)
      BY <1>6, <3>2
    <3>3. QED
      BY <1>5, <3>1, <3>2
  <2>2. QED
    BY <2>1 DEF MovesInv
<1>8. MentionsHold(graph', graph', undone', seen') /\ FactsHold(graph', graph', undone', told')
  BY <1>1, <1>4, MergeHolds DEF HistoryInv
<1>9. ASSUME tx # None PROVE Carries(graph', tx, undone', AppliedMerges', data')
  <2>1. TxOK(graph, tx) /\ tx \in Transaction
    BY <1>9 DEF TablesInv, World, TxOK
  <2>2. Carries(graph, tx, undone, AppliedMerges, data) /\ Untouched(graph, graph', tx)
    BY <1>1, <1>9 DEF HistoryInv
  <2>3. Beneath(graph, graph', View(graph, tx), View(graph', tx))
    BY <1>2, <1>3, <2>1, <2>2, BeneathHolds DEF Carries
  <2>4. RowsOK(View(graph, tx))
    BY WorldView DEF TablesInv
  <2>5. Merging(c, graph, graph', View(graph, tx), View(graph', tx))
    BY <1>1, <1>2, <2>3, <2>4 DEF Merging
  <2>6. /\ MentionsHold(graph', View(graph', tx), PartedBy(c, undone), Said(tx))
        /\ FactsHold(graph', View(graph', tx), PartedBy(c, undone), SaidFacts(tx))
    BY <2>2, <2>5, MergeHolds DEF Carries
  <2>7. \A k \in AppliedMerges' :
          \/ k \in AppliedMerges /\ data'[k] = data[k]
          \/ /\ \A m \in data'[k].mentions : graph.mention[m] # None
             /\ \A e \in DOMAIN data'[k].repointed : graph.edge[e] # None
    BY <1>5, <1>6
  <2>8. OwnRows(graph', tx, AppliedMerges', data')
    BY <2>2, <2>7, OwnStay DEF Carries
  <2>9. QED
    BY <1>1, <2>6, <2>8 DEF Carries
<1>10. QED
  BY <1>1, <1>7, <1>8, <1>9 DEF HistoryInv

\* A rollback beneath the transaction.
LEMMA RollbackHistory ==
  ASSUME TablesInv, HistoryInv, NEW c \in Merge, Rollback(c)
  PROVE  HistoryInv'
<1>. DEFINE d == data[c]
<1>1. /\ c \in AppliedMerges /\ MergeUndoable(d, graph) /\ MergeUndoRows(d, graph, graph)
      /\ graph' = MergeUndo(d, graph, graph) /\ Constraints(graph')
      /\ status' = [status EXCEPT ![c] = "rolled_back"]
      /\ undone' = undone \union {c.loser, c.winner, RootOf(graph, c.winner)}
      /\ tx' = tx /\ data' = data /\ seen' = seen /\ told' = told
      /\ tx # None => Untouched(graph, graph', tx)
  BY DEF Rollback, NoWait, Untouched, AppliedMerges
<1>2. /\ Tables(graph) /\ RowsOK(graph) /\ TakenBy(c, d)
      /\ status \in [Merge -> {"pending", "applied", "rolled_back"}]
      /\ \A k \in AppliedMerges : TakenBy(k, data[k])
  BY <1>1 DEF TablesInv, World, Tables
<1>. HIDE DEF d
<1>3. Kept(d) /\ d.loser = c.loser /\ d.winner = c.winner
  BY <1>2, SnapshotKept
<1>4. Tables(graph') /\ UndoneColumns(d, graph, graph')
  BY <1>1, <1>2, MergeAssumption, RollbackTables
<1>5. undone' = undone \union Parted(d, graph)
  BY <1>1, <1>3 DEF Parted
<1>6. Undoing(d, graph, graph', graph, graph')
  BY <1>1, <1>2, <1>3, <1>4, BeneathNone DEF Undoing
<1>7. MovesHold(graph, undone, d)
  BY <1>1 DEF HistoryInv, MovesInv, d
<1>8. AppliedMerges' \subseteq AppliedMerges
  BY <1>1, <1>2 DEF AppliedMerges
<1>9. MovesInv(graph', undone', AppliedMerges', data')
  <2>1. ASSUME NEW k \in AppliedMerges' PROVE MovesHold(graph', undone', data[k])
    <3>1. Kept(data[k]) /\ MovesHold(graph, undone, data[k])
      BY <1>2, <1>8, SnapshotKept DEF HistoryInv, MovesInv
    <3>2. QED
      BY <1>5, <1>6, <3>1, UndoMoves
  <2>2. QED
    BY <1>1, <2>1 DEF MovesInv
<1>10. MentionsHold(graph', graph', undone', seen') /\ FactsHold(graph', graph', undone', told')
  <2>1. MentionsHold(graph, graph, undone, seen) /\ FactsHold(graph, graph, undone, told)
    BY DEF HistoryInv
  <2>2. QED
    BY <1>1, <1>5, <1>6, <1>7, <2>1, UndoHolds
<1>11. ASSUME tx # None PROVE Carries(graph', tx, undone', AppliedMerges', data')
  <2>1. TxOK(graph, tx) /\ tx \in Transaction
    BY <1>11 DEF TablesInv, World, TxOK
  <2>2. Carries(graph, tx, undone, AppliedMerges, data) /\ Untouched(graph, graph', tx)
    BY <1>1, <1>11 DEF HistoryInv
  <2>3. Beneath(graph, graph', View(graph, tx), View(graph', tx))
    BY <1>2, <1>4, <2>1, <2>2, BeneathHolds DEF Carries
  <2>4. RowsOK(View(graph, tx))
    BY WorldView DEF TablesInv
  <2>5. Undoing(d, graph, graph', View(graph, tx), View(graph', tx))
    BY <1>1, <1>2, <1>3, <1>4, <2>3, <2>4 DEF Undoing
  <2>6. /\ MentionsHold(graph', View(graph', tx), undone', Said(tx))
        /\ FactsHold(graph', View(graph', tx), undone', SaidFacts(tx))
    BY <1>5, <1>7, <2>2, <2>5, UndoHolds DEF Carries
  <2>7. \A k \in AppliedMerges' : k \in AppliedMerges /\ data'[k] = data[k]
    BY <1>1, <1>8
  <2>8. OwnRows(graph', tx, AppliedMerges', data')
    BY <2>2, <2>7, OwnStay DEF Carries
  <2>9. QED
    BY <2>6, <2>8 DEF Carries
<1>12. QED
  BY <1>1, <1>9, <1>10, <1>11 DEF HistoryInv

\* Every step keeps the history.
LEMMA HistoryKept ==
  ASSUME TablesInv, HistoryInv, [Next]_vars
  PROVE  HistoryInv'
<1>1. World(graph, tx)
  BY DEF TablesInv
<1>2. CASE UNCHANGED vars
  BY <1>2 DEF vars, HistoryInv, AppliedMerges
\* A step of the transaction, which leaves the tables and the merges alone.
<1>3. ASSUME UNCHANGED <<graph, status, data, seen, told, undone>>,
             tx' # None => Carries(graph, tx', undone, AppliedMerges, data)
      PROVE  HistoryInv'
  BY <1>3 DEF HistoryInv, AppliedMerges
<1>4. ASSUME tx # None PROVE Carries(graph, tx, undone, AppliedMerges, data)
  BY <1>4 DEF HistoryInv
<1>5. ASSUME NEW d \in Doc, NEW x \in Extraction, Begin(d, x) PROVE HistoryInv'
  <2>1. ASSUME NEW t, t = tx' PROVE Carries(graph, t, undone, AppliedMerges, data)
    <3>1. t = [doc |-> d, of |-> x, ids |-> <<>>, due |-> FALSE, links |-> 0,
               nodes |-> [n \in Node |-> None], mentions |-> [m \in MentionId |-> None],
               edges |-> [e \in EdgeId |-> None], locked |-> {}]
      BY <1>5, <2>1 DEF Begin
    <3>2. /\ t.ids = <<>> /\ t.links = 0
          /\ \A m \in MentionId : t.mentions[m] = None
          /\ \A e \in EdgeId : t.edges[e] = None
      BY <3>1
    <3>3. OwnRows(graph, t, AppliedMerges, data)
      BY <3>2 DEF OwnRows
    <3>4. Said(t) = {} /\ SaidFacts(t) = {}
      BY <3>2 DEF Said, SaidFacts
    <3>5. QED
      BY <3>3, <3>4 DEF Carries, MentionsHold, FactsHold
  <2>2. UNCHANGED <<graph, status, data, seen, told, undone>>
    BY <1>5 DEF Begin
  <2>3. QED
    BY <1>3, <2>1, <2>2
<1>6. CASE UpsertSourced \/ UpsertDerived
  <2>1. tx # None /\ UNCHANGED <<graph, status, data, seen, told, undone>>
    BY <1>6 DEF UpsertSourced, UpsertDerived, NextNode
  <2>2. QED
    BY <1>1, <1>3, <1>4, <1>6, <2>1, UpsertCarries
<1>7. CASE RecordMention
  <2>1. tx # None /\ UNCHANGED <<graph, status, data, seen, told, undone>>
    BY <1>7 DEF RecordMention
  <2>2. QED
    BY <1>1, <1>3, <1>4, <1>7, <2>1, MentionCarries
<1>8. CASE ResolveEdge
  <2>1. tx # None /\ UNCHANGED <<graph, status, data, seen, told, undone>>
    BY <1>8 DEF ResolveEdge
  <2>2. QED
    BY <1>1, <1>3, <1>4, <1>8, <2>1, EdgeCarries
<1>9. CASE Commit
  BY <1>9, CommitHistory
<1>10. CASE Abort
  BY <1>3, <1>10 DEF Abort
<1>11. ASSUME NEW c \in Merge, Approve(c) PROVE HistoryInv'
  BY <1>11, ApproveHistory
<1>12. ASSUME NEW c \in Merge, Rollback(c) PROVE HistoryInv'
  BY <1>12, RollbackHistory
<1>13. QED
  BY <1>2, <1>5, <1>6, <1>7, <1>8, <1>9, <1>10, <1>11, <1>12 DEF Next

\* The inductive invariant behind the two theorems that follow.
LEMMA HistoryInvariant == Spec => []HistoryInv
<1>1. Init => HistoryInv
  BY DEF Init, HistoryInv, MovesInv, AppliedMerges, MentionsHold, FactsHold
<1>2. TablesInv /\ HistoryInv /\ [Next]_vars => HistoryInv'
  BY HistoryKept
<1>3. QED
  BY <1>1, <1>2, TablesInvariant, PTL DEF Spec

\* A document once recorded as evidence of a node is evidence of what the node is
\* merged into, for any documents and any merges approved and rolled back between the
\* statements of their transactions, but for the nodes of merges rolled back.
THEOREM EvidenceStays == Spec => []EvidenceKept
<1>1. HistoryInv => EvidenceKept
  <2>1. SUFFICES ASSUME HistoryInv, NEW p \in seen, RootOf(graph, p[1]) \notin undone
                 PROVE  <<RootOf(graph, p[1]), p[2]>> \in EvidenceIn(graph, graph)
    BY DEF EvidenceKept
  <2>2. HeardOf(graph, graph, p[1], p[2])
    BY <2>1 DEF HistoryInv, MentionsHold
  <2>3. QED
    BY <2>2 DEF HeardOf, EvidenceIn
<1>2. QED
  BY <1>1, HistoryInvariant, PTL

\* An edge once written connects the survivors of its ends, in any such behaviour.
THEOREM FactsStay == Spec => []FactsKept
<1>1. HistoryInv => FactsKept
  <2>1. SUFFICES ASSUME HistoryInv, NEW p \in told,
                        RootOf(graph, p[1]) # RootOf(graph, p[2]),
                        RootOf(graph, p[1]) \notin undone, RootOf(graph, p[2]) \notin undone
                 PROVE  <<RootOf(graph, p[1]), RootOf(graph, p[2])>> \in FactsIn(graph, graph)
    BY DEF FactsKept
  <2>2. Joined(graph, graph, p[1], p[2])
    BY <2>1 DEF HistoryInv, FactsHold
  <2>3. QED
    BY <2>2 DEF Joined, Joins, FactsIn
<1>2. QED
  BY <1>1, HistoryInvariant, PTL
=============================================================================
