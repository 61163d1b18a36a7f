------------------------------- MODULE ReadPath -------------------------------
(***************************************************************************)
(* The read tools of the MCP server while the graph is being written.      *)
(*                                                                         *)
(* A call resolves its principal, reads the cache (semantic_search and     *)
(* get_node_neighbors only), runs its statements one by one, each on the   *)
(* graph committed at that moment, writes its audit row, fills the cache   *)
(* and answers.  Writers (the pipeline, webhooks, jobs, and the proposals  *)
(* decided in the MCP process itself) commit first and bump the version of *)
(* the cache afterwards, or never: jobs such as importance do not bump,    *)
(* and a process may die or Redis refuse in between.                       *)
(*                                                                         *)
(* The cache is one Redis, or a dictionary of each process, of which only  *)
(* the MCP server's is ever read.                                          *)
(***************************************************************************)
EXTENDS GraphReads

CONSTANTS
    Caller, Subject,
    GroupsOf,       \* the groups claimed by a subject's token
    Policies,       \* the contents access_grants may have; the first to begin with
    InitGraph,
    Tables,         \* the graphs that commits can make of it
    ChangeName,
    Change(_, _),   \* Change(name, g): the graph a writer's commit makes of g
    Writer,         \* processes that write; "mcp" is the server itself
    Backends,       \* cache_backend: "memory", "redis"
    Workloads,      \* [tools, commits]: what each caller calls, how often the graph changes
    Args,           \* the nodes asked about
    Limit, MaxEdges, ExportDepth,
    TTL,            \* settings.cache_ttl_seconds, in ticks
    MaxCommits      \* bound on the commits of every workload

ASSUME TablesAssumption ==
    /\ InitGraph \in Tables
    /\ \A g \in Tables : /\ Linked(g) /\ IsFiniteSet(g.edges)
                        /\ \A name \in ChangeName : Change(name, g) \in Tables

ASSUME PoliciesAssumption == Policies # <<>> /\ Policies \in Seq(Range(Policies))

ASSUME BoundsAssumption ==
    /\ MaxCommits \in Nat /\ \A w \in Workloads : w.commits \in 0 .. MaxCommits
    /\ Limit \in Nat /\ MaxEdges \in Nat /\ ExportDepth \in Nat \ {0} /\ TTL \in Nat \ {0}
    /\ IsFiniteSet(Writer)

VARIABLES
    backend,
    workload,
    rbac,       \* settings.rbac_enabled
    policy,     \* access_grants
    history,    \* the committed graphs, the current one last
    pending,    \* pending[w]: the newest commit of w that w has not bumped for, or 0
    version,    \* of the cache the MCP server reads
    store,      \* key -> [answer, ttl]
    call,       \* the call each caller is in
    covered     \* history: the newest commit a bump of this cache came after

vars == <<backend, workload, rbac, policy, history, pending, version, store, call, covered>>

Graph  == Last(history)
Now    == Len(history)
Cached == {"search", "neighbors"}
AtNode == {"neighbors", "details", "timeline", "story", "export", "traverse", "connection"}

\* `named` are the nodes in the lines of applied proposals, `counted` the edges
\* that make up a degree.
NoAnswer == [nodes |-> {}, edges |-> {}, docs |-> {}, named |-> {}, counted |-> {},
             since |-> 0, until |-> 0]

Idle == [pc |-> "idle", tool |-> "", arg |-> 0, principal |-> Anonymous, version |-> MaxCommits + 1,
         answer |-> NoAnswer, todo |-> <<>>, next |-> <<>>, depth |-> 0, owed |-> 0]

Init ==
    /\ backend \in Backends
    /\ workload \in Workloads
    /\ rbac \in BOOLEAN
    /\ policy = Head(Policies)
    /\ history = <<InitGraph>>
    /\ pending = [w \in Writer |-> 0]
    /\ version = 0
    /\ store = <<>>
    /\ call = [c \in Caller |-> Idle]
    /\ covered = 1

Goto(c, state) == call' = [call EXCEPT ![c] = state]

-----------------------------------------------------------------------------
(* Beginning a call.                                                       *)

Resolve(subject) ==
    IF ~ rbac THEN Anonymous ELSE Scoped(policy, GroupsOf[subject])

\* A key without the caller's scope (a mutant).
MakeKeyForAll(c) == <<call[c].version, call[c].tool, call[c].arg>>

\* A key with the version of the moment it is used (a mutant).
MakeKeyLate(c) ==
    <<version, call[c].tool, ScopeKey(call[c].principal), call[c].arg>>

MakeKey(c) ==
    <<call[c].version, call[c].tool, ScopeKey(call[c].principal), call[c].arg>>

\* `owed` records what the caller may rely on: the bumps already done.
Begin(c) ==
    /\ call[c].pc = "idle"
    /\ \E subject \in Subject, tool \in workload.tools[c] :
        \E arg \in IF tool \in AtNode THEN Args ELSE {0} :
            Goto(c, [Idle EXCEPT !.pc        = IF tool \in Cached THEN "lookup" ELSE "open",
                                 !.tool      = tool,
                                 !.arg       = arg,
                                 !.principal = Resolve(subject),
                                 !.version   = version,
                                 !.depth     = IF tool = "export" THEN ExportDepth ELSE 1,
                                 !.owed      = covered])
    /\ UNCHANGED <<backend, workload, rbac, policy, history, pending, version, store, covered>>

Hit(c) == MakeKey(c) \in DOMAIN store

\* A lookup that keeps what it finds for another TTL (a mutant).
LookUpAndKeep(c) ==
    /\ call[c].pc = "lookup"
    /\ IF Hit(c)
       THEN /\ Goto(c, [call[c] EXCEPT !.pc = "done", !.answer = store[MakeKey(c)].answer])
            /\ store' = [store EXCEPT ![MakeKey(c)].ttl = TTL]
       ELSE Goto(c, [call[c] EXCEPT !.pc = "open"]) /\ UNCHANGED store
    /\ UNCHANGED <<backend, workload, rbac, policy, history, pending, version, covered>>

LookUp(c) ==
    /\ call[c].pc = "lookup"
    /\ IF Hit(c)
       THEN Goto(c, [call[c] EXCEPT !.pc = "done", !.answer = store[MakeKey(c)].answer])
       ELSE Goto(c, [call[c] EXCEPT !.pc = "open"])
    /\ UNCHANGED <<backend, workload, rbac, policy, history, pending, version, store, covered>>

-----------------------------------------------------------------------------
(* The statements of a call.  The first one finds the nodes to report, or  *)
(* answers "not found (or not authorized)"; the others are in `todo`.      *)

Found(nodes) == [NoAnswer EXCEPT !.nodes = nodes, !.since = Now, !.until = Now]

Seen(c, nodes, edges, docs) ==
    [call[c].answer EXCEPT !.nodes = @ \cup nodes, !.edges = @ \cup edges,
                           !.docs = @ \cup docs, !.until = Now]

\* What two tools read without the caller's scope.
Unscoped(c, named, counted) ==
    [call[c].answer EXCEPT !.named = @ \cup named, !.counted = @ \cup counted, !.until = Now]

\* Every kind of query for the first node, then for the next one.
Queries(nodes, kinds) ==
    [k \in 1 .. Len(nodes) * Len(kinds) |->
        <<nodes[1 + ((k - 1) \div Len(kinds))], kinds[1 + ((k - 1) % Len(kinds))]>>]

\* get_node answers "not found (or not authorized)", or the call goes on.
OpenNode(c, tool, plans) ==
    /\ call[c].pc = "open" /\ call[c].tool = tool
    /\ IF FoundNode(Graph, call[c].principal, call[c].arg)
       THEN \E plan \in plans :
                Goto(c, [call[c] EXCEPT !.pc = "query", !.answer = Found({call[c].arg}),
                                        !.todo = plan])
       ELSE Goto(c, [call[c] EXCEPT !.pc = "done"])
    /\ UNCHANGED <<backend, workload, rbac, policy, history, pending, version, store, covered>>

AboutNode(c, tool, kinds) == OpenNode(c, tool, {Queries(<<call[c].arg>>, kinds)})

OpenListing(c, tool, listings, plan) ==
    /\ call[c].pc = "open" /\ call[c].tool = tool
    /\ \E rows \in listings :
        Goto(c, [call[c] EXCEPT !.pc = "query", !.answer = Found(rows), !.todo = plan])
    /\ UNCHANGED <<backend, workload, rbac, policy, history, pending, version, store, covered>>

\* The embedding provider may fail: semantic_search and ask answer an error.
OpenSearch(c, tool, kinds) ==
    \/ LET hits == SemanticSearch(Graph, call[c].principal, Limit)
       IN  OpenListing(c, tool, {Range(hits)}, Queries(hits, kinds))
    \/ /\ call[c].pc = "open" /\ call[c].tool = tool
       /\ Goto(c, [call[c] EXCEPT !.pc = "error"])
       /\ UNCHANGED <<backend, workload, rbac, policy, history, pending, version, store, covered>>

SearchTool(c) == OpenSearch(c, "search", <<>>)

AskTool(c) == OpenSearch(c, "ask", <<"out", "in", "docs">>)

HybridTool(c) ==
    \E embedded \in BOOLEAN :
        OpenListing(c, "hybrid",
                    {Range(ranked) : ranked \in
                        HybridSearch(Graph, call[c].principal, Limit, embedded)}, <<>>)

NodeDetails(c) == AboutNode(c, "details", <<"outdegree", "indegree", "docs">>)

EntityTimeline(c) == AboutNode(c, "timeline", <<"timeline">>)

NodeStory(c) == AboutNode(c, "story", <<"story">>)

NodeNeighbors(c) == AboutNode(c, "neighbors", <<"out", "in">>)

TraverseGraphPath(c) == AboutNode(c, "traverse", <<"walk">>)

FindConnection(c) ==
    OpenNode(c, "connection",
             {<<<<target, "exists">>>> : target \in Node \ {call[c].arg}})

\* Exporting what a node points to only (a mutant).
ExportKindsOutgoing == <<"out">>

ExportKinds == <<"out", "in">>

ExportSubgraph(c) == AboutNode(c, "export", ExportKinds)

\* The nodes are counted by one statement, the edges by a later one.
GraphStats(c) ==
    OpenListing(c, "stats", {Canonical(Graph, call[c].principal)}, <<<<0, "edges">>>>)

StaleTool(c) ==
    OpenListing(c, "stale", StaleNodes(Graph, call[c].principal, Limit), <<>>)

\* The new nodes by one statement, the applied proposals by a later one.
RecentChanges(c) ==
    OpenListing(c, "recent", RecentNodes(Graph, call[c].principal, Node, Limit),
                <<<<0, "applied">>>>)

Tool(c) ==
    \/ SearchTool(c) \/ HybridTool(c) \/ AskTool(c) \/ NodeDetails(c) \/ EntityTimeline(c)
    \/ NodeStory(c) \/ NodeNeighbors(c) \/ TraverseGraphPath(c) \/ FindConnection(c)
    \/ ExportSubgraph(c) \/ GraphStats(c) \/ StaleTool(c) \/ RecentChanges(c)

\* The edges of one node, in one direction.
ReadNeighbors(c, n, direction) ==
    LET p     == call[c].principal
        cap   == IF call[c].tool = "export" THEN MaxEdges ELSE Limit
        known == call[c].answer.edges
        room  == IF call[c].tool = "export" THEN MaxEdges - Cardinality(known) ELSE Limit
    IN  \E rows \in IF direction = "out" THEN Outgoing(Graph, p, n, cap)
                                         ELSE Incoming(Graph, p, n, cap) :
        \E new \in LimitedTo(rows \ known, room) :
            LET ends == UNION {{e.src, e.dst} : e \in new}
            IN  \E order \in SetToSeqs(ends \ call[c].answer.nodes) :
                    Goto(c, [call[c] EXCEPT !.answer = Seen(c, ends, new, {}),
                                            !.todo   = Tail(@),
                                            !.next   = @ \o order])

ReadPaths(c, kind, target) ==
    LET p     == call[c].principal
        start == call[c].arg
    IN  \/ /\ kind = "exists" /\ FoundNode(Graph, p, target)
           /\ Goto(c, [call[c] EXCEPT !.answer = Seen(c, {target}, {}, {}),
                                      !.todo   = <<<<target, "path">>>>])
        \/ /\ kind = "exists" /\ ~ FoundNode(Graph, p, target)
           /\ Goto(c, [call[c] EXCEPT !.pc = "done", !.answer = NoAnswer, !.todo = <<>>])
        \/ /\ kind = "path"
           /\ LET paths == FindPath(Graph, p, start, target, DepthCap)
              IN  \E path \in IF paths = {} THEN {<<>>} ELSE paths :
                    Goto(c, [call[c] EXCEPT
                                !.answer = Seen(c, NodesOf(start, path),
                                                {path[i].edge : i \in DOMAIN path}, {}),
                                !.todo   = <<>>])
        \/ /\ kind = "walk"
           /\ \E type \in Range(NodeType) :
              \E found \in Traverse(Graph, p, start, type, DepthCap, Limit) :
                    Goto(c, [call[c] EXCEPT !.answer = Seen(c, found, {}, {}), !.todo = <<>>])

\* The degree, and what maintenance did: to every caller, whatever the grants.
ReadUnscoped(c, n, kind) ==
    \/ /\ kind \in {"outdegree", "indegree"}
       /\ Goto(c, [call[c] EXCEPT !.answer = Unscoped(c, {}, NodeDegree(Graph, n)[kind]),
                                  !.todo   = Tail(@)])
    \/ /\ kind = "applied"
       /\ \E lines \in LimitedTo(Graph.applied, Limit) :
            Goto(c, [call[c] EXCEPT !.answer = Unscoped(c, UNION lines, {}), !.todo = Tail(@)])

\* get_node_timeline queries the mentions itself, whatever the grants.
DocumentsBehind(c, n, kind) ==
    CASE kind = "docs"     -> {NodeSources(Graph, call[c].principal, n)}
      [] kind = "timeline" -> NodeTimeline(Graph, call[c].principal, n, Limit)
      [] kind = "story"    -> {{d \in Doc : <<n, d>> \in Graph.mentions}}
      [] OTHER             -> {}

Query(c) ==
    /\ call[c].pc = "query" /\ call[c].todo # <<>>
    /\ LET q == Head(call[c].todo) IN
        \/ /\ q[2] \in {"out", "in"} /\ ReadNeighbors(c, q[1], q[2])
        \/ /\ q[2] = "edges"
           /\ LET edges == EdgeStats(Graph, call[c].principal)
              IN  Goto(c, [call[c] EXCEPT
                              !.answer = Seen(c, UNION {{e.src, e.dst} : e \in edges}, edges, {}),
                              !.todo   = <<>>])
        \/ \E docs \in DocumentsBehind(c, q[1], q[2]) :
                Goto(c, [call[c] EXCEPT !.answer = Seen(c, {}, {}, docs), !.todo = Tail(@)])
        \/ ReadPaths(c, q[2], q[1])
        \/ ReadUnscoped(c, q[1], q[2])
    /\ UNCHANGED <<backend, workload, rbac, policy, history, pending, version, store, covered>>

\* The next layer of an export.
Deepen(c) ==
    /\ call[c].pc = "query" /\ call[c].tool = "export" /\ call[c].todo = <<>>
    /\ call[c].depth > 1 /\ call[c].next # <<>>
    /\ Goto(c, [call[c] EXCEPT !.todo  = Queries(call[c].next, ExportKinds), !.next = <<>>,
                               !.depth = @ - 1])
    /\ UNCHANGED <<backend, workload, rbac, policy, history, pending, version, store, covered>>

-----------------------------------------------------------------------------
(* Ending a call.                                                          *)

\* Rendered after the session is closed: from objects that the rollback of a
\* failed audit insert has expired, and that cannot be refreshed any more.
RendersDetached(c) ==
    \/ call[c].tool \in {"details", "timeline", "traverse", "connection", "stale"}
    \/ call[c].tool = "export" /\ call[c].answer.edges = {}

\* An answer without rows is not cached by semantic_search.
Audit(c) ==
    /\ call[c].pc = "query" /\ call[c].todo = <<>>
    /\ call[c].tool = "export" => call[c].depth = 1 \/ call[c].next = <<>>
    /\ \/ Goto(c, [call[c] EXCEPT !.pc = IF call[c].tool \in Cached /\ call[c].answer.nodes # {}
                                          THEN "fill" ELSE "done"])
       \/ RendersDetached(c) /\ Goto(c, [call[c] EXCEPT !.pc = "error"])
    /\ UNCHANGED <<backend, workload, rbac, policy, history, pending, version, store, covered>>

Fill(c) ==
    /\ call[c].pc = "fill"
    /\ Goto(c, [call[c] EXCEPT !.pc = "done"])
    /\ store' = [k \in DOMAIN store \cup {MakeKey(c)} |->
                    IF k = MakeKey(c) THEN [answer |-> call[c].answer, ttl |-> TTL] ELSE store[k]]
    /\ UNCHANGED <<backend, workload, rbac, policy, history, pending, version, covered>>

\* A Redis that does not answer fails the tool call.
CacheRaises(c) ==
    /\ backend = "redis" /\ call[c].pc \in {"lookup", "fill"}
    /\ Goto(c, [call[c] EXCEPT !.pc = "error"])
    /\ UNCHANGED <<backend, workload, rbac, policy, history, pending, version, store, covered>>

End(c) ==
    /\ call[c].pc \in {"done", "error"}
    /\ call' = [call EXCEPT ![c] = Idle]
    /\ UNCHANGED <<backend, workload, rbac, policy, history, pending, version, store, covered>>

-----------------------------------------------------------------------------
(* The writers, the operator and the clock.                                *)

\* _reviewer: only a superuser decides proposals through the server, and
\* with RBAC on no token makes one.
Reviewer == ~ rbac

Commit(w) ==
    /\ Now <= workload.commits
    /\ w = "mcp" => Reviewer
    /\ \E name \in ChangeName :
        /\ Change(name, Graph) # Graph
        /\ history' = Append(history, Change(name, Graph))
    /\ pending' = [pending EXCEPT ![w] = Now + 1]
    /\ UNCHANGED <<backend, workload, rbac, policy, version, store, call, covered>>

\* Entries under a version that is neither current nor held by a call are
\* never asked for again, and left out.
Reachable(newVersion) ==
    {k \in DOMAIN store : k[1] \in {newVersion} \cup {call[c].version : c \in Caller}}

Bump(w) ==
    /\ pending[w] # 0
    /\ pending' = [pending EXCEPT ![w] = 0]
    /\ IF backend = "redis" \/ w = "mcp"
       THEN /\ version' = version + 1
            /\ store' = Restrict(store, Reachable(version + 1))
            /\ covered' = IF pending[w] > covered THEN pending[w] ELSE covered
       ELSE UNCHANGED <<version, store, covered>>
    /\ UNCHANGED <<backend, workload, rbac, policy, history, call>>

\* The bump that never comes.
SkipBump(w) ==
    /\ pending[w] # 0
    /\ pending' = [pending EXCEPT ![w] = 0]
    /\ UNCHANGED <<backend, workload, rbac, policy, history, version, store, call, covered>>

Regrant ==
    /\ rbac /\ policy = Head(Policies)
    /\ policy' \in Range(Tail(Policies))
    /\ UNCHANGED <<backend, workload, rbac, history, pending, version, store, call, covered>>

\* Ageing that leaves an expired entry to be found (a mutant).
AgedKept == [k \in DOMAIN store |-> [store[k] EXCEPT !.ttl = @ - 1]]

\* get drops an entry past its time, and Redis does so by itself.
Aged == [k \in {j \in DOMAIN store : store[j].ttl > 1} |->
            [store[k] EXCEPT !.ttl = @ - 1]]

Tick ==
    /\ DOMAIN store # {}
    /\ store' = Aged
    /\ UNCHANGED <<backend, workload, rbac, policy, history, pending, version, call, covered>>

\* The MCP server dies with its calls and its dictionary; Redis stays.
Restart ==
    /\ call' = [c \in Caller |-> Idle]
    /\ pending' = [w \in Writer |-> IF w = "mcp" THEN 0 ELSE pending[w]]
    /\ IF backend = "redis" THEN UNCHANGED <<version, store>>
                            ELSE version' = 0 /\ store' = <<>>
    /\ UNCHANGED <<backend, workload, rbac, policy, history, covered>>

Step(c) ==
    \/ LookUp(c) \/ Tool(c) \/ Query(c)
    \/ Deepen(c) \/ Audit(c) \/ Fill(c) \/ CacheRaises(c) \/ End(c)

Next ==
    \/ \E c \in Caller : Begin(c) \/ Step(c)
    \/ \E w \in Writer : Commit(w) \/ Bump(w) \/ SkipBump(w)
    \/ Regrant \/ Tick \/ Restart

\* Time passes; nothing else is relied on for the cache to forget.
Spec == Init /\ [][Next]_vars /\ WF_vars(Tick)

-----------------------------------------------------------------------------
(* Properties.                                                             *)

Answered(c) == call[c].pc = "done" /\ call[c].answer.since > 0

\* Every variable has its type, and no live entry is past its time.
TypeOK ==
    /\ backend \in Backends /\ workload \in Workloads /\ rbac \in BOOLEAN /\ policy \in Range(Policies)
    /\ Now \in 1 .. MaxCommits + 1
    /\ pending \in [Writer -> 0 .. MaxCommits + 1]
    /\ version \in 0 .. MaxCommits /\ covered \in 1 .. Now
    /\ \A k \in DOMAIN store : store[k].ttl \in 1 .. TTL
    /\ \A c \in Caller :
        /\ call[c].pc \in {"idle", "lookup", "open", "query", "fill", "done", "error"}
        /\ call[c].answer.nodes \subseteq Node /\ call[c].answer.docs \subseteq Doc
        /\ call[c].answer.until <= Now

\* Whatever is read in between commits, cached by whomever and asked again
\* after grants changed: each node and edge that an answer lists was in the graph
\* at some moment of the read it comes from, where the caller's grants show it,
\* and each document is one the caller was granted (GraphRepository and the scope
\* in every cache key).  It is about what is read through the visibility rule, and
\* not about what three tools read past it: the nodes in get_recent_changes' lines
\* of maintenance, the edges in get_node_details' degree and the documents of
\* get_node_timeline (see RowsFiltered).
AnswersTrue ==
    \A c \in Caller : Answered(c) =>
        LET a     == call[c].answer
            p     == call[c].principal
            reads == {history[i] : i \in a.since .. a.until}
        IN  /\ \A n \in a.nodes : \E g \in reads : FoundNode(g, p, n)
            /\ \A e \in a.edges : e.src \in a.nodes /\ e.dst \in a.nodes
                                 /\ \E g \in reads : e \in g.edges
            /\ call[c].tool # "story" => a.docs \subseteq DocClause(p)

\* "Results are row-filtered to the caller's granted data sources": whatever an
\* answer lists, names or counts, the caller was granted a document of it.
\* (It has not always been: the three tools that AnswersTrue leaves out.)
RowsFiltered ==
    \A c \in Caller : Answered(c) =>
        LET a       == call[c].answer
            p       == call[c].principal
            inScope == UNION {VisibleNodes(history[i], p) : i \in a.since .. a.until}
        IN  /\ a.nodes \cup a.named \subseteq inScope
            /\ \A e \in a.edges \cup a.counted : {e.src, e.dst} \subseteq inScope
            /\ a.docs \subseteq DocClause(p)

\* A call that begins after a bump of the cache it reads does not answer
\* from before the commit that bump followed, though fills and bumps race.
FreshAfterBump == \A c \in Caller : Answered(c) => call[c].answer.since >= call[c].owed

\* Where no bump arrives the TTL does: once the writers rest, every stale
\* entry is gone for good, however often it is asked for ("with TTL as the
\* staleness backstop").
StaleDies == <>[](\A k \in DOMAIN store : store[k].answer.since = Now)

\* The nodes within k hops of n, over what p sees.
Within(g, p, n, k) ==
    LET ball[i \in 0 .. k] ==
            IF i = 0 THEN {n}
            ELSE ball[i - 1] \cup {m \in VisibleNodes(g, p) \cap g.nodes : \E e \in g.edges :
                    m \in {e.src, e.dst} /\ {e.src, e.dst} \cap ball[i - 1] # {}}
    IN  ball[k]

\* export_subgraph, its limit per query and its cap on the diagram together:
\* undisturbed, it holds max_edges edges or all that are seen within depth.
ExportComplete ==
    \A c \in Caller :
        LET a == call[c].answer
            p == call[c].principal
            g == history[a.since]
        IN  Answered(c) /\ call[c].tool = "export" /\ a.since = a.until
            => \/ Cardinality(a.edges) = MaxEdges
               \/ a.edges = {e \in g.edges :
                    /\ {e.src, e.dst} \subseteq VisibleNodes(g, p)
                    /\ {e.src, e.dst} \cap Within(g, p, call[c].arg, ExportDepth - 1) # {}}

\* One state for each graph and policy is enough for what one statement does.
Quiet == /\ \A c \in Caller : call[c].pc = "idle"
         /\ DOMAIN store = {} /\ \A w \in Writer : pending[w] = 0

AsPrincipals == {Resolve(s) : s \in Subject}

\* The recursive walk, stopped at cycles and cut by depth, is a breadth-first
\* search of the visible graph: find_path returns a path exactly when there
\* is one within the depth, of that length, each arrow in the direction of
\* its edge and each node visible; traverse reports the nearest targets.
PathsAreShortest ==
    Quiet => \A p \in AsPrincipals, s \in Args, t \in Node, depth \in 1 .. DepthCap :
        FoundNode(Graph, p, s) /\ s # t =>
            LET paths == FindPath(Graph, p, s, t, depth)
                Ball(k) == Within(Graph, p, s, k)
            IN  /\ paths # {} <=> t \in Ball(depth)
                /\ \A path \in paths :
                    /\ t \in Ball(Len(path)) \ Ball(Len(path) - 1)
                    /\ \A i \in DOMAIN path :
                        LET from == IF i = 1 THEN s ELSE path[i - 1].to
                            e    == path[i].edge
                        IN  /\ e \in Graph.edges
                            /\ <<e.src, e.dst>> = IF path[i].dir = ">" THEN <<from, path[i].to>>
                                                                       ELSE <<path[i].to, from>>
                            /\ path[i].to \in VisibleNodes(Graph, p)
                /\ \A found \in Traverse(Graph, p, s, NodeType[t], depth, Limit) :
                    \/ t \in found
                    \/ t \notin Ball(depth)
                    \/ /\ Cardinality(found) = Limit
                       /\ \A k \in 1 .. depth : t \in Ball(k) => found \subseteq Ball(k)

\* In the fused ranking no node is passed by one that neither leg ranks
\* better, and a node both legs found is not lost to one of a single leg.
HybridFavoursBoth ==
    Quiet => \A p \in AsPrincipals, embedded \in BOOLEAN :
        LET sem == IF embedded THEN SemanticSearch(Graph, p, Limit) ELSE <<>>
            kw  == KeywordSearch(Graph, p, Limit)
            Rank(leg, n) == IF \E i \in DOMAIN leg : leg[i] = n
                            THEN CHOOSE i \in DOMAIN leg : leg[i] = n ELSE Limit + 1
        IN  \A ranked \in HybridSearch(Graph, p, Limit, embedded) :
            \A n \in Range(sem) \cup Range(kw), m \in Range(ranked) :
                /\ Rank(sem, n) <= Rank(sem, m) /\ Rank(kw, n) <= Rank(kw, m)
                /\ <<Rank(sem, n), Rank(kw, n)>> # <<Rank(sem, m), Rank(kw, m)>>
                => \E i, j \in DOMAIN ranked : i < j /\ ranked[i] = n /\ ranked[j] = m
=============================================================================
