------------------------------ MODULE MCReadPath ------------------------------
(* A small graph for TLC: n1 -> n2 <- n3 -> n4 and n1 -> n3, read by the    *)
(* anonymous superuser, or by alice, whose group loses a grant on the way;  *)
(* the grants of group "all" are another's and must not count.              *)
EXTENDS ReadPath

CONSTANTS n1, n2, n3, n4, d1, d2, d3, c1, c2

MCNode == {n1, n2, n3, n4}
MCDoc == {d1, d2, d3}
MCNodeType == (n1 :> "repository") @@ (n2 :> "feature") @@ (n3 :> "person") @@ (n4 :> "feature")
MCDocSource == (d1 :> "github") @@ (d2 :> "github") @@ (d3 :> "slack")
MCDocResource == (d1 :> "lore") @@ (d2 :> "keeper") @@ (d3 :> "general")
MCNear == <<n3, n2, n1, n4>>
MCWording == <<n2, n4, n3>>

Grant(group, source, resource) == [group |-> group, source |-> source, resource |-> resource]
MCGroupsOf == "alice" :> {"eng"}
MCPolicies ==
    <<{Grant("eng", "github", "lore"), Grant("eng", "slack", Whole), Grant("all", "github", Whole)},
      {Grant("eng", "github", "lore"), Grant("all", "github", Whole)}>>

Edge(m, n) == [src |-> m, rel |-> "REL", dst |-> n]
MCInitGraph ==
    [nodes    |-> MCNode,
     aliases  |-> {},
     stale    |-> {n2},
     edges    |-> {Edge(n1, n2), Edge(n3, n2), Edge(n3, n4), Edge(n1, n3)},
     mentions |-> {<<n1, d1>>, <<n1, d2>>, <<n2, d2>>, <<n3, d3>>, <<n3, d2>>, <<n4, d1>>},
     applied  |-> {}]

\* What a commit may change: a document no longer mentions n3, the owner gets
\* an edge, n2 is merged into n3 by a proposal.
MCChangeName == {"unmention", "link", "merge"}
MCChange(name, g) ==
    CASE name = "unmention" -> [g EXCEPT !.mentions = @ \ {<<n3, d3>>}]
      [] name = "link"      -> [g EXCEPT !.edges = @ \cup {Edge(n4, n1)}]
      [] name = "merge"     ->
            [g EXCEPT !.aliases  = {n2},
                      !.edges    = @ \ {Edge(n1, n2), Edge(n3, n2)},
                      !.mentions = (@ \ {<<n2, d2>>}) \cup {<<n3, d2>>},
                      !.applied  = {{n2, n3}}]

\* Each change is made once, in any order.
MCTables ==
    LET After(S) == S \cup {MCChange(name, g) : name \in MCChangeName, g \in S}
    IN  After(After(After({MCInitGraph})))

MCArgs == {n1}

Load(tools1, tools2, commits) ==
    [tools |-> (c1 :> tools1) @@ (c2 :> tools2), commits |-> commits]
MCWorkloads ==
    {Load({"neighbors"}, {}, 2),
     Load({"search"}, {"search"}, 1),
     Load({"export", "ask"}, {}, 2),
     Load({"details", "connection", "timeline", "story", "traverse",
           "hybrid", "stats", "stale", "recent"}, {}, 1)}

\* What changed lately, asked once.
MCRecentOnly == {Load({"recent"}, {}, 1)}
=============================================================================
