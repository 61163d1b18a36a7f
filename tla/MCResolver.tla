----------------------------- MODULE MCResolver -----------------------------
(***************************************************************************)
(* A person with a GitHub and a Slack account (sourced, merged by dedup)   *)
(* and two concepts, one of them under two spellings, of which documents   *)
(* in any order speak, one of them of both spellings at once, while the    *)
(* merges are approved and rolled back.                                    *)
(***************************************************************************)
EXTENDS Resolver, TLC

CONSTANTS n1, n2, n3, n4, n5, e1, e2, e3, m1, m2, m3, m4, m5, m6

MCNode == {n1, n2, n3, n4, n5}
MCEdgeId == {e1, e2, e3}
MCMentionId == {m1, m2, m3, m4, m5, m6}
MCNodeType == [n \in MCNode |-> "concept"]

Accounts == {"github", "slack"}
Concepts == {"topic", "topics", "team"}
MCEntity == Accounts \union Concepts

MCAlike(e, f) == e = f \/ {e, f} = {"topic", "topics"}

\* The accounts are known, and so is the team.
MCInitGraph ==
  [node    |-> {n1, n2, n3},
   entity  |-> (n1 :> "github") @@ (n2 :> "slack") @@ (n3 :> "team")
                @@ (n4 :> None) @@ (n5 :> None),
   canon   |-> [n \in MCNode |-> None],
   props   |-> [n \in MCNode |-> <<>>],
   vec     |-> {},
   edge    |-> [e \in MCEdgeId |-> None],
   mention |-> [m \in MCMentionId |-> None]]

Says(nodes, edges) == [nodes |-> nodes, edges |-> edges]

AllExtractions ==
  {Says(<<"github", "topic">>, <<<<1, 2>>>>),
   Says(<<"topics", "slack">>, <<<<1, 2>>>>),
   Says(<<"team", "topic">>, <<<<1, 2>>>>),
   Says(<<"topic", "topics">>, <<<<1, 2>>>>)}
AccountsOnly == {Says(<<"github">>, <<>>)}

Merges == {[kind |-> "entity_merge", loser |-> n1, winner |-> n2],
           [kind |-> "entity_merge", loser |-> n4, winner |-> n3]}
Symmetry == Permutations(Doc)

AccountMerge == {[kind |-> "entity_merge", loser |-> n1, winner |-> n2]}
=============================================================================
