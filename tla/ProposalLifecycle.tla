------------------------- MODULE ProposalLifecycle -------------------------
(***************************************************************************)
(* What the proposal queue promises, whatever sessions, handlers and       *)
(* failures lie underneath: every row of the proposals table walks the     *)
(* lifecycle of app/db/models/proposal.py (the comment in front of the     *)
(* STATUS_ constants), and a proposal's change is in the graph exactly     *)
(* while its row says applied or auto_applied.                             *)
(***************************************************************************)
EXTENDS Naturals

CONSTANT Id                  \* ids a proposals row can have

VARIABLES
  status,                    \* status[i]: the row's status, "absent" = no row
  landed                     \* landed[i]: times the change of i is in the graph

lifeVars == <<status, landed>>

Status == {"pending", "applied", "auto_applied", "rejected", "rolled_back", "failed"}
Applied == {"applied", "auto_applied"}

TypeOK ==
  /\ status \in [Id -> Status \union {"absent"}]
  /\ landed \in [Id -> 0 .. 1]

Init ==
  /\ status = [i \in Id |-> "absent"]
  /\ landed = [i \in Id |-> 0]

Move(i, from, to) == status[i] \in from /\ status' = [status EXCEPT ![i] = to]
Lands(i) == landed' = [landed EXCEPT ![i] = 1]
Leaves(i) == landed' = [landed EXCEPT ![i] = 0]

\* A submit below the threshold, and a human decision on what it filed.
File(i)      == Move(i, {"absent"}, "pending")       /\ UNCHANGED landed
Approve(i)   == Move(i, {"pending"}, "applied")      /\ Lands(i)
Reject(i)    == Move(i, {"pending"}, "rejected")     /\ UNCHANGED landed
\* A submit at or above the threshold.
AutoApply(i) == Move(i, {"absent"}, "auto_applied")  /\ Lands(i)
\* An apply attempt that raises leaves nothing but its error.
Fail(i)      == Move(i, {"absent", "pending"}, "failed") /\ UNCHANGED landed
RollBack(i)  == Move(i, Applied, "rolled_back")      /\ Leaves(i)

Next ==
  \E i \in Id : \/ File(i) \/ Approve(i) \/ Reject(i)
                \/ AutoApply(i) \/ Fail(i) \/ RollBack(i)

Spec == Init /\ [][Next]_lifeVars
=============================================================================
