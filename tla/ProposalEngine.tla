--------------------------- MODULE ProposalEngine ---------------------------
(***************************************************************************)
(* app/proposals/engine.py: the only write path of the maintenance agents  *)
(* and of the people who review them.  Every caller is a process with a    *)
(* database session of its own (READ COMMITTED, no row locks taken), so a  *)
(* method of ProposalEngine is several steps here: what it read is kept in *)
(* the session and is used later, when the rows may have moved on.         *)
(*                                                                         *)
(* The handler of a kind (the Protocol ProposalHandler) is a parameter:    *)
(*   HandlerValidates(c, g)    validate(), apply() raise nothing on graph g*)
(*   HandlerWrites(c, g, now)  the graph once the rows apply() computed    *)
(*                             from g are committed over the graph now     *)
(*   HandlerStorable(c, g, now)   the database accepts those rows over now *)
(*   HandlerSnapshot(c, g)     the rollback_data that apply() returns      *)
(*   HandlerUndoable(d, g), HandlerUndo(d, g, now) and                     *)
(*   HandlerUndoStorable(d, g, now) are the same for rollback() of the     *)
(*                             snapshot d                                  *)
(*                                                                         *)
(* The bump of the read cache is here for what its failure does to the     *)
(* rows: the in-memory cache never raises, the Redis one may.              *)
(***************************************************************************)
EXTENDS Integers, FiniteSets

CONSTANTS
  Agent,          \* sessions that submit: maintenance agents, ingestion
  Reviewer,       \* sessions that decide: CLI, TUI, one MCP call at a time
  Id,             \* ids a proposals row can get
  Change,         \* the (kind, payload) pairs that agents file
  AutoApplied,    \* those whose confidence reaches the auto-apply threshold
  DedupKey(_),    \* (kind, dedup_key) of a change
  None,           \* SQL NULL, Python None
  CacheMayFail,   \* CACHE_BACKEND=redis: bump() can raise
  InitGraph,
  HandlerValidates(_, _), HandlerWrites(_, _, _), HandlerStorable(_, _, _),
  HandlerSnapshot(_, _),
  HandlerUndoable(_, _), HandlerUndo(_, _, _), HandlerUndoStorable(_, _, _)

ASSUME SessionAssumption == Agent \intersect Reviewer = {}
ASSUME ChangeAssumption  == AutoApplied \subseteq Change
ASSUME NoneAssumption    == None \notin Change /\ None \notin Id
ASSUME CacheAssumption   == CacheMayFail \in BOOLEAN

Session == Agent \union Reviewer

VARIABLES
  status,         \* proposals.status of each row, "absent" = no committed row
  change,         \* proposals.kind and payload
  rollbackData,   \* proposals.rollback_data
  graph,          \* the committed graph tables
  landed,         \* history: commits of the row's change less its rollbacks
  pc,             \* where each session is
  cur,            \* the id of the row it works on
  job,            \* the change it works on
  held,           \* the rollback_data it read
  base            \* the graph its handler read

rowVars  == <<status, change, rollbackData, graph, landed>>
sessVars == <<pc, cur, job, held, base>>
vars     == <<rowVars, sessVars>>

Status  == {"pending", "applied", "auto_applied", "rejected", "rolled_back", "failed"}
Applied == {"applied", "auto_applied"}
Verb    == {"approve", "reject", "rollback"}
PC      == {"idle", "checked", "flushed", "writing", "unfiled", "bump", "failing"}
           \union Verb \union {"reverting"}

TypeOK ==
  /\ status \in [Id -> Status \union {"absent"}]
  /\ change \in [Id -> Change \union {None}]
  /\ landed \in [Id -> Int]
  /\ pc  \in [Session -> PC]
  /\ cur \in [Session -> Id \union {None}]
  /\ job \in [Session -> Change \union {None}]

Init ==
  /\ status = [i \in Id |-> "absent"]
  /\ change = [i \in Id |-> None]
  /\ rollbackData = [i \in Id |-> None]
  /\ graph = InitGraph
  /\ landed = [i \in Id |-> 0]
  /\ pc   = [s \in Session |-> "idle"]
  /\ cur  = [s \in Session |-> None]
  /\ job  = [s \in Session |-> None]
  /\ held = [s \in Session |-> None]
  /\ base = [s \in Session |-> None]

-----------------------------------------------------------------------------
(* The session's side of a step. *)

Goto(s, from, to) == pc[s] = from /\ pc' = [pc EXCEPT ![s] = to]

\* The session is done with its call (or its process is gone).
Leave(s) ==
  /\ pc'   = [pc EXCEPT ![s] = "idle"]
  /\ cur'  = [cur EXCEPT ![s] = None]
  /\ job'  = [job EXCEPT ![s] = None]
  /\ held' = [held EXCEPT ![s] = None]
  /\ base' = [base EXCEPT ![s] = None]

-----------------------------------------------------------------------------
(* submit *)

Filed == {i \in Id : status[i] # "absent"}
Twin(c, d) == DedupKey(c) = DedupKey(d)

\* Mutant: rejected rows do not count as filed.
KeyTakenByLive(c) == \E i \in Filed : status[i] # "rejected" /\ Twin(change[i], c)

\* A committed row violates uq_proposals_dedup for c.
KeyTaken(c) == \E i \in Filed : Twin(change[i], c)

\* Mutant: the failed submit is not rolled back before it is filed again.
InsertingUntilRefiled == {a \in Agent : pc[a] \in {"flushed", "writing", "unfiled"}}

\* Agents whose INSERT is flushed and not yet committed.
Inserting == {a \in Agent : pc[a] \in {"flushed", "writing"}}

\* Mutant: no unique constraint, only the dedup SELECT.
KeyUnlocked(c) == c \notin Change

\* Postgres makes an INSERT wait for the uncommitted one of the same key.
KeyLocked(c) == \E a \in Inserting : Twin(job[a], c)

FreshId(i) == status[i] = "absent" /\ \A a \in Inserting : cur[a] # i

\* The dedup SELECT finds no row. (When it finds one, submit returns it.)
Check(a, c) ==
  /\ Goto(a, "idle", "checked")
  /\ ~KeyTaken(c)
  /\ job' = [job EXCEPT ![a] = c]
  /\ UNCHANGED <<rowVars, cur, held, base>>

\* db.add and db.flush: the INSERT passes the unique constraint.
Flush(a, i) ==
  /\ Goto(a, "checked", "flushed")
  /\ ~KeyLocked(job[a]) /\ ~KeyTaken(job[a])
  /\ FreshId(i)
  /\ cur' = [cur EXCEPT ![a] = i]
  /\ UNCHANGED <<rowVars, job, held, base>>

\* Another session's row came between the SELECT and the INSERT: the
\* IntegrityError leaves submit and ends the agent's run.
FlushConflict(a) ==
  /\ pc[a] = "checked"
  /\ ~KeyLocked(job[a]) /\ KeyTaken(job[a])
  /\ Leave(a)
  /\ UNCHANGED rowVars

FilePending(a) ==
  /\ pc[a] = "flushed" /\ job[a] \notin AutoApplied
  /\ status' = [status EXCEPT ![cur[a]] = "pending"]
  /\ change' = [change EXCEPT ![cur[a]] = job[a]]
  /\ Leave(a)
  /\ UNCHANGED <<rollbackData, graph, landed>>

-----------------------------------------------------------------------------
(* _apply, for a submit that auto-applies and for approve *)

\* Where the except branch of _apply goes: the flushed row of a submit is
\* rolled back with the rest, the row of an approve is there to be marked.
OnError(s) == IF s \in Agent THEN "unfiled" ELSE "failing"

\* The session is about to call handler.validate.
Applying(s) ==
  \/ s \in Agent /\ pc[s] = "flushed" /\ job[s] \in AutoApplied
  \/ s \in Reviewer /\ pc[s] = "approve"

\* validate and apply read the graph and compute their rows from it.
Apply(s) ==
  /\ Applying(s)
  /\ HandlerValidates(job[s], graph)
  /\ pc' = [pc EXCEPT ![s] = "writing"]
  /\ base' = [base EXCEPT ![s] = graph]
  /\ UNCHANGED <<rowVars, cur, job, held>>

ApplyRaises(s) ==
  /\ Applying(s)
  /\ ~HandlerValidates(job[s], graph)
  /\ pc' = [pc EXCEPT ![s] = OnError(s)]
  /\ UNCHANGED <<rowVars, cur, job, held, base>>

\* Mutant: the verb is written for the status.
FinalStatusVerb(s) == IF s \in Agent THEN "submit" ELSE "approve"

FinalStatus(s) == IF s \in Agent THEN "auto_applied" ELSE "applied"

\* One transaction: the graph rows, the snapshot and the status.
CommitApply(s) ==
  /\ Goto(s, "writing", "bump")
  /\ HandlerStorable(job[s], base[s], graph)
  /\ graph' = HandlerWrites(job[s], base[s], graph)
  /\ status' = [status EXCEPT ![cur[s]] = FinalStatus(s)]
  /\ change' = [change EXCEPT ![cur[s]] = job[s]]
  /\ rollbackData' = [rollbackData EXCEPT ![cur[s]] = HandlerSnapshot(job[s], base[s])]
  /\ landed' = [landed EXCEPT ![cur[s]] = @ + 1]
  /\ UNCHANGED <<cur, job, held, base>>

\* A constraint refuses the rows, or one of them is gone.
CommitRaises(s) ==
  /\ Goto(s, "writing", OnError(s))
  /\ ~HandlerStorable(job[s], base[s], graph)
  /\ UNCHANGED <<rowVars, cur, job, held, base>>

\* get_cache().bump("graph"), after the commit but inside the try.
Bump(s) ==
  /\ pc[s] = "bump"
  /\ Leave(s)
  /\ UNCHANGED rowVars

\* The except branch takes it for a failed apply: db.get finds the row, which
\* is committed by now, of an auto-applying submit too.
BumpRaises(s) ==
  /\ CacheMayFail
  /\ Goto(s, "bump", "failing")
  /\ UNCHANGED <<rowVars, cur, job, held, base>>

\* The submit was rolled back: file a new row, as failed.
Refile(a, i) ==
  /\ pc[a] = "unfiled"
  /\ ~KeyLocked(job[a]) /\ ~KeyTaken(job[a])
  /\ FreshId(i)
  /\ status' = [status EXCEPT ![i] = "failed"]
  /\ change' = [change EXCEPT ![i] = job[a]]
  /\ Leave(a)
  /\ UNCHANGED <<rollbackData, graph, landed>>

RefileConflict(a) ==
  /\ pc[a] = "unfiled"
  /\ ~KeyLocked(job[a]) /\ KeyTaken(job[a])
  /\ Leave(a)
  /\ UNCHANGED rowVars

\* The row that is there becomes failed, whatever it is now.
RecordFailure(s) ==
  /\ pc[s] = "failing"
  /\ status' = [status EXCEPT ![cur[s]] = "failed"]
  /\ Leave(s)
  /\ UNCHANGED <<change, rollbackData, graph, landed>>

-----------------------------------------------------------------------------
(* approve, reject, rollback *)

\* Mutants: a rolled-back row can be rolled back again; a failed one approved.
AllowedTwice(verb) == IF verb = "rollback" THEN Applied \union {"rolled_back"} ELSE {"pending"}
AllowedRetry(verb) == IF verb = "rollback" THEN Applied ELSE {"pending", "failed"}

Allowed(verb) == IF verb = "rollback" THEN Applied ELSE {"pending"}

\* _get_in_status: a plain read of the row, no lock.  (A row in another
\* status, or an applied one without snapshot, raises and changes nothing.)
GetInStatus(r, i, verb) ==
  /\ Goto(r, "idle", verb)
  /\ status[i] \in Allowed(verb)
  /\ verb = "rollback" => rollbackData[i] # None
  /\ cur'  = [cur EXCEPT ![r] = i]
  /\ job'  = [job EXCEPT ![r] = change[i]]
  /\ held' = [held EXCEPT ![r] = rollbackData[i]]
  /\ UNCHANGED <<rowVars, base>>

Reject(r) ==
  /\ pc[r] = "reject"
  /\ status' = [status EXCEPT ![cur[r]] = "rejected"]
  /\ Leave(r)
  /\ UNCHANGED <<change, rollbackData, graph, landed>>

\* handler.rollback reads the graph and computes the rows to restore.
Rollback(r) ==
  /\ Goto(r, "rollback", "reverting")
  /\ HandlerUndoable(held[r], graph)
  /\ base' = [base EXCEPT ![r] = graph]
  /\ UNCHANGED <<rowVars, cur, job, held>>

\* (The bump that follows touches no row, whether or not it raises.)
CommitRollback(r) ==
  /\ pc[r] = "reverting"
  /\ HandlerUndoStorable(held[r], base[r], graph)
  /\ graph' = HandlerUndo(held[r], base[r], graph)
  /\ status' = [status EXCEPT ![cur[r]] = "rolled_back"]
  /\ landed' = [landed EXCEPT ![cur[r]] = @ - 1]
  /\ Leave(r)
  /\ UNCHANGED <<change, rollbackData>>

\* The handler's error leaves rollback: no status changes, nothing is written.
RollbackRaises(r) ==
  /\ \/ pc[r] = "rollback" /\ ~HandlerUndoable(held[r], graph)
     \/ pc[r] = "reverting" /\ ~HandlerUndoStorable(held[r], base[r], graph)
  /\ Leave(r)
  /\ UNCHANGED rowVars

-----------------------------------------------------------------------------
\* The process dies between two steps: its open transaction is rolled back.
Crash(s) ==
  /\ pc[s] # "idle"
  /\ Leave(s)
  /\ UNCHANGED rowVars

\* What a session goes on to do once it has begun.
AgentStep(a) ==
  \/ \E i \in Id : Flush(a, i) \/ Refile(a, i)
  \/ FlushConflict(a) \/ FilePending(a) \/ RefileConflict(a)

ReviewerStep(r) ==
  \/ Reject(r) \/ Rollback(r) \/ CommitRollback(r) \/ RollbackRaises(r)

ApplyStep(s) ==
  \/ Apply(s) \/ ApplyRaises(s) \/ CommitApply(s) \/ CommitRaises(s)
  \/ Bump(s) \/ BumpRaises(s) \/ RecordFailure(s)

Proceed(s) ==
  \/ s \in Agent /\ AgentStep(s)
  \/ s \in Reviewer /\ ReviewerStep(s)
  \/ ApplyStep(s)

\* What a session may begin.
Begin(s) ==
  \/ s \in Agent /\ \E c \in Change : Check(s, c)
  \/ s \in Reviewer /\ \E i \in Id, verb \in Verb : GetInStatus(s, i, verb)

Next == \E s \in Session : Begin(s) \/ Proceed(s) \/ Crash(s)

Spec == Init /\ [][Next]_vars

\* A session that has begun goes on (it is a running process, and Postgres
\* wakes the INSERT that waited); processes do not die for ever.
FairSpec ==
  /\ Spec
  /\ \A s \in Session : WF_vars(Proceed(s))
  /\ <>[][~\E s \in Session : Crash(s)]_vars

-----------------------------------------------------------------------------
(* What the engine promises. *)

\* "One proposal per dedup key": agents that race between the dedup SELECT,
\* the INSERT, an auto-apply that fails and its re-filing never leave two
\* committed rows for one key.
OneRowPerKey ==
  \A i, j \in Filed : i # j => ~Twin(change[i], change[j])

\* A proposal's change has been committed once and not undone exactly when
\* its row says applied or auto_applied: no failed, rejected, pending or
\* rolled-back row has left anything in the graph, wherever a session dies.
AppliedIffLanded ==
  \A i \in Id : landed[i] = IF status[i] \in Applied THEN 1 ELSE 0

\* The engine implements the promised lifecycle.
Promise == INSTANCE ProposalLifecycle
LifecycleKept == Promise!Spec

\* "Rejection is sticky": once a row is rejected, no submit that was already
\* under way and no later one lands a change of the same dedup key.
RejectionSticky ==
  [][\A i, j \in Id :
       status[i] = "rejected" /\ change'[j] # None /\ Twin(change'[j], change[i])
         => landed'[j] <= landed[j]]_vars

\* No two sessions wait for each other: every call that began ends.
EveryCallEnds == \A s \in Session : pc[s] # "idle" ~> pc[s] = "idle"
=============================================================================
