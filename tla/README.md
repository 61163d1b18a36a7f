# Lorekeeper in TLA+

TLA+ models of the parts of Lorekeeper that keep state under concurrency and
failure, TLC configurations that check them on small instances, and TLAPS
proofs for every instance. All paths are relative to the repository.

## 1. The system

Connectors copy documents from GitHub, Slack and a dozen other sources into
`raw_documents`; an LLM extracts nodes and edges from each document; the
resolver upserts them into the graph (`nodes`, `edges`, `node_mentions`).
Maintenance agents scan the graph and file *proposals*; people (or a confidence
threshold) apply them, and can roll them back. An MCP server answers questions
from the graph through a cache. Every actor is a process with a database session
of its own (READ COMMITTED, `autoflush=False`, `expire_on_commit=False`,
`app/db/session.py`); nobody takes a row lock. What they share is Postgres and,
with `CACHE_BACKEND=redis`, the cache.

| Component | State | Operations | What is hard | What makes it correct |
|---|---|---|---|---|
| Proposal engine (`proposals/engine.py`) | `proposals` rows | submit, approve, reject, rollback | check-then-act on rows other sessions change; a failure in the middle; a crash anywhere | one row per dedup key, lifecycle kept, graph in step with the row, rejection sticky, no call waits for ever |
| Graph handlers (`proposals/{merge,edge_add,hygiene,stale,conflict}.py`) | `nodes`, `edges`, `node_mentions` | validate, apply, rollback of each kind | folding colliding rows; snapshots; rollbacks out of order | no fact lost, alias chains end, a snapshot undoes its change |
| Ontology handlers (`proposals/schema_types.py`) | ontology tables | validate, apply, rollback, file_unmapped | a failing auto-apply inside an ingestion run | drift is filed once |
| Agents (`agents/`) | none (importance writes node properties) | scan | rescans; a graph that changes between filing and approval | each finding filed once, and accepted by its handler; sourced nodes survive merges |
| Review front ends (`review.py`, `review_tui.py`, MCP tools) | rows loaded on screen | list, approve, reject, rollback, approve-all | acting on rows loaded long ago | as the engine |
| Ingestion (`pipeline.py`, `connectors/`) | `raw_documents`, `ingestion_runs.cursor`, `extracted_hash` | fetch, upsert, skip, extract, resolve | two commits per run; cursors rounded to seconds or minutes; lists cut to `max_items` from either end; pages that shift between two requests; webhooks beside it | no document passed over in silence; the graph catches up |
| Webhooks (`main.py`) | `raw_documents` | store | late, lost, reordered deliveries | the pipeline still extracts |
| Resolver (`ontology/resolver.py`) | the graph | resolve_document | races of identity upserts, merges underneath | one node per identity, evidence on canonical nodes |
| Read path (`mcp/server.py`, `repositories/graph.py`, `cache/`) | cache entries, versions | the read tools | stale answers; several statements per answer; limits | answers true at some moment of the call, none older than a TTL or a bump; paths shortest, exports complete |
| Access control (`security/`) | grants, audit log, limiter buckets | resolve principal, filter, audit | grants change beside cached answers; an audit insert may fail | nothing invisible returned (three reads do, finding 6) |
| Jobs (`backup.py`, `export.py`, `backfill_embeddings.py`, `digest_delivery.py`) | files | run | - | idempotent |

`PROJECT.json` lists all of them with their status, and the hazards with their lines.

## 2. Modules

| Module | Models | Composes / refines |
|---|---|---|
| `ProposalLifecycle` | what the queue promises: the lifecycle of a row and when its change is in the graph (`db/models/proposal.py`) | abstract specification |
| `ProposalEngine` | `engine.py`, many sessions, each method split at its reads, flushes and commits | implements `ProposalLifecycle` (`LifecycleKept`) |
| `GraphHandlers` | the handlers as functions of the tables, with the schema's constraints | parameter of `ProposalEngine` in `MCProposalEngine`; extended by `GraphMaintenance` and `Resolver` |
| `Agents` | what each agent's scan finds in a graph, and its dedup keys | extends `GraphHandlers` |
| `GraphMaintenance` | scans, approvals and rollbacks in any order, and the local connector's reconciliation beside them | composes `Agents` and `GraphHandlers` |
| `Connectors` | one fetch of each of the eleven connectors that fetch anything; the listings that three of them read page by page | - |
| `Ingestion` | `run_source` over any connector, beside the webhooks and a moving source | extends `Connectors` |
| `Resolver` | `resolve_document`, one document after the other, while merges of `GraphHandlers` are approved and rolled back | extends `GraphHandlers` |
| `GraphReads` | the queries of `GraphRepository`, grants and the visibility rule, as operators of a graph | - |
| `ReadPath` | the thirteen read tools, statement by statement, the cache, writers and restarts | extends `GraphReads` |
| `...Proofs` | theorems about the module of that name; `GraphReadsProofs` has those properties of `ReadPath` that are about single queries and exports | extend it; `GraphMaintenanceProofs` and `ResolverProofs` also `GraphHandlersProofs`, `GraphReadsProofs` also `ReadPathProofs` |
| `InductionLemmas` | induction, sums and greatest elements, for the proofs | extended by them |
| `MC...` | instances for TLC | - |

### ProposalEngine

`status`, `change`, `rollbackData` are columns of `proposals`; `graph` is the
committed graph; `landed` counts, per row, commits of its change less rollbacks
(history). A session has `pc` (where it is in its call), `cur` (its row), `job`
(the payload), `held` (the snapshot it read), `base` (the graph its handler
read). A method is split exactly where other sessions can get in between:

- `submit`: `Check` (the dedup SELECT), `Flush` / `FlushConflict` (the INSERT
  and the unique index, which makes a second INSERT of an uncommitted key wait),
  then `FilePending` or the apply steps.
- `_apply`: `Apply` / `ApplyRaises` (validate and apply read the graph),
  `CommitApply` / `CommitRaises` (the rows go over what the graph is by then;
  a constraint may refuse them), `Bump` / `BumpRaises`, and the except branch:
  `RecordFailure` when the row is there, `Refile` / `RefileConflict` when the
  rollback took it away.
- `approve`, `reject`, `rollback`: `GetInStatus`, then `Apply...`, `Reject`,
  or `Rollback`, `CommitRollback`, `RollbackRaises`.
- `Crash`: the process dies, its transaction is rolled back.

Handlers are parameters: validation, the rows written, the snapshot. The writes
are computed from `base` and land on the graph of the commit, which is what
READ COMMITTED and the ORM's UPDATE-by-primary-key do.

### GraphHandlers, Agents and GraphMaintenance

The tables are functions from ids to rows or `None`; there is one relationship
type, `weight` stands for everything a fold combines, and `summary` is one more
key of `properties`. `Constraints` has the foreign keys and the two identity
constraints; `DeleteNode` has CASCADE and SET NULL.

`Agents` has one operator per scan (`DuplicateFound`, `MissingEdgeFound`,
`OrphanFound`, `WeakEdgeFound`, `QuietFound`, `ConflictFound`), the survivor
dedup picks (`Outranks`) and the key each finding is filed under. Similarity
scores are relations between nodes (`Similar`, `Close`, `Weak`, `Quiet`). A pair
the LLM judge rules out is a filed pair nobody approves; what decides between
two sourced or two derived nodes (mentions, age) may be either way by the time
they are filed.

`GraphMaintenance` has `Scan` (files what is found and has no row yet),
`Approve`, `ApproveFails` and `Rollback` (whole proposals, one at a time) and
`Reconcile`, the local connector's `reconcile_wikilinks`: a stub document that a
link made is folded into its file, by copies and a DELETE, without a proposal
(one stub per step here; the code commits all of a run's at once). dedup looks its
keys up without the kind, so that an edge filed for a pair keeps the pair's merge
from being filed (`AlreadyFiled`). As history it keeps the graph each change found
and left. `RootOf` has no cap of 16 hops (`resolver.py:196`): the instances have
fewer nodes.

### Connectors and Ingestion

Upstream, an item has a `version`, a place in the order of creation (`serial`)
and a `stamp`: what the source filters by (`updated_at`, a Slack `ts`, a mail's
UID). Several writes can share a stamp. `Connectors` says, for each connector and
cursor, which items are listed (at or after the cursor, or strictly after; after
the cursor's minute), which `max_items` keeps (newest or oldest first, by which
key), which become documents, and the next cursor with its rounding; results an
API may order either way are sets of results.

GitHub, Jira and Confluence ask for pages by their place in the listing, and other
people write between two requests. So their fetch is not one step: `StartPaging`,
a `ReadPage` per request, of either of GitHub's two listings in any order, and
`Collect`, which takes the cursor from all that came. `reading` is the fetch under
way: how many results each listing has had, and in which version. `Pages` is what
the next request may bring: the items from the offset on, *where they stand by then*;
an item met twice is one document with its later content (the upsert's order).
GitHub drops pull requests among the issues only after counting them, and ends the
pull requests at the first older one (`Standing`, `LastPage`). The other connectors
follow page tokens, or have one page (Zoom has only its first, `PageSize`), and
fetch in one step, `Fetch`, from `Undisturbed` or the connector's own operator.

`raw_documents` has `hash` and `extracted`; `cursor` is that of the newest
completed run; `known` is the version the graph speaks of. After the fetch come
`Store` (upserts and cursor in one commit, and the choice of what to extract; the
LLM writes nothing), `Resolve` once per document (stamp and graph in one commit)
and `Finish`; `Fail` may come anywhere. `Deliver` is the GitHub or Jira webhook, with
content as old as the event. Three history variables name the ways to lose an item:
`cut` off by `max_items` before the new cursor, `left` in a failed batch or
download, and `slipped`: moved, by a write between two requests, to where the fetch
has been already. Each ends with the item's next edit or extraction.

### Resolver

The graph of `GraphHandlers` with one column more: the entity a node was made
for (natural key, or name and embedding; `Alike` are the thresholds of
`_find_duplicate`, and which of several matches is closest is any of them).
`tx` is the open transaction: its rows lie over the committed tables (`View`),
and a statement sees both. `Begin`, then per extracted node `UpsertSourced` or
`UpsertDerived` and `RecordMention`, per edge `ResolveEdge`, then `Commit`;
`Abort` at any point. `Approve` and `Rollback` of a merge come between any two
of these, except where they would touch a row the transaction has updated or a
unique key it has inserted (`NoWait`): there Postgres makes them wait, and they
happen after the commit (and read again then; the code keeps what it had read). `_find_duplicate`, `_canonical_id` and `_enrich_node`
are one step, since what a merge between them could change it can also change
before the mention. `seen` and `told` (history) are what resolutions recorded,
`undone` the nodes of rolled-back merges.

### GraphReads and ReadPath

`GraphReads` translates `GraphRepository` and `security/visibility.py`: each
operator is one SQL statement over one committed graph. The vector and
full-text orders are given by the query; an ORDER BY that leaves ties open is a
choice of the rows under the LIMIT. The recursive walk is a function of its
depth, with its cycle mark; the visibility filter exists twice, as in the code:
once for the ORM (`DocClause`, `VisibleNodes`), once as the text inside the walk
(`VisibilityHolds`).

`ReadPath` runs the tools. A call has its `principal`, the cache `version` it
took, its statements still to run (`todo`) and its `answer`, with the range of
commits it was read from (`since`, `until`). `Begin`, `LookUp`, one action per
tool for the first statement, `Query` for each further one, `Deepen` for the next
layer of an export, `Audit`, `Fill`, `End`; `CacheRaises` for Redis. Around them
`Commit`, `Bump` or `SkipBump` of the writers (the pipeline's process, and the
MCP server's own approvals), `Regrant`, `Tick` and `Restart`. `backend` is
chosen once: with `memory` only the MCP server's own bump reaches its cache.
Entries under a version that no call can ask for any more are dropped in the
model; `make_key` includes the version, so nobody could find them.

Three reads do not go through the visibility rule: the applied proposals of
`get_recent_changes` (`named`: the nodes their lines name), the degree in
`get_node_details` (`counted`: its edges; both `ReadUnscoped`) and the documents
of `get_node_timeline` (`NodeStory`). `AnswersTrue` is about what the queries list
under the rule, at which moment they may list it and to whom the cache may show it
again; `RowsFiltered` is what the server says of every tool, and fails (finding 6).

Two more things the model has because the code has them: with RBAC on, no token
makes a superuser, so the server's review tools refuse everyone (`Reviewer`);
and an audit insert that fails rolls the session back, which expires the loaded
rows, so that tools that render after the session is closed fail although
`audit.py:3-5` says the result still returns (`RendersDetached`).

## 3. Runs

| Run | Instance | Shows |
|---|---|---|
| `engine` | 2 agents, 1 reviewer, 3 row ids, 4 changes with 3 dedup keys over 2 nodes and 2 edges, a cache that does not raise | `TypeOK`, `OneRowPerKey`, `AppliedIffLanded`, `RejectionSticky`, and `LifecycleKept` (refinement) |
| `engine_live` | 2 agents, 1 reviewer, 2 ids and keys, a cache that may raise, fairness | `EveryCallEnds` |
| `engine_race` | 2 reviewers | *violated*: `AppliedIffLanded` (finding 1) |
| `engine_redis` | a cache that may raise | *violated*: `AppliedIffLanded` (finding 2) |
| `graph` | 3 starting graphs of up to 4 nodes, 4 edges and 4 mentions, an id of each free, 8 changes of all kinds, 3 approvals | `TypeOK`, `AliasForest`, `SourcedSurvives`, `FindingsApply`, `MergeKeepsFacts`, `StubKeepsFacts`, `Reversible` |
| `graph_alias` | two accounts, one an orphan: a merge and a removal | *violated*: `ExactUndo` (finding 3) |
| `ingestion` | each of 11 connectors; 3 items, 2 per fetch, 1 per page, 3 writes, 3 ticks of which 2 share a rounded unit, webhooks, 1 failure, fairness | `TypeOK`, `SkipIsSound`, `NothingPassedOver`, `CutIsListedAgain`, `Converges` |
| `ingestion_force` | GitHub, 2 pull requests, forced runs | *violated*: `ForceReextracts` (finding 4) |
| `resolver` | 3 nodes and 2 free ids, 5 entities (2 accounts, a concept with two spellings, a team), 4 extractions from 2 documents, 2 merges, 3 resolutions | `TypeOK` (with the constraints, open transaction included), `OneNodePerEntity`, `EvidenceKept`, `FactsKept` |
| `resolver_alias` | documents of one account, whose node a merge makes an alias | *violated*: `SurvivorGetsAll` (finding 5) |
| `reads` | 4 nodes, 4 edges, 3 documents; 4 workloads of 1 or 2 callers; both caches; RBAC on and off; 3 kinds of commit, 2 writers | `TypeOK`, `AnswersTrue`, `FreshAfterBump`, `StaleDies`, `ExportComplete`, `PathsAreShortest`, `HybridFavoursBoth` |
| `reads_scope` | the same graph; one caller of `get_recent_changes`, one commit | *violated*: `RowsFiltered` (finding 6) |

**Bounds.** `Id` (rows): two sessions race for one key with two ids; the third
lets a rejected or failed row of another key stand beside them. In
`engine_live` there are as many ids as keys: fewer, and a session could wait for
an id, which the database never makes anyone do. `MaxApplied` (`graph`): three approvals reach a merge on top
of a merge on top of another change, and every order of their rollbacks.
The three starting graphs are a dense one of derived nodes (edges and mentions
that fold, a link that becomes a loop), a sparse one with two accounts and an
orphan, and a vault with a wikilink's stub that is also the survivor of a
possible merge; `Fresh` keeps one id of each table for the copies of
`Reconcile` (there and in `resolver` an action that inserts a row waits for a free
id, which the code never has to). `MinMentions` is 1, so that a missing edge can be found at all.
`MaxItems`, `PageSize`, `MaxEdits`, `MaxClock`, `MaxFailures`, `Grain`
(`ingestion`): three items with two per fetch are cut; with one
per page a fetch takes two requests, and a write between them moves the third item on
to the first page, or changes the list that GitHub has already given; three writes in three
ticks, two of which share a minute (or second), give an edit in the cursor's
unit, an edit behind a fetch, and an item behind the cursor; one failure hits
every point of a run, and a second would meet the same states again. One item is
an issue, one has no text (`Issue`, `Mute`). A webhook may bring any
version the item has had, at any time. Forced runs are only in `ingestion_force`, where they matter.
`MaxRuns` (`resolver`): three resolutions write before, during and after a merge,
and re-ingest a document whose evidence a merge has moved. `Workloads` (`reads`): one caller of `get_node_neighbors` over two
commits and two callers of `semantic_search` over one are where fills, bumps and
each other's entries race; exports and `ask`, the tools of most statements, meet
two commits; the other tools, whose answers are never shared, meet one commit.
With RBAC on, everyone is alice, whose grants shrink once (`Regrant`), so
that an answer cached under the old scope meets a caller with the new one.
`MaxCommits` is two: an answer from before, between and after. `Limit` 2 and
`MaxEdges` 3 are below what the graph has, `ExportDepth` 2 has an inner layer,
`DepthCap` 3 is the longest simple path. `TTL` 2 ages an entry before it expires.

**Deadlock** is checked in `ingestion` and `reads`. In the engine, graph and resolver runs a
behaviour may end, when every change is filed and decided; that no session is left
waiting in the middle of a call is `EveryCallEnds`.

**Fairness.** `ProposalEngine`: a session that has begun goes on
(weak fairness of `Proceed` per session: it is a running process, and Postgres
wakes the INSERT that waited when the other transaction ends), and crashes
eventually stop. No fairness on beginning a call. `Ingestion`: weak fairness of the pipeline (the
scheduler loops for ever, `app/scheduler.py`); none on edits or on webhook
deliveries, which may be lost. `Converges` excepts a source whose fetch is cut
and leaves the cursor where it is (`Stuck`): more items than `max_items` in one
minute, or in a source that has no cursor. `ReadPath`: time passes (weak fairness
of `Tick`), and nothing else: `StaleDies` needs neither readers nor bumps.

### Findings

1. **Two reviewers** (`engine_race`). `_get_in_status` reads without a lock and
   the later UPDATE does not test the status: approve and reject of one proposal
   can both succeed. The row ends `rejected`, the change is in the graph, and
   nobody can roll it back. The window is long for `approve-all` and the TUI,
   whose rows were loaded earlier (`expire_on_commit=False`).
2. **Redis** (`engine_redis`). `bump` raises after the commit, inside the `try`:
   the committed change is marked `failed` and cannot be rolled back.
3. **Removed alias** (`graph_alias`). The snapshot of `node_removal` lacks
   `canonical_node_id`. An orphan account is filed for removal and for a merge;
   the merge is approved first, then the removal, and its rollback makes the
   account canonical again, with a merge nobody can roll back.
4. **`--force`** (`ingestion_force`). The connector only returns what changed
   since the cursor, so force cannot reach documents a failed run left behind.
5. **Merged accounts** (`resolver_alias`). `_upsert_sourced_node` does not follow
   `canonical_node_id`: later mentions and edges stay on the alias. Nothing is
   lost for who reads through the chain (`EvidenceKept`, `FactsKept`), but the
   survivor's own rows are not all there is.
6. **Reads past the visibility rule** (`reads_scope`). With RBAC on, every tool's
   results are said to be row-filtered to the caller's grants. `get_recent_changes`
   prints the applied proposals, with the names of merged nodes, to every caller. In
   the same instance `RowsFiltered` also fails for `get_node_details` (a degree
   counts edges to nodes out of scope) and `get_node_timeline` (documents out of
   scope), each as the only tool called, and holds for the ten other tools.

## 4. Proofs

The theorems hold for every value of the constants that the named assumptions
admit (TLC evaluates them on the runs' instances). "Assumes" lists those a
theorem needs beyond the typing ones.

| Module | Theorem | Statement | Assumes |
|---|---|---|---|
| `ProposalEngineProofs` | `TypeCorrect` | `Spec => []TypeOK` | - |
| | `KeyCorrect` | `Spec => []KeyInv` | - |
| | `OneRow` | `Spec => []OneRowPerKey` | - |
| | `Landed` | `Spec => []AppliedIffLanded` | one reviewer, a cache that does not raise |
| | `KeepsLifecycle` | `Spec => LifecycleKept` | the same |
| | `StickyRejection` | `Spec => RejectionSticky` | the same |
| `GraphHandlersProofs` | `UndoRestores` | undo of an accepted change over the graph it left gives back the graph it found | not the removal of a merged alias |
| `GraphMaintenanceProofs` | `GraphTypeCorrect` | `Spec => []TypeOK` | `GraphsAssumption`, `KindsAssumption`, `NewIdsAssumption` |
| | `AliasesEnd` | `Spec => []AliasForest` | the same, finitely many nodes |
| | `FindingsStored` | `Spec => []FindingsApply` | the same, a pair is two nodes (`PairsAssumption`) |
| | `RollbackRestores` | `Spec => []Reversible` | as `GraphTypeCorrect` |
| | `MergesKeepFacts` | `Spec => MergeKeepsFacts` | the same, finitely many edges |
| | `StubsKeepFacts` | `Spec => StubKeepsFacts` | as `AliasesEnd` |
| | `SurvivorSourced` | `Spec => []SourcedSurvives` | `GraphsAssumption`, `KindsAssumption` |
| | `FindingsValidate` | a finding of a scan of `g` passes its handler's validation on `g` | a pair is two nodes |
| `IngestionProofs` | `SkipsSound` | `Spec => []SkipIsSound` | - |
| | `IngestionTypeCorrect` | `Spec => []TypeOK` | finitely many items, a clock that starts (`DocAssumption`, `BoundAssumption`) |
| | `NoneIsPassedOver` | `Spec => []NothingPassedOver` | the same |
| | `CutsComeAgain` | `Spec => []CutIsListedAgain` | the same |
| `ReadPathProofs` | `AnswersHold` | `Spec => []AnswersTrue` | every table linked (`TablesAssumption`) |
| | `BumpsAreSeen` | `Spec => []FreshAfterBump` | the same |
| | `ReadsTypeCorrect` | `Spec => []TypeOK` | the same, finitely many nodes and writers |
| `GraphReadsProofs` | `WalksAreShortest` | `Spec => []PathsAreShortest` | every table linked, finitely many nodes |
| | `FusionFavoursBoth` | `Spec => []HybridFavoursBoth` | a ranking lists a node once (`RankingsAssumption`) |
| | `ExportsComplete` | `Spec => []ExportComplete` | every table linked, with finitely many edges; a depth of at least one (`BoundsAssumption`) |
| `ResolverProofs` | `ResolverTypeCorrect` | `Spec => []TypeOK` | a start without cycle or doubles (`InitGraphAssumption`), edges between a document's own nodes (`ExtractionAssumption`) |
| | `OneRowPerEntity` | `Spec => []OneNodePerEntity` | the same, a derived name matches itself (`AlikeAssumption`) |
| | `EvidenceStays` | `Spec => []EvidenceKept` | as `ResolverTypeCorrect` |
| | `FactsStay` | `Spec => []FactsKept` | the same |

The typing assumptions say what SQL does: NULL is no row and no id
(`NoneAssumption`, `NothingAssumption`), tables are finite (`NodeAssumption`,
`EdgesAssumption`, `NodesAssumption`), the rows of a
ranking are distinct nodes (`RankingsAssumption`), a `uuid4` is new (`NewIdsAssumption`), bounds are numbers.

### Induction over data

The provers cannot instantiate the library's induction theorems. `InductionLemmas`
states induction about *sets* instead: the finite subsets of a set are well-founded
under inclusion (`FiniteSetTheorems`), so a set of naturals that is closed has
them all (`NaturalInduction`), and so has a set of finite sets (`FiniteSetInduction`);
a proof applies them to the set of those numbers, or sets, that satisfy its claim.
On these rest `HopInduction` (along chains of merges), the facts about `RootOf`,
`Walk`, `Within`, `Ordered`, `Scale` and `Latest` (each unfolded once, into what it says
at the next number), and those about sums: a sum does not depend on the order
(`SumAnyLast`), values may be dropped if zero and carried from one element to
another (`SumZeros`, `SumFolds`), and one element adds up to its value (`SumFew`).

### The arguments

*One row per key.* `OneRowPerKey` alone is not inductive: a flushed INSERT is no
row yet. `KeyInv` adds `InsertsApart` (an insert under way clashes with no row
and no other insert, and has an id nobody uses) and `RowsHeld` (a reviewer works
on a row that exists).

*Landed.* Needs `ReadHolds`: what a session read of its row's status still holds
when it writes. That is false as soon as two reviewers exist, which is
finding 1, and the proof shows that it is the only thing that goes wrong there:
agents, crashes and refused commits do no harm. `~CacheMayFail` excludes finding
2 in the same way. From `ReadHolds` every step maps to a step of
`ProposalLifecycle` or to a stutter (`PromiseStep`), which gives `KeepsLifecycle`;
`AppliedIffLanded` is then kept by the lifecycle alone (`LandedStep`).
`StickyRejection` follows from `OneRowPerKey`: a row whose change lands is not the
rejected one, and no other row has its key.

*The graph.* `GraphInv` says of the tables that they meet every constraint and
that `canonical_node_id` makes no circle, of each applied change that it was valid
on tables like that and has the snapshot of those (`Recorded`), and of the id
of an edge not yet added that no table and no snapshot has it (`Unused`). The
handlers keep it, kind by kind: a valid merge meets every constraint
(`MergeStorable`), since the rows that move keep clear of each other and of those
that stay (`MovedDistinct`); a merge of two canonical nodes closes no circle
(`MergedForest`), and every other step only drops pointers (`FewerPointers`).
`UndoRestores` then gives `RollbackRestores`, and shows that the removal of a merged
alias (finding 3) is the only snapshot that is not enough. A rollback over *another*
graph may be refused or undo too much, but it keeps `GraphInv`: whole columns come
back as they were at apply time, so of two overlapping changes rolled back in the order
they were applied the second rollback brings the first change back. No run is about
that; `Rollback` has it.

*What a graph says.* A merge and a stub's reconciliation both move rows from one
node to another. `EdgesMoved` and `MentionsMoved` say that no row is lost by that
but a loop and none is made up; read where the two nodes are one, moved rows say
what they said (`MovedFacts`, `MovedEvidence`). Each folded edge has a target of its
own (`FoldsApart`), so that the weights add up (`MergeKeepsWeight`). A stub takes its
aliases' pointers along (SET NULL), so `StubKeepsFacts` reads them as nodes of their
own afterwards; with rows of their own, which rollbacks can give them, they are
not read as the file.

*Sourced survivors.* A merge is approved long after dedup chose its survivor, so
`SourcedSurvives` alone is not inductive. `RiseInv` adds `FiledRise` (a merge on
file still has a survivor that outranks its loser: no step changes a node's
source, `nodes.external_id`) and `SnapshotsOK` (what is rolled back is a change of a known
kind).

*Ingestion.* `SkipIsSound` compares `hash` and `extracted`, which webhooks and
runs write independently; it holds since stamp and graph share a commit
(`StampInv`). For `NothingPassedOver`, `AccountInv` says at each point of a run where
an item is that nobody has lost: listed again by the next fetch, in the graph, in
the fetch, or in the batch; and that a version in the pipeline's hands is the
newest, or else its item is listed again. While pages are read, `PageInv` says
where an item stands that has not slipped and was not met as it is: after all that was
met (`SearchInv`, one list by age), or on a later page or behind the cut of a list not
done (`ListsInv`, GitHub's two). The eleven connectors come down to
`FetchBrings` (what is listed is brought, cut off, or listed again) and to
`ChangeListed` (an edit is listed by every cursor taken before it, the rounding
included). `CutInv` adds that no two mails share a UID, no two threads a `ts`.

*Answers.* (Of what is read through the visibility rule.) `AnswerInv` says of each call, at every statement, what `AnswersTrue`
says at its end, with what the statements still to come are about (`TodoOK`), and
of each cache entry that it is true for *whoever* has the scope of its key: that is
why grants may change beside the cache. The walk's rows are paths over nodes that
its own visibility text admits (`WalkJoins`), and that text is the ORM's rule
(`VisibilityAgrees`).

*Freshness.* `FreshInv` says that the calls of one version are owed the same, that a
call of the current version is owed all that bumps have covered, and that the
entries of a version are no older than what its calls, present and to come, are
owed. So a late fill cannot answer a call that began after the bump.

*The resolver.* `TablesInv` is about what the transaction *sees* (`View`: its rows
over the committed ones), which meets the constraints and has one row per entity
at any time, merges beneath it included: they wait where they would not keep it
(`NoWait`). `HistoryInv` says that every pair recorded holds where the node now ends, for
the open transaction in what it sees (`Carries`), and (`MovesInv`) that what an applied
merge moved is still with its winner, or with a node of a merge rolled back: that
is what a rollback takes back, and no more. Rolled-back merges part nodes that were
one, so `undone` goes on to whatever their losers are merged into next.

*Walks.* The recursive query keeps whole paths and drops those that close a circle;
`Within` only counts hops. A path that is no circle stays within as many hops as it
has, and whatever is within k hops and not within k - 1 has such a path of length k,
built by adding the last hop to a path of its predecessor: it cannot be a circle, since
all nodes before are nearer. So the shortest path has as many hops as the target is
away, and a `LIMIT` over targets in that order leaves out only what is no nearer.

*Fusion.* `Score` divides a common multiple of the denominators, so each quotient is exact
(`ScaleDivides`) and a better rank scores more (`BetterRankScores`); a leg lists a node
once (`OrderedOnce`), so that its sum is one quotient (`LegFavours`). A node that neither
leg ranks lower and one ranks higher has the higher score, and comes first in any
ranking by score; the cut at the limit takes a prefix.

*Exports.* `ExportInv` says of an export that has read one graph so far: either it is full,
or it is `Expanding` layer k, that is, its nodes are those within k hops with those of
the next layer found so far, and of every node within k hops each edge that is seen is
in, or the query for it is still to come. A query leaves an edge out only where the cap is
reached (`ReadFills`); the layer that is done has the nodes within k + 1 hops
(`LayerDone`), and an export that ends early ends where one hop more reaches nothing
(`WithinStill`).

Only model-checked: liveness (`EveryCallEnds`, `Converges`, `StaleDies`), which is
out of the provers' reach, and what the runs that expect a violation refute.

## 5. Not modelled

- Of a fetch: what is read *after* the listing (comments, replies, downloads) is taken
  with the listing's version; pages asked for by a token are one step, since they go
  on where the last one ended; an item listed twice in two versions keeps the later.
  The zone in which a Jira or Confluence server writes and reads its times: the
  connectors drop it twice (`jira.py:83,115`, `confluence.py:75,102`), and the model's
  stamp is what the source wrote, read back in the same zone.
- Of `get_graph_stats`, the counts of proposals and stale nodes and the last runs.
- LLM calls, embeddings, extraction and text are opaque; formatting, screens and
  listings are output. Timestamps of `proposals` and the audit log decide nothing.
- `submit` with `dedup_key=None` is legal, but every caller in the repository
  gives a key.
- Column values of `Resolver` (`_enrich_node`'s properties, `GREATEST` of
  confidences), and edges with a dangling `temp_id`.
- Ontology handlers: rows of two lookup tables, guarded by foreign keys. A raise
  out of `file_unmapped` is `Ingestion`'s `Fail`.
- Of the agents: scores and thresholds, scan limits, the date in a staleness
  key, an exception dedup swallows. Importance is only a commit without a bump.
- A second pipeline process: the scheduler takes one source after the other;
  `/ingest` beside it, with its row locks and its overwritten cursor, is listed as a hazard.
- The Slack webhook's rows belong to a source no connector fetches, Notion's
  webhook only starts a run, and `gmeet`'s fetch raises `NotImplementedError`.
- HTTP retries keep no state between calls and either answer or raise. The rate
  limiter is a counter per window. The memory cache's purge at 1024 entries drops
  expired ones only.
- Tokens and signatures are cryptography. The listings `review_proposals`,
  `get_audit_log` and `get_connector_health` report tables as they are (the last
  one only sources that have run).
- Exports, backups, the digest and the demo are I/O. The backfill, as its command
  calls it, plans only nodes without a model stamp (`run_backfill` calls
  `plan_backfill` without `model_name`), so one stamped by an earlier model is
  not embedded again.

## 6. What could follow

1. `Resolver` with a second transaction under way: duplicates of derived nodes,
   and row locks taken in opposite order.
2. Column values: a module of the writers of `properties` (flags, importance,
   `_enrich_node`), each a read and a write of the whole document.
3. `HttpRetry` and `RateLimit`, where time and counters decide.
4. Proofs: the interleaved engine over `GraphHandlers` itself (its handlers are
   parameters of `ProposalEngine`), and two reviewers with a lock on the row, as
   finding 1 suggests.
