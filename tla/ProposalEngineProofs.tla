------------------------ MODULE ProposalEngineProofs ------------------------
(***************************************************************************)
(* What ProposalEngine promises for any number of sessions, rows and       *)
(* changes and for any handlers: the proofs use nothing of the Handler     *)
(* parameters.                                                             *)
(***************************************************************************)
EXTENDS ProposalEngine, TLAPS

-----------------------------------------------------------------------------
(* Types. *)

\* The initial values have their types: nothing filed, every session at rest.
LEMMA TypeInit == Init => TypeOK
  BY DEF Init, TypeOK, PC

\* Counting at an index keeps a function to the integers one.
LEMMA Counts ==
  ASSUME NEW f \in [Id -> Int], NEW i
  PROVE  /\ [f EXCEPT ![i] = @ + 1] \in [Id -> Int]
         /\ [f EXCEPT ![i] = @ - 1] \in [Id -> Int]
  <1>1. CASE i \in Id
    <2>1. f[i] \in Int /\ f[i] + 1 \in Int /\ f[i] - 1 \in Int
      BY <1>1
    <2> QED  BY <2>1
  <1>2. CASE i \notin Id
    <2>1. [f EXCEPT ![i] = @ + 1] = f /\ [f EXCEPT ![i] = @ - 1] = f
      BY <1>2
    <2> QED  BY <2>1
  <1> QED  BY <1>1, <1>2

\* Every action gives what it assigns a value of its type.
LEMMA TypeStep == TypeOK /\ [Next]_vars => TypeOK'
  <1> SUFFICES ASSUME TypeOK, [Next]_vars PROVE TypeOK'
    OBVIOUS
  <1> USE DEF TypeOK, PC, Status, Verb
  <1>1. CASE UNCHANGED vars
    BY <1>1 DEF vars, rowVars, sessVars
  <1>2. ASSUME NEW s \in Session, Begin(s)
        PROVE  TypeOK'
    <2>1. ASSUME NEW c \in Change, Check(s, c) PROVE TypeOK'
      BY <2>1 DEF Check, Goto, rowVars
    <2>2. ASSUME NEW i \in Id, NEW verb \in Verb, GetInStatus(s, i, verb) PROVE TypeOK'
      BY <2>2 DEF GetInStatus, Goto, rowVars
    <2> QED  BY <1>2, <2>1, <2>2 DEF Begin
  <1>3. ASSUME NEW s \in Session, AgentStep(s)
        PROVE  TypeOK'
    <2>1. ASSUME NEW i \in Id, Flush(s, i) PROVE TypeOK'
      BY <2>1 DEF Flush, Goto, rowVars
    <2>2. ASSUME NEW i \in Id, Refile(s, i) PROVE TypeOK'
      BY <2>2 DEF Refile, Leave
    <2>3. CASE FlushConflict(s)
      BY <2>3 DEF FlushConflict, Leave, rowVars
    <2>4. CASE FilePending(s)
      BY <2>4 DEF FilePending, Leave
    <2>5. CASE RefileConflict(s)
      BY <2>5 DEF RefileConflict, Leave, rowVars
    <2> QED  BY <1>3, <2>1, <2>2, <2>3, <2>4, <2>5 DEF AgentStep
  <1>4. ASSUME NEW s \in Session, ReviewerStep(s)
        PROVE  TypeOK'
    <2>1. CASE Reject(s)
      BY <2>1 DEF Reject, Leave
    <2>2. CASE Rollback(s)
      BY <2>2 DEF Rollback, Goto, rowVars
    <2>3. CASE CommitRollback(s)
      <3>1. landed' = [landed EXCEPT ![cur[s]] = @ - 1]
        BY <2>3 DEF CommitRollback
      <3>2. landed' \in [Id -> Int]
        BY <3>1, Counts, Zenon
      <3> QED  BY <2>3, <3>2 DEF CommitRollback, Leave
    <2>4. CASE RollbackRaises(s)
      BY <2>4 DEF RollbackRaises, Leave, rowVars
    <2> QED  BY <1>4, <2>1, <2>2, <2>3, <2>4 DEF ReviewerStep
  <1>5. ASSUME NEW s \in Session, ApplyStep(s)
        PROVE  TypeOK'
    <2>1. CASE Apply(s)
      BY <2>1 DEF Apply, rowVars
    <2>2. CASE ApplyRaises(s)
      BY <2>2 DEF ApplyRaises, OnError, rowVars
    <2>3. CASE CommitApply(s)
      <3>1. landed' = [landed EXCEPT ![cur[s]] = @ + 1]
        BY <2>3 DEF CommitApply
      <3>2. landed' \in [Id -> Int]
        BY <3>1, Counts, Zenon
      <3>3. FinalStatus(s) \in Status
        BY DEF FinalStatus
      <3> QED  BY <2>3, <3>2, <3>3 DEF CommitApply, Goto
    <2>4. CASE CommitRaises(s)
      BY <2>4 DEF CommitRaises, Goto, OnError, rowVars
    <2>5. CASE Bump(s)
      BY <2>5 DEF Bump, Leave, rowVars
    <2>6. CASE BumpRaises(s)
      BY <2>6 DEF BumpRaises, Goto, rowVars
    <2>7. CASE RecordFailure(s)
      BY <2>7 DEF RecordFailure, Leave
    <2> QED  BY <1>5, <2>1, <2>2, <2>3, <2>4, <2>5, <2>6, <2>7 DEF ApplyStep
  <1>6. ASSUME NEW s \in Session, Crash(s)
        PROVE  TypeOK'
    BY <1>6 DEF Crash, Leave, rowVars
  <1> QED  BY <1>1, <1>2, <1>3, <1>4, <1>5, <1>6 DEF Next, Proceed

\* Every variable keeps its type in every behaviour of the engine.
THEOREM TypeCorrect == Spec => []TypeOK
  BY TypeInit, TypeStep, PTL DEF Spec

-----------------------------------------------------------------------------
(* One row per dedup key. *)

\* What an agent's uncommitted INSERT may count on when it commits.
InsertsApart ==
  /\ \A a \in Inserting : cur[a] \in Id /\ status[cur[a]] = "absent" /\ ~KeyTaken(job[a])
  /\ \A a, b \in Inserting : a # b => cur[a] # cur[b] /\ ~Twin(job[a], job[b])

HasRow(s) ==
  \/ pc[s] \in Verb \union {"reverting", "failing", "bump"}
  \/ s \in Reviewer /\ pc[s] = "writing"

\* A session that works on a row knows a committed one, and its change.
RowsHeld ==
  \A s \in Session : HasRow(s) =>
    /\ cur[s] \in Filed
    /\ s \in Reviewer => change[cur[s]] = job[s]

KeyInv == OneRowPerKey /\ InsertsApart /\ RowsHeld

\* With no row filed and no insert under way the dedup keys are apart.
LEMMA KeyInit == Init => KeyInv
  <1> SUFFICES ASSUME Init PROVE KeyInv
    OBVIOUS
  <1>1. Filed = {} /\ Inserting = {}
    BY DEF Init, Filed, Inserting, Session
  <1>2. \A s \in Session : ~HasRow(s)
    BY DEF Init, HasRow, Verb
  <1> QED  BY <1>1, <1>2 DEF KeyInv, OneRowPerKey, InsertsApart, RowsHeld

\* A step that leaves the rows alone and lets s insert nothing and hold no row
\* it did not hold.
LEMMA KeyQuiet ==
  ASSUME TypeOK, KeyInv, NEW s \in Session, UNCHANGED rowVars,
         \A x \in Session \ {s} : pc'[x] = pc[x] /\ cur'[x] = cur[x] /\ job'[x] = job[x],
         \/ pc'[s] \in {"idle", "checked", "unfiled"}
         \/ /\ cur'[s] = cur[s] /\ job'[s] = job[s]
            /\ s \in Inserting' => s \in Inserting
            /\ HasRow(s)' => HasRow(s)
  PROVE  KeyInv'
  <1> USE DEF KeyInv
  <1>1. OneRowPerKey'
    BY DEF rowVars, OneRowPerKey, Filed, Twin
  <1>2. \A x \in Inserting' : x \in Inserting /\ cur'[x] = cur[x] /\ job'[x] = job[x]
    BY DEF Inserting, Session
  <1>3. InsertsApart'
    BY <1>2 DEF InsertsApart, KeyTaken, Filed, Twin, rowVars
  <1>4. \A x \in Session : HasRow(x)' => HasRow(x) /\ cur'[x] = cur[x] /\ job'[x] = job[x]
    BY DEF HasRow, Verb
  <1>5. RowsHeld'
    BY <1>4 DEF RowsHeld, Filed, rowVars
  <1> QED  BY <1>1, <1>3, <1>5

\* A step of s that writes one row i, with change c, and ends what s does on it.
LEMMA KeyWrite ==
  ASSUME TypeOK, KeyInv, NEW s \in Session, NEW i \in Id, NEW st \in Status, NEW c,
         status' = [status EXCEPT ![i] = st],
         change' = [change EXCEPT ![i] = c],
         \/ i \in Filed /\ c = change[i]
         \/ /\ status[i] = "absent" /\ ~KeyTaken(c)
            /\ \A a \in Inserting \ {s} : cur[a] # i /\ ~Twin(job[a], c),
         \A x \in Session \ {s} : pc'[x] = pc[x] /\ cur'[x] = cur[x] /\ job'[x] = job[x],
         s \notin Inserting',
         HasRow(s)' => cur'[s] = i /\ job'[s] = c
  PROVE  KeyInv'
  <1> USE DEF KeyInv
  <1>1. status'[i] # "absent" /\ change'[i] = c
    BY DEF TypeOK, Status
  <1>2. \A j \in Id \ {i} : status'[j] = status[j] /\ change'[j] = change[j]
    BY DEF TypeOK
  <1>3. Filed' = Filed \union {i}
    BY <1>1, <1>2 DEF Filed
  <1>4. \A j \in Filed \ {i} : ~Twin(change[j], c)
    BY DEF KeyTaken, OneRowPerKey, Filed, Twin
  <1>5. OneRowPerKey'
    BY <1>1, <1>2, <1>3, <1>4 DEF OneRowPerKey, Filed, Twin
  <1>6. \A x \in Inserting' :
          x \in Inserting /\ x # s /\ cur'[x] = cur[x] /\ job'[x] = job[x]
    BY DEF Inserting, Session
  <1>7. \A x \in Inserting \ {s} : cur[x] # i /\ ~Twin(job[x], c)
    BY DEF InsertsApart, Filed, KeyTaken, Twin
  <1>8. InsertsApart'
    <2>1. \A a \in Inserting' : cur'[a] \in Id /\ status'[cur'[a]] = "absent"
      BY <1>2, <1>6, <1>7 DEF InsertsApart
    <2>2. \A a \in Inserting' : ~KeyTaken(job[a])'
      BY <1>1, <1>2, <1>3, <1>6, <1>7 DEF InsertsApart, KeyTaken, Filed, Twin
    <2>3. \A a, b \in Inserting' : a # b => cur'[a] # cur'[b] /\ ~Twin(job[a], job[b])'
      BY <1>6 DEF InsertsApart, Twin
    <2> QED  BY <2>1, <2>2, <2>3 DEF InsertsApart
  <1>9. \A x \in Session \ {s} :
          HasRow(x)' => HasRow(x) /\ cur'[x] = cur[x] /\ job'[x] = job[x]
    BY DEF HasRow, Verb
  <1>10. RowsHeld'
    <2>1. \A x \in Session \ {s} : HasRow(x)' =>
            cur'[x] \in Filed' /\ (x \in Reviewer => change'[cur'[x]] = job'[x])
      BY <1>1, <1>2, <1>3, <1>9 DEF RowsHeld, Filed
    <2>2. HasRow(s)' => cur'[s] \in Filed' /\ change'[cur'[s]] = job'[s]
      BY <1>1, <1>3
    <2> QED  BY <2>1, <2>2 DEF RowsHeld
  <1> QED  BY <1>5, <1>8, <1>10

\* The two sorts of session differ, and a session that is about to write a row
\* is an inserting agent or a reviewer with a committed row.
LEMMA Writers ==
  ASSUME TypeOK, KeyInv, NEW s \in Session
  PROVE  /\ s \in Agent => s \notin Reviewer
         /\ pc[s] = "writing" /\ s \in Agent => s \in Inserting
         /\ pc[s] = "writing" /\ s \in Reviewer => cur[s] \in Filed /\ change[cur[s]] = job[s]
         /\ pc[s] \in {"failing", "reject", "reverting"} => cur[s] \in Filed
  BY SessionAssumption DEF KeyInv, RowsHeld, HasRow, Inserting, Session, Verb

\* Only filing and re-filing take a dedup key, and the unique index lets them do
\* so only where no committed row and no open insert holds it; the other steps
\* write a row that its session has already.
LEMMA KeyStep == TypeOK /\ KeyInv /\ [Next]_vars => KeyInv'
  <1> SUFFICES ASSUME TypeOK, KeyInv, [Next]_vars PROVE KeyInv'
    OBVIOUS
  <1>1. CASE UNCHANGED vars
    BY <1>1 DEF vars, rowVars, sessVars, KeyInv, OneRowPerKey, InsertsApart, RowsHeld,
                HasRow, Inserting, Filed, KeyTaken, Twin
  <1>2. ASSUME NEW s \in Session, Leave(s), UNCHANGED rowVars
        PROVE  KeyInv'
    BY <1>2, KeyQuiet DEF Leave, TypeOK
  <1>3. ASSUME NEW s \in Agent, NEW c \in Change, Check(s, c)
        PROVE  KeyInv'
    BY <1>3, KeyQuiet DEF Check, Goto, TypeOK, Session
  <1>4. ASSUME NEW s \in Reviewer, NEW i \in Id, NEW verb \in Verb, GetInStatus(s, i, verb)
        PROVE  KeyInv'
    <2> USE <1>4 DEF GetInStatus, Goto
    <2>1. OneRowPerKey'
      BY DEF KeyInv, OneRowPerKey, Filed, Twin, rowVars
    <2>2. Inserting' \subseteq Inserting /\ s \notin Inserting
      BY SessionAssumption DEF Inserting, Verb, TypeOK, Session
    <2>3. \A x \in Inserting : cur'[x] = cur[x] /\ job'[x] = job[x]
      BY <2>2 DEF TypeOK, Inserting, Session
    <2>4. InsertsApart'
      BY <2>2, <2>3 DEF KeyInv, InsertsApart, KeyTaken, Filed, Twin, rowVars
    <2>5. i \in Filed /\ cur'[s] = i /\ job'[s] = change[i]
      BY DEF Filed, Allowed, Applied, TypeOK, Session, Verb
    <2>6. \A x \in Session \ {s} :
            HasRow(x)' => HasRow(x) /\ cur'[x] = cur[x] /\ job'[x] = job[x]
      BY DEF HasRow, TypeOK
    <2>7. RowsHeld'
      BY <2>5, <2>6 DEF KeyInv, RowsHeld, Filed, rowVars
    <2> QED  BY <2>1, <2>4, <2>7 DEF KeyInv
  <1>5. ASSUME NEW s \in Agent, AgentStep(s)
        PROVE  KeyInv'
    <2>1. ASSUME NEW i \in Id, Flush(s, i) PROVE KeyInv'
      <3> USE <2>1 DEF Flush, Goto
      <3>1. OneRowPerKey'
        BY DEF KeyInv, OneRowPerKey, Filed, Twin, rowVars
      <3>2. Inserting' = Inserting \union {s} /\ s \notin Inserting
        BY DEF Inserting, TypeOK, Session
      <3>3. cur'[s] = i /\ job' = job /\ \A x \in Inserting : cur'[x] = cur[x]
        BY <3>2 DEF TypeOK, Inserting, Session
      <3>4. /\ status[i] = "absent" /\ ~KeyTaken(job[s])
            /\ \A x \in Inserting : cur[x] # i /\ ~Twin(job[x], job[s])
        BY DEF FreshId, KeyLocked
      <3>5. InsertsApart'
        <4>1. \A a \in Inserting' :
                cur'[a] \in Id /\ status'[cur'[a]] = "absent" /\ ~KeyTaken(job[a])'
          BY <3>2, <3>3, <3>4 DEF KeyInv, InsertsApart, KeyTaken, Filed, Twin, rowVars
        <4>2. \A a, b \in Inserting' : a # b => cur'[a] # cur'[b] /\ ~Twin(job[a], job[b])'
          BY <3>2, <3>3, <3>4 DEF KeyInv, InsertsApart, Twin
        <4> QED  BY <4>1, <4>2 DEF InsertsApart
      <3>6. \A x \in Session : HasRow(x)' => x # s /\ HasRow(x) /\ cur'[x] = cur[x]
        BY SessionAssumption DEF HasRow, TypeOK, Session, Verb
      <3>7. RowsHeld'
        BY <3>6 DEF KeyInv, RowsHeld, Filed, rowVars
      <3> QED  BY <3>1, <3>5, <3>7 DEF KeyInv
    <2>2. ASSUME NEW i \in Id, Refile(s, i) PROVE KeyInv'
      <3>1. /\ ~KeyTaken(job[s]) /\ status[i] = "absent"
            /\ \A a \in Inserting \ {s} : cur[a] # i /\ ~Twin(job[a], job[s])
        BY <2>2 DEF Refile, FreshId, KeyLocked
      <3>2. s \notin Inserting' /\ ~HasRow(s)'
        BY <2>2 DEF Refile, Leave, TypeOK, Inserting, HasRow, Verb, Session
      <3> QED  BY <2>2, <3>1, <3>2, KeyWrite DEF Refile, Leave, TypeOK, Status, Session
    <2>3. CASE FilePending(s)
      <3>1. s \in Inserting
        BY <2>3 DEF FilePending, Inserting
      <3>2. /\ ~KeyTaken(job[s]) /\ cur[s] \in Id /\ status[cur[s]] = "absent"
            /\ \A a \in Inserting \ {s} : cur[a] # cur[s] /\ ~Twin(job[a], job[s])
        BY <3>1 DEF KeyInv, InsertsApart
      <3>3. s \notin Inserting' /\ ~HasRow(s)'
        BY <2>3 DEF FilePending, Leave, TypeOK, Inserting, HasRow, Verb, Session
      <3> QED  BY <2>3, <3>2, <3>3, KeyWrite DEF FilePending, Leave, TypeOK, Status, Session
    <2> QED  BY <1>2, <1>5, <2>1, <2>2, <2>3
             DEF AgentStep, FlushConflict, RefileConflict, Session
  <1>6. ASSUME NEW s \in Reviewer, ReviewerStep(s)
        PROVE  KeyInv'
    <2>1. CASE Reject(s)
      <3>1. cur[s] \in Filed
        BY <2>1, Writers DEF Reject, Session
      <3>2. s \notin Inserting' /\ ~HasRow(s)'
        BY <2>1 DEF Reject, Leave, TypeOK, Inserting, HasRow, Verb, Session
      <3>3. change' = [change EXCEPT ![cur[s]] = change[cur[s]]]
        BY <2>1 DEF Reject, TypeOK
      <3> QED  BY <2>1, <3>1, <3>2, <3>3, KeyWrite
               DEF Reject, Leave, TypeOK, Status, Session, Filed
    <2>2. CASE Rollback(s)
      BY <2>2, KeyQuiet DEF Rollback, Goto, TypeOK, Session, Inserting, HasRow, Verb
    <2>3. CASE CommitRollback(s)
      <3>1. cur[s] \in Filed
        BY <2>3, Writers DEF CommitRollback, Session
      <3>2. s \notin Inserting' /\ ~HasRow(s)'
        BY <2>3 DEF CommitRollback, Leave, TypeOK, Inserting, HasRow, Verb, Session
      <3>3. change' = [change EXCEPT ![cur[s]] = change[cur[s]]]
        BY <2>3 DEF CommitRollback, TypeOK
      <3> QED  BY <2>3, <3>1, <3>2, <3>3, KeyWrite
               DEF CommitRollback, Leave, TypeOK, Status, Session, Filed
    <2> QED  BY <1>2, <1>6, <2>1, <2>2, <2>3 DEF ReviewerStep, RollbackRaises, Session
  <1>7. ASSUME NEW s \in Session, ApplyStep(s)
        PROVE  KeyInv'
    <2>1. CASE Apply(s)
      BY <2>1, KeyQuiet, SessionAssumption
         DEF Apply, Applying, TypeOK, Session, Inserting, HasRow, Verb
    <2>2. CASE ApplyRaises(s)
      BY <2>2, KeyQuiet, SessionAssumption
         DEF ApplyRaises, Applying, OnError, TypeOK, Session, Inserting, HasRow, Verb
    <2>3. CASE CommitApply(s)
      <3>1. /\ cur[s] \in Id
            /\ \/ cur[s] \in Filed /\ job[s] = change[cur[s]]
               \/ /\ status[cur[s]] = "absent" /\ ~KeyTaken(job[s])
                  /\ \A a \in Inserting \ {s} : cur[a] # cur[s] /\ ~Twin(job[a], job[s])
        BY <2>3, Writers DEF CommitApply, Goto, Session, KeyInv, InsertsApart, Filed
      <3>2. s \notin Inserting' /\ cur'[s] = cur[s] /\ job'[s] = job[s]
        BY <2>3 DEF CommitApply, Goto, TypeOK, Inserting
      <3>3. FinalStatus(s) \in Status
        BY DEF FinalStatus, Status
      <3>4. /\ status' = [status EXCEPT ![cur[s]] = FinalStatus(s)]
            /\ change' = [change EXCEPT ![cur[s]] = job[s]]
            /\ \A x \in Session \ {s} : pc'[x] = pc[x] /\ cur'[x] = cur[x] /\ job'[x] = job[x]
        BY <2>3 DEF CommitApply, Goto, TypeOK
      <3> QED  BY <3>1, <3>2, <3>3, <3>4, KeyWrite
    <2>4. CASE CommitRaises(s)
      BY <2>4, KeyQuiet, SessionAssumption
         DEF CommitRaises, Goto, OnError, TypeOK, Session, Inserting, HasRow, Verb
    <2>5. CASE BumpRaises(s)
      BY <2>5, KeyQuiet DEF BumpRaises, Goto, TypeOK, Session, Inserting, HasRow, Verb
    <2>6. CASE RecordFailure(s)
      <3>1. cur[s] \in Filed
        BY <2>6, Writers DEF RecordFailure
      <3>2. s \notin Inserting' /\ ~HasRow(s)'
        BY <2>6 DEF RecordFailure, Leave, TypeOK, Inserting, HasRow, Verb
      <3>3. change' = [change EXCEPT ![cur[s]] = change[cur[s]]]
        BY <2>6 DEF RecordFailure, TypeOK
      <3> QED  BY <2>6, <3>1, <3>2, <3>3, KeyWrite
               DEF RecordFailure, Leave, TypeOK, Status, Filed
    <2> QED  BY <1>2, <1>7, <2>1, <2>2, <2>3, <2>4, <2>5, <2>6 DEF ApplyStep, Bump
  <1> QED  BY <1>1, <1>2, <1>3, <1>4, <1>5, <1>6, <1>7 DEF Next, Begin, Proceed, Crash

\* The unique index on dedup_key, seen over whole behaviours: committed rows and
\* inserts under way never share a key, and a session decides only rows that are
\* there.
THEOREM KeyCorrect == Spec => []KeyInv
  BY TypeInit, TypeStep, KeyInit, KeyStep, PTL DEF Spec

\* Whatever number of agents, reviewers and rows, and whether or not the cache
\* can fail: no two committed rows share a dedup key.
THEOREM OneRow == Spec => []OneRowPerKey
  BY KeyCorrect, PTL DEF KeyInv

-----------------------------------------------------------------------------
(* The lifecycle, where nobody else decides on the row a reviewer has read *)
(* and the cache does not fail after a commit.                             *)

OneReviewer == \A r, q \in Reviewer : r = q

\* What was read of the row under review still holds.
ReadHolds ==
  /\ \A r \in Reviewer :
       /\ pc[r] \in {"approve", "reject", "writing", "failing"} => status[cur[r]] = "pending"
       /\ pc[r] \in {"rollback", "reverting"} => status[cur[r]] \in Applied
  /\ \A a \in Agent : pc[a] # "failing"

\* No session has read a status yet.
LEMMA ReadInit == Init => ReadHolds
  BY DEF Init, ReadHolds, Session

\* What sessions have read still holds after a step that leaves statuses alone and
\* lets nobody go on to a decision.
LEMMA ReadQuiet ==
  ASSUME TypeOK, ReadHolds, NEW s \in Session, UNCHANGED status,
         \A x \in Session \ {s} : pc'[x] = pc[x] /\ cur'[x] = cur[x],
         s \in Agent => pc'[s] # "failing",
         s \in Reviewer =>
           /\ pc'[s] \in {"approve", "reject", "writing", "failing"} =>
                status[cur'[s]] = "pending"
           /\ pc'[s] \in {"rollback", "reverting"} => status[cur'[s]] \in Applied
  PROVE  ReadHolds'
  BY DEF ReadHolds, Session

\* A written row is not the one that another session has under review.
LEMMA ReadWrite ==
  ASSUME OneReviewer, TypeOK, KeyInv, ReadHolds, NEW s \in Session, NEW i \in Id, NEW st,
         status' = [status EXCEPT ![i] = st],
         s \in Reviewer \/ status[i] = "absent",
         \A x \in Session \ {s} : pc'[x] = pc[x] /\ cur'[x] = cur[x],
         pc'[s] \in {"idle", "bump"}
  PROVE  ReadHolds'
  <1>1. \A r \in Reviewer \ {s} :
          pc[r] \in Verb \union {"writing", "failing", "reverting"} =>
            status'[cur[r]] = status[cur[r]]
    BY DEF OneReviewer, KeyInv, RowsHeld, HasRow, Filed, TypeOK, Session, Verb
  <1> QED  BY <1>1 DEF ReadHolds, Session, Verb

\* With one reviewer, the status that _get_in_status read is still the row's when
\* approve, reject or rollback act on it, without any lock.
LEMMA ReadStep ==
  ASSUME OneReviewer, ~CacheMayFail, TypeOK, KeyInv, ReadHolds, [Next]_vars
  PROVE  ReadHolds'
  <1>1. CASE UNCHANGED vars
    BY <1>1 DEF vars, rowVars, sessVars, ReadHolds
  <1>2. ASSUME NEW s \in Session, Leave(s), UNCHANGED rowVars
        PROVE  ReadHolds'
    BY <1>2, ReadQuiet DEF Leave, TypeOK, rowVars
  <1>3. ASSUME NEW s \in Agent, NEW c \in Change, Check(s, c)
        PROVE  ReadHolds'
    BY <1>3, ReadQuiet DEF Check, Goto, TypeOK, Session, rowVars
  <1>4. ASSUME NEW s \in Reviewer, NEW i \in Id, NEW verb \in Verb, GetInStatus(s, i, verb)
        PROVE  ReadHolds'
    <2>1. pc'[s] = verb /\ cur'[s] = i /\ s \notin Agent /\ s \in Session
      BY <1>4, SessionAssumption DEF GetInStatus, Goto, TypeOK, Session
    <2>2. \A x \in Session \ {s} : pc'[x] = pc[x] /\ cur'[x] = cur[x]
      BY <1>4 DEF GetInStatus, Goto, TypeOK
    <2> QED  BY <1>4, <2>1, <2>2, ReadQuiet DEF GetInStatus, Allowed, Verb, rowVars
  <1>5. ASSUME NEW s \in Agent, AgentStep(s)
        PROVE  ReadHolds'
    <2>1. ASSUME NEW i \in Id, Flush(s, i) PROVE ReadHolds'
      BY <1>5, <2>1, ReadQuiet, SessionAssumption DEF Flush, Goto, TypeOK, Session, rowVars
    <2>2. ASSUME NEW i \in Id, Refile(s, i) PROVE ReadHolds'
      BY <2>2, ReadWrite DEF Refile, FreshId, Leave, TypeOK, Session
    <2>3. CASE FilePending(s)
      <3>1. cur[s] \in Id /\ status[cur[s]] = "absent"
        BY <2>3 DEF FilePending, KeyInv, InsertsApart, Inserting
      <3> QED  BY <2>3, <3>1, ReadWrite DEF FilePending, Leave, TypeOK, Session
    <2> QED  BY <1>2, <1>5, <2>1, <2>2, <2>3
             DEF AgentStep, FlushConflict, RefileConflict, Session
  <1>6. ASSUME NEW s \in Reviewer, ReviewerStep(s)
        PROVE  ReadHolds'
    <2>0. pc[s] \in {"reject", "reverting"} => cur[s] \in Id
      BY Writers DEF Session, Filed
    <2>1. CASE Reject(s)
      BY <2>0, <2>1, ReadWrite DEF Reject, Leave, TypeOK, Session
    <2>2. CASE Rollback(s)
      <3>1. pc'[s] = "reverting" /\ cur' = cur /\ status[cur[s]] \in Applied
        BY <2>2 DEF Rollback, Goto, TypeOK, Session, ReadHolds
      <3> QED  BY <2>2, <3>1, ReadQuiet, SessionAssumption
               DEF Rollback, Goto, TypeOK, Session, rowVars
    <2>3. CASE CommitRollback(s)
      BY <2>0, <2>3, ReadWrite DEF CommitRollback, Leave, TypeOK, Session
    <2> QED  BY <1>2, <1>6, <2>1, <2>2, <2>3 DEF ReviewerStep, RollbackRaises, Session
  <1>7. ASSUME NEW s \in Session, ApplyStep(s)
        PROVE  ReadHolds'
    <2>1. CASE Apply(s)
      BY <2>1, ReadQuiet, SessionAssumption DEF Apply, Applying, TypeOK, Session, rowVars, ReadHolds
    <2>2. CASE ApplyRaises(s)
      BY <2>2, ReadQuiet, SessionAssumption
         DEF ApplyRaises, Applying, OnError, TypeOK, Session, rowVars, ReadHolds
    <2>3. CASE CommitApply(s)
      <3>1. cur[s] \in Id /\ (s \in Reviewer \/ status[cur[s]] = "absent")
        BY <2>3, Writers DEF CommitApply, Goto, Session, KeyInv, InsertsApart, Filed
      <3> QED  BY <2>3, <3>1, ReadWrite DEF CommitApply, Goto, TypeOK
    <2>4. CASE CommitRaises(s)
      BY <2>4, ReadQuiet, SessionAssumption
         DEF CommitRaises, Goto, OnError, TypeOK, Session, rowVars, ReadHolds
    <2>5. CASE RecordFailure(s)
      <3>1. s \in Reviewer /\ cur[s] \in Id
        BY <2>5, Writers DEF RecordFailure, ReadHolds, Session, Filed
      <3> QED  BY <2>5, <3>1, ReadWrite DEF RecordFailure, Leave, TypeOK
    <2> QED  BY <1>2, <1>7, <2>1, <2>2, <2>3, <2>4, <2>5 DEF ApplyStep, Bump, BumpRaises
  <1> QED  BY <1>1, <1>2, <1>3, <1>4, <1>5, <1>6, <1>7 DEF Next, Begin, Proceed, Crash

-----------------------------------------------------------------------------
(* The engine implements ProposalLifecycle. *)

\* The engine begins where ProposalLifecycle does.
LEMMA PromiseInit == Init => Promise!Init
  BY DEF Init, Promise!Init

\* Every step of a session is a move of one row along the lifecycle, or none.
LEMMA PromiseStep ==
  ASSUME ~CacheMayFail, TypeOK, KeyInv, ReadHolds, AppliedIffLanded, [Next]_vars
  PROVE  [Promise!Next]_(Promise!lifeVars)
  <1> USE DEF Promise!lifeVars
  <1>0. \A i \in Id :
          /\ status[i] \in {"absent", "pending"} => landed[i] = 0
          /\ status[i] \in Applied => landed[i] = 1
    BY DEF AppliedIffLanded, Applied
  <1>1. CASE UNCHANGED <<status, landed>>
    BY <1>1
  <1>2. ASSUME NEW s \in Agent, NEW i \in Id, Refile(s, i)
        PROVE  Promise!Next
    <2>1. Promise!Fail(i)
      BY <1>2 DEF Refile, FreshId, Promise!Fail, Promise!Move
    <2> QED  BY <2>1 DEF Promise!Next
  <1>3. ASSUME NEW s \in Agent, FilePending(s)
        PROVE  Promise!Next
    <2>1. cur[s] \in Id /\ status[cur[s]] = "absent"
      BY <1>3 DEF FilePending, KeyInv, InsertsApart, Inserting
    <2>2. Promise!File(cur[s])
      BY <1>3, <2>1 DEF FilePending, Promise!File, Promise!Move
    <2> QED  BY <2>1, <2>2 DEF Promise!Next
  <1>4. ASSUME NEW s \in Reviewer, Reject(s)
        PROVE  Promise!Next
    <2>1. cur[s] \in Id /\ status[cur[s]] = "pending"
      BY <1>4, Writers DEF Reject, Session, Filed, ReadHolds
    <2>2. Promise!Reject(cur[s])
      BY <1>4, <2>1 DEF Reject, Promise!Reject, Promise!Move
    <2> QED  BY <2>1, <2>2 DEF Promise!Next
  <1>5. ASSUME NEW s \in Reviewer, CommitRollback(s)
        PROVE  Promise!Next
    <2>1. cur[s] \in Id /\ status[cur[s]] \in Applied
      BY <1>5, Writers DEF CommitRollback, Session, Filed, ReadHolds
    <2>4. landed[cur[s]] = 1
      BY <1>0, <2>1
    <2>2. landed' = [landed EXCEPT ![cur[s]] = 0]
      BY <1>5, <2>4 DEF CommitRollback
    <2>3. Promise!RollBack(cur[s])
      BY <1>5, <2>1, <2>2
         DEF CommitRollback, Promise!RollBack, Promise!Move, Promise!Leaves, Applied,
             Promise!Applied
    <2> QED  BY <2>1, <2>3 DEF Promise!Next
  <1>6. ASSUME NEW s \in Session, CommitApply(s)
        PROVE  Promise!Next
    <2>1. cur[s] \in Id /\ status[cur[s]] = IF s \in Agent THEN "absent" ELSE "pending"
      BY <1>6, Writers DEF CommitApply, Goto, Session, Filed, ReadHolds, KeyInv, InsertsApart
    <2>2. landed[cur[s]] = 0
      <3>1. status[cur[s]] \in {"absent", "pending"}
        BY <2>1
      <3> QED  BY <1>0, <2>1, <3>1
    <2>3. landed' = [landed EXCEPT ![cur[s]] = 1]
      BY <1>6, <2>2 DEF CommitApply
    <2>4. CASE s \in Agent
      <3>1. Promise!AutoApply(cur[s])
        BY <1>6, <2>1, <2>3, <2>4
           DEF CommitApply, FinalStatus, Promise!AutoApply, Promise!Move, Promise!Lands
      <3> QED  BY <2>1, <3>1 DEF Promise!Next
    <2>5. CASE s \notin Agent
      <3>1. Promise!Approve(cur[s])
        BY <1>6, <2>1, <2>3, <2>5
           DEF CommitApply, FinalStatus, Promise!Approve, Promise!Move, Promise!Lands
      <3> QED  BY <2>1, <3>1 DEF Promise!Next
    <2> QED  BY <2>4, <2>5
  <1>7. ASSUME NEW s \in Session, RecordFailure(s)
        PROVE  Promise!Next
    <2>1. cur[s] \in Id /\ status[cur[s]] = "pending"
      BY <1>7, Writers DEF RecordFailure, Session, Filed, ReadHolds
    <2>2. Promise!Fail(cur[s])
      BY <1>7, <2>1 DEF RecordFailure, Promise!Fail, Promise!Move
    <2> QED  BY <2>1, <2>2 DEF Promise!Next
  <1>8. ASSUME Next, ~UNCHANGED <<status, landed>>
        PROVE  Promise!Next
    <2>1. PICK s \in Session : Begin(s) \/ Proceed(s) \/ Crash(s)
      BY <1>8 DEF Next
    <2>2. ~Begin(s) /\ ~Crash(s)
      BY <1>8 DEF Begin, Check, GetInStatus, Crash, rowVars
    <2>3. CASE s \in Agent /\ AgentStep(s)
      BY <1>2, <1>3, <1>8, <2>3
         DEF AgentStep, Flush, FlushConflict, RefileConflict, rowVars
    <2>4. CASE s \in Reviewer /\ ReviewerStep(s)
      BY <1>4, <1>5, <1>8, <2>4 DEF ReviewerStep, Rollback, RollbackRaises, rowVars
    <2>5. CASE ApplyStep(s)
      BY <1>6, <1>7, <1>8, <2>5
         DEF ApplyStep, Apply, ApplyRaises, CommitRaises, Bump, BumpRaises, rowVars
    <2> QED  BY <2>1, <2>2, <2>3, <2>4, <2>5 DEF Proceed
  <1> QED  BY <1>1, <1>8 DEF vars, rowVars

\* What the lifecycle alone keeps true.
LEMMA LandedInit == Init => AppliedIffLanded
  BY DEF Init, AppliedIffLanded, Applied

\* A change enters the graph in the commit that makes its row applied, and leaves it
\* in the one that makes it rolled_back.
LEMMA LandedStep ==
  ASSUME TypeOK, AppliedIffLanded, [Promise!Next]_(Promise!lifeVars)
  PROVE  AppliedIffLanded'
  <1> USE DEF AppliedIffLanded, Applied, TypeOK, Promise!Applied
  <1>1. CASE UNCHANGED Promise!lifeVars
    BY <1>1 DEF Promise!lifeVars
  <1>2. ASSUME NEW i \in Id,
               \/ Promise!File(i) \/ Promise!Approve(i) \/ Promise!Reject(i)
               \/ Promise!AutoApply(i) \/ Promise!Fail(i) \/ Promise!RollBack(i)
        PROVE  AppliedIffLanded'
    <2>1. \A j \in Id \ {i} : status'[j] = status[j] /\ landed'[j] = landed[j]
      BY <1>2 DEF Promise!File, Promise!Approve, Promise!Reject, Promise!AutoApply,
                  Promise!Fail, Promise!RollBack, Promise!Move, Promise!Lands, Promise!Leaves
    <2>2. landed'[i] = IF status'[i] \in Applied THEN 1 ELSE 0
      BY <1>2 DEF Promise!File, Promise!Approve, Promise!Reject, Promise!AutoApply,
                  Promise!Fail, Promise!RollBack, Promise!Move, Promise!Lands, Promise!Leaves
    <2> QED  BY <2>1, <2>2
  <1> QED  BY <1>1, <1>2 DEF Promise!Next

EngineInv == TypeOK /\ KeyInv /\ ReadHolds /\ AppliedIffLanded

\* The invariants together are inductive.
LEMMA EngineInductive ==
  ASSUME OneReviewer, ~CacheMayFail
  PROVE  /\ Init => EngineInv
         /\ EngineInv /\ [Next]_vars => EngineInv'
  <1>1. Init => EngineInv
    BY TypeInit, KeyInit, ReadInit, LandedInit DEF EngineInv
  <1>2. ASSUME EngineInv, [Next]_vars PROVE EngineInv'
    <2>1. TypeOK' /\ KeyInv'
      BY <1>2, TypeStep, KeyStep DEF EngineInv
    <2>2. ReadHolds'
      BY <1>2, ReadStep DEF EngineInv
    <2>3. AppliedIffLanded'
      BY <1>2, PromiseStep, LandedStep DEF EngineInv
    <2> QED  BY <2>1, <2>2, <2>3 DEF EngineInv
  <1> QED  BY <1>1, <1>2

\* Where one reviewer decides and bump() does not raise: a change is in the
\* graph, once, exactly while its row says so, whatever agents race, commits
\* are refused and processes die.
THEOREM Landed ==
  ASSUME OneReviewer, ~CacheMayFail
  PROVE  Spec => []AppliedIffLanded
  <1>1. Spec => []EngineInv
    BY EngineInductive, PTL DEF Spec
  <1> QED  BY <1>1, PTL DEF EngineInv

\* There the engine implements the lifecycle documented in proposal.py.
THEOREM KeepsLifecycle ==
  ASSUME OneReviewer, ~CacheMayFail
  PROVE  Spec => LifecycleKept
  <1>1. Spec => []EngineInv
    BY EngineInductive, PTL DEF Spec
  <1>2. EngineInv /\ [Next]_vars => [Promise!Next]_(Promise!lifeVars)
    BY PromiseStep DEF EngineInv
  <1> QED  BY <1>1, <1>2, PromiseInit, PTL DEF Spec, LifecycleKept, Promise!Spec

\* There a rejection is sticky: nothing with the key of a rejected row lands.
THEOREM StickyRejection ==
  ASSUME OneReviewer, ~CacheMayFail
  PROVE  Spec => RejectionSticky
  <1>1. Spec => []EngineInv
    BY EngineInductive, PTL DEF Spec
  <1>2. ASSUME EngineInv, [Next]_vars, NEW i \in Id, NEW j \in Id,
               status[i] = "rejected", change'[j] # None, Twin(change'[j], change[i])
        PROVE  landed'[j] <= landed[j]
    <2> USE <1>2 DEF EngineInv
    <2>1. landed[j] \in Int /\ i \in Filed
      BY DEF TypeOK, Filed
    <2>2. CASE landed' = landed
      BY <2>1, <2>2
    <2>3. ASSUME NEW s \in Session, CommitRollback(s)
          PROVE  landed'[j] <= landed[j]
      BY <2>1, <2>3 DEF CommitRollback, TypeOK
    <2>4. ASSUME NEW s \in Session, CommitApply(s), j = cur[s]
          PROVE  FALSE
      <3>1. change'[j] = job[s]
        BY <2>4 DEF CommitApply, TypeOK
      <3>2. CASE s \in Agent
        <4>1. ~KeyTaken(job[s])
          BY <2>4, <3>2, Writers DEF CommitApply, Goto, KeyInv, InsertsApart
        <4> QED  BY <2>1, <3>1, <4>1 DEF KeyTaken, Twin
      <3>3. CASE s \in Reviewer
        <4>1. j \in Filed /\ change[j] = job[s] /\ status[j] = "pending"
          BY <2>4, <3>3, Writers DEF CommitApply, Goto, ReadHolds
        <4>2. i = j
          BY <2>1, <3>1, <4>1 DEF KeyInv, OneRowPerKey, Twin
        <4> QED  BY <4>1, <4>2
      <3> QED  BY <2>4, <3>2, <3>3 DEF Session
    <2>5. ASSUME NEW s \in Session, CommitApply(s)
          PROVE  landed'[j] <= landed[j]
      <3>1. j # cur[s]
        BY <2>4, <2>5
      <3>2. landed'[j] = landed[j]
        BY <2>5, <3>1 DEF CommitApply, TypeOK
      <3> QED  BY <2>1, <3>2
    <2>6. \/ landed' = landed
          \/ \E s \in Session : CommitRollback(s) \/ CommitApply(s)
      BY DEF Next, Begin, Proceed, AgentStep, ReviewerStep, ApplyStep, Check, Flush,
             FlushConflict, FilePending, Apply, ApplyRaises, CommitRaises, Bump, BumpRaises,
             Refile, RefileConflict, RecordFailure, GetInStatus, Reject, Rollback,
             RollbackRaises, Crash, rowVars, vars
    <2> QED  BY <2>2, <2>3, <2>5, <2>6
  <1>3. EngineInv /\ [Next]_vars =>
          [\A i, j \in Id :
             status[i] = "rejected" /\ change'[j] # None /\ Twin(change'[j], change[i])
               => landed'[j] <= landed[j]]_vars
    BY <1>2
  <1> QED  BY <1>1, <1>3, PTL DEF Spec, RejectionSticky
=============================================================================
