CONSTANTS
  Agent = {a1, a2}
  Reviewer = {r1}
  Id = {i1, i2, i3}
  n1 = n1
  n2 = n2
  e1 = e1
  e2 = e2
  None = None
  CacheMayFail = FALSE
  Change <- AllChanges
  AutoApplied <- ConfidentAll
  DedupKey <- MCDedupKey
  InitGraph <- MCInitGraph
  HandlerValidates <- MCValidates
  HandlerWrites <- MCWrites
  HandlerStorable <- MCStorable
  HandlerSnapshot <- MCSnapshotOf
  HandlerUndoable <- MCUndoable
  HandlerUndo <- MCUndo
  HandlerUndoStorable <- MCUndoStorable
SPECIFICATION Spec
INVARIANTS TypeOK OneRowPerKey AppliedIffLanded
PROPERTIES LifecycleKept RejectionSticky
\* Once every change is filed and decided the queue rests.
CHECK_DEADLOCK FALSE
