CONSTANTS
  Agent = {a1}
  Reviewer = {r1, r2}
  Id = {i1}
  n1 = n1
  n2 = n2
  e1 = e1
  e2 = e2
  None = None
  CacheMayFail = FALSE
  Change <- EdgeOnly
  AutoApplied = {}
  DedupKey <- MCDedupKey
  InitGraph <- MCInitGraph
  HandlerValidates <- MCValidates
  HandlerWrites <- MCWrites
  HandlerStorable <- MCStorable
  HandlerSnapshot <- MCSnapshotOf
  HandlerUndoable <- MCUndoable
  HandlerUndo <- MCUndo
  HandlerUndoStorable <- MCUndoStorable
SPECIFICATION Spec
INVARIANT AppliedIffLanded
CHECK_DEADLOCK FALSE
