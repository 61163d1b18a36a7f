CONSTANTS
  Agent = {a1, a2}
  Reviewer = {r1}
  Id = {i1, i2}
  n1 = n1
  n2 = n2
  e1 = e1
  e2 = e2
  None = None
  CacheMayFail = TRUE
  Change <- TwoKeys
  AutoApplied <- ConfidentAll
  DedupKey <- MCDedupKey
  InitGraph <- MCInitGraph
  HandlerValidates <- MCValidates
  HandlerWrites <- MCWrites
  HandlerStorable <- MCStorable
  HandlerSnapshot <- MCSnapshotOf
  HandlerUndoable <- MCUndoable
  HandlerUndo <- MCUndo
  HandlerUndoStorable <- MCUndoStorable
SPECIFICATION FairSpec
PROPERTIES EveryCallEnds
\* Once every change is filed and decided the queue rests.
CHECK_DEADLOCK FALSE
