CONSTANTS
  n1 = n1
  n2 = n2
  n3 = n3
  n4 = n4
  n5 = n5
  e1 = e1
  e2 = e2
  e3 = e3
  m1 = m1
  m2 = m2
  m3 = m3
  m4 = m4
  m5 = m5
  m6 = m6
  None = None
  Node <- MCNode
  EdgeId <- MCEdgeId
  MentionId <- MCMentionId
  NodeType <- MCNodeType
  Entity <- MCEntity
  Sourced <- Accounts
  Alike <- MCAlike
  Doc = {d1, d2}
  Extraction <- AccountsOnly
  Merge <- AccountMerge
  InitGraph <- MCInitGraph
  MaxRuns = 3
SPECIFICATION Spec
INVARIANT SurvivorGetsAll
\* Once all documents are resolved and all merges decided nothing is left to do.
CHECK_DEADLOCK FALSE
