CONSTANTS
  a = a
  b = b
  c = c
  d = d
  e1 = e1
  e2 = e2
  e3 = e3
  e4 = e4
  e5 = e5
  e6 = e6
  m1 = m1
  m2 = m2
  m3 = m3
  m4 = m4
  m5 = m5
  None = None
  Node <- MCNode
  EdgeId <- MCEdgeId
  MentionId <- MCMentionId
  NodeType <- MCNodeType
  Doc = {"d1", "d2"}
  InitGraphs <- AllGraphs
  Similar <- MCPairs
  Close <- MCPairs
  MinMentions = 1
  Weak <- MCWeak
  Quiet = {"d1"}
  FactKey = {"owner"}
  FileOf <- MCFileOf
  Fresh <- MCFresh
  Change <- AllChanges
  MaxApplied = 3
SPECIFICATION Spec
INVARIANTS TypeOK AliasForest Reversible SourcedSurvives FindingsApply
PROPERTIES MergeKeepsFacts StubKeepsFacts
\* Once every change is decided and rolled back nothing is left to do.
CHECK_DEADLOCK FALSE
