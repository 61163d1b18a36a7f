CONSTANTS
  n1 = n1
  n2 = n2
  n3 = n3
  n4 = n4
  d1 = d1
  d2 = d2
  d3 = d3
  c1 = c1
  c2 = c2
  Whole = Whole
  Node <- MCNode
  Doc <- MCDoc
  NodeType <- MCNodeType
  DocSource <- MCDocSource
  DocResource <- MCDocResource
  Near <- MCNear
  Wording <- MCWording
  DepthCap = 3
  Caller = {c1, c2}
  Subject = {"alice"}
  GroupsOf <- MCGroupsOf
  Policies <- MCPolicies
  InitGraph <- MCInitGraph
  Tables <- MCTables
  ChangeName <- MCChangeName
  Change <- MCChange
  Writer = {"api", "mcp"}
  Backends = {"memory", "redis"}
  Workloads <- MCWorkloads
  Args <- MCArgs
  Limit = 2
  MaxEdges = 3
  ExportDepth = 2
  TTL = 2
  MaxCommits = 2
SPECIFICATION Spec
INVARIANTS TypeOK AnswersTrue FreshAfterBump ExportComplete PathsAreShortest HybridFavoursBoth
PROPERTIES StaleDies
