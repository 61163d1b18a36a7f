CONSTANTS
  Doc <- OneToTwo
  Issue <- None
  Mute <- None
  MaxItems = 2
  PageSize = 1
  Grain = 1
  Forces <- Both
  Sources <- OnlyGitHub
  MaxEdits = 2
  MaxClock = 2
  MaxFailures = 1
SPECIFICATION Spec
INVARIANTS ForceReextracts
