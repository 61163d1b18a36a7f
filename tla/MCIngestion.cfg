CONSTANTS
  Doc <- OneToThree
  Issue <- Third
  Mute <- First
  MaxItems = 2
  PageSize = 1
  Grain = 2
  Forces <- NotForced
  Sources <- AllSources
  MaxEdits = 3
  MaxClock = 3
  MaxFailures = 1
SPECIFICATION FairSpec
INVARIANTS TypeOK SkipIsSound NothingPassedOver CutIsListedAgain
PROPERTIES Converges
