\* Either end is started again, the drone in mid-hop too.
SPECIFICATION FairRestartSpec
CONSTANTS
  MaxChannel = 4
  Start = 4
  Reach = 1
  Backlog = 1
  Modes = {1}
  TuneErrors = TRUE
  SilentErrors = FALSE
  Boots = 1
INVARIANTS InReachAgain
PROPERTIES TargetReachedAgain HomeTogetherAgain
