\* Hopping and going home, with lost frames and netlink requests that fail at times.
SPECIFICATION FairSpec
CONSTANTS
  MaxChannel = 3
  Start = 3
  Reach = 1
  Backlog = 1
  Modes = {1, 2}
  TuneErrors = FALSE
  SilentErrors = TRUE
INVARIANTS TypeOK InReach StaysHome
PROPERTIES LockstepSpec TargetReached HomeTogether
