\* Turns across the seam, restarts, and the gas going up and down.
SPECIFICATION FairSpec
CONSTANTS
  HalfTurn = 30
  WrapLimit = 50
  MaxStep = 2
  PseudoHz = 4
  LeadCap = 9
  Sticks <- MCSticks
INVARIANTS RateReal HoldFollows
PROPERTIES Settles
