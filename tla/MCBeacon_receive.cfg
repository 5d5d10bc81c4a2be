\* Two restartable ends and a lossy link, numbers scaled down to four bits.
SPECIFICATION Spec
CONSTANTS
  Types = {128, 64, 132}
  Addresses <- MCAddresses
  Radiotaps = {13, 36, 218, 219}
  Ssids = {6, 32}
  Sizes = {0, 528}
  Captures = {541, 840}
  SeqRange = 16
  IntRange = 8
  SignAt = 4
  OnAir = 2
  MaxFrames = 4
  OnTheAir <- MCOnTheAir
INVARIANTS PassesPeerBeacons WholeIsDecoded OnceInOrder WholeIsUsed PageTruthful
