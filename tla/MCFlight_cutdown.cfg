\* The cutdown announced by imu.h.
SPECIFICATION FairSpec
CONSTANTS
  FailsafeTicks = 2
  CutdownTicks = 4
  PowerOnGas = 1
  FailsafeGas = 2
  MaxGas = 3
  WifiModes = {1, 2}
  UdpPackets <- MCNoPackets
  BeaconPackets <- MCFewBeacons
PROPERTIES CutdownFires
