\* Command frames from the beacon radio only, as pilot/main.c sends them.
SPECIFICATION FairMotorsSpec
CONSTANTS
  FailsafeTicks = 2
  CutdownTicks = 3
  PowerOnGas = 1
  FailsafeGas = 2
  MaxGas = 3
  WifiModes = {1, 2}
  UdpPackets <- MCNoPackets
  BeaconPackets <- MCBeacons
  Period = 4
  Thrusts <- MCThrusts
  Turns = {1}
INVARIANTS TypeOK ZeroStops ShownOrRefused ExitLeavesNoDuty
PROPERTIES ArmsOnlyOnCommand SwitchSpec MotorsStop
