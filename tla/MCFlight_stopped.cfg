\* A stop frame over UDP that also asks for the other wifi mode.
SPECIFICATION Spec
CONSTANTS
  FailsafeTicks = 2
  CutdownTicks = 4
  PowerOnGas = 1
  FailsafeGas = 2
  MaxGas = 3
  WifiModes = {1, 2}
  UdpPackets <- MCUdpReconfigure
  BeaconPackets <- MCNoPackets
INVARIANTS EnginesStopped
