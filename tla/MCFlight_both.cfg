\* Frames from the UDP socket and the beacon radio at once.
SPECIFICATION MotorsSpec
CONSTANTS
  FailsafeTicks = 2
  CutdownTicks = 3
  PowerOnGas = 1
  FailsafeGas = 2
  MaxGas = 3
  WifiModes = {1, 2}
  UdpPackets <- MCUdp
  BeaconPackets <- MCBesideUdp
  Period = 6
  Thrusts <- MCThrusts
  Turns = {1}
INVARIANTS TicksTrackSilence FailsafeHolds MotorsFollow
PROPERTIES EnabledAtZero FailsafeAtMotors
