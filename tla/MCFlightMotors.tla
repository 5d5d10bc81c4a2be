--------------------------- MODULE MCFlightMotors ---------------------------
(* Frames for model checking FlightMotors. *)
EXTENDS FlightMotors

Frame(tilt, g, yaw, wifi) ==
  [kind |-> "raw", tilt |-> tilt, gas |-> g, yaw |-> yaw, wifi |-> wifi]

\* Full gas with the sticks off centre and the yaw to the right, which must not
\* arm; the arming gesture and the same just above its gas threshold; the stop
\* gesture with the wifi mode left as it is or changed; and a PID configuration.
FlyFrame   == Frame("tilted", MaxGas, "right", 2)
ArmFrame   == Frame("level", 0, "right", 2)
EdgeFrame  == Frame("level", PowerOnGas, "right", 2)
StopFrame  == Frame("level", 0, "left", 2)
StopReconfigure == Frame("level", 0, "left", 1)
ConfigFrame == [FlyFrame EXCEPT !.kind = "config"]

MCBeacons == {FlyFrame, ArmFrame, EdgeFrame, StopFrame, StopReconfigure}
MCUdp == {ArmFrame, StopReconfigure, ConfigFrame}
MCBesideUdp == {FlyFrame}
MCNoPackets == {}
MCThrusts == 0..MaxGas
=============================================================================
