--------------------------- MODULE MCFlightControl ---------------------------
(* Frames for model checking FlightControl. *)
EXTENDS FlightControl

Frame(tilt, gas, yaw, wifi) ==
  [kind |-> "raw", tilt |-> tilt, gas |-> gas, yaw |-> yaw, wifi |-> wifi]

\* Full gas with the sticks off centre; the arming gesture; and the stop gesture
\* asking for the other wifi mode.
Fly    == Frame("tilted", MaxGas, "right", 2)
Start  == Frame("level", 0, "right", 2)
StopReconfigure == Frame("level", 0, "left", 1)

MCFewBeacons == {Fly, Start, StopReconfigure}
MCNoPackets == {}
MCUdpReconfigure == {Start, StopReconfigure}
=============================================================================
