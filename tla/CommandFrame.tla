---------------------------- MODULE CommandFrame ----------------------------
(***************************************************************************)
(* A command frame from the joystick to the drone's sticks: the main loop  *)
(* of pilot/main.c, which keeps one byte per channel in data_stream, and   *)
(* parse_raw_protocol_0x11_0x12() and parse_pilot() of the drone.          *)
(* The telemetry thread of the station changes _requested_channel and      *)
(* _requested_wifi at any time.                                            *)
(*                                                                         *)
(* Every joystick event is stored at the byte of its number, whether it is *)
(* an axis or a button, and data_stream starts with whatever the stack     *)
(* holds.                                                                  *)
(***************************************************************************)
EXTENDS Integers

CONSTANTS
  Axes,       \* channels of the frame, as JSIOCGAXES reports them
  Moving,     \* the axes the operator moves; the others rest at zero
  Buttons,    \* the buttons of the joystick
  Bytes,      \* high bytes an axis reports, and the garbage of the stack
  Channels,   \* values of _requested_channel
  Wifis       \* values of _requested_wifi

Numbers == 0..Axes - 1

ASSUME AxesAssumption == Axes = 8
ASSUME JoystickAssumption == Moving \subseteq Numbers /\ Buttons \subseteq Nat /\ 0 \in Bytes
                             /\ Bytes \subseteq -128..127
ASSUME RequestAssumption == Channels \subseteq 1..13 /\ Wifis \subseteq {1, 2}

VARIABLES
  data,        \* the channels in data_stream
  requested,   \* _requested_channel
  wifi,        \* _requested_wifi
  pc,          \* where the main loop is
  pilot,       \* *_pilot of the drone
  \* History:
  held,        \* where the axes are, as the joystick has reported
  reported,    \* the axes that have been reported
  asked        \* what the last frame was composed from

history == <<held, reported, asked>>
vars == <<data, requested, wifi, pc, pilot, held, reported, asked>>

-----------------------------------------------------------------------------
(* Conversions of the drone.                                               *)

MaxPwm == 100000
HalfRange == 32767
MaxPowerOnGas == (MaxPwm * 10) \div 100
MinPowerOnYaw == (MaxPwm \div 359) \div 2

\* a * b / c, rounded towards zero, in numbers TLC can hold.
Scaled(a, b, c) ==
  IF a >= 0 THEN (a \div c) * b + (((a % c) * b) \div c)
            ELSE -(((-a) \div c) * b + ((((-a) % c) * b) \div c))

\* range_pilot_value() with its fraction MAX_PWM / (offset * 2) reduced.
InRange(raw, max, total) == Scaled(Scaled(raw, MaxPwm \div 2, HalfRange), max, total)

Raw(byte) == byte * 256

Tilt(byte) == InRange(Raw(byte), 5, 359)
Yaw(byte) == InRange(Raw(byte), 5, 359)
Gas_Centred(byte) == InRange(Raw(byte), 80, 100)
Gas(byte) == InRange(Raw(byte) + HalfRange, 80, 100)

\* parse_pilot() with the mapping "RPG0aYCW"; auxA and auxB are read by nobody.
\* The channel of an illegal request is kept.
Parsed_SwappedTail(d) ==
  [roll |-> Tilt(d[0]), pitch |-> Tilt(d[1]), gas |-> Gas(d[2]), yaw |-> Yaw(d[5]),
   channel |-> IF d[7] \in 1..13 THEN d[7] ELSE pilot.channel, wifi |-> d[6]]
Parsed(d) ==
  [roll |-> Tilt(d[0]), pitch |-> Tilt(d[1]), gas |-> Gas(d[2]), yaw |-> Yaw(d[5]),
   channel |-> IF d[6] \in 1..13 THEN d[6] ELSE pilot.channel, wifi |-> d[7]]

Init ==
  /\ data \in {d \in [Numbers -> Bytes] : \A n \in Numbers \ Moving : d[n] = 0}
  /\ requested \in Channels /\ wifi \in Wifis
  /\ pc = "joystick"
  /\ pilot = [roll |-> 0, pitch |-> 0, gas |-> 0, yaw |-> 0, channel |-> 0, wifi |-> 2]
  /\ held = [n \in Numbers |-> 0] /\ reported = Numbers \ Moving
  /\ asked = [channel |-> 0, wifi |-> 2]

-----------------------------------------------------------------------------
\* The telemetry thread: another channel or mode is asked for.
Request ==
  /\ requested' \in Channels /\ wifi' \in Wifis
  /\ UNCHANGED <<data, pc, pilot, history>>

\* The joystick reports an axis: the high byte of its value is stored.
AxisEvent(n, b) ==
  /\ pc = "joystick"
  /\ data' = [data EXCEPT ![n] = b]
  /\ held' = [held EXCEPT ![n] = b] /\ reported' = reported \cup {n}
  /\ pc' = "channel"
  /\ UNCHANGED <<requested, wifi, pilot, asked>>

\* It reports a button: the high byte of 0 or 1 is stored, over the axis of that
\* number if there is one.
ButtonByte_Full == -128
ButtonByte == 0
ButtonEvent(b) ==
  /\ pc = "joystick"
  /\ data' = [n \in Numbers |-> IF n = b THEN ButtonByte ELSE data[n]]
  /\ pc' = "channel"
  /\ UNCHANGED <<requested, wifi, pilot, history>>

NoEvent ==
  /\ pc = "joystick"
  /\ pc' = "channel"
  /\ UNCHANGED <<data, requested, wifi, pilot, history>>

\* The last two channels of the frame are the station's requests.
PutChannel ==
  /\ pc = "channel"
  /\ data' = [data EXCEPT ![Axes - 2] = requested]
  /\ asked' = [asked EXCEPT !.channel = requested]
  /\ pc' = "wifi"
  /\ UNCHANGED <<requested, wifi, pilot, held, reported>>

PutWifi ==
  /\ pc = "wifi"
  /\ data' = [data EXCEPT ![Axes - 1] = wifi]
  /\ asked' = [asked EXCEPT !.wifi = wifi]
  /\ pc' = "send"
  /\ UNCHANGED <<requested, wifi, pilot, held, reported>>

\* A frame is due and arrives, or it is not due yet or lost.
Deliver ==
  /\ pc = "send"
  /\ pilot' = Parsed(data)
  /\ pc' = "joystick"
  /\ UNCHANGED <<data, requested, wifi, history>>

NotDelivered ==
  /\ pc = "send"
  /\ pc' = "joystick"
  /\ UNCHANGED <<data, requested, wifi, pilot, history>>

Next ==
  \/ Request
  \/ \E n \in Moving, b \in Bytes : AxisEvent(n, b)
  \/ \E b \in Buttons : ButtonEvent(b)
  \/ NoEvent \/ PutChannel \/ PutWifi \/ Deliver \/ NotDelivered

Spec == Init /\ [][Next]_vars

-----------------------------------------------------------------------------
\* Every variable keeps its type; the sticks of the drone keep to the ranges of
\* imu.h, the gas above all is never negative.
MaxTilt == (((MaxPwm \div 2) + 2) * 5) \div 359
TypeOK ==
  /\ data \in [Numbers -> -128..127] /\ held \in [Numbers -> Bytes]
  /\ requested \in Channels /\ wifi \in Wifis
  /\ pc \in {"joystick", "channel", "wifi", "send"}
  /\ {pilot.roll, pilot.pitch, pilot.yaw} \subseteq (-MaxTilt)..MaxTilt
  /\ pilot.gas \in 0..((MaxPwm * 80) \div 100)
  /\ pilot.channel \in 0..13 /\ pilot.wifi \in {1, 2}
  /\ reported \subseteq Numbers /\ asked \in [channel : 0..13, wifi : {1, 2}]

\* The channel and the wifi mode the drone takes from a frame are those the
\* station asked for when it composed it, whatever the joystick has stored over
\* their bytes (main loop of the pilot, parse_pilot).
RequestArrives ==
  [][pc = "send" /\ pilot' # pilot =>
       pilot'.channel = asked.channel /\ pilot'.wifi = asked.wifi]_vars

\* Once every axis has been reported, a frame switches the engines on or off
\* only if the operator holds the gas in the lowest eighth of its travel and the
\* yaw to that side: no button stands in for a stick, and the threshold, ten
\* percent of the power where the whole travel is eighty, is where it should be
\* through the shift and both truncations (main loop of the pilot, parse_pilot,
\* apply_pilot).
LowestEighth(byte) == 8 * (byte + 128) <= 256
GestureIsHeld ==
  [][pc = "send" /\ pilot' # pilot /\ reported = Numbers /\ pilot'.gas < MaxPowerOnGas =>
       /\ pilot'.yaw > MinPowerOnYaw => LowestEighth(held[2]) /\ held[5] > 0
       /\ pilot'.yaw < -MinPowerOnYaw => LowestEighth(held[2]) /\ held[5] < 0]_vars

-----------------------------------------------------------------------------
(* Why they hold: from the request to the frame nobody else writes its     *)
(* bytes, and a stick that has been reported is what it is held at, or     *)
(* centred by a button.                                                    *)
RequestInv ==
  /\ pc \in {"wifi", "send"} => asked.channel \in Channels /\ data[Axes - 2] = asked.channel
  /\ pc = "send" => data[Axes - 1] = asked.wifi
HeldInv ==
  \A n \in reported : n < Axes - 2 => data[n] \in {held[n], ButtonByte}

=============================================================================
