------------------------- MODULE CommandFrameProofs -------------------------
(***************************************************************************)
(* Proofs about CommandFrame, for any sticks, buttons and requests, and    *)
(* every byte an axis can report.                                          *)
(***************************************************************************)
EXTENDS CommandFrame, TLAPS

-----------------------------------------------------------------------------
(* The conversions.                                                        *)

Times(a, b, c) == (a \div c) * b + (((a % c) * b) \div c)

LEMMA TimesHalf ==
  ASSUME NEW a \in Nat
  PROVE  /\ Times(a, 50000, 32767) \in Nat
         /\ a = 0 => Times(a, 50000, 32767) = 0
         /\ a = 1 => Times(a, 50000, 32767) = 1
         /\ a <= 32768 => Times(a, 50000, 32767) <= 50001
         /\ a <= 65279 => Times(a, 50000, 32767) <= 99999
         /\ a >= 8447 => Times(a, 50000, 32767) >= 12500
<1>1. PICK q \in Nat, m \in Nat : q = a \div 32767 /\ m = a % 32767
  OBVIOUS
<1>2. a = 32767 * q + m /\ m < 32767
  BY <1>1
<1>3. PICK k \in Nat : k = (m * 50000) \div 32767
  OBVIOUS
<1>4. 32767 * k <= m * 50000 /\ m * 50000 < 32767 * k + 32767
  BY <1>3
<1>5. Times(a, 50000, 32767) = q * 50000 + k
  BY <1>1, <1>3 DEF Times
<1>6. k < 50000 /\ (m = 0 => k = 0) /\ (m = 1 => k = 1) /\ (m <= 32512 => k <= 49999)
  BY <1>2, <1>4
<1>7. a = 0 => q = 0 /\ m = 0
  BY <1>2
<1>8. a = 1 => q = 0 /\ m = 1
  BY <1>2
<1>10. a <= 32768 => q = 0 \/ (q = 1 /\ m <= 1)
  BY <1>2
<1>11. a <= 65279 => q <= 1
  BY <1>2
<1>12. a >= 8447 => q >= 1 \/ m >= 8447
  BY <1>2
<1>13. m >= 8447 => k >= 12500
  BY <1>4
<1> HIDE DEF Times
<1>14. a >= 8447 => q * 50000 + k >= 12500
  BY <1>12, <1>13
<1> QED
  BY <1>5, <1>6, <1>7, <1>8, <1>10, <1>11, <1>14

LEMMA TimesTilt ==
  ASSUME NEW a \in Nat
  PROVE  /\ Times(a, 5, 359) \in Nat
         /\ a = 0 => Times(a, 5, 359) = 0
         /\ a <= 50001 => Times(a, 5, 359) <= 696
<1>1. PICK q \in Nat, m \in Nat : q = a \div 359 /\ m = a % 359
  OBVIOUS
<1>2. a = 359 * q + m /\ m < 359
  BY <1>1
<1>3. PICK k \in Nat : k = (m * 5) \div 359
  OBVIOUS
<1>4. 359 * k <= m * 5 /\ m * 5 < 359 * k + 359
  BY <1>3
<1>5. Times(a, 5, 359) = q * 5 + k
  BY <1>1, <1>3 DEF Times
<1>6. 359 * (q * 5 + k) <= 5 * a
  BY <1>2, <1>4
<1> QED
  BY <1>5, <1>6

LEMMA TimesGas ==
  ASSUME NEW a \in Nat
  PROVE  /\ Times(a, 80, 100) \in Nat
         /\ a <= 1 => Times(a, 80, 100) = 0
         /\ a <= 99999 => Times(a, 80, 100) <= 80000
         /\ a >= 12500 => Times(a, 80, 100) >= 10000
<1>1. PICK q \in Nat, m \in Nat : q = a \div 100 /\ m = a % 100
  OBVIOUS
<1>2. a = 100 * q + m /\ m < 100
  BY <1>1
<1>3. PICK k \in Nat : k = (m * 80) \div 100
  OBVIOUS
<1>4. 100 * k <= m * 80 /\ m * 80 < 100 * k + 100
  BY <1>3
<1>5. Times(a, 80, 100) = q * 80 + k
  BY <1>1, <1>3 DEF Times
<1>6. 100 * (q * 80 + k) <= 80 * a /\ 80 * a < 100 * (q * 80 + k) + 100
  BY <1>2, <1>4
<1> QED
  BY <1>5, <1>6

LEMMA ScaledIs ==
  ASSUME NEW a \in Int, NEW b \in Nat, NEW c \in Nat \ {0}
  PROVE  Scaled(a, b, c) = IF a >= 0 THEN Times(a, b, c) ELSE -Times(-a, b, c)
  BY DEF Scaled, Times

LEMMA Constants ==
  /\ MaxPwm \div 2 = 50000 /\ HalfRange = 32767
  /\ MaxPowerOnGas = 10000 /\ MinPowerOnYaw = 139
  /\ MaxTilt = 696 /\ (MaxPwm * 80) \div 100 = 80000
<1>1. MaxPwm = 100000
  BY DEF MaxPwm
<1>2. 100000 \div 2 = 50000 /\ (100000 * 10) \div 100 = 10000 /\ 100000 \div 359 = 278
      /\ 278 \div 2 = 139 /\ ((50000 + 2) * 5) \div 359 = 696 /\ (100000 * 80) \div 100 = 80000
  OBVIOUS
<1> QED
  BY <1>1, <1>2 DEF HalfRange, MaxPowerOnGas, MinPowerOnYaw, MaxTilt

\* A tilt or a yaw stays within its range, and has the sign of its stick.
LEMMA StickInRange ==
  ASSUME NEW b \in -128..127
  PROVE  /\ Yaw(b) \in (-MaxTilt)..MaxTilt /\ Tilt(b) = Yaw(b)
         /\ Yaw(b) > 0 => b > 0
         /\ Yaw(b) < 0 => b < 0
<1>1. PICK r \in Int : r = Raw(b) /\ r = b * 256
  BY DEF Raw
<1>2. r >= -32768 /\ r <= 32767
  BY <1>1
<1>3. PICK s \in Int : /\ s = Scaled(r, 50000, 32767) /\ s >= -50001 /\ s <= 50001
                       /\ r >= 0 => s >= 0
                       /\ r <= 0 => s <= 0
  <2>1. CASE r >= 0
    <3>1. Scaled(r, 50000, 32767) = Times(r, 50000, 32767)
      BY <2>1, ScaledIs
    <3> QED
      BY <1>2, <2>1, <3>1, TimesHalf
  <2>2. CASE r < 0
    <3>1. Scaled(r, 50000, 32767) = -Times(-r, 50000, 32767)
      BY <2>2, ScaledIs
    <3>2. PICK a \in Nat : a = -r /\ a <= 32768
      BY <1>2, <2>2
    <3>3. PICK k \in Nat : k = Times(a, 50000, 32767) /\ k <= 50001
      BY <3>2, TimesHalf
    <3> QED
      BY <2>2, <3>1, <3>2, <3>3
  <2> QED
    BY <2>1, <2>2
<1>4. PICK y \in Int : /\ y = Scaled(s, 5, 359) /\ y >= -696 /\ y <= 696
                       /\ s >= 0 => y >= 0
                       /\ s <= 0 => y <= 0
  <2>1. CASE s >= 0
    <3>1. Scaled(s, 5, 359) = Times(s, 5, 359)
      BY <2>1, ScaledIs
    <3>2. s = 0 => Times(s, 5, 359) = 0
      BY TimesTilt
    <3> QED
      BY <1>3, <2>1, <3>1, <3>2, TimesTilt
  <2>2. CASE s < 0
    <3>1. Scaled(s, 5, 359) = -Times(-s, 5, 359)
      BY <2>2, ScaledIs
    <3>2. PICK a \in Nat : a = -s /\ a <= 50001
      BY <1>3, <2>2
    <3>3. PICK k \in Nat : k = Times(a, 5, 359) /\ k <= 696
      BY <3>2, TimesTilt
    <3> QED
      BY <2>2, <3>1, <3>2, <3>3
  <2> QED
    BY <2>1, <2>2
<1>5. Yaw(b) = y /\ Tilt(b) = y
  BY <1>1, <1>3, <1>4, Constants DEF Yaw, Tilt, InRange
<1> QED
  BY <1>1, <1>3, <1>4, <1>5, Constants

\* The gas is never negative, although the lowest stick lies one below the range,
\* and it reaches the threshold of the gestures above the lowest eighth of the
\* stick's travel.
LEMMA GasInRange ==
  ASSUME NEW b \in -128..127
  PROVE  Gas(b) \in 0..((MaxPwm * 80) \div 100) /\ (b > -96 => Gas(b) >= 10000)
<1>1. PICK r \in Int : r = Raw(b) + 32767 /\ r = b * 256 + 32767
  BY DEF Raw
<1>2. r >= -1 /\ r <= 65279 /\ (b > -96 => r >= 8447)
  BY <1>1
<1>3. PICK s \in Int : /\ s = Scaled(r, 50000, 32767) /\ s >= -1 /\ s <= 99999
                       /\ r >= 8447 => s >= 12500
  <2>1. CASE r >= 0
    <3>1. Scaled(r, 50000, 32767) = Times(r, 50000, 32767)
      BY <2>1, ScaledIs
    <3> QED
      BY <1>2, <2>1, <3>1, TimesHalf
  <2>2. CASE r = -1
    <3>1. Scaled(r, 50000, 32767) = -Times(1, 50000, 32767)
      BY <2>2, ScaledIs
    <3>2. Times(1, 50000, 32767) = 1
      BY TimesHalf
    <3> QED
      BY <2>2, <3>1, <3>2
  <2> QED
    BY <1>2, <2>1, <2>2
<1>4. PICK g \in Int : /\ g = Scaled(s, 80, 100) /\ g >= 0 /\ g <= 80000
                       /\ s >= 12500 => g >= 10000
  <2>1. CASE s >= 0
    <3>1. Scaled(s, 80, 100) = Times(s, 80, 100)
      BY <2>1, ScaledIs
    <3> QED
      BY <1>3, <2>1, <3>1, TimesGas
  <2>2. CASE s = -1
    <3>1. Scaled(s, 80, 100) = -Times(1, 80, 100)
      BY <2>2, ScaledIs
    <3>2. Times(1, 80, 100) = 0
      BY TimesGas
    <3> QED
      BY <2>2, <3>1, <3>2
  <2> QED
    BY <1>3, <2>1, <2>2
<1>5. Gas(b) = g
  BY <1>1, <1>3, <1>4, Constants DEF Gas, InRange
<1> QED
  BY <1>2, <1>3, <1>4, <1>5, Constants

-----------------------------------------------------------------------------
(* The main loop.                                                          *)

Ind == TypeOK /\ RequestInv /\ HeldInv

LEMMA EightNumbers ==
  /\ Axes - 2 = 6 /\ Axes - 1 = 7 /\ Numbers = 0..7
  /\ Moving \subseteq Numbers /\ Channels \subseteq 1..13 /\ Wifis \subseteq {1, 2}
  /\ Bytes \subseteq -128..127 /\ 0 \in Bytes
  BY AxesAssumption, JoystickAssumption, RequestAssumption DEF Numbers

LEMMA InitInd == Init => Ind
<1> SUFFICES ASSUME Init PROVE Ind
  OBVIOUS
<1> USE EightNumbers
<1>1. data \in [Numbers -> -128..127] /\ held \in [Numbers -> Bytes]
  BY DEF Init
<1>2. requested \in Channels /\ wifi \in Wifis /\ pc = "joystick" /\ reported \subseteq Numbers
      /\ asked \in [channel : 0..13, wifi : {1, 2}]
  BY DEF Init
<1>3. {pilot.roll, pilot.pitch, pilot.yaw} \subseteq (-MaxTilt)..MaxTilt
      /\ pilot.gas \in 0..((MaxPwm * 80) \div 100)
      /\ pilot.channel \in 0..13 /\ pilot.wifi \in {1, 2}
  BY Constants DEF Init
<1>4. HeldInv
  BY DEF Init, HeldInv, ButtonByte
<1> QED
  BY <1>1, <1>2, <1>3, <1>4 DEF Ind, TypeOK, RequestInv

\* What the drone takes from a frame.
LEMMA ParsedFrame ==
  ASSUME Ind, pc = "send"
  PROVE  LET p == Parsed(data) IN
         /\ {p.roll, p.pitch, p.yaw} \subseteq (-MaxTilt)..MaxTilt
         /\ p.gas \in 0..((MaxPwm * 80) \div 100)
         /\ p.gas = Gas(data[2]) /\ p.yaw = Yaw(data[5])
         /\ p.channel = asked.channel /\ p.channel \in 0..13
         /\ p.wifi = asked.wifi /\ p.wifi \in {1, 2}
<1> USE EightNumbers
<1>1. \A n \in 0..7 : data[n] \in -128..127
  BY DEF Ind, TypeOK
<1>2. data[6] = asked.channel /\ asked.channel \in 1..13 /\ data[7] = asked.wifi
  BY DEF Ind, RequestInv
<1>3. asked.wifi \in {1, 2}
  BY DEF Ind, TypeOK
<1>4. Tilt(data[0]) \in (-MaxTilt)..MaxTilt /\ Tilt(data[1]) \in (-MaxTilt)..MaxTilt
      /\ Yaw(data[5]) \in (-MaxTilt)..MaxTilt
  BY <1>1, StickInRange
<1>5. Gas(data[2]) \in 0..((MaxPwm * 80) \div 100)
  BY <1>1, GasInRange
<1>6. Parsed(data).roll = Tilt(data[0]) /\ Parsed(data).pitch = Tilt(data[1])
      /\ Parsed(data).gas = Gas(data[2]) /\ Parsed(data).yaw = Yaw(data[5])
      /\ Parsed(data).channel = asked.channel /\ Parsed(data).wifi = asked.wifi
  BY <1>2 DEF Parsed
<1> QED
  BY <1>2, <1>3, <1>4, <1>5, <1>6

LEMMA NextInd == Ind /\ [Next]_vars => Ind'
<1> SUFFICES ASSUME Ind, [Next]_vars PROVE Ind'
  OBVIOUS
<1> USE EightNumbers
<1>1. CASE UNCHANGED vars
  BY <1>1 DEF vars, history, Ind, TypeOK, RequestInv, HeldInv
<1>2. CASE Request
  BY <1>2 DEF Request, history, Ind, TypeOK, RequestInv, HeldInv
<1>3. ASSUME NEW n \in Moving, NEW b \in Bytes, AxisEvent(n, b) PROVE Ind'
  <2>1. data' \in [Numbers -> -128..127] /\ held' \in [Numbers -> Bytes]
        /\ reported' \subseteq Numbers
    BY <1>3 DEF AxisEvent, Ind, TypeOK
  <2>2. TypeOK'
    BY <1>3, <2>1 DEF AxisEvent, Ind, TypeOK
  <2>3. HeldInv'
    BY <1>3 DEF AxisEvent, Ind, TypeOK, HeldInv
  <2>4. RequestInv'
    BY <1>3 DEF AxisEvent, RequestInv
  <2> QED
    BY <2>2, <2>3, <2>4 DEF Ind
<1>4. ASSUME NEW b \in Buttons, ButtonEvent(b) PROVE Ind'
  <2>1. data' = [n \in Numbers |-> IF n = b THEN 0 ELSE data[n]]
    BY <1>4 DEF ButtonEvent, ButtonByte
  <2>2. data' \in [Numbers -> -128..127]
    BY <2>1 DEF Ind, TypeOK
  <2>3. TypeOK'
    BY <1>4, <2>2 DEF ButtonEvent, history, Ind, TypeOK
  <2>4. HeldInv'
    BY <1>4, <2>1 DEF ButtonEvent, history, ButtonByte, Ind, TypeOK, HeldInv
  <2>5. RequestInv'
    BY <1>4 DEF ButtonEvent, RequestInv
  <2> QED
    BY <2>3, <2>4, <2>5 DEF Ind
<1>5. CASE NoEvent
  BY <1>5 DEF NoEvent, history, Ind, TypeOK, RequestInv, HeldInv
<1>6. CASE PutChannel
  <2>1. requested \in Channels /\ requested \in 1..13
    BY DEF Ind, TypeOK
  <2>2. data' = [data EXCEPT ![6] = requested]
        /\ asked' = [asked EXCEPT !.channel = requested]
    BY <1>6 DEF PutChannel
  <2>3. data' \in [Numbers -> -128..127] /\ asked' \in [channel : 0..13, wifi : {1, 2}]
    BY <2>1, <2>2 DEF Ind, TypeOK
  <2>4. TypeOK'
    BY <1>6, <2>3 DEF PutChannel, Ind, TypeOK
  <2>5. RequestInv'
    BY <1>6, <2>1, <2>2 DEF PutChannel, Ind, TypeOK, RequestInv
  <2>6. HeldInv'
    BY <1>6, <2>2 DEF PutChannel, Ind, TypeOK, HeldInv
  <2> QED
    BY <2>4, <2>5, <2>6 DEF Ind
<1>7. CASE PutWifi
  <2>1. wifi \in {1, 2}
    BY DEF Ind, TypeOK
  <2>2. data' = [data EXCEPT ![7] = wifi] /\ asked' = [asked EXCEPT !.wifi = wifi]
    BY <1>7 DEF PutWifi
  <2>3. data' \in [Numbers -> -128..127] /\ asked' \in [channel : 0..13, wifi : {1, 2}]
    BY <2>1, <2>2 DEF Ind, TypeOK
  <2>4. TypeOK'
    BY <1>7, <2>3 DEF PutWifi, Ind, TypeOK
  <2>5. RequestInv'
    BY <1>7, <2>2 DEF PutWifi, Ind, TypeOK, RequestInv
  <2>6. HeldInv'
    BY <1>7, <2>2 DEF PutWifi, Ind, TypeOK, HeldInv
  <2> QED
    BY <2>4, <2>5, <2>6 DEF Ind
<1>8. CASE Deliver
  <2>1. pilot' = Parsed(data) /\ pc = "send" /\ pc' = "joystick"
        /\ UNCHANGED <<data, requested, wifi, held, reported, asked>>
    BY <1>8 DEF Deliver, history
  <2>2. /\ {pilot'.roll, pilot'.pitch, pilot'.yaw} \subseteq (-MaxTilt)..MaxTilt
        /\ pilot'.gas \in 0..((MaxPwm * 80) \div 100)
        /\ pilot'.channel \in 0..13 /\ pilot'.wifi \in {1, 2}
    BY <2>1, ParsedFrame
  <2>3. TypeOK'
    BY <2>1, <2>2 DEF Ind, TypeOK
  <2> QED
    BY <2>1, <2>3 DEF Ind, RequestInv, HeldInv
<1>9. CASE NotDelivered
  BY <1>9 DEF NotDelivered, history, Ind, TypeOK, RequestInv, HeldInv
<1> QED
  BY <1>1, <1>2, <1>3, <1>4, <1>5, <1>6, <1>7, <1>8, <1>9 DEF Next

LEMMA OnlyDeliver ==
  ASSUME [Next]_vars, pilot' # pilot
  PROVE  Deliver
  BY DEF Next, vars, history, Request, AxisEvent, ButtonEvent, NoEvent, PutChannel, PutWifi,
    NotDelivered

\* Whatever the joystick reports, the sticks of the drone keep to the ranges of
\* imu.h: the gas is never negative, although the lowest byte of the stick lies one
\* below the range it is scaled from (range_pilot_value, parse_pilot).
THEOREM Typed == Spec => []TypeOK
<1>1. Ind => TypeOK
  BY DEF Ind
<1> QED
  BY <1>1, InitInd, NextInd, PTL DEF Spec

\* The drone takes the channel and the mode that the station asked for when it
\* composed the frame, whatever axis or button is reported under their numbers
\* (main loop of the pilot, parse_pilot).
THEOREM RequestsArrive == Spec => RequestArrives
<1>1. Ind /\ [Next]_vars =>
        [pc = "send" /\ pilot' # pilot =>
           pilot'.channel = asked.channel /\ pilot'.wifi = asked.wifi]_vars
  <2> SUFFICES ASSUME Ind, [Next]_vars, pc = "send", pilot' # pilot
               PROVE  pilot'.channel = asked.channel /\ pilot'.wifi = asked.wifi
    OBVIOUS
  <2>1. pilot' = Parsed(data)
    BY OnlyDeliver DEF Deliver
  <2> QED
    BY <2>1, ParsedFrame
<1> QED
  BY <1>1, InitInd, NextInd, PTL DEF Spec, RequestArrives

\* No button stands in for a stick in the gestures that switch the engines: it can
\* only centre the stick of its number, and a centred stick is part of neither
\* gesture.  The gas of both is below the threshold only where the stick is in the
\* lowest eighth of its travel (main loop of the pilot, parse_pilot, apply_pilot).
THEOREM GesturesAreHeld == Spec => GestureIsHeld
<1>1. Ind /\ [Next]_vars =>
        [pc = "send" /\ pilot' # pilot /\ reported = Numbers /\ pilot'.gas < MaxPowerOnGas =>
           /\ pilot'.yaw > MinPowerOnYaw => LowestEighth(held[2]) /\ held[5] > 0
           /\ pilot'.yaw < -MinPowerOnYaw => LowestEighth(held[2]) /\ held[5] < 0]_vars
  <2> SUFFICES ASSUME Ind, [Next]_vars, pc = "send", pilot' # pilot, reported = Numbers,
                      pilot'.gas < MaxPowerOnGas
      PROVE  /\ pilot'.yaw > MinPowerOnYaw => LowestEighth(held[2]) /\ held[5] > 0
             /\ pilot'.yaw < -MinPowerOnYaw => LowestEighth(held[2]) /\ held[5] < 0
    OBVIOUS
  <2>1. pilot' = Parsed(data)
    BY OnlyDeliver DEF Deliver
  <2>2. Gas(data[2]) < 10000 /\ pilot'.yaw = Yaw(data[5])
    BY <2>1, ParsedFrame, Constants
  <2>3. data[2] \in {held[2], 0} /\ data[5] \in {held[5], 0}
        /\ data[2] \in -128..127 /\ data[5] \in -128..127
    BY EightNumbers DEF Ind, TypeOK, HeldInv, ButtonByte
  <2>4. data[2] = held[2] /\ LowestEighth(data[2])
    <3>1. data[2] <= -96
      BY <2>2, <2>3, GasInRange, Constants
    <3> QED
      BY <2>3, <3>1 DEF LowestEighth
  <2>5. Yaw(data[5]) \in Int /\ (Yaw(data[5]) > 0 => data[5] > 0) /\ (Yaw(data[5]) < 0 => data[5] < 0)
    <3>1. /\ Yaw(data[5]) \in (-MaxTilt)..MaxTilt
          /\ Yaw(data[5]) > 0 => data[5] > 0
          /\ Yaw(data[5]) < 0 => data[5] < 0
      BY <2>3, StickInRange
    <3> QED
      BY <3>1, Constants
  <2> QED
    BY <2>2, <2>3, <2>4, <2>5, Constants
<1> QED
  BY <1>1, InitInd, NextInd, PTL DEF Spec, GestureIsHeld

=============================================================================
