---------------------------- MODULE HeadingHold ----------------------------
(***************************************************************************)
(* How the drone knows and holds its heading: the yaw part of the sensor   *)
(* driver (gy953.c) and of the control loop (imu.c).  The sensor's yaw     *)
(* wraps at half a turn; the driver filters the difference of two readings *)
(* into a rate and adds the rates up.  The loop holds yaw_abs, which       *)
(* follows the heading until the gas is up and the stick from then on.     *)
(*                                                                         *)
(* Nothing in the code depends on the absolute heading it has added up, so *)
(* lead is the difference between yaw_abs and it: what the yaw controller  *)
(* is told to correct.                                                     *)
(***************************************************************************)
EXTENDS Integers

CONSTANTS
  HalfTurn,    \* 180 degrees as the sensor counts them, 18000
  WrapLimit,   \* differences beyond it are a wrap, 30000
  MaxStep,     \* the furthest the drone turns between two samples
  PseudoHz,    \* PSEUDO_HZ
  Sticks,      \* _pilot->yaw
  LeadCap      \* leads beyond it are not told apart

Readings == (-HalfTurn)..(HalfTurn - 1)

ASSUME TurnAssumption ==
  /\ HalfTurn \in Nat \ {0} /\ MaxStep \in Nat /\ WrapLimit \in Nat
  /\ HalfTurn <= WrapLimit
  /\ MaxStep <= WrapLimit /\ WrapLimit < 2 * HalfTurn - MaxStep
ASSUME LoopAssumption == PseudoHz \in Nat \ {0, 1} /\ Sticks \subseteq Int

VARIABLES
  heading,    \* where the drone points, as the sensor counts it
  usable,     \* the serial port delivers samples
  cacheYaw,   \* _cache_yaw
  rate,       \* _cache_dtyaw, the last *diff_yaw
  tick,       \* _pseudo_hz_tick
  lead,       \* _pilot->yaw_abs - _imu->yaw
  pc,
  low         \* passes since the gas was up, saturating at 3; history

vars == <<heading, usable, cacheYaw, rate, tick, lead, pc, low>>

Size(x) == IF x < 0 THEN -x ELSE x
Quot(a, b) == IF a >= 0 THEN a \div b ELSE -((-a) \div b)   \* C's division, b > 0

\* The fastest rate there is a reason for: a real turn, or the heading at
\* power-up, which the filter takes for a turn from zero.
MaxRate == IF MaxStep > HalfTurn \div 10 THEN MaxStep ELSE HalfTurn \div 10

ASSUME LeadAssumption == LeadCap \in Nat /\ 3 * MaxRate <= LeadCap

Capped(x) == IF x > LeadCap THEN LeadCap ELSE IF x < -LeadCap THEN -LeadCap ELSE x

Init ==
  /\ heading \in Readings
  /\ usable = FALSE /\ cacheYaw = 0 /\ rate = 0 /\ tick = 0 /\ lead = 0
  /\ pc = "start" /\ low = 3

-----------------------------------------------------------------------------
(* get_euler_sample().                                                     *)

\* Where a turn by s from h shows on the sensor.
Turned(h, s) ==
  IF h + s >= HalfTurn THEN h + s - 2 * HalfTurn
  ELSE IF h + s < -HalfTurn THEN h + s + 2 * HalfTurn ELSE h + s

\* A tenth of the difference and nine of the old rate, in float: truncated, and
\* a result that should be whole may come out just below.
Filtered_Rounded(d, r) == {Quot(d + 9 * r + (IF d + 9 * r > 0 THEN 5 ELSE -5), 10)}
Filtered(d, r) ==
  LET x == d + 9 * r
      q == Quot(x, 10)
  IN  IF x % 10 # 0 \/ x = 0 THEN {q} ELSE {q, IF q > 0 THEN q - 1 ELSE q + 1}

Wrapped_Never(d) == FALSE
Wrapped(d) == Size(d) > WrapLimit

Rates(d, r) == IF Wrapped(d) THEN {r} ELSE Filtered(d, r)

-----------------------------------------------------------------------------
(* init_gy953().  Its got is tested before it is ever written.             *)

StartSampled ==
  /\ pc = "start"
  /\ usable' = TRUE
  /\ cacheYaw' = heading /\ rate' \in Rates(heading, 0)
  /\ pc' = "sample"
  /\ UNCHANGED <<heading, tick, lead, low>>

\* What got happens to hold is a sample's length: nothing is read, and the port
\* is reopened; the sensor may still be sending from before.
StartSkipped ==
  /\ pc = "start"
  /\ usable' = TRUE
  /\ pc' = "sample"
  /\ UNCHANGED <<heading, cacheYaw, rate, tick, lead, low>>

\* Ten bad samples: the port stays closed and nobody looks at the result.
StartFailed ==
  /\ pc = "start"
  /\ usable' = FALSE
  /\ pc' = "sample"
  /\ UNCHANGED <<heading, cacheYaw, rate, tick, lead, low>>

-----------------------------------------------------------------------------
(* The loop.                                                               *)

NextTick(t) == IF t + 1 >= PseudoHz THEN 0 ELSE t + 1

Sample ==
  /\ pc = "sample" /\ usable
  /\ \E s \in (-MaxStep)..MaxStep : heading' = Turned(heading, s)
  /\ rate' \in Rates(heading' - cacheYaw, rate)
  /\ cacheYaw' = heading'
  /\ lead' = Capped(lead - rate')
  /\ tick' = NextTick(tick)
  /\ pc' = "steer"
  /\ UNCHANGED <<usable, low>>

\* A bad sample ends the program; it may be started again.
SampleFailed ==
  /\ pc = "sample"
  /\ heading' \in Readings
  /\ usable' = FALSE /\ cacheYaw' = 0 /\ rate' = 0 /\ tick' = 0 /\ lead' = 0
  /\ pc' = "start" /\ low' = 3

LowPass == low' = IF low = 3 THEN 3 ELSE low + 1

EnginesOff ==
  /\ pc = "steer"
  /\ lead' = 0
  /\ pc' = "sample" /\ LowPass
  /\ UNCHANGED <<heading, usable, cacheYaw, rate, tick>>

Steering == tick % 3 # 0

GasLow_HoldsOn ==
  /\ pc = "steer"
  /\ lead' = lead
  /\ pc' = "sample" /\ LowPass
  /\ UNCHANGED <<heading, usable, cacheYaw, rate, tick>>
GasLow ==
  /\ pc = "steer"
  /\ lead' = IF Steering THEN 0 ELSE lead
  /\ pc' = "sample" /\ LowPass
  /\ UNCHANGED <<heading, usable, cacheYaw, rate, tick>>

GasUp ==
  /\ pc = "steer"
  /\ \E y \in Sticks : lead' = IF Steering THEN Capped(lead + Quot(y, 5)) ELSE lead
  /\ pc' = "sample" /\ low' = 0
  /\ UNCHANGED <<heading, usable, cacheYaw, rate, tick>>

Starting == StartSampled \/ StartSkipped \/ StartFailed
Steer == EnginesOff \/ GasLow \/ GasUp

Next == Starting \/ Sample \/ SampleFailed \/ Steer

Spec == Init /\ [][Next]_vars

\* The sensor keeps sending and the loop keeps running.
FairSpec == Spec /\ WF_vars(Sample) /\ WF_vars(Steer)

-----------------------------------------------------------------------------
\* Every variable keeps its type.
TypeOK ==
  /\ heading \in Readings /\ cacheYaw \in Readings /\ usable \in BOOLEAN
  /\ rate \in Int /\ lead \in (-LeadCap)..LeadCap /\ tick \in 0..(PseudoHz - 1)
  /\ pc \in {"start", "sample", "steer"} /\ low \in 0..3

\* However the heading crosses the seam at half a turn, restarts included, the
\* controllers never see a faster rate than a real turn, or than the tenth of
\* the heading at power-up (get_euler_sample).
RateReal == Size(rate) <= MaxRate

\* Unless the gas has just been up, the yaw controller is never told to correct
\* more than the turn of two samples, although the loop only follows the heading
\* on ticks that are no multiple of three and the tick wraps at 100
\* (main loop, yaw_abs).
HoldFollows == pc = "sample" /\ low = 3 => Size(lead) <= 2 * MaxRate

\* When the drone stops turning, the rate comes to rest at zero: the filter's
\* truncation leaves nothing behind (get_euler_sample).
Settles ==
  \A h \in Readings : <>[](heading = h /\ pc # "start") => <>[](rate = 0)

-----------------------------------------------------------------------------
(***************************************************************************)
(* What makes them inductive.  Only before its first sample is the driver  *)
(* without the reading it subtracts; of three passes in a row one at least *)
(* steers.                                                                 *)
(***************************************************************************)
RateInv ==
  /\ RateReal
  /\ cacheYaw # heading => cacheYaw = 0 /\ rate = 0

\* Ticks that do not steer since one that did: none, the last, or the last two.
Unsteered == IF tick % 3 # 0 THEN 0 ELSE IF tick = 0 THEN 2 ELSE 1

HoldInv ==
  /\ pc = "start" => lead = 0 /\ tick = 0 /\ low = 3
  /\ pc = "sample" /\ low > Unsteered => Size(lead) <= Unsteered * MaxRate
  /\ pc = "steer" /\ Unsteered > 0 /\ low >= Unsteered => Size(lead) <= Unsteered * MaxRate

=============================================================================
