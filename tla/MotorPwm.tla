------------------------------ MODULE MotorPwm ------------------------------
(***************************************************************************)
(* The four motors (pwm.c) and the mixer that feeds them (main loop of     *)
(* imu.c).  set_pwm() writes one duty cycle after the other into the       *)
(* kernel, which keeps the old one when the number is negative or beyond   *)
(* the period; the results of the writes are ignored and cache_pwm keeps   *)
(* what was asked for.  The process may end at any point; the kernel's     *)
(* duties and the enable switches survive it.                              *)
(***************************************************************************)
EXTENDS Integers

CONSTANTS
  Period,   \* MAX_PWM
  Thrusts,  \* _pilot->gas
  Turns     \* outputs of the pitch, roll and yaw rate controllers

ASSUME PeriodAssumption == Period \in Nat
ASSUME MixAssumption == Thrusts \subseteq Int /\ Turns \subseteq Int

Chans == 0..3   \* pwm0 to pwm3

VARIABLES
  \* the kernel
  duty,      \* duty_cycle of each motor
  enabled,   \* its enable switch
  \* the process
  cache,     \* cache_pwm0..3
  want,      \* the arguments of the set_pwm() call under way
  phase,     \* what the process is doing
  at,        \* the motor it does it to next
  thrust     \* the gas in want, history

pwmVars == <<duty, enabled, cache, want, phase, at, thrust>>

Zero == [m \in Chans |-> 0]

Phases == {"gone", "disable", "reset", "enable", "idle", "write"}

\* At power-up the kernel has every motor off.
PwmInit ==
  /\ duty = Zero /\ enabled = [m \in Chans |-> FALSE]
  /\ cache = Zero /\ want = Zero
  /\ phase = "gone" /\ at = 0 /\ thrust = 0

\* One motor of a phase that treats all four, then the next phase.
EachMotor(from, to) ==
  /\ phase = from
  /\ IF at = 3 THEN at' = 0 /\ phase' = to ELSE at' = at + 1 /\ phase' = phase

-----------------------------------------------------------------------------
(* init_pwm().                                                             *)

Start ==
  /\ phase = "gone"
  /\ phase' = "disable" /\ at' = 0
  /\ UNCHANGED <<duty, enabled, cache, want, thrust>>

Disable_Unwritten ==
  /\ EachMotor("disable", "enable")
  /\ enabled' = [enabled EXCEPT ![at] = FALSE]
  /\ UNCHANGED <<duty, cache, want, thrust>>
Disable ==
  /\ EachMotor("disable", "reset")
  /\ enabled' = [enabled EXCEPT ![at] = FALSE]
  /\ UNCHANGED <<duty, cache, want, thrust>>

Enable ==
  /\ EachMotor("enable", "idle")
  /\ enabled' = [enabled EXCEPT ![at] = TRUE]
  /\ UNCHANGED <<duty, cache, want, thrust>>

-----------------------------------------------------------------------------
(* set_pwm().                                                              *)

\* The kernel's answer to a write to duty_cycle.
Accepted(d) == d \in 0..Period

\* What the writes leave in cache_pwm, once all four are done.
Cached == IF at = 3 THEN want ELSE cache

Write_OnlyChanges ==
  /\ EachMotor("reset", "enable") \/ EachMotor("write", "idle")
  /\ duty' = IF want[at] # cache[at] /\ Accepted(want[at]) THEN [duty EXCEPT ![at] = want[at]] ELSE duty
  /\ cache' = Cached
  /\ UNCHANGED <<enabled, want, thrust>>
Write_Positive ==
  /\ EachMotor("reset", "enable") \/ EachMotor("write", "idle")
  /\ duty' = IF want[at] > 0 /\ Accepted(want[at]) THEN [duty EXCEPT ![at] = want[at]] ELSE duty
  /\ cache' = Cached
  /\ UNCHANGED <<enabled, want, thrust>>
Write_SkipsLast ==
  /\ EachMotor("reset", "enable") \/ EachMotor("write", "idle")
  /\ duty' = IF at < 3 /\ Accepted(want[at]) THEN [duty EXCEPT ![at] = want[at]] ELSE duty
  /\ cache' = Cached
  /\ UNCHANGED <<enabled, want, thrust>>
Write ==
  /\ EachMotor("reset", "enable") \/ EachMotor("write", "idle")
  /\ duty' = IF Accepted(want[at]) THEN [duty EXCEPT ![at] = want[at]] ELSE duty
  /\ cache' = Cached
  /\ UNCHANGED <<enabled, want, thrust>>

\* The mixer, motor by motor; limitedYaw is -yaw.
Mixed(p, r, y, g) == <<p + r + y + g, -r + p - y + g, r - p - y + g, -p - r + y + g>>

MixMotors ==
  /\ phase = "idle"
  /\ thrust' \in Thrusts
  /\ \E p, r, y \in Turns : want' = [m \in Chans |-> Mixed(p, r, y, thrust')[m + 1]]
  /\ phase' = "write" /\ at' = 0
  /\ UNCHANGED <<duty, enabled, cache>>

\* The engines are off, or the sensor has failed.
Stop ==
  /\ phase = "idle"
  /\ want' = Zero /\ thrust' = 0
  /\ phase' = "write" /\ at' = 0
  /\ UNCHANGED <<duty, enabled, cache>>

\* The process ends anywhere; a new one starts from zeroed globals.
Exit ==
  /\ phase # "gone"
  /\ phase' = "gone" /\ at' = 0
  /\ cache' = Zero /\ want' = Zero /\ thrust' = 0
  /\ UNCHANGED <<duty, enabled>>

PwmNext == Start \/ Disable \/ Enable \/ Write \/ MixMotors \/ Stop \/ Exit

PwmSpec == PwmInit /\ [][PwmNext]_pwmVars

-----------------------------------------------------------------------------
\* Every variable keeps its type; no duty cycle ever leaves the period.
DutiesTyped ==
  /\ duty \in [Chans -> 0..Period] /\ enabled \in [Chans -> BOOLEAN]
  /\ cache \in [Chans -> Int] /\ want \in [Chans -> Int]
  /\ phase \in Phases /\ at \in Chans /\ thrust \in Int

\* Whatever mixes were refused before, and wherever an earlier process ended, a
\* completed set_pwm(0,0,0,0) leaves all four motors at zero (set_pwm).
ZeroStops == phase = "idle" /\ want = Zero => duty = Zero

\* The telemetry's motor values are the motors', unless the number could not be
\* a duty cycle (set_pwm, get_pwm).
ShownOrRefused ==
  phase = "idle" => \A m \in Chans : cache[m] \in 0..Period => duty[m] = cache[m]

\* A restarted program never brings a motor back to life at the duty cycle its
\* predecessor left (init_pwm).
EnabledAtZero ==
  [][\A m \in Chans : ~enabled[m] /\ enabled'[m] => duty[m] = 0]_pwmVars

\* The controllers only shift thrust between the motors: the four duties asked
\* for add up to four times the gas (mixer of the main loop).
Sum(f) == f[0] + f[1] + f[2] + f[3]
ThrustPreserved == phase = "idle" => Sum(cache) = 4 * thrust

-----------------------------------------------------------------------------
(***************************************************************************)
(* What makes them inductive: a set_pwm() under way has written the motors *)
(* it has passed, and the start of the program only ever asks for zeros.   *)
(***************************************************************************)
Written(m) == phase \in {"enable", "idle"} \/ (phase \in {"reset", "write"} /\ m < at)

PwmInv ==
  /\ phase \in {"gone", "disable", "reset", "enable"} => want = Zero /\ thrust = 0
  /\ \A m \in Chans : Written(m) /\ Accepted(want[m]) => duty[m] = want[m]
  /\ phase \in {"enable", "idle"} => cache = want
  /\ Sum(want) = 4 * thrust

MixInv ==
  want = Zero \/ \E p, r, y \in Turns : want = [m \in Chans |-> Mixed(p, r, y, thrust)[m + 1]]

=============================================================================
