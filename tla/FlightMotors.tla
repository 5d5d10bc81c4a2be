---------------------------- MODULE FlightMotors ----------------------------
(***************************************************************************)
(* The flight program (FlightControl) on its four motors (MotorPwm).       *)
(* FlightControl takes a set_pwm() for one step.  Here it is four writes   *)
(* into the kernel: the loop waits for them, the receiver does not, and    *)
(* may end the process between two of them.  A started program calls       *)
(* init_pwm() before it runs its threads.                                  *)
(***************************************************************************)
EXTENDS FlightControl, MotorPwm

\* The mixer is given the gas of the pilot.
ASSUME ThrustAssumption == Thrusts = Gases

program == vars
motors == pwmVars

MotorsInit == Init /\ PwmInit

\* init_pwm(): neither thread runs yet.
StartMotors ==
  /\ alive
  /\ \/ Start \/ Disable \/ Enable
     \/ phase = "reset" /\ Write
  /\ UNCHANGED program

\* A write of a set_pwm() that the loop has called.
WriteMotor == phase = "write" /\ Write /\ UNCHANGED program

\* The loop calls set_pwm() with its mix, or with zeros.
Drive == alive /\ Mix /\ MixMotors /\ thrust' = pilot.gas
Halt == alive /\ (Idle \/ ImuFailed) /\ Stop

\* The dead cutdown branch would stop the motors on its way to the mixer.
PassCutdown ==
  /\ alive /\ phase = "idle"
  /\ Cutdown
  /\ IF ticks >= CutdownTicks THEN Stop ELSE UNCHANGED motors

\* What else the loop does, between two calls of set_pwm().
Think ==
  /\ alive /\ phase = "idle"
  /\ \/ TickLoad \/ TickStore \/ UdpPoll \/ ImuSample \/ PowerCheck
     \/ Silence \/ CentreTilt \/ CentreYaw \/ GasTest \/ GasClamp
     \/ ApplyPilot("main") /\ alive'
  /\ UNCHANGED motors

\* The receiver, at any time.
Running == phase \in {"idle", "write"}
Listen == Running /\ Receiver /\ alive' /\ UNCHANGED motors

\* Either thread ends the process; the kernel keeps its duty cycles.
Quit ==
  /\ alive
  /\ \/ phase = "idle" /\ (ExitAfterSleep("main") \/ ExitOnImuFailure)
     \/ Running /\ ExitAfterSleep("rx")
  /\ Exit

Restart == Boot /\ UNCHANGED motors

Loop == StartMotors \/ WriteMotor \/ Drive \/ Halt \/ PassCutdown \/ Think

MotorsNext == Loop \/ Listen \/ Quit \/ Restart

MotorsSpec == MotorsInit /\ [][MotorsNext]_<<vars, motors>>

FairMotorsSpec ==
  /\ MotorsSpec
  /\ WF_<<vars, motors>>(Loop) /\ WF_<<vars, motors>>(Listen \/ Quit)

-----------------------------------------------------------------------------
\* What FlightControl says of the motors is true of the kernel's four duty
\* cycles: when no call is under way and it has them off, they are zero.
MotorsFollow == phase = "idle" /\ ~pwm.spin => duty = Zero

\* The process never ends with a motor turning, whichever thread ends it and
\* between whichever two writes (apply_wifi_status, IMU failure, set_pwm).
ExitLeavesNoDuty == ~alive => duty = Zero

\* The failsafe reaches the kernel (failsafe branch, mixer, set_pwm).  Once the
\* link is silent, a call of which no number was refused leaves four duty cycles
\* that add up to no more than the failsafe gas on each motor; and whatever was
\* refused, a write that changes a motor gives it a mix of at most that gas, or
\* stops it.  Only a motor whose write was refused may stand higher: it keeps the
\* duty cycle it had.
Silent == quiet > FailsafeTicks /\ ~HalfWritten
FailsafeMixes(m) == {Mixed(p, r, y, g)[m + 1] : p, r, y \in Turns, g \in 0..FailsafeGas}

FailsafeLift ==
  Silent /\ phase = "idle" /\ (\A m \in Chans : Accepted(cache[m])) =>
    Sum(duty) <= 4 * FailsafeGas
FailsafeWrites ==
  Silent => \A m \in Chans : duty'[m] \in FailsafeMixes(m) \cup {0, duty[m]}
FailsafeAtMotors == [][FailsafeWrites /\ FailsafeLift']_<<vars, motors>>

\* Engines that stay switched off stop, down to the last motor.
MotorsStop == <>[](~poweron) => <>[](duty = Zero)

-----------------------------------------------------------------------------
(***************************************************************************)
(* What makes them inductive, beside the invariants of the two parts: the  *)
(* call under way is the one FlightControl has seen the end of.            *)
(***************************************************************************)
Starting == {"gone", "disable", "reset", "enable"}

FollowInv ==
  /\ alive => thrust = pwm.gas
  /\ ~pwm.spin => want = Zero /\ thrust = 0
  /\ alive /\ phase \in Starting => ~pwm.spin
  /\ ~alive => phase = "gone" /\ want = Zero /\ thrust = 0

\* Without UDP frames: while the receiver may end the process, a call under way
\* writes zeros over zeros.
StopInv == (tops = 2 /\ phase = "write" => duty = Zero) /\ ExitLeavesNoDuty

=============================================================================
