---------------------------- MODULE EngineSwitch ----------------------------
(***************************************************************************)
(* What the flight program promises about its motors, whatever its two     *)
(* threads do: a switch that can be thrown at any time, a control loop     *)
(* that samples the switch before it drives the motors, and a process that *)
(* never ends while the motors turn.  FlightControl is shown to implement  *)
(* it when the command frames come over the beacon link only.              *)
(***************************************************************************)

VARIABLES
  running,   \* the flight process exists
  armed,     \* the engine switch
  permit,    \* the loop sampled the switch on and has not driven yet
  spin       \* the motors are being driven

vars == <<running, armed, permit, spin>>

TypeOK == running \in BOOLEAN /\ armed \in BOOLEAN
          /\ permit \in BOOLEAN /\ spin \in BOOLEAN

Init == running = TRUE /\ armed = FALSE /\ permit = FALSE /\ spin = FALSE

Throw ==                       \* the pilot moves the switch
  /\ running
  /\ armed' \in BOOLEAN
  /\ UNCHANGED <<running, permit, spin>>

Sample ==                      \* the loop looks at the switch
  /\ running /\ armed
  /\ permit' = TRUE
  /\ UNCHANGED <<running, armed, spin>>

Drive ==                       \* and drives the motors only on a sample
  /\ running /\ permit
  /\ spin' = TRUE /\ permit' = FALSE
  /\ UNCHANGED <<running, armed>>

Halt ==                        \* motors to zero, possibly disarming as well
  /\ running
  /\ spin' = FALSE
  /\ armed' \in {armed, FALSE}
  /\ UNCHANGED <<running, permit>>

Quit ==                        \* a process only ends with its motors stopped
  /\ running /\ ~spin
  /\ running' = FALSE
  /\ UNCHANGED <<armed, permit, spin>>

Boot ==
  /\ ~running
  /\ running' = TRUE /\ armed' = FALSE /\ permit' = FALSE /\ spin' = FALSE

Next == Throw \/ Sample \/ Drive \/ Halt \/ Quit \/ Boot

Spec == Init /\ [][Next]_vars

=============================================================================
