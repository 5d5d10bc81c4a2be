---------------------------- MODULE FlightControl ----------------------------
(***************************************************************************)
(* The flight program of drone/flight_control/imu.c: the control loop of   *)
(* main() (thread "main") and pilot_recv() (thread "rx"), which share the  *)
(* globals _poweron, *_pilot and _current_wifi without a lock.  Frames     *)
(* reach apply_pilot() from a UDP socket in "main" and from the beacon     *)
(* radio in "rx".                                                          *)
(*                                                                         *)
(* A step of the model is one access to a shared variable that another     *)
(* thread can disturb; accesses that nothing can come between are merged.  *)
(* Stick positions are classes: gas is a level compared with the three     *)
(* thresholds of imu.h, yaw tells which side of +-MIN_POWERON_YAW it is,   *)
(* tilt whether pitch or roll is off centre.                               *)
(***************************************************************************)
EXTENDS Naturals

CONSTANTS
  FailsafeTicks,   \* FAILSAFE_TRIGGER_TICKS
  CutdownTicks,    \* CUTDOWN_TRIGGER_TICKS
  PowerOnGas,      \* MAX_POWERON_GAS
  FailsafeGas,     \* MAX_FAILSAFE_GAS
  MaxGas,          \* full throttle, MAX_PERCENT_PILOT_GAS of MAX_PWM
  WifiModes,       \* values of the 'W' channel and of _current_wifi
  UdpPackets,      \* frames that may arrive on UDP_PORT
  BeaconPackets    \* frames that may arrive from the beacon radio

Threads == {"main", "rx"}
Tilts == {"level", "tilted"}
Yaws == {"left", "centre", "right"}
Gases == 0..MaxGas

\* "raw" is protocol 0x11/0x12, "config" is PID_PROTOCOL_CONFIG, and
\* "consumed" a buffer whose first byte has been zeroed.
Packet == [kind: {"raw", "config"}, tilt: Tilts, gas: Gases, yaw: Yaws, wifi: WifiModes]
Buffer == [kind: {"raw", "config", "consumed"}, tilt: Tilts, gas: Gases,
           yaw: Yaws, wifi: WifiModes]

Pilot == [tilt: Tilts, gas: Gases, yaw: Yaws, wifi: WifiModes]
Motors == [spin: BOOLEAN, gas: Gases, tilt: Tilts]

ASSUME TickAssumption ==
  /\ FailsafeTicks \in Nat \ {0}
  /\ CutdownTicks \in Nat
  /\ FailsafeTicks < CutdownTicks

ASSUME GasAssumption ==
  /\ PowerOnGas \in Nat /\ FailsafeGas \in Nat /\ MaxGas \in Nat
  /\ PowerOnGas <= FailsafeGas /\ FailsafeGas <= MaxGas

ASSUME PacketAssumption ==
  /\ WifiModes # {}
  /\ UdpPackets \subseteq Packet
  /\ BeaconPackets \subseteq Packet

VARIABLES
  alive,     \* the process has not exited
  poweron,   \* _poweron
  pilot,     \* *_pilot: tilt (pitch, roll), gas, yaw, wifi (requested_wifi)
  ticks,     \* _pilot->ticks_since_recv
  curWifi,   \* _current_wifi
  pwm,       \* what set_pwm() last wrote to the four motors
  pc,        \* where each thread is
  buf,       \* cmdrecvudp of "main", recv_command of "rx"
  tmp,       \* the register ticks_since_recv is incremented in
  \* History, read by no guard of the code:
  fresh,     \* threads whose frame has not been stamped yet
  quiet,     \* loop passes since a frame was last stamped, saturating
  tops       \* loop passes begun while "rx" sleeps, saturating at 2

history == <<fresh, quiet, tops>>
vars == <<alive, poweron, pilot, ticks, curWifi, pwm, pc, buf, tmp, fresh, quiet, tops>>

-----------------------------------------------------------------------------
Lesser(a, b) == IF a < b THEN a ELSE b

Goto(t, label) == pc' = [pc EXCEPT ![t] = label]

Step(t, from, to) == pc[t] = from /\ Goto(t, to)

Centred(p) == [p EXCEPT !.tilt = "level", !.yaw = "centre"]

Off == [spin |-> FALSE, gas |-> 0, tilt |-> "level"]

QuietCap == CutdownTicks + 1

\* What is left of a frame once apply_pilot() returns: its channels are dead,
\* its first byte is zero.
NoFrame == [kind |-> "consumed", tilt |-> "level", gas |-> 0, yaw |-> "centre",
            wifi |-> CHOOSE w \in WifiModes : TRUE]
Leftover(b) == IF b.kind = "consumed" THEN NoFrame ELSE b

Afterwards(t) == IF t = "main" THEN "imu" ELSE "recv"

\* Where a thread can be: in apply_pilot, in the receiver or in the loop, whose
\* powered half is named for the abstract switch.
Applying == {"decode", "tilt", "gas", "yaw", "wifi", "stamp",
             "armGas", "armRight", "armLeft", "mode", "sleep"}
Powered == {"silence", "centreTilt", "centreYaw", "gasTest", "gasClamp", "cutdown", "mix"}
Labels == Applying \cup Powered
          \cup {"recv", "top", "tick", "udp", "imu", "killed", "check", "idle"}

\* main() up to its loop: calloc'ed state, the failsafe already due, motors at
\* zero, no command seen, and the wifi mode of the running configuration.
FreshPilot(mode) == [tilt |-> "level", gas |-> 0, yaw |-> "centre", wifi |-> mode]
FreshPc == [t \in Threads |-> IF t = "main" THEN "top" ELSE "recv"]
FreshBuf == [t \in Threads |-> NoFrame]

Init ==
  /\ alive = TRUE /\ poweron = FALSE
  /\ curWifi \in WifiModes /\ pilot = FreshPilot(curWifi)
  /\ ticks = FailsafeTicks /\ pwm = Off
  /\ pc = FreshPc /\ buf = FreshBuf /\ tmp = 0
  /\ fresh = {} /\ quiet = FailsafeTicks /\ tops = 0

-----------------------------------------------------------------------------
(***************************************************************************)
(* apply_pilot(), run by either thread on its own buffer.                  *)
(***************************************************************************)

\* parse_raw_protocol_0x11_0x12() and the PID_PROTOCOL_CONFIG branch: each
\* zeroes the first byte of what it takes.  The gains a config frame carries
\* are PidControl's business.
Consume_Forgotten(b) == b
Consume(b) == [b EXCEPT !.kind = "consumed"]

Decode(t) ==
  /\ pc[t] = "decode"
  /\ IF buf[t].kind = "raw"
       THEN /\ buf' = [buf EXCEPT ![t] = Consume(@)]
            /\ Goto(t, "tilt")
       ELSE /\ buf' = [buf EXCEPT ![t] = Leftover(Consume(@))]
            /\ Goto(t, Afterwards(t))
  /\ UNCHANGED <<alive, poweron, pilot, ticks, curWifi, pwm, tmp, history>>

\* parse_pilot(): one store per channel, in the order of the mapping "RPG0aYCW".
Store(t, from, to, field, value) ==
  /\ Step(t, from, to)
  /\ pilot' = [pilot EXCEPT ![field] = value]
  /\ UNCHANGED <<alive, poweron, ticks, curWifi, pwm, buf, tmp, history>>

StoreSticks(t) ==
  \/ Store(t, "tilt", "gas", "tilt", buf[t].tilt)
  \/ Store(t, "gas", "yaw", "gas", buf[t].gas)
  \/ Store(t, "yaw", "wifi", "yaw", buf[t].yaw)
  \/ Store(t, "wifi", "stamp", "wifi", buf[t].wifi)

\* parse_pilot()'s last store: the link is alive.
Stamp(t) ==
  /\ Step(t, "stamp", "armGas")
  /\ ticks' = 0
  /\ quiet' = IF t \in fresh THEN 0 ELSE quiet
  /\ fresh' = fresh \ {t}
  /\ UNCHANGED <<alive, poweron, pilot, curWifi, pwm, buf, tmp, tops>>

\* The arming gesture is read back from *_pilot, not from the frame.
ArmGas_Unguarded(t) ==
  /\ pc[t] = "armGas"
  /\ Goto(t, "armRight")
  /\ UNCHANGED <<alive, poweron, pilot, ticks, curWifi, pwm, buf, tmp, history>>
ArmGas(t) ==
  /\ pc[t] = "armGas"
  /\ Goto(t, IF pilot.gas < PowerOnGas THEN "armRight" ELSE "mode")
  /\ UNCHANGED <<alive, poweron, pilot, ticks, curWifi, pwm, buf, tmp, history>>

ArmRight(t) ==
  /\ Step(t, "armRight", "armLeft")
  /\ poweron' = IF pilot.yaw = "right" THEN TRUE ELSE poweron
  /\ UNCHANGED <<alive, pilot, ticks, curWifi, pwm, buf, tmp, history>>

ArmLeft(t) ==
  /\ Step(t, "armLeft", "mode")
  /\ poweron' = IF pilot.yaw = "left" THEN FALSE ELSE poweron
  /\ UNCHANGED <<alive, pilot, ticks, curWifi, pwm, buf, tmp, history>>

\* apply_wifi_status(): engines off and another mode asked for start the
\* reconfiguration, which sleeps for 11 seconds and ends in exit(-1).
MayReconfigure_Powered == curWifi # pilot.wifi
MayReconfigure == ~poweron /\ curWifi # pilot.wifi

ApplyWifi(t) ==
  /\ pc[t] = "mode"
  /\ IF MayReconfigure
       THEN /\ curWifi' = pilot.wifi
            /\ Goto(t, "sleep")
       ELSE /\ curWifi' = curWifi
            /\ Goto(t, Afterwards(t))
  /\ buf' = [buf EXCEPT ![t] = Leftover(@)]
  /\ UNCHANGED <<alive, poweron, pilot, ticks, pwm, tmp, history>>

\* The receiver's 11 seconds outlast a whole pass of the 10 ms loop, unless
\* the loop is itself asleep in apply_wifi_status(): timing, as a guard.
ExitAfterSleep(t) ==
  /\ pc[t] = "sleep"
  /\ t = "rx" => tops = 2 \/ pc["main"] = "sleep"
  /\ alive' = FALSE
  /\ UNCHANGED <<poweron, pilot, ticks, curWifi, pwm, pc, buf, tmp, history>>

ApplyPilot(t) ==
  \/ Decode(t) \/ StoreSticks(t) \/ Stamp(t)
  \/ ArmGas(t) \/ ArmRight(t) \/ ArmLeft(t)
  \/ ApplyWifi(t) \/ ExitAfterSleep(t)

-----------------------------------------------------------------------------
(***************************************************************************)
(* pilot_recv(): a frame replaces the buffer, a timeout leaves it as it    *)
(* was, and apply_pilot() runs on it either way.                           *)
(***************************************************************************)
BeaconRecv ==
  /\ Step("rx", "recv", "decode")
  /\ \/ \E p \in BeaconPackets :
          /\ buf' = [buf EXCEPT !["rx"] = p]
          /\ fresh' = IF p.kind = "raw" THEN fresh \cup {"rx"} ELSE fresh
     \/ UNCHANGED <<buf, fresh>>
  /\ UNCHANGED <<alive, poweron, pilot, ticks, curWifi, pwm, tmp, quiet, tops>>

Receiver == alive /\ (BeaconRecv \/ ApplyPilot("rx"))

-----------------------------------------------------------------------------
(***************************************************************************)
(* The control loop of main(), in program order.                           *)
(***************************************************************************)

\* ticks_since_recv++ is a load and a store: a stamp in between is lost.
TickLoad ==
  /\ Step("main", "top", "tick")
  /\ tmp' = ticks
  /\ tops' = IF pc["rx"] = "sleep" THEN Lesser(tops + 1, 2) ELSE tops
  /\ UNCHANGED <<alive, poweron, pilot, ticks, curWifi, pwm, buf, fresh, quiet>>

Aged_Unclamped(n) == n + 1
Aged(n) == IF n + 1 >= FailsafeTicks THEN FailsafeTicks ELSE n + 1

TickStore ==
  /\ Step("main", "tick", "udp")
  /\ ticks' = Aged(tmp)
  /\ tmp' = 0
  /\ quiet' = Lesser(quiet + 1, QuietCap)
  /\ UNCHANGED <<alive, poweron, pilot, curWifi, pwm, buf, fresh, tops>>

\* recv_udp(): apply_pilot() runs only on a frame; nothing received zeroes the
\* first byte of the buffer.
UdpPoll ==
  /\ \/ \E p \in UdpPackets :
          /\ Step("main", "udp", "decode")
          /\ buf' = [buf EXCEPT !["main"] = p]
          /\ fresh' = IF p.kind = "raw" THEN fresh \cup {"main"} ELSE fresh
     \/ /\ Step("main", "udp", "imu")
        /\ buf' = [buf EXCEPT !["main"] = Leftover(Consume(@))]
        /\ UNCHANGED fresh
  /\ UNCHANGED <<alive, poweron, pilot, ticks, curWifi, pwm, tmp, quiet, tops>>

ImuSample ==
  /\ Step("main", "imu", "check")
  /\ UNCHANGED <<alive, poweron, pilot, ticks, curWifi, pwm, buf, tmp, history>>

\* A bad length, header or checksum: motors to zero, then killall and exit.
ImuFailed ==
  /\ Step("main", "imu", "killed")
  /\ poweron' = FALSE
  /\ pwm' = Off
  /\ UNCHANGED <<alive, pilot, ticks, curWifi, buf, tmp, history>>

ExitOnImuFailure ==
  /\ pc["main"] = "killed"
  /\ alive' = FALSE
  /\ UNCHANGED <<poweron, pilot, ticks, curWifi, pwm, pc, buf, tmp, history>>

PowerCheck ==
  /\ pc["main"] = "check"
  /\ Goto("main", IF poweron THEN "silence" ELSE "idle")
  /\ UNCHANGED <<alive, poweron, pilot, ticks, curWifi, pwm, buf, tmp, history>>

\* The engines are off: motors to zero every pass.
Idle ==
  /\ Step("main", "idle", "top")
  /\ pwm' = Off
  /\ UNCHANGED <<alive, poweron, pilot, ticks, curWifi, buf, tmp, history>>

\* The failsafe: a test, then a store for each stick, and another test and store
\* for the gas.  The receiver may come between any two of them.
Silence ==
  /\ pc["main"] = "silence"
  /\ Goto("main", IF ticks >= FailsafeTicks THEN "centreTilt" ELSE "cutdown")
  /\ UNCHANGED <<alive, poweron, pilot, ticks, curWifi, pwm, buf, tmp, history>>

CentreTilt ==
  /\ Step("main", "centreTilt", "centreYaw")
  /\ pilot' = [pilot EXCEPT !.tilt = "level"]
  /\ UNCHANGED <<alive, poweron, ticks, curWifi, pwm, buf, tmp, history>>

CentreYaw ==
  /\ Step("main", "centreYaw", "gasTest")
  /\ pilot' = [pilot EXCEPT !.yaw = "centre"]
  /\ UNCHANGED <<alive, poweron, ticks, curWifi, pwm, buf, tmp, history>>

TooMuchGas_Never == FALSE
TooMuchGas == pilot.gas > FailsafeGas

GasTest ==
  /\ pc["main"] = "gasTest"
  /\ Goto("main", IF TooMuchGas THEN "gasClamp" ELSE "cutdown")
  /\ UNCHANGED <<alive, poweron, pilot, ticks, curWifi, pwm, buf, tmp, history>>

GasClamp ==
  /\ Step("main", "gasClamp", "cutdown")
  /\ pilot' = [pilot EXCEPT !.gas = FailsafeGas]
  /\ UNCHANGED <<alive, poweron, ticks, curWifi, pwm, buf, tmp, history>>

\* The cutdown, as the code has it; the loop goes on to the mixer after it.
Cutdown ==
  /\ Step("main", "cutdown", "mix")
  /\ IF ticks >= CutdownTicks
       THEN /\ pilot' = [Centred(pilot) EXCEPT !.gas = 0]
            /\ poweron' = FALSE
            /\ pwm' = Off
       ELSE UNCHANGED <<pilot, poweron, pwm>>
  /\ UNCHANGED <<alive, ticks, curWifi, buf, tmp, history>>

\* The controllers and the mixer: what the motors get follows the sticks.
Mix ==
  /\ Step("main", "mix", "top")
  /\ pwm' = [spin |-> TRUE, gas |-> pilot.gas, tilt |-> pilot.tilt]
  /\ UNCHANGED <<alive, poweron, pilot, ticks, curWifi, buf, tmp, history>>

ControlLoop ==
  alive /\ ( \/ TickLoad \/ TickStore \/ UdpPoll \/ ApplyPilot("main")
            \/ ImuSample \/ ImuFailed \/ ExitOnImuFailure
            \/ PowerCheck \/ Idle \/ Silence \/ CentreTilt \/ CentreYaw
            \/ GasTest \/ GasClamp \/ Cutdown \/ Mix )

-----------------------------------------------------------------------------
\* The program started again, by hand or by the boot scripts of the board:
\* init_pwm() zeroes the motors and every global starts over.
Boot ==
  /\ ~alive
  /\ alive' = TRUE /\ poweron' = FALSE
  /\ curWifi' \in WifiModes /\ pilot' = FreshPilot(curWifi')
  /\ ticks' = FailsafeTicks /\ pwm' = Off
  /\ pc' = FreshPc /\ buf' = FreshBuf /\ tmp' = 0
  /\ fresh' = {} /\ quiet' = FailsafeTicks /\ tops' = 0

Next == Receiver \/ ControlLoop \/ Boot

Spec == Init /\ [][Next]_vars

\* Both threads are runnable again after every blocking call, and the sensor
\* keeps sending samples; nothing obliges anyone to restart the program.
FairSpec == Spec /\ WF_vars(Receiver) /\ WF_vars(ControlLoop)

-----------------------------------------------------------------------------
\* Every variable keeps to the values its C type and its uses allow; the silence
\* counter in particular never passes the failsafe threshold.
TypeOK ==
  /\ alive \in BOOLEAN /\ poweron \in BOOLEAN
  /\ pilot \in Pilot
  /\ ticks \in 0..FailsafeTicks /\ tmp \in 0..FailsafeTicks
  /\ curWifi \in WifiModes
  /\ pwm \in Motors
  /\ pc \in [Threads -> Labels]
  /\ buf \in [Threads -> Buffer]
  /\ fresh \subseteq Threads /\ quiet \in 0..QuietCap /\ tops \in 0..2

\* The silence counter never lags the silence: a pass of the loop without a
\* stamped frame always ages it, whatever the receiver was doing meanwhile.
\* A lost update may make it run early, never late (main loop, parse_pilot).
TicksTrackSilence == Lesser(quiet, FailsafeTicks) <= ticks

\* Once the link has been silent for more than FAILSAFE_TRIGGER_TICKS passes and
\* no frame is half written, the motors get level sticks and at most the
\* failsafe gas (main loop, failsafe branch and mixer).
Storing == {"gas", "yaw", "wifi", "stamp"}
HalfWritten == \E t \in Threads : pc[t] \in Storing
Safe == pwm.gas <= FailsafeGas /\ pwm.tilt = "level"
FailsafeHolds ==
  quiet > FailsafeTicks /\ ~HalfWritten /\ pwm.spin => Safe

\* The engines are only ever switched on by a frame that itself has the gas
\* below MAX_POWERON_GAS and the yaw stick to the right: never by a mixture of
\* two frames, or of a frame and what the failsafe wrote (apply_pilot).
ArmsOnlyOnCommand ==
  [][~poweron /\ poweron' =>
       \E t \in Threads : buf[t].gas < PowerOnGas /\ buf[t].yaw = "right"]_vars

\* The process never ends and leaves a motor turning: nothing stops it then
\* (apply_wifi_status, IMU failure).
ExitLeavesMotorsOff == ~alive => ~pwm.spin

\* "[I]Engines stopped" is printed when _poweron is cleared: a process that ends
\* with the engines switched off has stopped them.
EnginesStopped == ~alive /\ ~poweron => ~pwm.spin

\* "2 second to fire cutdown" (imu.h): while the program runs, a link that stays
\* silent for longer has the engines switched off.
CutdownFires == <>[](alive /\ quiet > CutdownTicks) => <>[](~poweron)

\* The switch of the abstract specification, in the state of the program.
Switch == INSTANCE EngineSwitch WITH
  running <- alive, armed <- poweron, spin <- pwm.spin,
  permit <- pc["main"] \in Powered

SwitchSpec == Switch!Spec

-----------------------------------------------------------------------------
(***************************************************************************)
(* What makes the properties above inductive.                              *)
(***************************************************************************)

\* Only a frame nobody has stamped is being written to *_pilot, and a buffer is
\* left for the next call with its first byte zeroed.
FramesConsumed ==
  \A t \in Threads :
    /\ pc[t] # "decode" => buf[t].kind = "consumed"
    /\ buf[t].kind = "raw" \/ pc[t] = "tilt" \/ pc[t] \in Storing => t \in fresh

TicksInv ==
  /\ FramesConsumed
  /\ TicksTrackSilence
  /\ pc["main"] = "tick" => Lesser(quiet, FailsafeTicks) <= tmp

\* The failsafe's stores hold until the mixer reads them, and a pass that began
\* silent ends with safe motors, so the next one begins with them.
FailsafeInv ==
  /\ quiet >= FailsafeTicks /\ ~HalfWritten =>
       /\ pc["main"] \in {"centreYaw", "gasTest", "gasClamp", "cutdown", "mix"} =>
            pilot.tilt = "level"
       /\ pc["main"] \in {"cutdown", "mix"} => pilot.gas <= FailsafeGas
       /\ pc["main"] \in {"top", "tick"} /\ pwm.spin => Safe
  /\ FailsafeHolds

\* Without UDP frames only the receiver can arm, and it sleeps with the engines
\* off until the loop has made a pass that stops the motors.
ExitInv ==
  /\ pc["main"] \notin Applying
  /\ pc["rx"] = "sleep" => ~poweron
  /\ pc["rx"] # "sleep" => tops = 0
  /\ tops >= 1 => pc["main"] \notin Powered /\ (pc["main"] = "top" => ~pwm.spin)
  /\ tops = 2 \/ pc["main"] = "killed" => ~pwm.spin
  /\ ExitLeavesMotorsOff

\* While the receiver arms, *_pilot holds its frame or what the failsafe put in
\* its place, and that never arms.
ArmInv ==
  /\ pc["main"] \notin Applying
  /\ pc["rx"] \in {"yaw", "wifi", "stamp", "armGas"} =>
       pilot.gas \in {buf["rx"].gas, FailsafeGas}
  /\ pc["rx"] \in {"wifi", "stamp", "armGas", "armRight"} =>
       pilot.yaw \in {buf["rx"].yaw, "centre"}
  /\ pc["rx"] = "armRight" => buf["rx"].gas < PowerOnGas

=============================================================================
