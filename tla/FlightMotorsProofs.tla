------------------------- MODULE FlightMotorsProofs -------------------------
(***************************************************************************)
(* Proofs about FlightControl, for every value of its constants; about     *)
(* MotorPwm, for any period, thrusts and controller outputs; and about     *)
(* FlightMotors, for all thresholds, frames and mixes.  What is shown of   *)
(* the program and of the motors carries over: each step of the            *)
(* composition is a step of either part or leaves it alone.                *)
(***************************************************************************)
EXTENDS FlightMotors, TLAPS

-----------------------------------------------------------------------------
(* Types.                                                                  *)

LEMMA PacketsAreBuffers == Packet \subseteq Buffer
  BY DEF Packet, Buffer

LEMMA NoFrameType == NoFrame \in Buffer
  BY PacketAssumption, GasAssumption DEF NoFrame, Buffer, Gases, Yaws, Tilts

LEMMA ConsumeType ==
  ASSUME NEW b \in Buffer
  PROVE  Consume(b) \in Buffer /\ Leftover(b) \in Buffer
  BY NoFrameType DEF Consume, Leftover, Buffer

LEMMA AgedType ==
  ASSUME NEW n \in 0..FailsafeTicks
  PROVE  Aged(n) \in 0..FailsafeTicks
  BY TickAssumption DEF Aged

LEMMA GotoType ==
  ASSUME pc \in [Threads -> Labels], NEW t \in Threads, NEW l \in Labels, Goto(t, l)
  PROVE  pc' \in [Threads -> Labels]
  BY DEF Goto

LEMMA LabelsAre ==
  Labels = {"decode", "tilt", "gas", "yaw", "wifi", "stamp", "armGas", "armRight",
            "armLeft", "mode", "sleep", "silence", "centreTilt", "centreYaw", "gasTest",
            "gasClamp", "cutdown", "mix", "recv", "top", "tick", "udp", "imu", "killed", "check", "idle"}
  BY DEF Labels, Applying, Powered

LEMMA ChannelType ==
  ASSUME NEW b \in Buffer
  PROVE  b.tilt \in Tilts /\ b.gas \in Gases /\ b.yaw \in Yaws /\ b.wifi \in WifiModes
  BY DEF Buffer

LEMMA PilotFields ==
  ASSUME NEW p \in Pilot
  PROVE  p.tilt \in Tilts /\ p.gas \in Gases /\ p.yaw \in Yaws /\ p.wifi \in WifiModes
  BY DEF Pilot

LEMMA PilotStore ==
  ASSUME NEW p \in Pilot
  PROVE  /\ \A v \in Tilts : [p EXCEPT !.tilt = v] \in Pilot
         /\ \A v \in Gases : [p EXCEPT !.gas = v] \in Pilot
         /\ \A v \in Yaws : [p EXCEPT !.yaw = v] \in Pilot
         /\ \A v \in WifiModes : [p EXCEPT !.wifi = v] \in Pilot
  BY DEF Pilot

LEMMA PilotCentred ==
  ASSUME NEW p \in Pilot
  PROVE  Centred(p) \in Pilot /\ Centred(p).tilt = "level"
  BY DEF Pilot, Centred, Tilts, Yaws

LEMMA PilotGas ==
  ASSUME NEW p \in Pilot
  PROVE  [p EXCEPT !.gas = FailsafeGas] \in Pilot /\ [p EXCEPT !.gas = 0] \in Pilot
<1>1. FailsafeGas \in Gases /\ 0 \in Gases
  BY GasAssumption DEF Gases
<1> QED
  BY <1>1 DEF Pilot

LEMMA OffType == Off \in Motors
  BY GasAssumption DEF Off, Motors, Tilts, Gases

LEMMA FreshType ==
  /\ \A mode \in WifiModes : FreshPilot(mode) \in Pilot
  /\ FreshPc \in [Threads -> Labels]
  /\ FreshBuf \in [Threads -> Buffer]
<1>1. \A mode \in WifiModes : FreshPilot(mode) \in Pilot
  BY GasAssumption DEF FreshPilot, Pilot, Tilts, Gases, Yaws
<1>2. FreshPc \in [Threads -> Labels]
  BY LabelsAre DEF FreshPc, Threads
<1>3. FreshBuf \in [Threads -> Buffer]
  BY NoFrameType DEF FreshBuf
<1> QED
  BY <1>1, <1>2, <1>3

LEMMA InitType == Init => TypeOK
<1> SUFFICES ASSUME Init PROVE TypeOK
  OBVIOUS
<1>1. ticks \in 0..FailsafeTicks /\ tmp \in 0..FailsafeTicks /\ quiet \in 0..QuietCap
  BY TickAssumption DEF Init, QuietCap
<1>2. curWifi \in WifiModes /\ pwm \in Motors
  BY OffType DEF Init
<1>3. pc \in [Threads -> Labels] /\ buf \in [Threads -> Buffer]
  BY FreshType DEF Init
<1>4. alive \in BOOLEAN /\ poweron \in BOOLEAN /\ fresh \subseteq Threads
  BY Zenon DEF Init
<1>6. tops \in 0..2
  BY DEF Init
<1>5. pilot \in Pilot
  <2>1. pilot = FreshPilot(curWifi)
    BY DEF Init
  <2> QED
    BY <1>2, <2>1, FreshType
<1> QED
  BY <1>1, <1>2, <1>3, <1>4, <1>5, <1>6 DEF TypeOK

LEMMA BootType == Boot => TypeOK'
<1> SUFFICES ASSUME Boot PROVE TypeOK'
  OBVIOUS
<1>1. ticks' \in 0..FailsafeTicks /\ tmp' \in 0..FailsafeTicks /\ quiet' \in 0..QuietCap
  BY TickAssumption DEF Boot, QuietCap
<1>2. curWifi' \in WifiModes /\ pwm' \in Motors
  BY OffType DEF Boot
<1>3. pc' \in [Threads -> Labels] /\ buf' \in [Threads -> Buffer]
  BY FreshType DEF Boot
<1>4. alive' \in BOOLEAN /\ poweron' \in BOOLEAN /\ fresh' \subseteq Threads
  BY Zenon DEF Boot
<1>6. tops' \in 0..2
  BY DEF Boot
<1>5. pilot' \in Pilot
  <2>1. pilot' = FreshPilot(curWifi')
    BY DEF Boot
  <2> QED
    BY <1>2, <2>1, FreshType
<1> QED
  BY <1>1, <1>2, <1>3, <1>4, <1>5, <1>6 DEF TypeOK

LEMMA StoreType ==
  ASSUME TypeOK, NEW t \in Threads, StoreSticks(t)
  PROVE  TypeOK'
<1>1. buf[t] \in Buffer
  BY DEF TypeOK
<1>2. pilot' \in Pilot
  BY <1>1, ChannelType, PilotStore DEF TypeOK, StoreSticks, Store
<1>3. pc' \in [Threads -> Labels]
  BY GotoType, LabelsAre DEF TypeOK, StoreSticks, Store, Step
<1> QED
  BY <1>2, <1>3 DEF TypeOK, StoreSticks, Store, history

LEMMA ApplyType ==
  ASSUME TypeOK, NEW t \in Threads, ApplyPilot(t)
  PROVE  TypeOK'
<1> USE DEF TypeOK, history, Step
<1>1. CASE Decode(t)
  <2>1. Afterwards(t) \in Labels /\ "tilt" \in Labels
    BY LabelsAre DEF Afterwards
  <2>2. buf' \in [Threads -> Buffer]
    BY <1>1, ConsumeType DEF Decode
  <2>3. pc' \in [Threads -> Labels]
    BY <1>1, <2>1, GotoType DEF Decode
  <2> QED
    BY <1>1, <2>2, <2>3 DEF Decode
<1>2. CASE StoreSticks(t)
  BY <1>2, StoreType
<1>3. CASE Stamp(t)
  <2>1. quiet' \in 0..QuietCap /\ ticks' \in 0..FailsafeTicks
    BY <1>3, TickAssumption DEF Stamp, QuietCap
  <2>2. pc' \in [Threads -> Labels]
    BY <1>3, GotoType, LabelsAre DEF Stamp
  <2> QED
    BY <1>3, <2>1, <2>2 DEF Stamp
<1>4. CASE ArmGas(t)
  BY <1>4, GotoType, LabelsAre DEF ArmGas
<1>5. CASE ArmRight(t)
  BY <1>5, GotoType, LabelsAre DEF ArmRight
<1>6. CASE ArmLeft(t)
  BY <1>6, GotoType, LabelsAre DEF ArmLeft
<1>7. CASE ApplyWifi(t)
  <2>1. Afterwards(t) \in Labels /\ "sleep" \in Labels
    BY LabelsAre DEF Afterwards
  <2>2. buf' \in [Threads -> Buffer]
    BY <1>7, ConsumeType DEF ApplyWifi
  <2>3. pc' \in [Threads -> Labels]
    BY <1>7, <2>1, GotoType DEF ApplyWifi
  <2> QED
    BY <1>7, <2>2, <2>3, PilotFields DEF ApplyWifi
<1>8. CASE ExitAfterSleep(t)
  BY <1>8 DEF ExitAfterSleep
<1> QED
  BY <1>1, <1>2, <1>3, <1>4, <1>5, <1>6, <1>7, <1>8 DEF ApplyPilot

LEMMA BeaconType == ASSUME TypeOK, BeaconRecv PROVE TypeOK'
<1>1. buf' \in [Threads -> Buffer]
  BY PacketAssumption, PacketsAreBuffers DEF TypeOK, BeaconRecv
<1>2. fresh' \subseteq Threads
  BY DEF TypeOK, BeaconRecv, Threads
<1>3. pc' \in [Threads -> Labels]
  BY GotoType, LabelsAre DEF TypeOK, BeaconRecv, Step, Threads
<1> QED
  BY <1>1, <1>2, <1>3 DEF TypeOK, BeaconRecv

LEMMA LoopType ==
  ASSUME TypeOK, ControlLoop
  PROVE  TypeOK'
<1>0. "main" \in Threads
  BY DEF Threads
<1> USE DEF TypeOK, history, Step
<1>1. CASE TickLoad
  BY <1>1, <1>0, GotoType, LabelsAre DEF TickLoad, Lesser
<1>2. CASE TickStore
  <2>1. quiet' \in 0..QuietCap
    BY <1>2, TickAssumption DEF TickStore, Lesser, QuietCap
  <2>2. ticks' \in 0..FailsafeTicks /\ tmp' \in 0..FailsafeTicks
    BY <1>2, AgedType, TickAssumption DEF TickStore
  <2>3. pc' \in [Threads -> Labels]
    BY <1>2, <1>0, GotoType, LabelsAre DEF TickStore
  <2> QED
    BY <1>2, <2>1, <2>2, <2>3 DEF TickStore
<1>3. CASE UdpPoll
  <2>1. buf' \in [Threads -> Buffer]
    BY <1>3, <1>0, PacketAssumption, PacketsAreBuffers, ConsumeType DEF UdpPoll
  <2>2. fresh' \subseteq Threads
    BY <1>3, <1>0 DEF UdpPoll
  <2>3. pc' \in [Threads -> Labels]
    BY <1>3, <1>0, GotoType, LabelsAre DEF UdpPoll
  <2> QED
    BY <1>3, <2>1, <2>2, <2>3 DEF UdpPoll
<1>4. CASE ApplyPilot("main")
  BY <1>4, <1>0, ApplyType
<1>5. CASE ImuSample
  BY <1>5, <1>0, GotoType, LabelsAre DEF ImuSample
<1>6. CASE ImuFailed
  BY <1>6, <1>0, GotoType, LabelsAre, OffType DEF ImuFailed
<1>7. CASE ExitOnImuFailure
  BY <1>7 DEF ExitOnImuFailure
<1>8. CASE PowerCheck
  BY <1>8, <1>0, GotoType, LabelsAre DEF PowerCheck
<1>9. CASE Idle
  BY <1>9, <1>0, GotoType, LabelsAre, OffType DEF Idle
<1>10. CASE Silence
  BY <1>10, <1>0, GotoType, LabelsAre DEF Silence
<1>15. CASE CentreTilt
  <2>1. pilot' \in Pilot
    BY <1>15, PilotStore DEF CentreTilt, Tilts
  <2> QED
    BY <1>15, <2>1, <1>0, GotoType, LabelsAre DEF CentreTilt
<1>16. CASE CentreYaw
  <2>1. pilot' \in Pilot
    BY <1>16, PilotStore DEF CentreYaw, Yaws
  <2> QED
    BY <1>16, <2>1, <1>0, GotoType, LabelsAre DEF CentreYaw
<1>11. CASE GasTest
  BY <1>11, <1>0, GotoType, LabelsAre DEF GasTest
<1>12. CASE GasClamp
  <2>1. pilot' \in Pilot
    BY <1>12, PilotGas DEF GasClamp
  <2> QED
    BY <1>12, <2>1, <1>0, GotoType, LabelsAre DEF GasClamp
<1>13. CASE Cutdown
  BY <1>13, <1>0, GotoType, LabelsAre, OffType, PilotCentred, PilotGas DEF Cutdown
<1>14. CASE Mix
  <2>1. pwm' \in Motors
    BY <1>14, PilotFields DEF Mix, Motors
  <2> QED
    BY <1>14, <2>1, <1>0, GotoType, LabelsAre DEF Mix
<1> QED
  BY <1>1, <1>2, <1>3, <1>4, <1>5, <1>6, <1>7, <1>8, <1>9, <1>10, <1>11, <1>12,
     <1>13, <1>14, <1>15, <1>16 DEF ControlLoop

LEMMA NextType == TypeOK /\ [Next]_vars => TypeOK'
<1> SUFFICES ASSUME TypeOK, [Next]_vars PROVE TypeOK'
  OBVIOUS
<1>1. CASE Receiver
  BY <1>1, BeaconType, ApplyType DEF Receiver, Threads
<1>2. CASE ControlLoop
  BY <1>2, LoopType
<1>3. CASE Boot
  BY <1>3, BootType
<1>4. CASE UNCHANGED vars
  BY <1>4 DEF TypeOK, vars
<1> QED
  BY <1>1, <1>2, <1>3, <1>4 DEF Next

\* Every variable keeps to its type, whatever the thresholds and the frames.
THEOREM Typed == Spec => []TypeOK
  BY InitType, NextType, PTL DEF Spec

-----------------------------------------------------------------------------
(* The silence counter never lags the silence.                             *)

LEMMA LesserType ==
  ASSUME NEW a \in Nat, NEW b \in Nat
  PROVE  Lesser(a, b) \in Nat /\ Lesser(a, b) <= a /\ Lesser(a, b) <= b
  BY DEF Lesser

LEMMA LeftoverConsumed ==
  ASSUME NEW b \in Buffer
  PROVE  /\ Consume(b).kind = "consumed"
         /\ Leftover(Consume(b)).kind = "consumed"
         /\ b.kind = "consumed" => Leftover(b).kind = "consumed"
  BY DEF Consume, Leftover, NoFrame, Buffer

LEMMA ApplyFrames ==
  ASSUME TypeOK, FramesConsumed, NEW t \in Threads, ApplyPilot(t)
  PROVE  FramesConsumed'
<1> USE DEF TypeOK, FramesConsumed, history, Step, Goto, Storing
<1>1. CASE Decode(t)
  BY <1>1, LeftoverConsumed DEF Decode, Afterwards
<1>2. CASE StoreSticks(t)
  BY <1>2 DEF StoreSticks, Store
<1>3. CASE Stamp(t)
  BY <1>3 DEF Stamp
<1>4. CASE ArmGas(t)
  BY <1>4 DEF ArmGas
<1>5. CASE ArmRight(t)
  BY <1>5 DEF ArmRight
<1>6. CASE ArmLeft(t)
  BY <1>6 DEF ArmLeft
<1>7. CASE ApplyWifi(t)
  BY <1>7, LeftoverConsumed DEF ApplyWifi, Afterwards
<1>8. CASE ExitAfterSleep(t)
  BY <1>8 DEF ExitAfterSleep
<1> QED
  BY <1>1, <1>2, <1>3, <1>4, <1>5, <1>6, <1>7, <1>8 DEF ApplyPilot

LEMMA LoopFrames ==
  ASSUME TypeOK, FramesConsumed, ControlLoop
  PROVE  FramesConsumed'
<1>0. "main" \in Threads
  BY DEF Threads
<1>1. CASE ApplyPilot("main")
  BY <1>0, <1>1, ApplyFrames
<1> USE DEF TypeOK, FramesConsumed, history, Step, Goto, Storing
<1>2. CASE UdpPoll
  BY <1>0, <1>2, LeftoverConsumed DEF UdpPoll
<1>3. CASE TickLoad \/ TickStore \/ ImuSample \/ ImuFailed \/ ExitOnImuFailure
  BY <1>0, <1>3 DEF TickLoad, TickStore, ImuSample, ImuFailed, ExitOnImuFailure
<1>4. CASE PowerCheck \/ Idle \/ GasTest \/ GasClamp \/ Cutdown \/ Mix
  BY <1>0, <1>4 DEF PowerCheck, Idle, GasTest, GasClamp, Cutdown, Mix
<1>5. CASE Silence \/ CentreTilt \/ CentreYaw
  BY <1>0, <1>5 DEF Silence, CentreTilt, CentreYaw
<1> QED
  BY <1>1, <1>2, <1>3, <1>4, <1>5 DEF ControlLoop

LEMMA NextFrames == TypeOK /\ FramesConsumed /\ [Next]_vars => FramesConsumed'
<1> SUFFICES ASSUME TypeOK, FramesConsumed, [Next]_vars PROVE FramesConsumed'
  OBVIOUS
<1>1. CASE BeaconRecv
  BY <1>1 DEF TypeOK, BeaconRecv, FramesConsumed, Step, Goto, Storing, Threads
<1>2. CASE ApplyPilot("rx")
  BY <1>2, ApplyFrames DEF Threads
<1>3. CASE ControlLoop
  BY <1>3, LoopFrames
<1>4. CASE Boot
  BY <1>4 DEF Boot, FramesConsumed, FreshPc, FreshBuf, NoFrame, Storing, Threads
<1>5. CASE UNCHANGED vars
  BY <1>5 DEF FramesConsumed, vars
<1> QED
  BY <1>1, <1>2, <1>3, <1>4, <1>5 DEF Next, Receiver

\* A stamp finds its frame fresh, so it ends the silence it is measured by.
LEMMA StampEndsSilence ==
  ASSUME FramesConsumed, NEW t \in Threads, Stamp(t)
  PROVE  quiet' = 0 /\ ticks' = 0
  BY DEF FramesConsumed, Stamp, Step, Storing

\* Nothing but a stamp, the loop's tick and a restart touches the two counters.
LEMMA CountersKept ==
  ASSUME NEW t \in Threads, ApplyPilot(t), ~Stamp(t)
  PROVE  UNCHANGED <<ticks, tmp, quiet>>
  BY DEF ApplyPilot, Decode, StoreSticks, Store, ArmGas, ArmRight, ArmLeft,
         ApplyWifi, ExitAfterSleep, history

LEMMA InitTicks == Init => TicksInv
  BY TickAssumption
  DEF Init, TicksInv, FramesConsumed, TicksTrackSilence, Lesser, FreshPc, FreshBuf,
      NoFrame, Storing, Threads

LEMMA ApplyTicks ==
  ASSUME TypeOK, TicksInv, NEW t \in Threads, ApplyPilot(t)
  PROVE  TicksTrackSilence' /\ (pc'["main"] = "tick" => Lesser(quiet', FailsafeTicks) <= tmp')
<1>1. pc'["main"] = "tick" => pc["main"] = "tick"
  BY DEF TypeOK, Threads, ApplyPilot, Decode, Afterwards, StoreSticks, Store, Stamp,
         ArmGas, ArmRight, ArmLeft, ApplyWifi, ExitAfterSleep, Step, Goto
<1>2. CASE Stamp(t)
  <2>1. quiet' = 0 /\ ticks' = 0 /\ tmp' = tmp
    BY <1>2, StampEndsSilence DEF TicksInv, Stamp
  <2>2. Lesser(0, FailsafeTicks) = 0
    BY TickAssumption DEF Lesser
  <2> QED
    BY <2>1, <2>2 DEF TypeOK, TicksTrackSilence
<1>3. CASE ~Stamp(t)
  BY <1>1, <1>3, CountersKept DEF TicksInv, TicksTrackSilence
<1> QED
  BY <1>2, <1>3

LEMMA LoopTicks ==
  ASSUME TypeOK, TicksInv, ControlLoop
  PROVE  TicksTrackSilence' /\ (pc'["main"] = "tick" => Lesser(quiet', FailsafeTicks) <= tmp')
<1>0. "main" \in Threads
  BY DEF Threads
<1>1. CASE TickLoad
  BY <1>1 DEF TickLoad, TicksInv, TicksTrackSilence
<1>2. CASE TickStore
  <2>1. Lesser(quiet, FailsafeTicks) <= tmp /\ tmp \in 0..FailsafeTicks /\ quiet \in 0..QuietCap
    BY <1>2 DEF TickStore, Step, TicksInv, TypeOK
  <2>2. quiet' = Lesser(quiet + 1, QuietCap) /\ ticks' = Aged(tmp)
    BY <1>2 DEF TickStore
  <2>3. Lesser(quiet', FailsafeTicks) <= ticks'
    BY <2>1, <2>2, TickAssumption DEF Lesser, Aged, QuietCap
  <2>4. pc'["main"] = "udp"
    BY <1>0, <1>2 DEF TickStore, Step, Goto, TypeOK
  <2> QED
    BY <2>3, <2>4 DEF TicksTrackSilence
<1>3. CASE ApplyPilot("main")
  BY <1>0, <1>3, ApplyTicks
<1>4. CASE UdpPoll \/ ImuSample \/ ImuFailed \/ ExitOnImuFailure
  BY <1>0, <1>4
  DEF UdpPoll, ImuSample, ImuFailed, ExitOnImuFailure, Step, Goto, TypeOK, TicksInv,
      TicksTrackSilence, history
<1>5. CASE PowerCheck \/ Idle \/ GasTest \/ GasClamp \/ Cutdown \/ Mix
  BY <1>0, <1>5
  DEF PowerCheck, Idle, GasTest, GasClamp, Cutdown, Mix, Step, Goto, TypeOK,
      TicksInv, TicksTrackSilence, history
<1>6. CASE Silence \/ CentreTilt \/ CentreYaw
  BY <1>0, <1>6
  DEF Silence, CentreTilt, CentreYaw, Step, Goto, TypeOK, TicksInv, TicksTrackSilence, history
<1> QED
  BY <1>1, <1>2, <1>3, <1>4, <1>5, <1>6 DEF ControlLoop

LEMMA NextTicks == TypeOK /\ TicksInv /\ [Next]_vars => TicksInv'
<1> SUFFICES ASSUME TypeOK, TicksInv, [Next]_vars PROVE TicksInv'
  OBVIOUS
<1>1. FramesConsumed'
  BY NextFrames DEF TicksInv
<1>2. TicksTrackSilence' /\ (pc'["main"] = "tick" => Lesser(quiet', FailsafeTicks) <= tmp')
  <2>1. CASE BeaconRecv
    BY <2>1 DEF BeaconRecv, Step, Goto, TypeOK, Threads, TicksInv, TicksTrackSilence
  <2>2. CASE ApplyPilot("rx")
    BY <2>2, ApplyTicks DEF Threads
  <2>3. CASE ControlLoop
    BY <2>3, LoopTicks
  <2>4. CASE Boot
    BY <2>4, TickAssumption DEF Boot, FreshPc, Threads, TicksTrackSilence, Lesser
  <2>5. CASE UNCHANGED vars
    BY <2>5 DEF vars, TicksInv, TicksTrackSilence
  <2> QED
    BY <2>1, <2>2, <2>3, <2>4, <2>5 DEF Next, Receiver
<1> QED
  BY <1>1, <1>2 DEF TicksInv

\* However the loop's increment and the receiver's reset interleave, a silent
\* pass always ages the counter: the failsafe can come early, never late.
THEOREM SilenceTracked == Spec => []TicksTrackSilence
<1>1. Spec => [](TypeOK /\ TicksInv)
  BY InitType, InitTicks, NextType, NextTicks, PTL DEF Spec
<1>2. TicksInv => TicksTrackSilence
  BY DEF TicksInv
<1> QED
  BY <1>1, <1>2, PTL

\* The clamp at FAILSAFE_TRIGGER_TICKS keeps the counter below the cutdown's
\* threshold for good: the cutdown branch of the loop is dead code.
THEOREM CutdownIsDead == Spec => [](ticks < CutdownTicks)
<1>1. TypeOK => ticks < CutdownTicks
  BY TickAssumption DEF TypeOK
<1> QED
  BY <1>1, Typed, PTL

-----------------------------------------------------------------------------
(* The failsafe holds.                                                     *)

LEMMA InitFailsafe == Init => FailsafeInv
  BY DEF Init, FailsafeInv, FailsafeHolds, FreshPc, Off, Threads

LEMMA LateTicks ==
  ASSUME TypeOK, TicksInv, quiet >= FailsafeTicks
  PROVE  ticks >= FailsafeTicks
  BY TickAssumption DEF TypeOK, TicksInv, TicksTrackSilence, Lesser, QuietCap

\* Only a thread that is storing disturbs *_pilot, and only a stamp ends that.
LEMMA ApplyFailsafe ==
  ASSUME TypeOK, TicksInv, FailsafeInv, NEW t \in Threads, ApplyPilot(t)
  PROVE  FailsafeInv'
<1>1. CASE Stamp(t)
  <2>1. quiet' = 0
    BY <1>1, StampEndsSilence DEF TicksInv
  <2> QED
    BY <2>1, TickAssumption DEF FailsafeInv, FailsafeHolds
<1>2. CASE StoreSticks(t)
  <2>1. CASE pc'[t] \in Storing
    BY <2>1 DEF FailsafeInv, FailsafeHolds, HalfWritten
  <2> QED
    BY <1>2, <2>1 DEF StoreSticks, Store, Step, Goto, TypeOK, Storing
<1>3. CASE Decode(t) \/ ArmGas(t) \/ ArmRight(t) \/ ArmLeft(t) \/ ApplyWifi(t) \/ ExitAfterSleep(t)
  <2>1. UNCHANGED <<pilot, pwm, quiet>>
    BY <1>3 DEF Decode, ArmGas, ArmRight, ArmLeft, ApplyWifi, ExitAfterSleep, history
  <2>2. HalfWritten' = HalfWritten
    BY <1>3 DEF Decode, Afterwards, ArmGas, ArmRight, ArmLeft, ApplyWifi, ExitAfterSleep,
                Step, Goto, TypeOK, HalfWritten, Storing
  <2>3. pc'["main"] \in {"centreYaw", "gasTest", "gasClamp", "cutdown", "mix", "top", "tick"}
          => pc'["main"] = pc["main"]
    BY <1>3 DEF Decode, Afterwards, ArmGas, ArmRight, ArmLeft, ApplyWifi, ExitAfterSleep,
                Step, Goto, TypeOK, Threads
  <2> QED
    BY <2>1, <2>2, <2>3 DEF FailsafeInv, FailsafeHolds, Safe
<1> QED
  BY <1>1, <1>2, <1>3 DEF ApplyPilot

LEMMA LoopFailsafe ==
  ASSUME TypeOK, TicksInv, FailsafeInv, ControlLoop
  PROVE  FailsafeInv'
<1>0. "main" \in Threads
  BY DEF Threads
<1>1. CASE ApplyPilot("main")
  BY <1>0, <1>1, ApplyFailsafe
<1>2. CASE TickStore
  <2>1. pc'["main"] = "udp" /\ pc["main"] = "tick" /\ UNCHANGED <<pilot, pwm>>
    BY <1>0, <1>2 DEF TickStore, Step, Goto, TypeOK
  <2>2. HalfWritten' = HalfWritten
    BY <1>0, <1>2 DEF TickStore, Step, Goto, TypeOK, HalfWritten, Storing
  <2>3. quiet' > FailsafeTicks => quiet >= FailsafeTicks
    BY <1>2, TickAssumption DEF TickStore, TypeOK, Lesser, QuietCap
  <2>4. FailsafeHolds'
    BY <2>1, <2>2, <2>3 DEF FailsafeInv, FailsafeHolds, Safe
  <2> QED
    BY <2>1, <2>4 DEF FailsafeInv
<1>3. CASE UdpPoll \/ TickLoad \/ ImuSample \/ ExitOnImuFailure \/ PowerCheck
  BY <1>0, <1>3
  DEF UdpPoll, TickLoad, ImuSample, ExitOnImuFailure, PowerCheck, Step, Goto, TypeOK,
      FailsafeInv, FailsafeHolds, HalfWritten, Storing, Safe, history
<1>4. CASE ImuFailed \/ Idle
  BY <1>0, <1>4
  DEF ImuFailed, Idle, Step, Goto, TypeOK, FailsafeInv, FailsafeHolds, HalfWritten,
      Storing, Off, history
<1>5. CASE Silence
  <2>1. pc'["main"] = "centreTilt" \/ quiet < FailsafeTicks
    BY <1>0, <1>5, LateTicks, TickAssumption DEF Silence, Goto, TypeOK, QuietCap
  <2>2. HalfWritten' = HalfWritten
    BY <1>0, <1>5 DEF Silence, Goto, TypeOK, HalfWritten, Storing
  <2>3. UNCHANGED <<quiet, pwm>>
    BY <1>5 DEF Silence, history
  <2> QED
    BY <2>1, <2>2, <2>3, TickAssumption
    DEF FailsafeInv, FailsafeHolds, Safe, TypeOK, QuietCap
<1>10. CASE CentreTilt
  <2>1. pilot'.tilt = "level" /\ pc'["main"] = "centreYaw"
    BY <1>0, <1>10 DEF CentreTilt, Step, Goto, TypeOK, Pilot
  <2>2. HalfWritten' = HalfWritten
    BY <1>0, <1>10 DEF CentreTilt, Step, Goto, TypeOK, HalfWritten, Storing
  <2>3. UNCHANGED <<quiet, pwm>>
    BY <1>10 DEF CentreTilt, history
  <2> QED
    BY <2>1, <2>2, <2>3 DEF FailsafeInv, FailsafeHolds, Safe
<1>11. CASE CentreYaw
  <2>1. pc["main"] = "centreYaw" /\ pc'["main"] = "gasTest" /\ pilot'.tilt = pilot.tilt
    BY <1>0, <1>11 DEF CentreYaw, Step, Goto, TypeOK, Pilot
  <2>2. HalfWritten' = HalfWritten
    BY <1>0, <1>11 DEF CentreYaw, Step, Goto, TypeOK, HalfWritten, Storing
  <2>3. UNCHANGED <<quiet, pwm>>
    BY <1>11 DEF CentreYaw, history
  <2> QED
    BY <2>1, <2>2, <2>3 DEF FailsafeInv, FailsafeHolds, Safe
<1>6. CASE GasTest
  <2>1. pc["main"] = "gasTest" /\ pc'["main"] \in {"gasClamp", "cutdown"}
    BY <1>0, <1>6 DEF GasTest, Goto, TypeOK
  <2>2. pc'["main"] = "cutdown" => pilot.gas <= FailsafeGas
    <3>1. pilot.gas \in Gases
      BY PilotFields DEF TypeOK
    <3> QED
      BY <1>0, <1>6, <3>1, GasAssumption DEF GasTest, Goto, TypeOK, TooMuchGas, Gases
  <2>3. HalfWritten' = HalfWritten
    BY <1>0, <1>6 DEF GasTest, Goto, TypeOK, HalfWritten, Storing
  <2>4. UNCHANGED <<quiet, pwm, pilot>>
    BY <1>6 DEF GasTest, history
  <2> QED
    BY <2>1, <2>2, <2>3, <2>4 DEF FailsafeInv, FailsafeHolds, Safe
<1>7. CASE GasClamp
  <2>1. pc["main"] = "gasClamp" /\ pc'["main"] = "cutdown"
    BY <1>0, <1>7 DEF GasClamp, Step, Goto, TypeOK
  <2>2. pilot'.gas = FailsafeGas /\ pilot'.tilt = pilot.tilt
    BY <1>7 DEF GasClamp, TypeOK, Pilot
  <2>3. HalfWritten' = HalfWritten
    BY <1>0, <1>7 DEF GasClamp, Step, Goto, TypeOK, HalfWritten, Storing
  <2>4. UNCHANGED <<quiet, pwm>>
    BY <1>7 DEF GasClamp, history
  <2> QED
    BY <2>1, <2>2, <2>3, <2>4, GasAssumption DEF FailsafeInv, FailsafeHolds, Safe
<1>8. CASE Cutdown
  <2>1. pc["main"] = "cutdown" /\ pc'["main"] = "mix"
    BY <1>0, <1>8 DEF Cutdown, Step, Goto, TypeOK
  <2>2. HalfWritten' = HalfWritten
    BY <1>0, <1>8 DEF Cutdown, Step, Goto, TypeOK, HalfWritten, Storing
  <2>3. UNCHANGED <<quiet, pwm, pilot>>
    BY <1>8, TickAssumption DEF Cutdown, history, TypeOK
  <2> QED
    BY <2>1, <2>2, <2>3 DEF FailsafeInv, FailsafeHolds, Safe
<1>9. CASE Mix
  <2>1. pc["main"] = "mix" /\ pc'["main"] = "top"
    BY <1>0, <1>9 DEF Mix, Step, Goto, TypeOK
  <2>2. pwm'.gas = pilot.gas /\ pwm'.tilt = pilot.tilt
    BY <1>9 DEF Mix
  <2>3. HalfWritten' = HalfWritten
    BY <1>0, <1>9 DEF Mix, Step, Goto, TypeOK, HalfWritten, Storing
  <2>4. UNCHANGED <<quiet, pilot>>
    BY <1>9 DEF Mix, history
  <2>5. quiet >= FailsafeTicks /\ ~HalfWritten => Safe'
    BY <2>1, <2>2 DEF FailsafeInv, Safe
  <2>6. quiet > FailsafeTicks => quiet >= FailsafeTicks
    BY TickAssumption DEF TypeOK, QuietCap
  <2> QED
    BY <2>1, <2>3, <2>4, <2>5, <2>6 DEF FailsafeInv, FailsafeHolds
<1> QED
  BY <1>1, <1>2, <1>3, <1>4, <1>5, <1>6, <1>7, <1>8, <1>9, <1>10, <1>11 DEF ControlLoop

LEMMA NextFailsafe == TypeOK /\ TicksInv /\ FailsafeInv /\ [Next]_vars => FailsafeInv'
<1> SUFFICES ASSUME TypeOK, TicksInv, FailsafeInv, [Next]_vars PROVE FailsafeInv'
  OBVIOUS
<1>1. CASE BeaconRecv
  BY <1>1 DEF BeaconRecv, Step, Goto, TypeOK, Threads, FailsafeInv, FailsafeHolds,
              HalfWritten, Storing, Safe
<1>2. CASE ApplyPilot("rx")
  BY <1>2, ApplyFailsafe DEF Threads
<1>3. CASE ControlLoop
  BY <1>3, LoopFailsafe
<1>4. CASE Boot
  BY <1>4 DEF Boot, FreshPc, Off, Threads, FailsafeInv, FailsafeHolds
<1>5. CASE UNCHANGED vars
  BY <1>5 DEF vars, FailsafeInv, FailsafeHolds, HalfWritten, Safe
<1> QED
  BY <1>1, <1>2, <1>3, <1>4, <1>5 DEF Next, Receiver

\* A link silent for more than FAILSAFE_TRIGGER_TICKS passes leaves the motors with
\* level sticks and no more than the failsafe gas, frames from both sources or not.
THEOREM FailsafeWorks == Spec => []FailsafeHolds
<1>1. Spec => [](TypeOK /\ TicksInv /\ FailsafeInv)
  BY InitType, InitTicks, InitFailsafe, NextType, NextTicks, NextFailsafe, PTL DEF Spec
<1>2. FailsafeInv => FailsafeHolds
  BY DEF FailsafeInv
<1> QED
  BY <1>1, <1>2, PTL

-----------------------------------------------------------------------------
(* With command frames from the beacon radio only, what pilot/main.c sends. *)

LEMMA ReceiverStaysOut ==
  ASSUME TypeOK, BeaconRecv \/ ApplyPilot("rx")
  PROVE  pc'["main"] = pc["main"]
<1> USE DEF TypeOK, Step, Goto, Threads, history
<1>1. CASE BeaconRecv
  BY <1>1 DEF BeaconRecv
<1>2. CASE Decode("rx")
  BY <1>2 DEF Decode
<1>3. CASE StoreSticks("rx") \/ Stamp("rx")
  BY <1>3 DEF StoreSticks, Store, Stamp
<1>4. CASE ArmGas("rx") \/ ArmRight("rx") \/ ArmLeft("rx")
  BY <1>4 DEF ArmGas, ArmRight, ArmLeft
<1>5. CASE ApplyWifi("rx") \/ ExitAfterSleep("rx")
  BY <1>5 DEF ApplyWifi, ExitAfterSleep
<1> QED
  BY <1>1, <1>2, <1>3, <1>4, <1>5 DEF ApplyPilot

LEMMA LoopNeverApplies ==
  ASSUME UdpPackets = {}, TypeOK, pc["main"] \notin Applying, Next
  PROVE  pc'["main"] \notin Applying /\ ~ApplyPilot("main")
<1>1. ~ApplyPilot("main")
  BY DEF ApplyPilot, Decode, StoreSticks, Store, Stamp, ArmGas, ArmRight, ArmLeft,
         ApplyWifi, ExitAfterSleep, Step, Applying
<1>2. CASE BeaconRecv \/ ApplyPilot("rx")
  BY <1>1, <1>2, ReceiverStaysOut
<1>3. CASE ControlLoop
  BY <1>1, <1>3 DEF ControlLoop, TickLoad, TickStore, UdpPoll, ImuSample, ImuFailed,
    ExitOnImuFailure, PowerCheck, Idle, Silence, CentreTilt, CentreYaw, GasTest, GasClamp,
    Cutdown, Mix, Step, Goto, TypeOK, Applying, Threads
<1>4. CASE Boot
  BY <1>1, <1>4 DEF Boot, FreshPc, Applying, Threads
<1> QED
  BY <1>2, <1>3, <1>4 DEF Next, Receiver

LEMMA InitExit == Init => ExitInv
  BY DEF Init, ExitInv, ExitLeavesMotorsOff, FreshPc, Off, Applying, Powered, Threads

LEMMA ReceiverExit ==
  ASSUME TypeOK, ExitInv, Receiver, pc'["main"] \notin Applying
  PROVE  ExitInv'
<1> USE DEF TypeOK, ExitInv, ExitLeavesMotorsOff, Step, Goto, Threads, history
<1>1. CASE BeaconRecv
  BY <1>1 DEF BeaconRecv, Powered
<1>2. CASE Decode("rx") \/ StoreSticks("rx") \/ Stamp("rx")
  BY <1>2 DEF Decode, StoreSticks, Store, Stamp, Afterwards, Powered, Receiver
<1>3. CASE ArmGas("rx") \/ ArmRight("rx") \/ ArmLeft("rx")
  BY <1>3 DEF ArmGas, ArmRight, ArmLeft, Powered, Receiver
<1>4. CASE ApplyWifi("rx")
  BY <1>4 DEF ApplyWifi, MayReconfigure, Afterwards, Powered, Receiver
<1>5. CASE ExitAfterSleep("rx")
  BY <1>5 DEF ExitAfterSleep, Applying
<1> QED
  BY <1>1, <1>2, <1>3, <1>4, <1>5 DEF Receiver, ApplyPilot

LEMMA LoopExit ==
  ASSUME TypeOK, ExitInv, ControlLoop, ~ApplyPilot("main"), pc'["main"] \notin Applying
  PROVE  ExitInv'
<1> USE DEF TypeOK, ExitInv, ExitLeavesMotorsOff, Step, Goto, Threads, history, Powered
<1>1. CASE TickLoad
  BY <1>1 DEF TickLoad, Lesser, ControlLoop
<1>2. CASE TickStore
  BY <1>2 DEF TickStore, ControlLoop
<1>3. CASE UdpPoll
  BY <1>3 DEF UdpPoll, ControlLoop
<1>4. CASE ImuSample
  BY <1>4 DEF ImuSample, ControlLoop
<1>5. CASE ImuFailed
  BY <1>5 DEF ImuFailed, Off, ControlLoop
<1>6. CASE ExitOnImuFailure
  BY <1>6 DEF ExitOnImuFailure, ControlLoop
<1>7. CASE PowerCheck
  BY <1>7 DEF PowerCheck, ControlLoop
<1>8. CASE Idle
  BY <1>8 DEF Idle, Off, ControlLoop
<1>9. CASE Silence
  BY <1>9 DEF Silence, ControlLoop
<1>14. CASE CentreTilt
  BY <1>14 DEF CentreTilt, ControlLoop
<1>15. CASE CentreYaw
  BY <1>15 DEF CentreYaw, ControlLoop
<1>10. CASE GasTest
  BY <1>10 DEF GasTest, ControlLoop
<1>11. CASE GasClamp
  BY <1>11 DEF GasClamp, ControlLoop
<1>12. CASE Cutdown
  BY <1>12, TickAssumption DEF Cutdown, ControlLoop
<1>13. CASE Mix
  BY <1>13 DEF Mix, ControlLoop
<1> QED
  BY <1>1, <1>2, <1>3, <1>4, <1>5, <1>6, <1>7, <1>8, <1>9, <1>10, <1>11, <1>12, <1>13,
     <1>14, <1>15 DEF ControlLoop

LEMMA NextExit ==
  ASSUME UdpPackets = {}
  PROVE  TypeOK /\ ExitInv /\ [Next]_vars => ExitInv'
<1> SUFFICES ASSUME TypeOK, ExitInv, [Next]_vars PROVE ExitInv'
  OBVIOUS
<1>1. CASE Next
  <2>1. pc'["main"] \notin Applying /\ ~ApplyPilot("main")
    BY <1>1, LoopNeverApplies DEF ExitInv
  <2>2. CASE Boot
    BY <2>2 DEF Boot, ExitInv, ExitLeavesMotorsOff, FreshPc, Off, Applying, Powered, Threads
  <2> QED
    BY <1>1, <2>1, <2>2, ReceiverExit, LoopExit DEF Next
<1>2. CASE UNCHANGED vars
  BY <1>2 DEF vars, ExitInv, ExitLeavesMotorsOff
<1> QED
  BY <1>1, <1>2

\* The program never ends with a motor turning, whichever thread ends it.
THEOREM ExitStopsMotors ==
  ASSUME UdpPackets = {}
  PROVE  Spec => []ExitLeavesMotorsOff
<1>1. Spec => [](TypeOK /\ ExitInv)
  BY InitType, InitExit, NextType, NextExit, PTL DEF Spec
<1>2. ExitInv => ExitLeavesMotorsOff
  BY DEF ExitInv
<1> QED
  BY <1>1, <1>2, PTL

LEMMA InitArm == Init => ArmInv
  BY DEF Init, ArmInv, FreshPc, Applying, Threads

LEMMA ReceiverArm ==
  ASSUME TypeOK, ArmInv, Receiver, pc'["main"] \notin Applying
  PROVE  ArmInv'
<1> USE DEF TypeOK, ArmInv, Step, Goto, Threads, history
<1>1. CASE BeaconRecv
  BY <1>1 DEF BeaconRecv
<1>2. CASE Decode("rx")
  BY <1>2 DEF Decode, Afterwards
<1>3. CASE StoreSticks("rx")
  BY <1>3 DEF StoreSticks, Store, Pilot
<1>4. CASE Stamp("rx")
  BY <1>4 DEF Stamp
<1>5. CASE ArmGas("rx")
  <2>1. PowerOnGas <= FailsafeGas /\ PowerOnGas \in Nat /\ FailsafeGas \in Nat
    BY GasAssumption
  <2>2. pilot.gas < PowerOnGas => pilot.gas # FailsafeGas
    BY <2>1
  <2> QED
    BY <1>5, <2>2 DEF ArmGas
<1>6. CASE ArmRight("rx") \/ ArmLeft("rx")
  BY <1>6 DEF ArmRight, ArmLeft
<1>7. CASE ApplyWifi("rx")
  BY <1>7 DEF ApplyWifi, Afterwards
<1>8. CASE ExitAfterSleep("rx")
  BY <1>8 DEF ExitAfterSleep
<1> QED
  BY <1>1, <1>2, <1>3, <1>4, <1>5, <1>6, <1>7, <1>8 DEF Receiver, ApplyPilot

LEMMA LoopArm ==
  ASSUME TypeOK, ArmInv, ControlLoop, ~ApplyPilot("main"), pc'["main"] \notin Applying
  PROVE  ArmInv'
<1>1. pc'["rx"] = pc["rx"] /\ buf'["rx"] = buf["rx"]
  BY DEF ControlLoop, TickLoad, TickStore, UdpPoll, ImuSample, ImuFailed, ExitOnImuFailure,
         PowerCheck, Idle, Silence, CentreTilt, CentreYaw, GasTest, GasClamp, Cutdown, Mix,
         Step, Goto, TypeOK, Threads
<1>2. pilot'.gas \in {pilot.gas, FailsafeGas} /\ pilot'.yaw \in {pilot.yaw, "centre"}
  <2>1. CASE CentreTilt \/ CentreYaw
    BY <2>1 DEF CentreTilt, CentreYaw, TypeOK, Pilot
  <2>2. CASE GasClamp
    BY <2>2 DEF GasClamp, TypeOK, Pilot
  <2>3. CASE Cutdown
    <3>1. pilot' = pilot
      BY <2>3, TickAssumption DEF Cutdown, TypeOK
    <3> QED
      BY <3>1
  <2>4. CASE ~CentreTilt /\ ~CentreYaw /\ ~GasClamp /\ ~Cutdown
    BY <2>4 DEF ControlLoop, TickLoad, TickStore, UdpPoll, ImuSample, ImuFailed,
                ExitOnImuFailure, PowerCheck, Idle, Silence, GasTest, Mix
  <2> QED
    BY <2>1, <2>2, <2>3, <2>4
<1> QED
  BY <1>1, <1>2 DEF ArmInv

LEMMA NextArm ==
  ASSUME UdpPackets = {}
  PROVE  TypeOK /\ ArmInv /\ [Next]_vars => ArmInv'
<1> SUFFICES ASSUME TypeOK, ArmInv, [Next]_vars PROVE ArmInv'
  OBVIOUS
<1>1. CASE Next
  <2>1. pc'["main"] \notin Applying /\ ~ApplyPilot("main")
    BY <1>1, LoopNeverApplies DEF ArmInv
  <2>2. CASE Boot
    BY <2>2 DEF Boot, ArmInv, FreshPc, Applying, Threads
  <2> QED
    BY <1>1, <2>1, <2>2, ReceiverArm, LoopArm DEF Next
<1>2. CASE UNCHANGED vars
  BY <1>2 DEF vars, ArmInv
<1> QED
  BY <1>1, <1>2

LEMMA OnlyReceiverArms ==
  ASSUME TypeOK, Next, ~ApplyPilot("main"), ~poweron, poweron'
  PROVE  ArmRight("rx") /\ pilot.yaw = "right"
<1>1. ~Boot
  BY DEF Boot
<1>2. ~BeaconRecv
  BY DEF BeaconRecv
<1>3. ~ControlLoop
  BY DEF ControlLoop, TickLoad, TickStore, UdpPoll, ImuSample, ImuFailed, ExitOnImuFailure,
         PowerCheck, Idle, Silence, CentreTilt, CentreYaw, GasTest, GasClamp, Cutdown, Mix,
         history
<1>4. ApplyPilot("rx")
  BY <1>1, <1>2, <1>3 DEF Next, Receiver
<1> QED
  BY <1>4 DEF ApplyPilot, Decode, StoreSticks, Store, Stamp, ArmGas, ArmRight, ArmLeft,
              ApplyWifi, ExitAfterSleep, history

\* Only a frame that is itself the arming gesture switches the engines on: the
\* failsafe's writes to *_pilot between its parts never make one of another.
THEOREM ArmingNeedsCommand ==
  ASSUME UdpPackets = {}
  PROVE  Spec => ArmsOnlyOnCommand
<1>1. Spec => [](TypeOK /\ ArmInv)
  BY InitType, InitArm, NextType, NextArm, PTL DEF Spec
<1>2. TypeOK /\ ArmInv /\ [Next]_vars =>
        [~poweron /\ poweron' =>
           \E t \in Threads : buf[t].gas < PowerOnGas /\ buf[t].yaw = "right"]_vars
  <2> SUFFICES ASSUME TypeOK, ArmInv, Next, ~poweron, poweron'
               PROVE  \E t \in Threads : buf[t].gas < PowerOnGas /\ buf[t].yaw = "right"
    OBVIOUS
  <2>1. ~ApplyPilot("main")
    BY LoopNeverApplies DEF ArmInv
  <2>2. pc["rx"] = "armRight" /\ pilot.yaw = "right"
    BY <2>1, OnlyReceiverArms DEF ArmRight, Step
  <2> QED
    BY <2>2 DEF ArmInv, Threads
<1> QED
  BY <1>1, <1>2, PTL DEF Spec, ArmsOnlyOnCommand

-----------------------------------------------------------------------------
(* The program implements the engine switch.                               *)

LEMMA InitSwitch == Init => Switch!Init
  BY DEF Init, Switch!Init, FreshPc, Powered, Off, Threads

LEMMA ReceiverSwitch ==
  ASSUME TypeOK, ExitInv, Receiver
  PROVE  [Switch!Next]_(Switch!vars)
<1>1. CASE BeaconRecv
  BY <1>1 DEF BeaconRecv, Switch!vars, Step, Goto, TypeOK, Threads
<1>2. CASE ApplyPilot("rx")
  <2>1. pc'["main"] = pc["main"]
    BY <1>2, ReceiverStaysOut
  <2>2. CASE ExitAfterSleep("rx")
    BY <2>1, <2>2 DEF ExitAfterSleep, ExitInv, Applying, Receiver, Switch!Next, Switch!Quit,
                      Switch!vars
  <2>3. CASE ~ExitAfterSleep("rx")
    BY <1>2, <2>1, <2>3
    DEF ApplyPilot, Decode, StoreSticks, Store, Stamp, ArmGas, ArmRight, ArmLeft, ApplyWifi,
        TypeOK, Receiver, Switch!Next, Switch!Throw, Switch!vars, history
  <2> QED
    BY <2>2, <2>3
<1> QED
  BY <1>1, <1>2 DEF Receiver

LEMMA LoopSwitch ==
  ASSUME TypeOK, ExitInv, ControlLoop, ~ApplyPilot("main")
  PROVE  [Switch!Next]_(Switch!vars)
<1> USE DEF TypeOK, Step, Goto, Threads, Powered, ControlLoop, Switch!Next, Switch!vars, history
<1>1. CASE TickLoad
  BY <1>1 DEF TickLoad
<1>2. CASE TickStore
  BY <1>2 DEF TickStore
<1>3. CASE UdpPoll
  BY <1>3 DEF UdpPoll
<1>4. CASE ImuSample
  BY <1>4 DEF ImuSample
<1>5. CASE ImuFailed
  <2>1. alive /\ UNCHANGED alive /\ poweron' = FALSE /\ pwm'.spin = FALSE
    BY <1>5 DEF ImuFailed, Off
  <2>2. (pc["main"] \in Powered)' = (pc["main"] \in Powered)
    BY <1>5 DEF ImuFailed
  <2> QED
    BY <2>1, <2>2 DEF Switch!Halt
<1>6. CASE ExitOnImuFailure
  BY <1>6 DEF ExitOnImuFailure, ExitInv, Switch!Quit
<1>7. CASE PowerCheck
  BY <1>7 DEF PowerCheck, Switch!Sample
<1>8. CASE Idle
  BY <1>8 DEF Idle, Off, Switch!Halt
<1>9. CASE Silence
  BY <1>9 DEF Silence
<1>14. CASE CentreTilt
  BY <1>14 DEF CentreTilt
<1>15. CASE CentreYaw
  BY <1>15 DEF CentreYaw
<1>10. CASE GasTest
  BY <1>10 DEF GasTest
<1>11. CASE GasClamp
  BY <1>11 DEF GasClamp
<1>12. CASE Cutdown
  BY <1>12, TickAssumption DEF Cutdown
<1>13. CASE Mix
  BY <1>13 DEF Mix, Switch!Drive
<1> QED
  BY <1>1, <1>2, <1>3, <1>4, <1>5, <1>6, <1>7, <1>8, <1>9, <1>10, <1>11, <1>12, <1>13,
     <1>14, <1>15

LEMMA NextSwitch ==
  ASSUME UdpPackets = {}
  PROVE  TypeOK /\ ExitInv /\ [Next]_vars => [Switch!Next]_(Switch!vars)
<1> SUFFICES ASSUME TypeOK, ExitInv, [Next]_vars PROVE [Switch!Next]_(Switch!vars)
  OBVIOUS
<1>1. CASE Next
  <2>1. ~ApplyPilot("main")
    BY <1>1, LoopNeverApplies DEF ExitInv
  <2>2. CASE Boot
    BY <2>2 DEF Boot, FreshPc, Threads, Powered, Off, Switch!Next, Switch!Boot
  <2> QED
    BY <1>1, <2>1, <2>2, ReceiverSwitch, LoopSwitch DEF Next
<1>2. CASE UNCHANGED vars
  BY <1>2 DEF vars, Switch!vars
<1> QED
  BY <1>1, <1>2

\* The flight program is an engine switch: the motors are driven only on a sample
\* of the switch, and the process ends only with the motors stopped.
THEOREM ImplementsSwitch ==
  ASSUME UdpPackets = {}
  PROVE  Spec => SwitchSpec
<1>1. Spec => [](TypeOK /\ ExitInv)
  BY InitType, InitExit, NextType, NextExit, PTL DEF Spec
<1> QED
  BY <1>1, InitSwitch, NextSwitch, PTL DEF Spec, SwitchSpec, Switch!Spec

-----------------------------------------------------------------------------
(* The motors.                                                             *)

LEMMA ZeroAccepted == Accepted(0) /\ \A m \in Chans : Zero[m] = 0
  BY PeriodAssumption DEF Accepted, Zero

LEMMA MixedSum ==
  ASSUME NEW p \in Int, NEW r \in Int, NEW y \in Int, NEW g \in Int,
         NEW w, w = [m \in Chans |-> Mixed(p, r, y, g)[m + 1]]
  PROVE  w \in [Chans -> Int] /\ Sum(w) = 4 * g
<1>1. w[0] = p + r + y + g /\ w[1] = -r + p - y + g
      /\ w[2] = r - p - y + g /\ w[3] = -p - r + y + g
  BY DEF Chans, Mixed
<1>2. \A m \in Chans : m \in {0, 1, 2, 3}
  BY DEF Chans
<1>3. \A m \in Chans : w[m] \in Int
  BY <1>1, <1>2
<1>4. w \in [Chans -> Int]
  BY <1>3
<1>5. Sum(w) = 4 * g
  BY <1>1 DEF Sum
<1> QED
  BY <1>4, <1>5

LEMMA PwmInitType == PwmInit => DutiesTyped
  BY PeriodAssumption DEF PwmInit, DutiesTyped, Zero, Chans, Phases

LEMMA PwmNextType == DutiesTyped /\ [PwmNext]_pwmVars => DutiesTyped'
<1> SUFFICES ASSUME DutiesTyped, [PwmNext]_pwmVars PROVE DutiesTyped'
  OBVIOUS
<1> USE PeriodAssumption DEF DutiesTyped, Zero, Phases
<1>1. at = 3 \/ at + 1 \in Chans
  BY DEF Chans
<1>2. CASE Start
  BY <1>2 DEF Start, Chans
<1>3. CASE Disable
  BY <1>1, <1>3 DEF Disable, EachMotor, Chans
<1>4. CASE Enable
  BY <1>1, <1>4 DEF Enable, EachMotor, Chans
<1>5. CASE Write
  <2>1. duty' \in [Chans -> 0..Period]
    BY <1>5 DEF Write, Accepted
  <2>2. cache' \in [Chans -> Int] /\ UNCHANGED <<enabled, want, thrust>>
    BY <1>5 DEF Write, Cached
  <2>3. phase' \in Phases /\ at' \in Chans
    BY <1>1, <1>5 DEF Write, EachMotor, Chans
  <2> QED
    BY <2>1, <2>2, <2>3
<1>6. CASE MixMotors
  <2>1. thrust' \in Int
    BY <1>6, MixAssumption DEF MixMotors
  <2>2. PICK p, r, y \in Turns : want' = [m \in Chans |-> Mixed(p, r, y, thrust')[m + 1]]
    BY <1>6 DEF MixMotors
  <2>3. want' \in [Chans -> Int]
    BY <2>1, <2>2, MixAssumption, MixedSum
  <2> QED
    BY <1>6, <2>1, <2>3 DEF MixMotors, Chans
<1>7. CASE Stop
  BY <1>7 DEF Stop, Chans
<1>8. CASE Exit
  BY <1>8 DEF Exit, Chans
<1>9. CASE UNCHANGED pwmVars
  BY <1>9 DEF pwmVars
<1> QED
  BY <1>2, <1>3, <1>4, <1>5, <1>6, <1>7, <1>8, <1>9 DEF PwmNext

\* No duty cycle ever leaves the period, whatever the mixer asks for.
THEOREM DutiesStayTyped == PwmSpec => []DutiesTyped
  BY PwmInitType, PwmNextType, PTL DEF PwmSpec

-----------------------------------------------------------------------------

LEMMA InitPwm == PwmInit => PwmInv
<1>1. Sum(Zero) = 4 * 0
  BY ZeroAccepted DEF Sum, Chans
<1> QED
  BY <1>1 DEF PwmInit, PwmInv, Written

LEMMA NextPwm == DutiesTyped /\ PwmInv /\ [PwmNext]_pwmVars => PwmInv'
<1> SUFFICES ASSUME DutiesTyped, PwmInv, [PwmNext]_pwmVars PROVE PwmInv'
  OBVIOUS
<1> USE DEF PwmInv, Written
<1>1. duty \in [Chans -> 0..Period] /\ enabled \in [Chans -> BOOLEAN] /\ at \in 0..3
      /\ Chans = 0..3 /\ phase \in Phases
  BY DEF DutiesTyped, Chans
<1>2. Sum(Zero) = 4 * 0
  BY ZeroAccepted DEF Sum, Chans
<1>3. CASE Start
  BY <1>1, <1>3 DEF Start
<1>4. CASE Disable
  <2>1. UNCHANGED <<duty, want, cache, thrust>> /\ phase = "disable"
        /\ phase' \in {"disable", "reset"} /\ at' \in 0..3
        /\ (phase' = "disable" => at' = at + 1) /\ (phase' = "reset" => at = 3 /\ at' = 0)
    BY <1>1, <1>4 DEF Disable, EachMotor
  <2> QED
    BY <1>1, <2>1
<1>5. CASE Enable
  <2>1. UNCHANGED <<duty, want, cache, thrust>> /\ phase = "enable" /\ phase' \in {"enable", "idle"}
    BY <1>5 DEF Enable, EachMotor
  <2>2. Sum(want)' = 4 * thrust'
    BY <2>1 DEF Sum
  <2> QED
    BY <2>1, <2>2
<1>6. CASE Write
  <2>1. UNCHANGED <<enabled, want, thrust>> /\ phase \in {"reset", "write"} /\ at' \in 0..3
    BY <1>1, <1>6 DEF Write, EachMotor
  <2>2. IF at = 3 THEN at' = 0 /\ phase' = IF phase = "reset" THEN "enable" ELSE "idle"
                  ELSE at' = at + 1 /\ phase' = phase
    BY <1>6 DEF Write, EachMotor
  <2>3. \A m \in Chans : duty'[m] = IF m = at /\ Accepted(want[at]) THEN want[at] ELSE duty[m]
    BY <1>1, <1>6 DEF Write
  <2>4. cache' = IF at = 3 THEN want ELSE cache
    BY <1>6 DEF Write, Cached
  <2>5. \A m \in Chans : Written(m)' => m < at \/ m = at
    BY <1>1, <2>1, <2>2
  <2>6. \A m \in Chans : Written(m)' /\ Accepted(want[m]) => duty'[m] = want[m]
    BY <2>1, <2>3, <2>5
  <2> QED
    BY <1>1, <2>1, <2>2, <2>4, <2>6
<1>7. CASE MixMotors
  <2>1. thrust' \in Int
    BY <1>7, MixAssumption DEF MixMotors
  <2>2. PICK p, r, y \in Turns : want' = [m \in Chans |-> Mixed(p, r, y, thrust')[m + 1]]
    BY <1>7 DEF MixMotors
  <2>3. Sum(want') = 4 * thrust'
    BY <2>1, <2>2, MixAssumption, MixedSum
  <2> QED
    BY <1>1, <1>7, <2>3 DEF MixMotors, Sum
<1>8. CASE Stop
  BY <1>1, <1>2, <1>8 DEF Stop, Sum
<1>9. CASE Exit
  BY <1>1, <1>2, <1>9 DEF Exit, Sum
<1>10. CASE UNCHANGED pwmVars
  BY <1>10 DEF pwmVars, Sum
<1> QED
  BY <1>3, <1>4, <1>5, <1>6, <1>7, <1>8, <1>9, <1>10 DEF PwmNext

LEMMA PwmInvariant == PwmSpec => [](DutiesTyped /\ PwmInv)
<1>1. PwmInit => DutiesTyped /\ PwmInv
  BY PwmInitType, InitPwm
<1>2. DutiesTyped /\ PwmInv /\ [PwmNext]_pwmVars => DutiesTyped' /\ PwmInv'
  BY PwmNextType, NextPwm
<1> QED
  BY <1>1, <1>2, PTL DEF PwmSpec

\* A completed set_pwm(0,0,0,0) stops all four motors, whatever was refused or
\* left half written before (set_pwm).
THEOREM AllStopped == PwmSpec => []ZeroStops
<1>1. DutiesTyped /\ PwmInv => ZeroStops
  <2> SUFFICES ASSUME DutiesTyped, PwmInv, phase = "idle", want = Zero PROVE duty = Zero
    BY DEF ZeroStops
  <2>1. \A m \in Chans : duty[m] = 0
    BY ZeroAccepted DEF PwmInv, Written
  <2> QED
    BY <2>1 DEF DutiesTyped, Zero
<1> QED
  BY <1>1, PwmInvariant, PTL

\* The motor values in the telemetry are those of the kernel, or were refused by
\* it (set_pwm, get_pwm).
THEOREM TelemetryShows == PwmSpec => []ShownOrRefused
<1>1. DutiesTyped /\ PwmInv => ShownOrRefused
  BY DEF PwmInv, Written, ShownOrRefused, Accepted
<1> QED
  BY <1>1, PwmInvariant, PTL

\* The mixer preserves the thrust (main loop).
THEOREM LiftKept == PwmSpec => []ThrustPreserved
<1>1. PwmInv => ThrustPreserved
  BY DEF PwmInv, ThrustPreserved, Sum
<1> QED
  BY <1>1, PwmInvariant, PTL

\* A motor is only ever enabled with a duty cycle of zero, after any crash
\* (init_pwm).
THEOREM RestartsStopped == PwmSpec => EnabledAtZero
<1> DEFINE Safely == \A m \in Chans : ~enabled[m] /\ enabled'[m] => duty[m] = 0
<1>1. DutiesTyped /\ PwmInv /\ [PwmNext]_pwmVars => [Safely]_pwmVars
  <2> SUFFICES ASSUME DutiesTyped, PwmInv, [PwmNext]_pwmVars PROVE Safely \/ UNCHANGED pwmVars
    OBVIOUS
  <2>1. CASE Enable
    <3>1. phase = "enable"
      BY <2>1 DEF Enable, EachMotor
    <3> QED
      BY <3>1, ZeroAccepted DEF PwmInv, Written
  <2>2. CASE Disable
    BY <2>2 DEF Disable, DutiesTyped
  <2>3. CASE Start \/ Write \/ MixMotors \/ Stop \/ Exit
    BY <2>3 DEF Start, Write, MixMotors, Stop, Exit
  <2>4. CASE UNCHANGED pwmVars
    BY <2>4
  <2> QED
    BY <2>1, <2>2, <2>3, <2>4 DEF PwmNext
<1> QED
  BY <1>1, PwmInvariant, PTL DEF PwmSpec, EnabledAtZero

-----------------------------------------------------------------------------
(* The program and its motors.                                             *)

LEMMA StepsOfBoth ==
  ASSUME [MotorsNext]_<<vars, motors>>
  PROVE  [Next]_vars /\ [PwmNext]_pwmVars
<1> USE DEF PwmNext, motors
<1>1. CASE StartMotors
  BY <1>1 DEF StartMotors, program
<1>2. CASE WriteMotor
  BY <1>2 DEF WriteMotor, program
<1>3. CASE Drive
  BY <1>3 DEF Drive, ControlLoop, Next
<1>4. CASE Halt
  BY <1>4 DEF Halt, ControlLoop, Next
<1>5. CASE PassCutdown
  BY <1>5 DEF PassCutdown, ControlLoop, Next
<1>6. CASE Think
  BY <1>6 DEF Think, ControlLoop, Next
<1>7. CASE Listen
  BY <1>7 DEF Listen, Next
<1>8. CASE Quit
  BY <1>8 DEF Quit, ControlLoop, Receiver, ApplyPilot, Next
<1>9. CASE Restart
  BY <1>9 DEF Restart, Next
<1>10. CASE UNCHANGED <<vars, motors>>
  BY <1>10
<1> QED
  BY <1>1, <1>2, <1>3, <1>4, <1>5, <1>6, <1>7, <1>8, <1>9, <1>10 DEF MotorsNext, Loop

\* The program on its motors is the program of FlightControl: everything proved
\* of that holds here, the writes of set_pwm() in between or not.
THEOREM ImplementsFlight == MotorsSpec => Spec
<1>1. MotorsInit => Init
  BY DEF MotorsInit
<1>2. [MotorsNext]_<<vars, motors>> => [Next]_vars
  BY StepsOfBoth
<1> QED
  BY <1>1, <1>2, PTL DEF MotorsSpec, Spec

\* And its motors are those of MotorPwm.
THEOREM ImplementsPwm == MotorsSpec => PwmSpec
<1>1. MotorsInit => PwmInit
  BY DEF MotorsInit
<1>2. [MotorsNext]_<<vars, motors>> => [PwmNext]_pwmVars
  BY StepsOfBoth
<1> QED
  BY <1>1, <1>2, PTL DEF MotorsSpec, PwmSpec

-----------------------------------------------------------------------------
(* The call under way is the one FlightControl has seen the end of.        *)

LEMMA OffIs == Off.gas = 0 /\ Off.spin = FALSE
  BY DEF Off

LEMMA InitFollow == MotorsInit => FollowInv
  BY OffIs DEF MotorsInit, Init, PwmInit, FollowInv, Starting

LEMMA ReceiverKeeps == Receiver => alive /\ UNCHANGED <<pwm, tops>>
  BY DEF Receiver, BeaconRecv, ApplyPilot, Decode, StoreSticks, Store, Stamp, ArmGas,
         ArmRight, ArmLeft, ApplyWifi, ExitAfterSleep, history

LEMMA ThinkKeeps == Think => alive /\ alive' /\ UNCHANGED pwm
<1> SUFFICES ASSUME Think PROVE alive' /\ UNCHANGED pwm
  BY DEF Think
<1>1. CASE TickLoad \/ TickStore \/ UdpPoll \/ ImuSample \/ PowerCheck
           \/ Silence \/ CentreTilt \/ CentreYaw \/ GasTest \/ GasClamp
  BY <1>1 DEF Think, TickLoad, TickStore, UdpPoll, ImuSample, PowerCheck, Silence,
              CentreTilt, CentreYaw, GasTest, GasClamp
<1>2. CASE ApplyPilot("main") /\ alive'
  BY <1>2 DEF ApplyPilot, Decode, StoreSticks, Store, Stamp, ArmGas,
              ArmRight, ArmLeft, ApplyWifi, ExitAfterSleep, history
<1> QED
  BY <1>1, <1>2 DEF Think

LEMMA QuitEnds == Quit => ~alive' /\ UNCHANGED <<pwm, duty>> /\ Exit
  BY DEF Quit, ExitAfterSleep, ExitOnImuFailure, Exit

LEMMA FollowStep == TypeOK /\ FollowInv /\ [MotorsNext]_<<vars, motors>> => FollowInv'
<1> SUFFICES ASSUME TypeOK, FollowInv, [MotorsNext]_<<vars, motors>> PROVE FollowInv'
  OBVIOUS
<1> USE DEF FollowInv, Starting
<1>1. CASE StartMotors
  <2>1. alive /\ UNCHANGED <<alive, pwm>>
    BY <1>1 DEF StartMotors, program, vars
  <2>2. UNCHANGED <<want, thrust>> /\ phase \in Starting
    BY <1>1 DEF StartMotors, Start, Disable, Enable, Write, EachMotor
  <2> QED
    BY <2>1, <2>2
<1>2. CASE WriteMotor
  <2>1. UNCHANGED <<alive, pwm>>
    BY <1>2 DEF WriteMotor, program, vars
  <2>2. UNCHANGED <<want, thrust>> /\ phase = "write" /\ phase' \in {"write", "idle"}
    BY <1>2 DEF WriteMotor, Write, EachMotor
  <2> QED
    BY <2>1, <2>2
<1>3. CASE Drive
  <2>1. alive' = alive /\ pwm'.spin /\ pwm'.gas = pilot.gas
    BY <1>3 DEF Drive, Mix
  <2> QED
    BY <1>3, <2>1 DEF Drive, MixMotors
<1>4. CASE Halt
  <2>1. alive' = alive /\ pwm' = Off
    BY <1>4 DEF Halt, Idle, ImuFailed
  <2> QED
    BY <1>4, <2>1, OffIs DEF Halt, Stop
<1>5. CASE PassCutdown
  <2>1. alive /\ alive' /\ phase = "idle"
    BY <1>5 DEF PassCutdown, Cutdown
  <2>2. CASE ticks >= CutdownTicks
    BY <1>5, <2>1, <2>2, OffIs DEF PassCutdown, Cutdown, Stop
  <2>3. CASE ~(ticks >= CutdownTicks)
    BY <1>5, <2>1, <2>3 DEF PassCutdown, Cutdown, motors, pwmVars
  <2> QED
    BY <2>2, <2>3
<1>6. CASE Think
  BY <1>6, ThinkKeeps DEF Think, motors, pwmVars
<1>7. CASE Listen
  BY <1>7, ReceiverKeeps DEF Listen, Running, motors, pwmVars
<1>8. CASE Quit
  BY <1>8, QuitEnds DEF Exit
<1>9. CASE Restart
  BY <1>9, OffIs DEF Restart, Boot, motors, pwmVars
<1>10. CASE UNCHANGED <<vars, motors>>
  BY <1>10 DEF vars, motors, pwmVars
<1> QED
  BY <1>1, <1>2, <1>3, <1>4, <1>5, <1>6, <1>7, <1>8, <1>9, <1>10 DEF MotorsNext, Loop

LEMMA OffMeansZero ==
  DutiesTyped /\ PwmInv /\ FollowInv => MotorsFollow
<1> SUFFICES ASSUME DutiesTyped, PwmInv, FollowInv, phase = "idle", ~pwm.spin
             PROVE  duty = Zero
  BY DEF MotorsFollow
<1>1. \A m \in Chans : duty[m] = 0
  BY ZeroAccepted DEF FollowInv, PwmInv, Written
<1>2. duty \in [Chans -> 0..Period]
  BY DEF DutiesTyped
<1> QED
  BY <1>1, <1>2 DEF Zero

MotorsInv == TypeOK /\ DutiesTyped /\ PwmInv /\ FollowInv

LEMMA InitMotors == MotorsInit => MotorsInv
  BY InitType, PwmInitType, InitPwm, InitFollow DEF MotorsInit, MotorsInv

LEMMA StepMotors == MotorsInv /\ [MotorsNext]_<<vars, motors>> => MotorsInv'
  BY StepsOfBoth, NextType, PwmNextType, NextPwm, FollowStep DEF MotorsInv

\* When FlightControl has the motors off and no call is under way, the kernel
\* has every duty cycle at zero.
THEOREM MotorsObey == MotorsSpec => []MotorsFollow
<1>1. MotorsInv => MotorsFollow
  BY OffMeansZero DEF MotorsInv
<1> QED
  BY <1>1, InitMotors, StepMotors, PTL DEF MotorsSpec

LEMMA InitMix == PwmInit => MixInv
  BY DEF PwmInit, MixInv

LEMMA NextMix == MixInv /\ [PwmNext]_pwmVars => MixInv'
<1> SUFFICES ASSUME MixInv, [PwmNext]_pwmVars PROVE MixInv'
  OBVIOUS
<1>1. CASE UNCHANGED <<want, thrust>>
  BY <1>1 DEF MixInv
<1>2. CASE MixMotors
  BY <1>2 DEF MixMotors, MixInv
<1>3. CASE Stop \/ Exit
  BY <1>3 DEF Stop, Exit, MixInv
<1> QED
  BY <1>1, <1>2, <1>3 DEF PwmNext, Start, Disable, Enable, Write, pwmVars

\* While the link is silent, the call under way mixes at most the failsafe gas.
LEMMA SilentThrust ==
  ASSUME MotorsInv, FailsafeHolds, Silent
  PROVE  want = Zero \/ thrust \in 0..FailsafeGas
<1>1. CASE ~pwm.spin
  BY <1>1 DEF MotorsInv, FollowInv
<1>2. CASE ~alive
  BY <1>2 DEF MotorsInv, FollowInv
<1>3. CASE pwm.spin /\ alive
  <2>1. thrust = pwm.gas /\ pwm.gas <= FailsafeGas
    BY <1>3 DEF MotorsInv, FollowInv, FailsafeHolds, Safe, Silent
  <2>2. pwm.gas \in Gases
    BY DEF MotorsInv, TypeOK, Motors
  <2> QED
    BY <2>1, <2>2, GasAssumption DEF Gases
<1> QED
  BY <1>1, <1>2, <1>3

\* What is written then is a mix of that gas, or zero.
LEMMA SilentWant ==
  ASSUME MotorsInv, MixInv, FailsafeHolds, Silent, NEW m \in Chans
  PROVE  want[m] \in FailsafeMixes(m) \cup {0}
<1>1. CASE want = Zero
  BY <1>1, ZeroAccepted
<1>2. CASE want # Zero
  <2>1. thrust \in 0..FailsafeGas
    BY <1>2, SilentThrust
  <2>2. PICK p, r, y \in Turns : want = [n \in Chans |-> Mixed(p, r, y, thrust)[n + 1]]
    BY <1>2 DEF MixInv
  <2>3. want[m] = Mixed(p, r, y, thrust)[m + 1]
    BY <2>2
  <2> QED
    BY <2>1, <2>3 DEF FailsafeMixes
<1> QED
  BY <1>1, <1>2

\* A completed call of which nothing was refused stands in the kernel.
LEMMA SilentLift == MotorsInv /\ FailsafeHolds => FailsafeLift
<1> SUFFICES ASSUME MotorsInv, FailsafeHolds, Silent, phase = "idle",
                    \A m \in Chans : Accepted(cache[m])
             PROVE  Sum(duty) <= 4 * FailsafeGas
  BY DEF FailsafeLift
<1>1. cache = want /\ Sum(want) = 4 * thrust
  BY DEF MotorsInv, PwmInv
<1>2. \A m \in Chans : duty[m] = want[m]
  BY <1>1 DEF MotorsInv, PwmInv, Written
<1>3. Sum(duty) = Sum(want)
  BY <1>2 DEF Sum, Chans
<1>4. CASE want = Zero
  <2>1. Sum(want) = 0
    BY <1>4, ZeroAccepted DEF Sum, Chans
  <2> QED
    BY <1>3, <2>1, GasAssumption
<1>5. CASE thrust \in 0..FailsafeGas
  BY <1>1, <1>3, <1>5, GasAssumption
<1> QED
  BY <1>4, <1>5, SilentThrust

LEMMA SilentWrites ==
  ASSUME MotorsInv, MixInv, FailsafeHolds, [MotorsNext]_<<vars, motors>>
  PROVE  FailsafeWrites
<1> SUFFICES ASSUME Silent, NEW m \in Chans
             PROVE  duty'[m] \in FailsafeMixes(m) \cup {0, duty[m]}
  BY DEF FailsafeWrites
<1>1. CASE Write
  <2>1. duty' = duty \/ duty' = [duty EXCEPT ![at] = want[at]]
    BY <1>1 DEF Write
  <2>2. duty'[m] = duty[m] \/ duty'[m] = want[m]
    BY <2>1 DEF MotorsInv, DutiesTyped
  <2> QED
    BY <2>2, SilentWant
<1>2. CASE duty' = duty
  BY <1>2
<1>3. [PwmNext]_pwmVars
  BY StepsOfBoth
<1> QED
  BY <1>1, <1>2, <1>3 DEF PwmNext, Start, Disable, Enable, MixMotors, Stop, Exit, pwmVars

\* The failsafe reaches the kernel: after a silent second a motor is only ever
\* given a mix of at most the failsafe gas, or stopped, and a call that was not
\* refused leaves no more lift than that gas.
THEOREM FailsafeReaches == MotorsSpec => FailsafeAtMotors
<1>1. MotorsSpec => []FailsafeHolds
  BY ImplementsFlight, FailsafeWorks
<1>2. MotorsInit => MotorsInv /\ MixInv
  BY InitMotors, InitMix DEF MotorsInit
<1>3. MotorsInv /\ MixInv /\ [MotorsNext]_<<vars, motors>> => MotorsInv' /\ MixInv'
  BY StepMotors, StepsOfBoth, NextMix
<1>4. MotorsInv /\ FailsafeHolds => FailsafeLift
  BY SilentLift
<1>5. MotorsInv /\ MixInv /\ FailsafeHolds /\ [MotorsNext]_<<vars, motors>>
        => [FailsafeWrites]_<<vars, motors>>
  BY SilentWrites
<1> QED
  BY <1>1, <1>2, <1>3, <1>4, <1>5, PTL DEF MotorsSpec, FailsafeAtMotors

-----------------------------------------------------------------------------
(* The process ends.                                                       *)

LEMMA StopStep ==
  ASSUME MotorsInv, ExitInv, StopInv, [MotorsNext]_<<vars, motors>>
  PROVE  StopInv'
<1> USE DEF StopInv, ExitLeavesNoDuty
<1>1. MotorsFollow
  BY OffMeansZero DEF MotorsInv
<1>2. tops = 2 => ~pwm.spin /\ want = Zero
  BY DEF ExitInv, MotorsInv, FollowInv
<1>3. ~alive => phase = "gone"
  BY DEF MotorsInv, FollowInv
<1>4. CASE StartMotors
  BY <1>4 DEF StartMotors, program, vars, Start, Disable, Enable, Write,
              EachMotor
<1>5. CASE WriteMotor
  <2>1. UNCHANGED <<alive, tops>> /\ phase = "write"
    BY <1>5 DEF WriteMotor, program, vars, history
  <2>2. ASSUME tops = 2 PROVE duty' = Zero
    <3>1. duty = Zero /\ want[at] = 0
      BY <1>2, <2>1, <2>2, ZeroAccepted DEF MotorsInv, DutiesTyped
    <3>2. duty' = duty \/ duty' = [duty EXCEPT ![at] = want[at]]
      BY <1>5 DEF WriteMotor, Write
    <3> QED
      BY <3>1, <3>2 DEF Zero
  <2> QED
    BY <1>3, <2>1, <2>2
<1>6. CASE Drive
  <2>1. alive' /\ tops' = tops /\ pc["main"] = "mix"
    BY <1>6 DEF Drive, Mix, Step, history
  <2>2. tops # 2
    BY <2>1 DEF ExitInv, Powered
  <2> QED
    BY <2>1, <2>2
<1>7. CASE Halt
  <2>1. alive' /\ tops' = tops
    BY <1>7 DEF Halt, Idle, ImuFailed, history
  <2> QED
    BY <1>1, <1>2, <1>7, <2>1 DEF Halt, Stop, MotorsFollow
<1>8. CASE PassCutdown
  <2>1. alive' /\ tops' = tops /\ pc["main"] = "cutdown"
    BY <1>8 DEF PassCutdown, Cutdown, Step, history
  <2>2. tops # 2
    BY <2>1 DEF ExitInv, Powered
  <2> QED
    BY <2>1, <2>2
<1>9. CASE Think
  BY <1>9, ThinkKeeps DEF Think, motors, pwmVars
<1>10. CASE Listen
  BY <1>10, ReceiverKeeps DEF Listen, motors, pwmVars
<1>11. CASE Quit
  <2>1. duty = Zero
    <3>1. CASE phase = "idle" /\ ExitAfterSleep("main")
      BY <3>1 DEF ExitAfterSleep, ExitInv, Applying
    <3>2. CASE phase = "idle" /\ ExitOnImuFailure
      BY <1>1, <3>2 DEF ExitOnImuFailure, ExitInv, MotorsFollow
    <3>3. CASE Running /\ ExitAfterSleep("rx")
      <4>1. tops = 2
        BY <3>3 DEF ExitAfterSleep, ExitInv, Applying
      <4> QED
        BY <1>1, <1>2, <3>3, <4>1 DEF Running, MotorsFollow
    <3> QED
      BY <1>11, <3>1, <3>2, <3>3 DEF Quit
  <2> QED
    BY <1>11, <2>1, QuitEnds DEF Exit
<1>12. CASE Restart
  BY <1>3, <1>12 DEF Restart, Boot, motors, pwmVars
<1>13. CASE UNCHANGED <<vars, motors>>
  BY <1>13 DEF vars, motors, pwmVars, history
<1> QED
  BY <1>4, <1>5, <1>6, <1>7, <1>8, <1>9, <1>10, <1>11, <1>12, <1>13 DEF MotorsNext, Loop

\* Commanded from the beacon radio only, the program never ends with a duty cycle
\* left in the kernel, even when the receiver ends it inside a set_pwm().
THEOREM ExitStopsDuties ==
  ASSUME UdpPackets = {}
  PROVE  MotorsSpec => []ExitLeavesNoDuty
<1>1. MotorsInit => ExitInv /\ StopInv
  BY InitExit DEF MotorsInit, Init, PwmInit, StopInv, ExitLeavesNoDuty
<1>2. MotorsInv /\ ExitInv /\ StopInv /\ [MotorsNext]_<<vars, motors>>
        => ExitInv' /\ StopInv'
  BY StepsOfBoth, NextExit, StopStep DEF MotorsInv
<1>3. StopInv => ExitLeavesNoDuty
  BY DEF StopInv
<1> QED
  BY <1>1, <1>2, <1>3, InitMotors, StepMotors, PTL DEF MotorsSpec

=============================================================================
