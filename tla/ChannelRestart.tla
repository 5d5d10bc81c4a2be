--------------------------- MODULE ChannelRestart ---------------------------
(***************************************************************************)
(* ChannelHop with ends that are started again.  A new process believes it *)
(* is on the initial channel: the station tunes its radio there, the drone *)
(* does not (globals of imu.c; globals and main() of pilot/main.c).        *)
(***************************************************************************)
EXTENDS ChannelHop

CONSTANT Boots   \* bound on the restarts of both ends together

ASSUME BootAssumption == Boots \in Nat

VARIABLES
  droneBoots, stationBoots,   \* restarts so far
  misled                      \* history: a drone restarted near home, or astray

boots == <<droneBoots, stationBoots, misled>>

RestartInit == Init /\ droneBoots = 0 /\ stationBoots = 0 /\ misled = FALSE

\* Where the station could take the initial channel a new drone reports for a
\* hop of its own, now or at the end of the hop under way.
NearHome == Near(current, Start, 1) \/ Near(requested, Start, 1)

\* The drone's radio stays where it was; frames in the socket are gone.
RadioAtBoot_Start == Start
RadioAtBoot == droneRadio

BootDrone ==
  /\ droneBoots + stationBoots < Boots
  /\ droneBoots' = droneBoots + 1
  /\ droneCurrent' = Start /\ droneRequested' = 0
  /\ droneRadio' = RadioAtBoot
  /\ dpc' = "recv" /\ commands' = <<>>
  /\ misled' = (misled \/ NearHome \/ "drone" \in astray)
  /\ astray' = astray \ {"drone"}
  /\ UNCHANGED <<station, telemetry, homed, stationBoots>>

\* The station starts in mode 2; whether its radio was tuned is not looked at.
BootStation ==
  /\ droneBoots + stationBoots < Boots
  /\ stationBoots' = stationBoots + 1
  /\ current' = Start /\ requested' = Start /\ targeted' = Start
  /\ mode' = 2 /\ heard' = Start /\ ppc' = "recv"
  /\ \/ radio' = Start /\ astray' = astray \ {"station"}
     \/ (TuneErrors \/ SilentErrors) /\ radio' = radio /\ astray' = astray \cup {"station"}
  /\ telemetry' = <<>>
  /\ UNCHANGED <<drone, commands, homed, droneBoots, misled>>

RestartNext == (Next /\ UNCHANGED boots) \/ BootDrone \/ BootStation

RestartSpec == RestartInit /\ [][RestartNext]_<<vars, boots>>

FairRestartSpec ==
  /\ RestartSpec
  /\ WF_<<vars, boots>>(Station /\ UNCHANGED boots)
  /\ WF_<<vars, boots>>(Receiver /\ UNCHANGED boots)
  /\ SF_<<vars, boots>>(SendCommand /\ UNCHANGED boots)
  /\ SF_<<vars, boots>>(SendTelemetry /\ UNCHANGED boots)
  /\ SF_<<vars, boots>>(Follow /\ ppc' = "store" /\ "station" \notin astray' /\ UNCHANGED boots)
  /\ SF_<<vars, boots>>(Tune /\ dpc' = "store" /\ "drone" \notin astray' /\ UNCHANGED boots)

-----------------------------------------------------------------------------
\* A drone that restarts in mid-hop, as long as that is more than a channel away
\* from home, stays within one channel of the station: what the new process
\* reports is too far to be followed, and the next command sets it right.  Radios
\* that dropped a request aside (target_to_channel, apply_pilot, globals of
\* imu.c).
InReachAgain ==
  ~homed /\ stationBoots = 0 /\ ~misled /\ astray = {} => Near(radio, droneRadio, 1)

\* After such restarts of the drone a target that is left alone is still reached,
\* by both radios, unless the last request of an end was dropped
\* (target_to_channel, apply_pilot).
TargetReachedAgain ==
  [](~misled /\ ~homed /\ stationBoots = 0) /\ <>[](astray = {}) =>
    \A c \in Channels : <>[](targeted = c) => <>[](radio = c /\ droneRadio = c)

\* A station that is started again takes the drone home in the same way, unless
\* the drone starts again too and takes its channel for the initial one.
HomeTogetherAgain == [](droneBoots = 0) => HomeTogether

-----------------------------------------------------------------------------
(***************************************************************************)
(* What makes InReachAgain inductive.  A new drone process is Dark: it     *)
(* reports the initial channel without being there.  Its radio stands for  *)
(* its channel until the first command has set it right.  Its reports are  *)
(* lies, which the station does not follow from where it is; and once it   *)
(* has something else to follow, not from there either.                    *)
(***************************************************************************)
Dark == droneCurrent \notin {current, requested}
Place == IF Dark THEN droneRadio ELSE droneCurrent

Lies == IF Near(current, Start, 1) THEN {} ELSE {Start}
LiesBeyond == IF Near(requested, Start, 1) THEN {} ELSE Lies

RegistersAgain ==
  /\ Near(current, requested, 1)
  /\ Place \in {current, requested}
  /\ Dark => droneCurrent \in Lies
  /\ Retuning =>
       /\ droneRequested \in {current, requested}
       /\ Place = requested => droneRequested = requested
       /\ Dark \/ (droneRequested = requested /\ droneCurrent = current /\ requested # current)
  /\ Following => heard = requested /\ Place = requested /\ requested # current
  /\ Following /\ Dark => droneCurrent \in LiesBeyond
  /\ ppc # "home"
  /\ "station" \notin astray => radio = IF ppc = "store" THEN requested ELSE current
  /\ "drone" \notin astray => droneRadio = IF dpc = "store" THEN droneRequested ELSE Place
  /\ Dark /\ "drone" \in astray => dpc = "store"

CommandsTurnAgain ==
  /\ Turns(commands, current, requested)
  /\ Place = requested \/ (Retuning /\ droneRequested = requested) => All(commands, requested)

\* Between the lies the reports turn once, as they do in ChannelHop.
TelemetryTurnsAgain ==
  /\ \A i \in 1..Len(telemetry) :
       telemetry[i] \in {current} \cup Lies \cup IF Place = requested THEN {requested} ELSE {}
  /\ requested # current =>
       \A i \in 1..Len(telemetry) : telemetry[i] = requested =>
         /\ Dark => droneCurrent \in LiesBeyond
         /\ \A j \in i..Len(telemetry) : telemetry[j] \in {requested} \cup LiesBeyond
  /\ Following => \A i \in 1..Len(telemetry) : telemetry[i] \in {requested} \cup LiesBeyond

Undeceived == ~homed /\ stationBoots = 0 /\ ~misled

RestartInv == Undeceived => RegistersAgain /\ CommandsTurnAgain /\ TelemetryTurnsAgain

=============================================================================
