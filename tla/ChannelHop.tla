----------------------------- MODULE ChannelHop -----------------------------
(***************************************************************************)
(* How the pilot station (pilot/main.c) and the drone (imu.c) move their   *)
(* radios to another channel while the engines run.  The pilot's command   *)
(* frames carry _requested_channel; the drone follows it and reports       *)
(* _current_channel in its telemetry; the pilot follows what is reported.  *)
(*                                                                         *)
(* Frames are beacons: nobody acknowledges them, a lost one is a step that *)
(* changes nothing.  A frame is heard if the radios are at most Reach      *)
(* channels apart when it is sent, and waits in the receiver's socket.     *)
(* The drone's radio has been tuned to the initial channel.                *)
(*                                                                         *)
(* set_channel_nl80211() reports that it could not build its netlink       *)
(* request, but not what became of it: the kernel may refuse it and the    *)
(* program still stores the new channel.                                   *)
(***************************************************************************)
EXTENDS Integers, Sequences

CONSTANTS
  MaxChannel,    \* 13
  Start,         \* DEFAULT_INITIAL_CHANNEL and INITIAL_WIFI_CHAN
  Reach,         \* channels apart at which the radios still hear each other
  Backlog,       \* frames a receive socket holds
  Modes,         \* the wifiMode=... commands the operator gives
  TuneErrors,    \* set_channel_nl80211() may return an error
  SilentErrors   \* the kernel may not carry out what it was sent

Channels == 1..MaxChannel

ASSUME ChannelAssumption == MaxChannel \in Nat /\ Start \in Channels
ASSUME RadioAssumption == Reach \in Nat \ {0} /\ Backlog \in Nat /\ Modes \subseteq {1, 2}
                          /\ TuneErrors \in BOOLEAN /\ SilentErrors \in BOOLEAN

VARIABLES
  \* the pilot station
  current,     \* its _current_channel
  requested,   \* _requested_channel
  targeted,    \* _targeted_channel
  mode,        \* _requested_wifi
  radio,       \* where its radio is tuned
  heard,       \* change_to_channel, the number taken from the last telemetry
  ppc,         \* where telemetry_recv() is
  \* the drone
  droneCurrent, droneRequested, droneRadio,
  dpc,         \* where pilot_recv() is
  \* the air
  commands,    \* frames in the drone's socket
  telemetry,   \* frames in the pilot's socket
  \* History, read by no guard of the code:
  homed,       \* a wifiMode=2 command has been given
  astray       \* ends that go on as if a request to the radio had been carried out

station == <<current, requested, targeted, mode, radio, heard, ppc>>
drone == <<droneCurrent, droneRequested, droneRadio, dpc>>
history == <<homed, astray>>
vars == <<station, drone, commands, telemetry, history>>

Near(a, b, n) == a - b \in (-n)..n

Init ==
  /\ current = Start /\ requested = Start /\ targeted = Start
  /\ mode = 2 /\ radio = Start /\ heard = Start /\ ppc = "recv"
  /\ droneCurrent = Start /\ droneRequested = 0 /\ droneRadio = Start /\ dpc = "recv"
  /\ commands = <<>> /\ telemetry = <<>> /\ homed = FALSE /\ astray = {}

-----------------------------------------------------------------------------
\* main() of the pilot: a command frame with the channel asked for.  The number is
\* read a moment before the frame is sent; between the two the frame is as good as
\* one that waits in the drone's socket.
SendCommand ==
  /\ Near(radio, droneRadio, Reach)
  /\ Len(commands) < Backlog
  /\ commands' = Append(commands, requested)
  /\ UNCHANGED <<station, drone, telemetry, history>>

\* send_telemetry() of the drone.
SendTelemetry ==
  /\ Near(radio, droneRadio, Reach)
  /\ Len(telemetry) < Backlog
  /\ telemetry' = Append(telemetry, droneCurrent)
  /\ UNCHANGED <<station, drone, commands, history>>

-----------------------------------------------------------------------------
(* telemetry_recv() of the pilot: target_to_channel(), then one command of *)
(* the web page.                                                           *)

\* Only mode 1 hops, and only to a neighbour of the current channel.
MayFollow(c) == mode = 1 /\ Near(current, c, 1)

RecvTelemetry ==
  /\ ppc = "recv"
  /\ telemetry # <<>>
  /\ telemetry' = Tail(telemetry)
  /\ LET c == Head(telemetry) IN
       /\ ppc' = IF ~MayFollow(c) THEN "www"
                 ELSE IF c # current /\ c \in Channels THEN "tune" ELSE "next"
       /\ heard' = IF ppc' = "tune" THEN c ELSE Start
  /\ UNCHANGED <<current, requested, targeted, mode, radio, drone, commands, history>>

RecvNothing ==
  /\ ppc = "recv"
  /\ telemetry = <<>>
  /\ ppc' = "www"
  /\ UNCHANGED <<current, requested, targeted, mode, radio, heard, drone, commands,
                 telemetry, history>>

Follow ==
  /\ ppc = "tune"
  /\ \/ radio' = heard /\ ppc' = "store" /\ astray' = astray \ {"station"}
     \/ SilentErrors /\ radio' = radio /\ ppc' = "store" /\ astray' = astray \cup {"station"}
     \/ TuneErrors /\ radio' = radio /\ ppc' = "next" /\ astray' = astray
  /\ heard' = IF ppc' = "store" THEN heard ELSE Start
  /\ UNCHANGED <<current, requested, targeted, mode, drone, commands, telemetry, homed>>

StoreFollowed ==
  /\ ppc = "store"
  /\ current' = heard /\ requested' = heard
  /\ ppc' = "next" /\ heard' = Start
  /\ UNCHANGED <<targeted, mode, radio, drone, commands, telemetry, history>>

\* One hop towards the target, once the previous one is complete.
Settled_Assumed == TRUE
Settled == requested = current

Towards_Reversed(c) == IF c < requested THEN requested + 1 ELSE requested - 1
Towards(c) == IF c < requested THEN requested - 1 ELSE requested + 1

RequestNext ==
  /\ ppc = "next"
  /\ requested' = IF targeted # requested /\ Settled THEN Towards(targeted) ELSE requested
  /\ ppc' = "www"
  /\ UNCHANGED <<current, targeted, mode, radio, heard, drone, commands, telemetry, history>>

\* parse_www_command(): no command, a mode, or a target.
NoCommand ==
  /\ ppc = "www"
  /\ ppc' = "recv"
  /\ UNCHANGED <<current, requested, targeted, mode, radio, heard, drone, commands,
                 telemetry, history>>

HoppingMode ==
  /\ ppc = "www" /\ 1 \in Modes
  /\ mode' = 1
  /\ ppc' = "recv"
  /\ UNCHANGED <<current, requested, targeted, radio, heard, drone, commands, telemetry, history>>

\* Mode 2 takes the station home at once, wherever the drone is.  Of its stores the
\* sender reads one, _requested_channel, so that they are one step.
HomeMode_Unrequested ==
  /\ ppc = "www" /\ 2 \in Modes
  /\ mode' = 2
  /\ current' = Start /\ targeted' = Start
  /\ ppc' = "home"
  /\ homed' = TRUE
  /\ UNCHANGED <<requested, radio, heard, drone, commands, telemetry, astray>>
HomeMode ==
  /\ ppc = "www" /\ 2 \in Modes
  /\ mode' = 2
  /\ current' = Start /\ requested' = Start /\ targeted' = Start
  /\ ppc' = "home"
  /\ homed' = TRUE
  /\ UNCHANGED <<radio, heard, drone, commands, telemetry, astray>>

\* No error is looked at here.
TuneHome ==
  /\ ppc = "home"
  /\ \/ radio' = Start /\ astray' = astray \ {"station"}
     \/ (TuneErrors \/ SilentErrors) /\ radio' = radio /\ astray' = astray \cup {"station"}
  /\ ppc' = "recv"
  /\ UNCHANGED <<current, requested, targeted, mode, heard, drone, commands, telemetry, homed>>

MayTarget_Always == TRUE
MayTarget == mode = 1

NewTarget ==
  /\ ppc = "www" /\ MayTarget
  /\ targeted' \in Channels
  /\ ppc' = "recv"
  /\ UNCHANGED <<current, requested, mode, radio, heard, drone, commands, telemetry, history>>

Station ==
  \/ RecvTelemetry \/ RecvNothing \/ Follow \/ StoreFollowed \/ RequestNext
  \/ NoCommand \/ HoppingMode \/ HomeMode \/ TuneHome \/ NewTarget

-----------------------------------------------------------------------------
(* pilot_recv() of the drone: the channel part of parse_pilot() and        *)
(* apply_pilot().                                                          *)

RecvCommand_NewOnly ==
  /\ dpc = "recv"
  /\ commands # <<>>
  /\ commands' = Tail(commands)
  /\ droneRequested' = IF Head(commands) \in Channels THEN Head(commands) ELSE droneRequested
  /\ dpc' = IF droneRequested' # droneRequested THEN "tune" ELSE "recv"
  /\ UNCHANGED <<station, droneCurrent, droneRadio, telemetry, history>>
RecvCommand ==
  /\ dpc = "recv"
  /\ commands # <<>>
  /\ commands' = Tail(commands)
  /\ droneRequested' = IF Head(commands) \in Channels THEN Head(commands) ELSE droneRequested
  /\ dpc' = IF droneRequested' # droneCurrent THEN "tune" ELSE "recv"
  /\ UNCHANGED <<station, droneCurrent, droneRadio, telemetry, history>>

Tune ==
  /\ dpc = "tune"
  /\ \/ droneRadio' = droneRequested /\ dpc' = "store" /\ astray' = astray \ {"drone"}
     \/ SilentErrors /\ droneRadio' = droneRadio /\ dpc' = "store"
        /\ astray' = astray \cup {"drone"}
     \/ TuneErrors /\ droneRadio' = droneRadio /\ dpc' = "recv" /\ astray' = astray
  /\ UNCHANGED <<station, droneCurrent, droneRequested, commands, telemetry, homed>>

StoreTuned_Skipped ==
  /\ dpc = "store"
  /\ dpc' = "recv"
  /\ UNCHANGED <<station, droneCurrent, droneRequested, droneRadio, commands, telemetry, history>>
StoreTuned ==
  /\ dpc = "store"
  /\ droneCurrent' = droneRequested
  /\ dpc' = "recv"
  /\ UNCHANGED <<station, droneRequested, droneRadio, commands, telemetry, history>>

Receiver == RecvCommand \/ Tune \/ StoreTuned

Next == SendCommand \/ SendTelemetry \/ Station \/ Receiver

Spec == Init /\ [][Next]_vars

\* Both receivers keep running; of the frames sent within reach some get through,
\* a radio link that delivers nothing at all being no link; and a netlink request
\* that the code keeps repeating succeeds in the end.
FairSpec ==
  /\ Spec
  /\ WF_vars(Station) /\ WF_vars(Receiver)
  /\ SF_vars(SendCommand) /\ SF_vars(SendTelemetry)
  /\ SF_vars(Follow /\ ppc' = "store" /\ "station" \notin astray')
  /\ SF_vars(Tune /\ dpc' = "store" /\ "drone" \notin astray')

-----------------------------------------------------------------------------
\* Every variable keeps to the channel numbers and labels the code gives it;
\* in particular no request ever leaves 1..13.
TypeOK ==
  /\ {current, requested, targeted, radio, heard} \subseteq Channels /\ mode \in {1, 2}
  /\ ppc \in {"recv", "tune", "store", "next", "www", "home"}
  /\ {droneCurrent, droneRadio} \subseteq Channels /\ droneRequested \in 0..MaxChannel
  /\ dpc \in {"recv", "tune", "store"} /\ (dpc # "recv" => droneRequested \in Channels)
  /\ commands \in Seq(Channels) /\ telemetry \in Seq(Channels)
  /\ homed \in BOOLEAN /\ astray \subseteq {"station", "drone"}

\* However frames are lost or wait in the sockets, the two radios stay within
\* one channel of each other, until the operator calls the station home.  A
\* request the kernel silently dropped breaks this only until both ends have
\* been tuned again: it never sets one end a hop ahead of the other for good
\* (target_to_channel, apply_pilot and set_channel_nl80211 together).
InReach == ~homed /\ astray = {} => Near(radio, droneRadio, 1)

\* In mode 2 the station stays on the initial channel and asks for no other
\* (target_to_channel, parse_www_command).
StaysHome == mode = 2 => current = Start /\ requested = Start /\ targeted = Start

\* Until the station is called home the two ends move as LockstepHop says, even
\* where a radio silently stays behind (target_to_channel, apply_pilot).
Lockstep == INSTANCE LockstepHop WITH drone <- droneCurrent, pilot <- current,
                                      released <- homed
LockstepSpec == Lockstep!Spec

\* A target that is left alone is reached by both ends, unless the station is
\* called home or the last request of an end was dropped (target_to_channel,
\* apply_pilot).
TargetReached ==
  [](~homed) /\ <>[](astray = {}) =>
    \A c \in Channels : <>[](targeted = c) => <>[](current = c /\ droneCurrent = c)

\* A station called home takes the drone home, or is out of its reach for good:
\* nothing in between, whatever the drone was doing, and even when its own radio
\* was not tuned; unless the drone takes a dropped request for a change of
\* channel (parse_www_command, apply_pilot).
HomeTogether ==
  <>[](mode = 2) /\ <>[]("drone" \notin astray) =>
    <>[](droneRadio = Start) \/ <>[](~Near(radio, droneRadio, Reach))

-----------------------------------------------------------------------------
(***************************************************************************)
(* What makes InReach and LockstepSpec inductive.  A hop is a turn from    *)
(* current to requested that travels from the pilot through the drone's    *)
(* socket, the drone and the pilot's socket back to the pilot: each frame  *)
(* and each register on that way is on the old channel, and everything     *)
(* upstream of one on the new channel is on the new channel.               *)
(***************************************************************************)
All(s, x) == \A i \in 1..Len(s) : s[i] = x

Turns(s, old, new) ==
  /\ \A i \in 1..Len(s) : s[i] \in {old, new}
  /\ \A i, j \in 1..Len(s) : i < j /\ s[i] = new => s[j] = new

Following == ppc \in {"tune", "store"}
Retuning == dpc \in {"tune", "store"}

Registers ==
  /\ Near(current, requested, 1)
  /\ droneCurrent \in {current, requested}
  /\ Retuning => droneRequested = requested /\ droneCurrent = current /\ requested # current
  /\ Following => heard = requested /\ droneCurrent = requested /\ requested # current
  /\ ppc # "home"
  /\ "station" \notin astray => radio = IF ppc = "store" THEN requested ELSE current
  /\ "drone" \notin astray => droneRadio = IF dpc = "store" THEN requested ELSE droneCurrent

CommandsTurn ==
  IF droneCurrent = requested \/ Retuning
    THEN All(commands, requested) ELSE Turns(commands, current, requested)

TelemetryTurns ==
  /\ IF droneCurrent = requested
       THEN Turns(telemetry, current, requested) ELSE All(telemetry, current)
  /\ Following => All(telemetry, requested)

HopInv == ~homed => Registers /\ CommandsTurn /\ TelemetryTurns

=============================================================================
