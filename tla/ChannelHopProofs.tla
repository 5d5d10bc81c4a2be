-------------------------- MODULE ChannelHopProofs --------------------------
(***************************************************************************)
(* Proofs about ChannelHop and ChannelRestart, for any number of channels, *)
(* any backlog of the sockets, any loss of frames and any number of        *)
(* restarts.                                                               *)
(***************************************************************************)
EXTENDS ChannelRestart, SequenceTheorems, TLAPS

-----------------------------------------------------------------------------
(* Sequences that turn from one channel to another.                        *)

LEMMA AppendAll ==
  ASSUME NEW S, NEW s \in Seq(S), NEW x \in S, All(s, x)
  PROVE  All(Append(s, x), x)
  BY AppendProperties, LenProperties DEF All

LEMMA AppendTurns ==
  ASSUME NEW S, NEW s \in Seq(S), NEW a, NEW b \in S, Turns(s, a, b)
  PROVE  Turns(Append(s, b), a, b)
<1> DEFINE t == Append(s, b)
<1>1. Len(s) \in Nat /\ Len(t) = Len(s) + 1 /\ t[Len(s) + 1] = b
      /\ \A i \in 1..Len(s) : t[i] = s[i]
  BY AppendProperties, LenProperties
<1>2. \A i \in 1..Len(t) : t[i] \in {a, b}
  BY <1>1 DEF Turns
<1>3. \A i, j \in 1..Len(t) : i < j /\ t[i] = b => t[j] = b
  BY <1>1 DEF Turns
<1> QED
  BY <1>2, <1>3 DEF Turns

LEMMA AllTurns ==
  ASSUME NEW s, NEW a, NEW b, All(s, a)
  PROVE  Turns(s, a, b) /\ Turns(s, b, a)
  BY DEF All, Turns

LEMMA TurnsAll ==
  ASSUME NEW s, NEW a, Turns(s, a, a)
  PROVE  All(s, a)
  BY DEF All, Turns

LEMMA TailAll ==
  ASSUME NEW S, NEW s \in Seq(S), s # <<>>, NEW x, All(s, x)
  PROVE  Head(s) = x /\ All(Tail(s), x)
<1>1. Len(s) \in Nat \ {0} /\ Head(s) = s[1]
  BY EmptySeq
<1> QED
  BY <1>1, HeadTailProperties DEF All

LEMMA TailTurns ==
  ASSUME NEW S, NEW s \in Seq(S), s # <<>>, NEW a, NEW b, Turns(s, a, b)
  PROVE  /\ Head(s) \in {a, b}
         /\ Turns(Tail(s), a, b)
         /\ Head(s) = b => All(Tail(s), b)
<1> DEFINE t == Tail(s)
<1>1. Len(s) \in Nat \ {0} /\ Head(s) = s[1]
  BY EmptySeq
<1>2. Len(t) = Len(s) - 1 /\ \A i \in 1..Len(t) : t[i] = s[i + 1]
  BY HeadTailProperties
<1>3. Head(s) \in {a, b}
  BY <1>1 DEF Turns
<1>4. \A i \in 1..Len(t) : t[i] \in {a, b}
  BY <1>1, <1>2 DEF Turns
<1>5. \A i, j \in 1..Len(t) : i < j /\ t[i] = b => t[j] = b
  BY <1>1, <1>2 DEF Turns
<1>6. Head(s) = b => \A i \in 1..Len(t) : t[i] = b
  BY <1>1, <1>2 DEF Turns
<1> QED
  BY <1>3, <1>4, <1>5, <1>6 DEF Turns, All

-----------------------------------------------------------------------------
(* Types.                                                                  *)

LEMMA InitType == Init => TypeOK
<1> SUFFICES ASSUME Init PROVE TypeOK
  OBVIOUS
<1>1. commands \in Seq(Channels) /\ telemetry \in Seq(Channels)
  BY EmptySeq DEF Init
<1>2. droneRequested \in 0..MaxChannel
  BY ChannelAssumption DEF Init
<1> QED
  BY <1>1, <1>2, ChannelAssumption DEF Init, TypeOK

LEMMA NextType == TypeOK /\ [Next]_vars => TypeOK'
<1> SUFFICES ASSUME TypeOK, [Next]_vars PROVE TypeOK'
  OBVIOUS
<1> USE DEF TypeOK, station, drone, history
<1>1. CASE SendCommand
  BY <1>1, AppendProperties DEF SendCommand
<1>2. CASE SendTelemetry
  BY <1>2, AppendProperties DEF SendTelemetry
<1>3. CASE RecvTelemetry
  <2>1. Head(telemetry) \in Channels /\ Tail(telemetry) \in Seq(Channels)
    BY <1>3, HeadTailProperties DEF RecvTelemetry
  <2>2. heard' \in {Head(telemetry), Start} /\ ppc' \in {"www", "tune", "next"}
    BY <1>3 DEF RecvTelemetry
  <2> QED
    BY <1>3, <2>1, <2>2, ChannelAssumption DEF RecvTelemetry
<1>4. CASE RecvNothing
  BY <1>4 DEF RecvNothing
<1>5. CASE Follow
  <2>1. heard' \in {heard, Start} /\ radio' \in {heard, radio} /\ ppc' \in {"store", "next"}
    BY <1>5 DEF Follow
  <2>2. astray' \subseteq {"station", "drone"}
    BY <1>5 DEF Follow
  <2> QED
    BY <1>5, <2>1, <2>2, ChannelAssumption DEF Follow
<1>6. CASE StoreFollowed
  BY <1>6, ChannelAssumption DEF StoreFollowed
<1>7. CASE RequestNext
  <2>1. requested \in 1..MaxChannel /\ targeted \in 1..MaxChannel
    BY DEF Channels
  <2>2. targeted # requested => Towards(targeted) \in 1..MaxChannel
    BY <2>1, ChannelAssumption DEF Towards
  <2>3. requested' \in Channels
    BY <1>7, <2>1, <2>2 DEF RequestNext, Channels
  <2> QED
    BY <1>7, <2>3 DEF RequestNext
<1>8. CASE NoCommand \/ HoppingMode \/ NewTarget
  BY <1>8 DEF NoCommand, HoppingMode, NewTarget
<1>9. CASE HomeMode
  BY <1>9, ChannelAssumption DEF HomeMode
<1>10. CASE TuneHome
  BY <1>10, ChannelAssumption DEF TuneHome
<1>11. CASE RecvCommand
  <2>1. Head(commands) \in Channels
    BY <1>11, HeadTailProperties DEF RecvCommand
  <2>2. commands' \in Seq(Channels)
    BY <1>11, HeadTailProperties DEF RecvCommand
  <2> QED
    BY <1>11, <2>1, <2>2, ChannelAssumption DEF RecvCommand, Channels
<1>12. CASE Tune
  BY <1>12 DEF Tune
<1>13. CASE StoreTuned
  BY <1>13 DEF StoreTuned
<1>14. CASE UNCHANGED vars
  BY <1>14 DEF vars
<1> QED
  BY <1>1, <1>2, <1>3, <1>4, <1>5, <1>6, <1>7, <1>8, <1>9, <1>10, <1>11, <1>12, <1>13, <1>14
  DEF Next, Station, Receiver

\* Every variable of the channel negotiation keeps its type, and no request
\* leaves 1..MaxChannel (target_to_channel, parse_pilot).
THEOREM Typed == Spec => []TypeOK
<1>1. Init => TypeOK
  BY InitType
<1>2. TypeOK /\ [Next]_vars => TypeOK'
  BY NextType
<1> QED
  BY <1>1, <1>2, PTL DEF Spec

-----------------------------------------------------------------------------
(* The hop in progress.                                                    *)

LEMMA InitHop == Init => HopInv
<1> SUFFICES ASSUME Init PROVE Registers /\ CommandsTurn /\ TelemetryTurns
  BY DEF HopInv
<1>1. All(commands, Start) /\ All(telemetry, Start)
  BY DEF Init, All
<1>2. Turns(telemetry, Start, Start)
  BY <1>1, AllTurns
<1>3. Near(Start, Start, 1)
  BY ChannelAssumption DEF Near, Channels
<1> QED
  BY <1>1, <1>2, <1>3 DEF Init, Registers, CommandsTurn, TelemetryTurns, Following, Retuning

LEMMA SendHop ==
  ASSUME TypeOK, HopInv, SendCommand \/ SendTelemetry
  PROVE  HopInv'
<1> SUFFICES ASSUME ~homed' PROVE (Registers /\ CommandsTurn /\ TelemetryTurns)'
  BY DEF HopInv
<1>1. ~homed
  BY DEF SendCommand, SendTelemetry, history
<1>2. Registers /\ CommandsTurn /\ TelemetryTurns
  BY <1>1 DEF HopInv
<1>3. Registers'
  BY <1>2 DEF SendCommand, SendTelemetry, station, drone, history, Registers, Following, Retuning
<1>4. commands \in Seq(Channels) /\ telemetry \in Seq(Channels)
      /\ requested \in Channels /\ droneCurrent \in Channels
  BY DEF TypeOK
<1>5. CASE SendCommand
  <2>1. All(commands, requested) => All(commands', requested)
    BY <1>4, <1>5, AppendAll DEF SendCommand
  <2>2. Turns(commands, current, requested) => Turns(commands', current, requested)
    BY <1>4, <1>5, AppendTurns DEF SendCommand
  <2>3. UNCHANGED <<telemetry, current, requested, droneCurrent, dpc, ppc>>
    BY <1>5 DEF SendCommand, station, drone
  <2>4. CommandsTurn'
    BY <1>2, <2>1, <2>2, <2>3 DEF CommandsTurn, Retuning
  <2>5. TelemetryTurns'
    BY <1>2, <2>3 DEF TelemetryTurns, Following
  <2> QED
    BY <1>3, <2>4, <2>5
<1>6. CASE SendTelemetry
  <2>1. All(telemetry, droneCurrent) => All(telemetry', droneCurrent)
    BY <1>4, <1>6, AppendAll DEF SendTelemetry
  <2>2. Turns(telemetry, current, droneCurrent) => Turns(telemetry', current, droneCurrent)
    BY <1>4, <1>6, AppendTurns DEF SendTelemetry
  <2>3. UNCHANGED <<commands, current, requested, droneCurrent, dpc, ppc>>
    BY <1>6 DEF SendTelemetry, station, drone
  <2>4. CommandsTurn'
    BY <1>2, <2>3 DEF CommandsTurn, Retuning
  <2>5. droneCurrent # requested => droneCurrent = current
    BY <1>2 DEF Registers
  <2>6. Following => droneCurrent = requested
    BY <1>2 DEF Registers
  <2>7. TelemetryTurns'
    BY <1>2, <2>1, <2>2, <2>3, <2>5, <2>6 DEF TelemetryTurns, Following
  <2> QED
    BY <1>3, <2>4, <2>7
<1> QED
  BY <1>5, <1>6

LEMMA FollowHop ==
  ASSUME TypeOK, HopInv, Station
  PROVE  HopInv'
<1> SUFFICES ASSUME ~homed' PROVE (Registers /\ CommandsTurn /\ TelemetryTurns)'
  BY DEF HopInv
<1>1. ~HomeMode
  BY DEF HomeMode
<1>2. /\ ~homed /\ UNCHANGED <<droneCurrent, droneRequested, droneRadio, dpc, commands>>
      /\ "drone" \notin astray' => "drone" \notin astray
  BY <1>1 DEF Station, RecvTelemetry, RecvNothing, Follow, StoreFollowed, RequestNext,
    NoCommand, HoppingMode, TuneHome, NewTarget, drone, history
<1>3. Registers /\ CommandsTurn /\ TelemetryTurns
  BY <1>2 DEF HopInv
<1>4. telemetry \in Seq(Channels) /\ {current, requested, targeted} \subseteq Int
  BY DEF TypeOK, Channels
<1>5. CASE RecvTelemetry
  <2>1. UNCHANGED <<current, requested, radio, astray>> /\ telemetry # <<>> /\ ppc = "recv"
        /\ telemetry' = Tail(telemetry) /\ ppc' \in {"www", "tune", "next"}
        /\ (ppc' = "tune" => heard' = Head(telemetry) /\ Head(telemetry) # current)
    BY <1>5 DEF RecvTelemetry, history
  <2>2. CASE droneCurrent = requested
    <3>1. Turns(telemetry, current, requested)
      BY <1>3, <2>2 DEF TelemetryTurns
    <3>2. Head(telemetry) \in {current, requested} /\ Turns(telemetry', current, requested)
          /\ (Head(telemetry) = requested => All(telemetry', requested))
      BY <3>1, <2>1, <1>4, TailTurns
    <3> QED
      BY <1>2, <1>3, <2>1, <2>2, <3>2
      DEF Registers, CommandsTurn, TelemetryTurns, Following, Retuning
  <2>3. CASE droneCurrent # requested
    <3>1. All(telemetry, current)
      BY <1>3, <2>3 DEF TelemetryTurns
    <3>2. Head(telemetry) = current /\ All(telemetry', current)
      BY <3>1, <2>1, <1>4, TailAll
    <3> QED
      BY <1>2, <1>3, <2>1, <2>3, <3>2
      DEF Registers, CommandsTurn, TelemetryTurns, Following, Retuning
  <2> QED
    BY <2>2, <2>3
<1>6. CASE Follow
  BY <1>2, <1>3, <1>6
  DEF Follow, Registers, CommandsTurn, TelemetryTurns, Following, Retuning
<1>7. CASE StoreFollowed
  <2>1. heard = requested /\ droneCurrent = requested /\ ~Retuning /\ All(telemetry, requested)
        /\ ("station" \notin astray => radio = requested)
    BY <1>3, <1>7 DEF StoreFollowed, Registers, TelemetryTurns, Following
  <2>2. Turns(telemetry, requested, requested)
    BY <2>1, AllTurns
  <2>3. Near(requested, requested, 1)
    BY <1>4 DEF Near
  <2> QED
    BY <1>2, <1>3, <1>7, <2>1, <2>2, <2>3
    DEF StoreFollowed, Registers, CommandsTurn, TelemetryTurns, Following, Retuning, history
<1>8. CASE RequestNext
  <2>1. UNCHANGED <<current, radio, heard, telemetry, astray>> /\ ppc = "next" /\ ppc' = "www"
    BY <1>8 DEF RequestNext, history
  <2>2. CASE requested' = requested
    BY <1>2, <1>3, <2>1, <2>2
    DEF Registers, CommandsTurn, TelemetryTurns, Following, Retuning
  <2>3. CASE requested' # requested
    <3>1. requested = current /\ Near(current, requested', 1)
      BY <1>4, <1>8, <2>3 DEF RequestNext, Settled, Towards, Near
    <3>2. droneCurrent = current /\ ~Retuning
      BY <1>3, <3>1 DEF Registers
    <3>3. All(commands, current) /\ Turns(telemetry, current, current)
      BY <1>3, <3>1, <3>2 DEF CommandsTurn, TelemetryTurns
    <3>4. Turns(commands, current, requested') /\ All(telemetry, current)
      BY <3>3, AllTurns, TurnsAll
    <3> QED
      BY <1>2, <1>3, <2>1, <2>3, <3>1, <3>2, <3>4
      DEF Registers, CommandsTurn, TelemetryTurns, Following, Retuning
  <2> QED
    BY <2>2, <2>3
<1>9. CASE RecvNothing \/ NoCommand \/ HoppingMode \/ NewTarget
  <2>1. UNCHANGED <<current, requested, radio, heard, telemetry, astray>>
        /\ ppc \in {"recv", "www"} /\ ppc' \in {"recv", "www"}
    BY <1>9 DEF RecvNothing, NoCommand, HoppingMode, NewTarget, history
  <2> QED
    BY <1>2, <1>3, <2>1 DEF Registers, CommandsTurn, TelemetryTurns, Following, Retuning
<1>10. ~TuneHome
  BY <1>3 DEF TuneHome, Registers
<1> QED
  BY <1>1, <1>5, <1>6, <1>7, <1>8, <1>9, <1>10 DEF Station

LEMMA DroneHop ==
  ASSUME TypeOK, HopInv, Receiver
  PROVE  HopInv'
<1> SUFFICES ASSUME ~homed' PROVE (Registers /\ CommandsTurn /\ TelemetryTurns)'
  BY DEF HopInv
<1>1. /\ ~homed /\ UNCHANGED <<current, requested, radio, heard, ppc, telemetry>>
      /\ "station" \notin astray' => "station" \notin astray
  BY DEF Receiver, RecvCommand, Tune, StoreTuned, station, history
<1>2. Registers /\ CommandsTurn /\ TelemetryTurns
  BY <1>1 DEF HopInv
<1>3. commands \in Seq(Channels)
  BY DEF TypeOK
<1>4. CASE RecvCommand
  <2>1. UNCHANGED <<droneCurrent, droneRadio, astray>> /\ dpc = "recv" /\ commands # <<>>
        /\ commands' = Tail(commands)
    BY <1>4 DEF RecvCommand, history
  <2>2. Head(commands) \in Channels
    BY <1>3, <2>1, HeadTailProperties
  <2>3. droneRequested' = Head(commands)
        /\ dpc' = IF Head(commands) # droneCurrent THEN "tune" ELSE "recv"
    BY <1>4, <2>2 DEF RecvCommand
  <2>4. CASE droneCurrent = requested
    <3>1. Head(commands) = requested /\ All(commands', requested)
      BY <1>2, <1>3, <2>1, <2>4, TailAll DEF CommandsTurn
    <3> QED
      BY <1>1, <1>2, <2>1, <2>3, <2>4, <3>1
      DEF Registers, CommandsTurn, TelemetryTurns, Following, Retuning
  <2>5. CASE droneCurrent # requested
    <3>1. droneCurrent = current /\ Turns(commands, current, requested)
      BY <1>2, <2>1, <2>5 DEF Registers, CommandsTurn, Retuning
    <3>2. Head(commands) \in {current, requested} /\ Turns(commands', current, requested)
          /\ (Head(commands) = requested => All(commands', requested))
      BY <1>3, <2>1, <3>1, TailTurns
    <3> QED
      BY <1>1, <1>2, <2>1, <2>3, <2>5, <3>1, <3>2
      DEF Registers, CommandsTurn, TelemetryTurns, Following, Retuning
  <2> QED
    BY <2>4, <2>5
<1>5. CASE Tune
  <2>1. UNCHANGED <<droneCurrent, droneRequested, commands>> /\ dpc = "tune"
    BY <1>5 DEF Tune
  <2>2. \/ droneRadio' = droneRequested /\ dpc' = "store"
        \/ droneRadio' = droneRadio /\ dpc' = "store" /\ "drone" \in astray'
        \/ droneRadio' = droneRadio /\ dpc' = "recv" /\ astray' = astray
    BY <1>5 DEF Tune
  <2>3. droneRequested = requested /\ droneCurrent = current /\ requested # current
    BY <1>2, <2>1 DEF Registers, Retuning
  <2>4. All(commands, requested)
    BY <1>2, <2>1 DEF CommandsTurn, Retuning
  <2>5. CommandsTurn'
    <3>1. CASE dpc' = "store"
      BY <1>1, <2>1, <2>4, <3>1 DEF CommandsTurn, Retuning
    <3>2. CASE dpc' = "recv"
      BY <1>1, <2>1, <2>3, <2>4, <3>2, AllTurns DEF CommandsTurn, Retuning
    <3> QED
      BY <2>2, <3>1, <3>2
  <2>6. Registers' /\ TelemetryTurns'
    BY <1>1, <1>2, <2>1, <2>2, <2>3 DEF Registers, TelemetryTurns, Following, Retuning
  <2> QED
    BY <2>5, <2>6
<1>6. CASE StoreTuned
  <2>1. droneRequested = requested /\ droneCurrent = current /\ requested # current
        /\ dpc = "store" /\ droneCurrent' = droneRequested /\ dpc' = "recv"
        /\ UNCHANGED <<droneRequested, droneRadio, commands, astray>>
    BY <1>2, <1>6 DEF StoreTuned, Registers, Retuning, history
  <2>2. All(telemetry, current) /\ ~Following
    BY <1>2, <2>1 DEF TelemetryTurns, Registers
  <2>3. Turns(telemetry, current, requested)
    BY <2>2, AllTurns
  <2> QED
    BY <1>1, <1>2, <2>1, <2>2, <2>3
    DEF Registers, CommandsTurn, TelemetryTurns, Following, Retuning
<1> QED
  BY <1>4, <1>5, <1>6 DEF Receiver

LEMMA NextHop == TypeOK /\ HopInv /\ [Next]_vars => HopInv'
<1> SUFFICES ASSUME TypeOK, HopInv, [Next]_vars PROVE HopInv'
  OBVIOUS
<1>1. CASE UNCHANGED vars
  BY <1>1 DEF vars, history, station, drone, HopInv, Registers, CommandsTurn, TelemetryTurns,
    Following, Retuning
<1> QED
  BY <1>1, SendHop, FollowHop, DroneHop DEF Next

LEMMA HopInReach == TypeOK /\ HopInv => InReach
<1> SUFFICES ASSUME TypeOK, HopInv, ~homed, astray = {} PROVE Near(radio, droneRadio, 1)
  BY DEF InReach
<1>1. Registers
  BY DEF HopInv
<1>2. {current, requested} \subseteq Int
  BY DEF TypeOK, Channels
<1>3. radio \in {current, requested} /\ droneRadio \in {current, requested}
  BY <1>1 DEF Registers
<1> QED
  BY <1>1, <1>2, <1>3 DEF Registers, Near

\* Whatever frames are lost, however many wait in the sockets and whatever requests
\* the kernel dropped on the way, radios that have carried out their last request
\* are never more than one channel apart before the operator calls the station home
\* (target_to_channel, apply_pilot, set_channel_nl80211).
THEOREM StaysInReach == Spec => []InReach
<1>1. Init => TypeOK /\ HopInv
  BY InitType, InitHop
<1>2. TypeOK /\ HopInv /\ [Next]_vars => TypeOK' /\ HopInv'
  BY NextType, NextHop
<1>3. TypeOK /\ HopInv => InReach
  BY HopInReach
<1> QED
  BY <1>1, <1>2, <1>3, PTL DEF Spec

-----------------------------------------------------------------------------
(* The abstract hop.                                                       *)

LEMMA LockstepStep ==
  ASSUME TypeOK, HopInv, ~homed, [Next]_vars, ~homed'
  PROVE  [Lockstep!Next]_(Lockstep!vars)
<1> USE DEF Lockstep!vars, Lockstep!Next
<1>1. Registers
  BY DEF HopInv
<1>2. {current, requested} \subseteq Channels /\ Channels \subseteq Int
  BY DEF TypeOK, Channels
<1>3. CASE StoreFollowed
  <2>1. heard = droneCurrent /\ current # droneCurrent
    BY <1>1, <1>3 DEF StoreFollowed, Registers, Following
  <2>2. current' = heard /\ droneCurrent' = droneCurrent /\ homed' = homed
    BY <1>3 DEF StoreFollowed, drone, history
  <2> QED
    BY <2>1, <2>2 DEF Lockstep!Follow
<1>4. CASE StoreTuned
  <2>1. droneRequested = requested /\ droneCurrent = current /\ requested # current
    BY <1>1, <1>4 DEF StoreTuned, Registers, Retuning
  <2>2. droneCurrent' = droneRequested /\ current' = current /\ homed' = homed
    BY <1>4 DEF StoreTuned, station, history
  <2>3. Lockstep!Adjacent(requested, droneCurrent)
    <3>1. current \in Int /\ requested \in Int
      BY <1>2
    <3>2. current - requested \in -1..1
      BY <1>1 DEF Registers, Near
    <3> QED
      BY <2>1, <3>1, <3>2 DEF Lockstep!Adjacent
  <2> QED
    BY <1>2, <2>1, <2>2, <2>3 DEF Lockstep!Lead
<1>5. CASE UNCHANGED vars
  BY <1>5 DEF vars, history, station, drone
<1>6. CASE SendCommand \/ SendTelemetry
  BY <1>6 DEF SendCommand, SendTelemetry, station, drone, history
<1>7. CASE Station /\ ~StoreFollowed
  BY <1>7 DEF Station, RecvTelemetry, RecvNothing, Follow, RequestNext, NoCommand,
    HoppingMode, HomeMode, TuneHome, NewTarget, drone, history
<1>8. CASE RecvCommand \/ Tune
  BY <1>8 DEF RecvCommand, Tune, station, history
<1> QED
  BY <1>3, <1>4, <1>5, <1>6, <1>7, <1>8 DEF Next, Receiver

\* In the hopping mode the drone leads by one channel and waits to be followed,
\* until the station is called home: the negotiation implements LockstepHop.
THEOREM ImplementsLockstep == Spec => LockstepSpec
<1>1. Init => TypeOK /\ HopInv /\ Lockstep!Init
  BY InitType, InitHop DEF Init, Lockstep!Init
<1>2. TypeOK /\ HopInv /\ [Next]_vars => TypeOK' /\ HopInv'
  BY NextType, NextHop
<1>3. TypeOK /\ HopInv /\ [Next]_vars => [Lockstep!Next]_(Lockstep!vars)
  <2> SUFFICES ASSUME TypeOK, HopInv, [Next]_vars PROVE [Lockstep!Next]_(Lockstep!vars)
    OBVIOUS
  <2>1. CASE homed \/ homed'
    <3>1. homed'
      BY <2>1 DEF vars, history, station, drone, Next, SendCommand, SendTelemetry, Station,
        RecvTelemetry, RecvNothing, Follow, StoreFollowed, RequestNext, NoCommand,
        HoppingMode, HomeMode, TuneHome, NewTarget, Receiver, RecvCommand, Tune, StoreTuned
    <3> QED
      BY <3>1 DEF Lockstep!Next
  <2>2. CASE ~homed /\ ~homed'
    BY <2>2, LockstepStep
  <2> QED
    BY <2>1, <2>2
<1> QED
  BY <1>1, <1>2, <1>3, PTL DEF Spec, LockstepSpec, Lockstep!Spec

-----------------------------------------------------------------------------
(* Mode 2.                                                                 *)

\* No hop is under way at the station.
HomeInv == StaysHome /\ (mode = 2 => ppc \notin {"tune", "store", "next"})

LEMMA HomeStep == TypeOK /\ HomeInv /\ [Next]_vars => HomeInv'
<1> SUFFICES ASSUME TypeOK, HomeInv, [Next]_vars PROVE HomeInv'
  OBVIOUS
<1> USE DEF HomeInv, StaysHome
<1>1. CASE SendCommand \/ SendTelemetry \/ Receiver
  BY <1>1 DEF SendCommand, SendTelemetry, Receiver, RecvCommand, Tune, StoreTuned, station
<1>2. CASE RecvTelemetry \/ RecvNothing
  BY <1>2 DEF RecvTelemetry, RecvNothing, MayFollow
<1>3. CASE Follow \/ StoreFollowed \/ RequestNext
  BY <1>3 DEF Follow, StoreFollowed, RequestNext
<1>4. CASE NoCommand \/ HoppingMode \/ HomeMode \/ TuneHome
  BY <1>4 DEF NoCommand, HoppingMode, HomeMode, TuneHome
<1>5. CASE NewTarget
  BY <1>5 DEF NewTarget, MayTarget
<1>6. CASE UNCHANGED vars
  BY <1>6 DEF vars, station
<1> QED
  BY <1>1, <1>2, <1>3, <1>4, <1>5, <1>6 DEF Next, Station

\* A station in mode 2 is on the initial channel and asks for no other, whatever
\* it hears.
THEOREM HomeIsKept == Spec => []StaysHome
<1>1. Init => TypeOK /\ HomeInv
  BY InitType DEF Init, HomeInv, StaysHome
<1>2. HomeInv => StaysHome
  BY DEF HomeInv
<1> QED
  BY <1>1, <1>2, NextType, HomeStep, PTL DEF Spec


-----------------------------------------------------------------------------
(* Ends that are started again.                                            *)

BootType == droneBoots \in Nat /\ stationBoots \in Nat

LEMMA RestartType ==
  TypeOK /\ BootType /\ [RestartNext]_<<vars, boots>> => TypeOK' /\ BootType'
<1> SUFFICES ASSUME TypeOK, BootType, [RestartNext]_<<vars, boots>> PROVE TypeOK' /\ BootType'
  OBVIOUS
<1>1. CASE [Next]_vars /\ UNCHANGED boots
  BY <1>1, NextType DEF BootType, boots
<1>2. CASE BootDrone
  <2>1. commands' \in Seq(Channels)
    BY <1>2, EmptySeq DEF BootDrone
  <2>2. TypeOK'
    BY <1>2, <2>1, ChannelAssumption DEF BootDrone, RadioAtBoot, station, TypeOK
  <2> QED
    BY <1>2, <2>2 DEF BootDrone, BootType
<1>3. CASE BootStation
  <2>1. telemetry' \in Seq(Channels)
    BY <1>3, EmptySeq DEF BootStation
  <2>2. TypeOK'
    BY <1>3, <2>1, ChannelAssumption DEF BootStation, drone, TypeOK
  <2> QED
    BY <1>3, <2>2 DEF BootStation, BootType
<1> QED
  BY <1>1, <1>2, <1>3 DEF RestartNext, vars, boots

LEMMA InitRestart == RestartInit => RestartInv
<1> SUFFICES ASSUME RestartInit
             PROVE  RegistersAgain /\ CommandsTurnAgain /\ TelemetryTurnsAgain
  BY DEF RestartInv
<1>1. Near(Start, Start, 1)
  BY ChannelAssumption DEF Near, Channels
<1> QED
  BY <1>1 DEF RestartInit, Init, RegistersAgain, CommandsTurnAgain, TelemetryTurnsAgain,
    Dark, Place, Lies, LiesBeyond, Following, Retuning, All, Turns

\* What the steps of a hop need of the invariant.
AgainInv == RegistersAgain /\ CommandsTurnAgain /\ TelemetryTurnsAgain

LEMMA NearFacts ==
  ASSUME TypeOK
  PROVE  /\ Start \in Lies => Start \notin {current, requested} \/ ~Near(current, requested, 1)
         /\ Lies \subseteq {Start} /\ LiesBeyond \subseteq Lies
         /\ Near(current, current, 1) /\ Near(requested, requested, 1)
<1> {current, requested, Start} \subseteq Int
  BY ChannelAssumption DEF TypeOK, Channels
<1> QED
  BY DEF Lies, LiesBeyond, Near

LEMMA SendAgain ==
  ASSUME TypeOK, AgainInv, SendCommand \/ SendTelemetry
  PROVE  AgainInv'
<1> USE DEF AgainInv
<1>1. UNCHANGED <<station, drone, astray>>
  BY DEF SendCommand, SendTelemetry, history
<1>2. UNCHANGED <<Dark, Place, Lies, LiesBeyond, Following, Retuning>> /\ RegistersAgain'
  BY <1>1 DEF station, drone, RegistersAgain, Dark, Place, Lies, LiesBeyond, Following, Retuning
<1>3. commands \in Seq(Channels) /\ telemetry \in Seq(Channels)
      /\ requested \in Channels /\ droneCurrent \in Channels
  BY DEF TypeOK
<1>4. CASE SendCommand
  <2>1. All(commands, requested) => All(commands', requested)
    BY <1>3, <1>4, AppendAll DEF SendCommand
  <2>2. Turns(commands, current, requested) => Turns(commands', current, requested)
    BY <1>3, <1>4, AppendTurns DEF SendCommand
  <2>3. telemetry' = telemetry
    BY <1>4 DEF SendCommand
  <2>4. CommandsTurnAgain'
    BY <1>1, <1>2, <2>1, <2>2 DEF CommandsTurnAgain, station, drone
  <2>5. TelemetryTurnsAgain'
    BY <1>1, <1>2, <2>3 DEF TelemetryTurnsAgain, station, drone
  <2> QED
    BY <1>2, <2>4, <2>5
<1>5. CASE SendTelemetry
  <2> DEFINE n == Len(telemetry)
  <2>1. n \in Nat /\ Len(telemetry') = n + 1 /\ telemetry'[n + 1] = droneCurrent
        /\ \A i \in 1..n : telemetry'[i] = telemetry[i]
    BY <1>3, <1>5, AppendProperties, LenProperties DEF SendTelemetry
  <2>2. commands' = commands
    BY <1>5 DEF SendTelemetry
  <2>3. CommandsTurnAgain'
    BY <1>1, <1>2, <2>2 DEF CommandsTurnAgain, station, drone
  <2>4. UNCHANGED <<current, requested, droneCurrent>>
    BY <1>1 DEF station, drone
  <2>5. droneCurrent \in {current} \cup Lies \cup IF Place = requested THEN {requested} ELSE {}
    BY DEF RegistersAgain, Place
  <2>6. \A i \in 1..Len(telemetry') :
          telemetry'[i] \in {current} \cup Lies \cup IF Place = requested THEN {requested} ELSE {}
    BY <2>1, <2>5 DEF TelemetryTurnsAgain
  <2>7. ASSUME Place = requested, Dark => droneCurrent \in LiesBeyond
        PROVE  droneCurrent \in {requested} \cup LiesBeyond
    BY <2>7 DEF Place
  <2>8. ASSUME requested # current, NEW i \in 1..Len(telemetry'), telemetry'[i] = requested
        PROVE  /\ Dark => droneCurrent \in LiesBeyond
               /\ \A j \in i..Len(telemetry') : telemetry'[j] \in {requested} \cup LiesBeyond
    <3>1. CASE i \in 1..n
      <4>1. telemetry[i] = requested
        BY <2>1, <2>8, <3>1
      <4>2. /\ Dark => droneCurrent \in LiesBeyond
            /\ \A j \in i..n : telemetry[j] \in {requested} \cup LiesBeyond
        BY <2>8, <3>1, <4>1 DEF TelemetryTurnsAgain
      <4>3. Place = requested
        <5>1. telemetry[i] \in {current} \cup Lies \cup IF Place = requested THEN {requested} ELSE {}
          BY <3>1 DEF TelemetryTurnsAgain
        <5>2. requested \notin Lies
          BY NearFacts DEF RegistersAgain
        <5> QED
          BY <2>8, <4>1, <5>1, <5>2
      <4> QED
        BY <2>1, <2>7, <3>1, <4>2, <4>3
    <3>2. CASE i = n + 1
      <4>1. droneCurrent = requested
        BY <2>1, <2>8, <3>2
      <4> QED
        BY <2>1, <3>2, <4>1 DEF Dark
    <3> QED
      BY <2>1, <3>1, <3>2
  <2>9. Following => \A i \in 1..Len(telemetry') : telemetry'[i] \in {requested} \cup LiesBeyond
    BY <2>1, <2>7 DEF TelemetryTurnsAgain, RegistersAgain
  <2>10. TelemetryTurnsAgain'
    BY <1>2, <2>4, <2>6, <2>8, <2>9 DEF TelemetryTurnsAgain
  <2> QED
    BY <1>2, <2>3, <2>10
<1> QED
  BY <1>4, <1>5

LEMMA StationAgain ==
  ASSUME TypeOK, AgainInv, Station, ~homed'
  PROVE  AgainInv'
<1> USE DEF AgainInv
<1>1. ~HomeMode /\ ~TuneHome
  BY DEF HomeMode, TuneHome, RegistersAgain
<1>2. /\ UNCHANGED <<droneCurrent, droneRequested, droneRadio, dpc, commands>>
      /\ "drone" \in astray' <=> "drone" \in astray
  BY <1>1 DEF Station, RecvTelemetry, RecvNothing, Follow, StoreFollowed, RequestNext,
    NoCommand, HoppingMode, NewTarget, drone, history
<1>3. telemetry \in Seq(Channels) /\ {current, requested, targeted, Start} \subseteq Int
  BY ChannelAssumption DEF TypeOK, Channels
<1>4. UNCHANGED <<current, requested>> => UNCHANGED <<Dark, Place, Lies, LiesBeyond>>
  BY <1>2 DEF Dark, Place, Lies, LiesBeyond
<1>5. CASE RecvTelemetry
  <2> DEFINE n == Len(telemetry)
  <2>1. UNCHANGED <<current, requested, radio, astray>> /\ telemetry # <<>> /\ ppc = "recv"
        /\ telemetry' = Tail(telemetry) /\ ppc' \in {"www", "tune", "next"}
        /\ (ppc' = "tune" => /\ heard' = Head(telemetry) /\ Head(telemetry) # current
                             /\ Near(current, Head(telemetry), 1))
    BY <1>5 DEF RecvTelemetry, MayFollow, history
  <2>2. n \in Nat \ {0} /\ Head(telemetry) = telemetry[1] /\ Len(telemetry') = n - 1
        /\ \A i \in 1..Len(telemetry') : telemetry'[i] = telemetry[i + 1]
    BY <1>3, <2>1, HeadTailProperties, EmptySeq
  <2>3. Head(telemetry) \in {current} \cup Lies \cup IF Place = requested THEN {requested} ELSE {}
    BY <2>2 DEF TelemetryTurnsAgain
  <2>4. ppc' = "tune" => heard' = requested /\ Place = requested /\ requested # current
    BY <2>1, <2>3 DEF Lies
  <2>5. ppc' = "tune" =>
          /\ Dark => droneCurrent \in LiesBeyond
          /\ \A i \in 1..n : telemetry[i] \in {requested} \cup LiesBeyond
    <3>1. ppc' = "tune" => telemetry[1] = requested /\ requested # current
      BY <2>1, <2>2, <2>4
    <3>2. 1 \in 1..n /\ 1..n = 1..Len(telemetry)
      BY <2>2
    <3> QED
      BY <3>1, <3>2 DEF TelemetryTurnsAgain
  <2>6. RegistersAgain'
    BY <1>2, <1>4, <2>1, <2>4, <2>5 DEF RegistersAgain, Following, Retuning
  <2>7. CommandsTurnAgain'
    BY <1>2, <1>4, <2>1 DEF CommandsTurnAgain, Retuning
  <2>8. \A i \in 1..Len(telemetry') :
          telemetry'[i] \in {current} \cup Lies \cup IF Place = requested THEN {requested} ELSE {}
    BY <2>2 DEF TelemetryTurnsAgain
  <2>9. ASSUME requested # current, NEW i \in 1..Len(telemetry'), telemetry'[i] = requested
        PROVE  /\ Dark => droneCurrent \in LiesBeyond
               /\ \A j \in i..Len(telemetry') : telemetry'[j] \in {requested} \cup LiesBeyond
    BY <2>2, <2>9 DEF TelemetryTurnsAgain
  <2>10. ppc' = "tune" => \A i \in 1..Len(telemetry') : telemetry'[i] \in {requested} \cup LiesBeyond
    BY <2>2, <2>5
  <2>11. TelemetryTurnsAgain'
    <3>1. UNCHANGED <<current, requested, droneCurrent, Dark, Place, Lies, LiesBeyond>>
      BY <1>2, <1>4, <2>1
    <3>2. Following' => ppc' = "tune"
      BY <2>1 DEF Following
    <3> QED
      BY <2>8, <2>9, <2>10, <3>1, <3>2 DEF TelemetryTurnsAgain
  <2> QED
    BY <2>6, <2>7, <2>11
<1>6. CASE Follow
  BY <1>2, <1>4, <1>6
  DEF Follow, RegistersAgain, CommandsTurnAgain, TelemetryTurnsAgain, Following, Retuning
<1>7. CASE StoreFollowed
  <2>1. heard = requested /\ Place = requested /\ requested # current
        /\ ("station" \notin astray => radio = requested) /\ ppc = "store" /\ Following
    BY <1>7 DEF StoreFollowed, RegistersAgain, Following
  <2>2. current' = requested /\ requested' = requested /\ ppc' = "next"
        /\ UNCHANGED <<radio, telemetry, astray>>
    BY <1>7, <2>1 DEF StoreFollowed, history
  <2>3. Dark' = Dark /\ Place' = Place
    <3>1. Dark => droneCurrent # requested
      BY DEF Dark
    <3>2. ~Dark => droneCurrent = requested
      BY <2>1 DEF Place
    <3> QED
      BY <1>2, <2>2, <3>1, <3>2 DEF Dark, Place
  <2>4. LiesBeyond \subseteq Lies' /\ LiesBeyond' = Lies'
    BY <2>2 DEF Lies, LiesBeyond
  <2>5. Dark => droneCurrent \in LiesBeyond
    BY <2>1 DEF RegistersAgain
  <2>6. All(commands, requested) /\ Turns(commands, requested, requested)
    BY <2>1, AllTurns DEF CommandsTurnAgain
  <2>7. Near(requested, requested, 1)
    BY <1>3 DEF Near
  <2>8. Retuning => Dark /\ droneRequested = requested
    BY <2>1 DEF RegistersAgain, Place
  <2>9. RegistersAgain'
    BY <1>2, <2>1, <2>2, <2>3, <2>4, <2>5, <2>7, <2>8 DEF RegistersAgain, Following, Retuning
  <2>10. CommandsTurnAgain'
    BY <1>2, <2>2, <2>6 DEF CommandsTurnAgain
  <2>11. TelemetryTurnsAgain'
    BY <2>1, <2>2, <2>4 DEF TelemetryTurnsAgain, Following
  <2> QED
    BY <2>9, <2>10, <2>11
<1>8. CASE RequestNext
  <2>1. UNCHANGED <<current, radio, heard, telemetry, astray>> /\ ppc = "next" /\ ppc' = "www"
    BY <1>8 DEF RequestNext, history
  <2>2. CASE requested' = requested
    BY <1>2, <1>4, <2>1, <2>2
    DEF RegistersAgain, CommandsTurnAgain, TelemetryTurnsAgain, Following, Retuning
  <2>3. CASE requested' # requested
    <3>1. requested = current /\ Near(current, requested', 1) /\ requested' # current
      BY <1>3, <1>8, <2>3 DEF RequestNext, Settled, Towards, Near
    <3>2. requested' \notin Lies /\ Lies' = Lies /\ Place = current
      BY <2>1, <3>1 DEF Lies, RegistersAgain
    <3>3. Dark' = Dark /\ Place' = Place
      BY <1>2, <2>1, <3>1, <3>2 DEF Dark, Place, RegistersAgain
    <3>4. Retuning => Dark /\ droneRequested = current
      BY <3>1 DEF RegistersAgain
    <3>5. All(commands, current)
      BY <3>1, <3>2 DEF CommandsTurnAgain
    <3>6. RegistersAgain'
      BY <1>2, <2>1, <3>1, <3>2, <3>3, <3>4 DEF RegistersAgain, Following, Retuning
    <3>7. CommandsTurnAgain'
      BY <1>2, <2>1, <3>1, <3>2, <3>3, <3>4, <3>5, AllTurns DEF CommandsTurnAgain, Retuning
    <3>8. \A i \in 1..Len(telemetry) : telemetry[i] \in {current} \cup Lies
      BY <3>1 DEF TelemetryTurnsAgain
    <3>9. TelemetryTurnsAgain'
      BY <2>1, <3>1, <3>2, <3>8 DEF TelemetryTurnsAgain, Following
    <3> QED
      BY <3>6, <3>7, <3>9
  <2> QED
    BY <2>2, <2>3
<1>9. CASE RecvNothing \/ NoCommand \/ HoppingMode \/ NewTarget
  <2>1. UNCHANGED <<current, requested, radio, heard, telemetry, astray>>
        /\ ppc \in {"recv", "www"} /\ ppc' \in {"recv", "www"}
    BY <1>9 DEF RecvNothing, NoCommand, HoppingMode, NewTarget, history
  <2> QED
    BY <1>2, <1>4, <2>1
    DEF RegistersAgain, CommandsTurnAgain, TelemetryTurnsAgain, Following, Retuning
<1> QED
  BY <1>1, <1>5, <1>6, <1>7, <1>8, <1>9 DEF Station

LEMMA DroneAgain ==
  ASSUME TypeOK, AgainInv, Receiver
  PROVE  AgainInv'
<1> USE DEF AgainInv
<1>1. /\ UNCHANGED <<current, requested, radio, heard, ppc, telemetry>>
      /\ "station" \in astray' <=> "station" \in astray
  BY DEF Receiver, RecvCommand, Tune, StoreTuned, station, history
<1>2. UNCHANGED <<Lies, LiesBeyond, Following>>
  BY <1>1 DEF Lies, LiesBeyond, Following
<1>3. commands \in Seq(Channels)
  BY DEF TypeOK
<1>4. CASE RecvCommand
  <2>1. UNCHANGED <<droneCurrent, droneRadio, astray>> /\ dpc = "recv" /\ commands # <<>>
        /\ commands' = Tail(commands)
    BY <1>4 DEF RecvCommand, history
  <2>2. Head(commands) \in Channels
    BY <1>3, <2>1, HeadTailProperties
  <2>3. droneRequested' = Head(commands)
        /\ dpc' = IF Head(commands) # droneCurrent THEN "tune" ELSE "recv"
    BY <1>4, <2>2 DEF RecvCommand
  <2>4. Dark' = Dark /\ Place' = Place
    BY <1>1, <2>1 DEF Dark, Place
  <2>5. /\ Head(commands) \in {current, requested} /\ Turns(commands', current, requested)
        /\ Head(commands) = requested => All(commands', requested)
    BY <1>3, <2>1, TailTurns DEF CommandsTurnAgain
  <2>6. Place = requested => Head(commands) = requested
    BY <1>3, <2>1, TailAll DEF CommandsTurnAgain
  <2>7. ~Dark /\ dpc' # "recv" =>
          Head(commands) = requested /\ droneCurrent = current /\ requested # current
    BY <2>3, <2>5, <2>6 DEF Dark, Place
  <2>8. RegistersAgain'
    BY <1>1, <1>2, <2>1, <2>3, <2>4, <2>5, <2>6, <2>7 DEF RegistersAgain, Retuning, Following
  <2>9. CommandsTurnAgain'
    BY <1>1, <2>3, <2>4, <2>5, <2>6 DEF CommandsTurnAgain
  <2>10. TelemetryTurnsAgain'
    BY <1>1, <1>2, <2>1, <2>4 DEF TelemetryTurnsAgain
  <2> QED
    BY <2>8, <2>9, <2>10
<1>5. CASE Tune
  <2>1. UNCHANGED <<droneCurrent, droneRequested, commands>> /\ dpc = "tune" /\ Retuning
    BY <1>5 DEF Tune, Retuning
  <2>2. /\ Dark' = Dark
        /\ Dark => "drone" \notin astray
        /\ "drone" \notin astray => droneRadio = Place
    BY <1>1, <2>1 DEF Dark, RegistersAgain
  <2>3. CASE droneRadio' = droneRadio
             /\ ((dpc' = "recv" /\ astray' = astray) \/ (dpc' = "store" /\ "drone" \in astray'))
    <3>1. Place' = Place
      BY <2>1, <2>2, <2>3 DEF Place
    <3> QED
      BY <1>1, <1>2, <2>1, <2>2, <2>3, <3>1
      DEF RegistersAgain, CommandsTurnAgain, TelemetryTurnsAgain, Retuning, Following
  <2>4. CASE droneRadio' = droneRequested /\ dpc' = "store" /\ "drone" \notin astray'
    <3>1. Place' = IF Dark THEN droneRequested ELSE Place
      BY <2>1, <2>2, <2>4 DEF Place
    <3>2. Place' \in {current, requested} /\ (Place = requested => Place' = requested)
          /\ (Place' = requested /\ Dark => droneRequested = requested)
      BY <2>1, <3>1 DEF RegistersAgain
    <3>3. RegistersAgain'
      BY <1>1, <1>2, <2>1, <2>2, <2>4, <3>1, <3>2 DEF RegistersAgain, Retuning, Following
    <3>4. CommandsTurnAgain'
      BY <1>1, <2>1, <2>4, <3>1, <3>2 DEF CommandsTurnAgain, Retuning
    <3>5. TelemetryTurnsAgain'
      BY <1>1, <1>2, <2>1, <2>2, <3>2 DEF TelemetryTurnsAgain
    <3> QED
      BY <3>3, <3>4, <3>5
  <2>5. \/ droneRadio' = droneRequested /\ dpc' = "store" /\ astray' = astray \ {"drone"}
        \/ droneRadio' = droneRadio /\ dpc' = "store" /\ astray' = astray \cup {"drone"}
        \/ droneRadio' = droneRadio /\ dpc' = "recv" /\ astray' = astray
    BY <1>5 DEF Tune
  <2>6. "drone" \notin astray \ {"drone"} /\ "drone" \in astray \cup {"drone"}
    OBVIOUS
  <2>7. \/ droneRadio' = droneRadio
           /\ ((dpc' = "recv" /\ astray' = astray) \/ (dpc' = "store" /\ "drone" \in astray'))
        \/ droneRadio' = droneRequested /\ dpc' = "store" /\ "drone" \notin astray'
    BY <2>5, <2>6
  <2> QED
    BY <2>3, <2>4, <2>7
<1>6. CASE StoreTuned
  <2>1. droneCurrent' = droneRequested /\ dpc = "store" /\ dpc' = "recv" /\ Retuning
        /\ UNCHANGED <<droneRequested, droneRadio, commands, astray>>
    BY <1>6 DEF StoreTuned, Retuning, history
  <2>2. /\ droneRequested \in {current, requested}
        /\ "drone" \notin astray => droneRadio = droneRequested
    BY <2>1 DEF RegistersAgain
  <2>3. ~Dark' /\ Place' = droneRequested
    BY <1>1, <2>1, <2>2 DEF Dark, Place
  <2>4. Place = requested => droneRequested = requested
    BY <2>1 DEF RegistersAgain
  <2>5. RegistersAgain'
    BY <1>1, <1>2, <2>1, <2>2, <2>3, <2>4 DEF RegistersAgain, Retuning, Following
  <2>6. CommandsTurnAgain'
    BY <1>1, <2>1, <2>3 DEF CommandsTurnAgain, Retuning
  <2>7. TelemetryTurnsAgain'
    BY <1>1, <1>2, <2>3, <2>4 DEF TelemetryTurnsAgain
  <2> QED
    BY <2>5, <2>6, <2>7
<1> QED
  BY <1>4, <1>5, <1>6 DEF Receiver

LEMMA BootAgain ==
  ASSUME TypeOK, AgainInv, BootDrone, ~NearHome, "drone" \notin astray
  PROVE  AgainInv'
<1> USE DEF AgainInv
<1>1. UNCHANGED <<current, requested, radio, heard, ppc, telemetry, droneRadio>>
      /\ droneCurrent' = Start /\ dpc' = "recv" /\ commands' = <<>>
      /\ astray' = astray
  BY DEF BootDrone, RadioAtBoot, station
<1>2. Lies = {Start} /\ LiesBeyond = {Start} /\ Start \notin {current, requested}
  <2>1. {current, requested, Start} \subseteq Int
    BY ChannelAssumption DEF TypeOK, Channels
  <2> QED
    BY <2>1 DEF NearHome, Near, Lies, LiesBeyond
<1>3. UNCHANGED <<Lies, LiesBeyond, Following>> /\ Dark' /\ Place' = droneRadio /\ ~Retuning'
  BY <1>1, <1>2 DEF Lies, LiesBeyond, Following, Dark, Place, Retuning
<1>4. droneRadio \in {current, requested} /\ (Place = requested => droneRadio = requested)
  BY DEF RegistersAgain, Retuning
<1>5. RegistersAgain'
  BY <1>1, <1>2, <1>3, <1>4 DEF RegistersAgain
<1>6. CommandsTurnAgain'
  BY <1>1 DEF CommandsTurnAgain, Turns, All
<1>7. TelemetryTurnsAgain'
  BY <1>1, <1>2, <1>3, <1>4 DEF TelemetryTurnsAgain
<1> QED
  BY <1>5, <1>6, <1>7

LEMMA NextRestart ==
  TypeOK /\ BootType /\ RestartInv /\ [RestartNext]_<<vars, boots>> => RestartInv'
<1> SUFFICES ASSUME TypeOK, BootType, RestartInv, [RestartNext]_<<vars, boots>>, Undeceived'
             PROVE  AgainInv'
  BY DEF RestartInv, AgainInv
<1>1. CASE Next /\ UNCHANGED boots
  <2>1. Undeceived
    BY <1>1 DEF Undeceived, boots, Next, SendCommand, SendTelemetry, Station, RecvTelemetry,
      RecvNothing, Follow, StoreFollowed, RequestNext, NoCommand, HoppingMode, HomeMode,
      TuneHome, NewTarget, Receiver, RecvCommand, Tune, StoreTuned, history
  <2>2. AgainInv /\ ~homed'
    BY <2>1 DEF RestartInv, AgainInv, Undeceived
  <2> QED
    BY <1>1, <2>2, SendAgain, StationAgain, DroneAgain DEF Next
<1>2. CASE BootDrone
  <2>1. Undeceived /\ ~NearHome /\ "drone" \notin astray
    BY <1>2 DEF BootDrone, Undeceived
  <2> QED
    BY <1>2, <2>1, BootAgain DEF RestartInv, AgainInv
<1>3. CASE BootStation
  <2>1. stationBoots' # 0
    BY <1>3 DEF BootStation, BootType
  <2> QED
    BY <2>1 DEF Undeceived
<1>4. CASE UNCHANGED <<vars, boots>>
  <2>1. Undeceived /\ AgainInv
    BY <1>4 DEF Undeceived, RestartInv, AgainInv, vars, history, boots
  <2> QED
    BY <1>4, <2>1 DEF vars, history, station, drone, AgainInv, RegistersAgain, CommandsTurnAgain,
      TelemetryTurnsAgain, Dark, Place, Lies, LiesBeyond, Following, Retuning
<1> QED
  BY <1>1, <1>2, <1>3, <1>4 DEF RestartNext

\* However often and whenever in a hop a drone is started again, as long as that
\* is more than a channel away from home, the radios stay within one channel of
\* each other: its new process reports the initial channel without being there,
\* and the station never follows that report (target_to_channel, apply_pilot,
\* globals of imu.c).
THEOREM StaysInReachAgain == RestartSpec => []InReachAgain
<1>1. RestartInit => TypeOK /\ BootType /\ RestartInv
  BY InitType, InitRestart DEF RestartInit, BootType
<1>2. TypeOK /\ BootType /\ RestartInv => InReachAgain
  <2> SUFFICES ASSUME TypeOK, RestartInv, Undeceived, astray = {}
               PROVE  Near(radio, droneRadio, 1)
    BY DEF InReachAgain, Undeceived
  <2>1. RegistersAgain /\ {current, requested} \subseteq Int
    BY DEF RestartInv, TypeOK, Channels
  <2>2. radio \in {current, requested} /\ droneRadio \in {current, requested}
    BY <2>1 DEF RegistersAgain, Retuning
  <2> QED
    BY <2>1, <2>2 DEF RegistersAgain, Near
<1> QED
  BY <1>1, <1>2, RestartType, NextRestart, PTL DEF RestartSpec

\* Neither end's restart takes a station in mode 2 off the initial channel, and
\* no request leaves the channel numbers (globals of imu.c and pilot/main.c).
THEOREM HomeIsKeptAgain == RestartSpec => []TypeOK /\ []StaysHome
<1>1. RestartInit => TypeOK /\ BootType /\ HomeInv
  BY InitType DEF RestartInit, BootType, Init, HomeInv, StaysHome
<1>2. TypeOK /\ HomeInv /\ [RestartNext]_<<vars, boots>> => HomeInv'
  <2> SUFFICES ASSUME TypeOK, HomeInv, [RestartNext]_<<vars, boots>> PROVE HomeInv'
    OBVIOUS
  <2>1. CASE [Next]_vars
    BY <2>1, HomeStep
  <2>2. CASE BootDrone
    BY <2>2 DEF BootDrone, station, HomeInv, StaysHome
  <2>3. CASE BootStation
    BY <2>3 DEF BootStation, HomeInv, StaysHome
  <2> QED
    BY <2>1, <2>2, <2>3 DEF RestartNext, vars, boots
<1>3. HomeInv => StaysHome
  BY DEF HomeInv
<1> QED
  BY <1>1, <1>2, <1>3, RestartType, PTL DEF RestartSpec

=============================================================================
