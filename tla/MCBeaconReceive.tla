--------------------------- MODULE MCBeaconReceive ---------------------------
(* Frames for model checking BeaconReceive: both ends, an address that shares *)
(* its last four bytes with one of them, one that shares nothing, everybody;  *)
(* and of all those frames the ones that are captured.                        *)
EXTENDS BeaconReceive

MCAddresses == {Mac("drone"), Mac("station"), Broadcast,
                [Mac("drone") EXCEPT !.hi = 0], [hi |-> 16, lo |-> 1]}

BeaconOf(mac, radiotap, ssid, caplen) ==
  [type |-> Beacon, to |-> Broadcast, from |-> mac, radiotap |-> radiotap,
   ssid |-> ssid, size |-> 528, caplen |-> caplen]

\* Whole beacons of both ends, one behind a long header, one cut short, and one
\* of a stranger.
MCOnTheAir ==
  {BeaconOf(Mac(e), 36, 6, 840) : e \in Ends}
    \cup {BeaconOf(Mac("drone"), 218, 32, 840), BeaconOf(Mac("station"), 218, 32, 840),
          BeaconOf(Mac("drone"), 219, 6, 840), BeaconOf(Mac("station"), 36, 6, 541),
          BeaconOf([Mac("drone") EXCEPT !.hi = 0], 36, 6, 840)}
=============================================================================
