----------------------------- MODULE LockstepHop -----------------------------
(***************************************************************************)
(* What the channel negotiation promises: the drone moves to a neighbouring *)
(* channel, and it moves on only when the pilot has followed it.  The       *)
(* operator may release them from it, for good.                             *)
(***************************************************************************)
EXTENDS Integers

CONSTANTS Channels, Start

VARIABLES drone, pilot, released

vars == <<drone, pilot, released>>

Adjacent(a, b) == a - b \in {-1, 1}

Init == drone = Start /\ pilot = Start /\ released = FALSE

Lead ==
  /\ drone = pilot
  /\ \E c \in Channels : Adjacent(c, drone) /\ drone' = c
  /\ pilot' = pilot

Follow ==
  /\ drone # pilot
  /\ pilot' = drone
  /\ drone' = drone

Next == (~released /\ (Lead \/ Follow) /\ released' = released) \/ released'

Spec == Init /\ [][Next]_vars

=============================================================================
