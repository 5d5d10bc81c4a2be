---------------------------- MODULE MCHeadingHold ----------------------------
(* Yaw sticks for model checking HeadingHold: centred, and to either side.   *)
EXTENDS HeadingHold

MCSticks == {-10, 0, 5}
=============================================================================
