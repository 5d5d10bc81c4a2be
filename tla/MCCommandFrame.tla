--------------------------- MODULE MCCommandFrame ---------------------------
(* Stick positions for model checking CommandFrame: one end, the centre, and   *)
(* both sides of the gas threshold of the arming gesture; -96 still arms.    *)
EXTENDS CommandFrame

MCBytes == {-128, -96, -95, 0, 26}
MCMoving == {2, 5}
MCButtons == {2, 5, 7, 9}
MCChannels == {1, 13}
MCWifis == {1, 2}
=============================================================================
