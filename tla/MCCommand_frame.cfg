\* Axes, buttons and requests in any order, on a joystick with eight axes.
SPECIFICATION Spec
CONSTANTS
  Axes = 8
  Moving <- MCMoving
  Buttons <- MCButtons
  Bytes <- MCBytes
  Channels <- MCChannels
  Wifis <- MCWifis
INVARIANTS TypeOK
PROPERTIES RequestArrives GestureIsHeld
