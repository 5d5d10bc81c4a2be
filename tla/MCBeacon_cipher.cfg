\* Frames of three blocks, sent and received at the same time.
SPECIFICATION Spec
CONSTANTS
  Blocks = 3
INVARIANTS Contained
