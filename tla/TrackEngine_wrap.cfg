SPECIFICATION Spec
CONSTANTS
  a = a
  b = b
  c = c
  None = None
  Tracks <- MCTracks
  Queues <- MCQueues
  Modes = {"all"}
  MaxBuffered = 2
  MaxBroken = 1
  MaxCommands = 1
  RoughSpots = {"wrap"}
INVARIANT LoadEnds
CHECK_DEADLOCK FALSE
