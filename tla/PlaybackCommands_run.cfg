SPECIFICATION CommandsSpec
CONSTANTS
  a = a
  b = b
  c = c
  None = None
  Tracks <- MCTracks
  Queues <- MCQueues
  Modes = {"off"}
  MaxBuffered = 2
  MaxBroken = 0
  MaxCommands = 2
  RoughSpots = {}
INVARIANTS CommandsTypeOK LockScreenTrue RequestMet
CHECK_DEADLOCK FALSE
