SPECIFICATION LiveSpec
CONSTANTS
  a = a
  b = b
  c = c
  None = None
  Tracks <- MCTracks
  Queues <- MCQueues
  Modes = {"off", "all"}
  MaxBuffered = 2
  MaxBroken = 1
  MaxCommands = 2
  RoughSpots = {}
INVARIANTS TypeOK HeardIsCurrent BufferedInOrder NotComatose
PROPERTY QueueEnds
CHECK_DEADLOCK FALSE
