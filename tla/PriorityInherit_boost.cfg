SPECIFICATION InheritSpec
CONSTANTS
  ui = ui
  audio = audio
  codec = codec
  disk = disk
  fs = fs
  stream = stream
  queuep = queuep
  None = None
  Threads = {ui, audio, codec}
  Mutexes = {stream}
  RwLocks = {fs}
  Ports = {queuep}
  Rank <- MCRank
  Server <- MCServer
  Base <- MCBase
  Prios = {1, 2, 3}
  MaxChanged = 1
  MaxDepth <- MCOnce
INVARIANTS Exclusion AssertsHold BoostExact ReadyExact
