SPECIFICATION InheritSpec
CONSTANTS
  ui = ui
  audio = audio
  codec = codec
  disk = disk
  fs = fs
  stream = stream
  queuep = queuep
  None = None
  Threads = {ui, audio, codec, disk}
  Mutexes = {stream}
  RwLocks = {fs}
  Ports = {}
  Rank <- MCRank
  Server <- MCServer
  Base <- MCBase4
  Prios = {1, 2, 3}
  MaxChanged = 0
  MaxDepth <- MCNever
INVARIANTS NoInversion
