SPECIFICATION LiveSemaSpec
CONSTANTS
  ui = ui
  audio = audio
  codec = codec
  fs = fs
  None = None
  Threads = {ui, audio, codec}
  Mutexes = {}
  RwLocks = {fs}
  Rank <- MCRank
  MaxDepth <- MCNever
  Drivers = {audio, codec}
  MaxCount = 1
INVARIANTS SemaTypeOK NobodyForgotten NobodyParked
PROPERTIES FairLocks SignalsKept Granted WaitEnds
