SPECIFICATION FairSpec
CONSTANTS
  Reqs = {r1, r2}
  Models = {1, 2}
  OptVariants = {o1}
  KeepAlives = {1}
  Placements = {"gpu"}
  Asks <- AskFirst
  DefaultKeepAlive = 1
  Forever = 2
  NilKeepAlive = nil
  MaxQueue = 4
  MaxRunners = 1
  RefMod = 3
  Apis = {a1}
  ApiKinds = {"shutdown"}
  None = None
PROPERTIES QueuedAnswered IdleUnloaded LoopsExit
CHECK_DEADLOCK FALSE
