SPECIFICATION Spec
CONSTANTS
  Reqs = {r1, r2}
  Models = {1}
  OptVariants = {o1}
  KeepAlives = {0}
  Placements = {"gpu"}
  Asks <- AskAny
  DefaultKeepAlive = 1
  Forever = 2
  NilKeepAlive = nil
  MaxQueue = 4
  MaxRunners = 1
  RefMod = 3
  Apis = {}
  ApiKinds = {}
  None = None
INVARIANTS NoUnloadInUse
