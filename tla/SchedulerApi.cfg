SPECIFICATION Spec
CONSTANTS
  Reqs = {r1, r2}
  Models = {1, 2}
  OptVariants = {o1}
  KeepAlives = {0, 1}
  Placements = {"gpu"}
  Asks <- AskAny
  DefaultKeepAlive = 1
  Forever = 2
  NilKeepAlive = nil
  MaxQueue = 4
  MaxRunners = 2
  RefMod = 3
  Apis = {a1}
  ApiKinds = {"expire", "stop", "oom", "crash"}
  None = None
SYMMETRY Symmetry
INVARIANTS RefCountAccurate NoUnloadInUseUnlessStale NoIdleLeak
