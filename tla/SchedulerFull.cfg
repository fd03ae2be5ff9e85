SPECIFICATION Spec
CONSTANTS
  Reqs = {r1, r2}
  Models = {1, 2}
  OptVariants = {o1, o2}
  KeepAlives = {0}
  Placements = {"gpu"}
  Asks <- AskAny
  DefaultKeepAlive = 1
  Forever = 2
  NilKeepAlive = nil
  MaxQueue = 1
  MaxRunners = 1
  RefMod = 3
  Apis = {a1}
  ApiKinds = {"expire", "stop", "oom", "crash", "shutdown", "stopall"}
  None = None
SYMMETRY Symmetry
INVARIANTS RefCountAccurate
PROPERTIES ImplementsLease
CHECK_DEADLOCK FALSE
