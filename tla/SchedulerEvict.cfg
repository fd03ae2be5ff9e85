SPECIFICATION Spec
CONSTANTS
  Reqs = {r1, r2, r3}
  Models = {1, 2, 3}
  OptVariants = {o1}
  KeepAlives = {0}
  Placements = {"gpu", "cpu"}
  Asks <- AskOwn
  DefaultKeepAlive = 1
  Forever = 2
  NilKeepAlive = nil
  MaxQueue = 3
  MaxRunners = 2
  RefMod = 4
  Apis = {}
  ApiKinds = {}
  None = None
INVARIANTS LoadedBound NoLostProcess NoPanic
