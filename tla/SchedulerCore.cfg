SPECIFICATION Spec
CONSTANTS
  Reqs = {r1, r2, r3}
  Models = {1, 2}
  OptVariants = {o1}
  KeepAlives = {0}
  Placements = {"gpu"}
  Asks <- AskAny
  DefaultKeepAlive = 1
  Forever = 2
  NilKeepAlive = nil
  MaxQueue = 3
  MaxRunners = 1
  RefMod = 4
  Apis = {}
  ApiKinds = {}
  None = None
SYMMETRY Symmetry
INVARIANTS TypeOK RefCountAccurate OneReply NoLostProcess CompletedNeverStuck NoDoubleLoad
