SPECIFICATION Spec
CONSTANTS
  Tokens = {a, b}
  Models <- MCModels
  Window = 2
  MaxPagedOut <- MCMaxPagedOut
  SnapshotInterval = 2
  PreThinking = 1
  PrefillChunk = 3
  MaxPrompt = 3
  MaxTokens = 4
  None = None
INVARIANTS TypeOK SiblingsDiffer SnapshotsTrue LiveTrue InStep PathBacked CounterExact
SYMMETRY TokenSymmetry
PROPERTIES RestorePointsKept SnapshotsServe
