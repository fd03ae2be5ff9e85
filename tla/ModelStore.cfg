SPECIFICATION Spec
CONSTANTS
  n1 = n1
  n2 = n2
  d1 = d1
  c1 = c1
  Names = {n1, n2}
  Digests = {d1, c1}
  Registry <- MCRegistry
  Configs = {c1}
  Made = {d1, c1}
  Jobs = {j1, j2, j3}
  MaxRunning = 2
  MaxFaults = 1
  Absent = Absent
  Corrupt = Corrupt
  None = None
INVARIANTS TypeOK LayersPresent LayersVerified NoGarbage
PROPERTIES PullRepairs
SYMMETRY JobSymmetry
