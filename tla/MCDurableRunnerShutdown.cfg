SPECIFICATION Spec
CONSTANTS
  Workers = {w1, w2}
  NoOwner = NoOwner
  Tasks = {1, 2}
  Inputs = {i1}
  Targets = {}
  NoTarget = NoTarget
  Operations = {}
  Artifacts = {}
  Snapshots = {1, 2}
  NoSnapshot = 0
  Length = 2
  Models = {1}
  ReplaySafe = {}
  Ingress = i1
  MaxFaults = 1
SYMMETRY Symmetry
INVARIANT ShutdownHandsOver
CHECK_DEADLOCK FALSE
