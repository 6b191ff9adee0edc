SPECIFICATION Spec
CONSTANTS
  Workers = {w1, w2}
  NoOwner = NoOwner
  Tasks = {1, 2, 3}
  Inputs = {i1}
  Targets = {}
  NoTarget = NoTarget
  Operations = {}
  Artifacts = {}
  Snapshots = {1, 2, 3}
  NoSnapshot = 0
  Length = 3
  Models = {1}
  ReplaySafe = {3}
  Ingress = i1
  MaxFaults = 2
SYMMETRY Symmetry
INVARIANTS EffectAtMostOnce SnapshotsAreBacked ResultsAreEarned
PROPERTY SnapshotNeverRecedes
CHECK_DEADLOCK FALSE
