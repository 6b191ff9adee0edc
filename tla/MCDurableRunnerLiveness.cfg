SPECIFICATION FairSpec
CONSTANTS
  Workers = {w1, w2}
  NoOwner = NoOwner
  Tasks = {1, 2}
  Inputs = {i1, i2}
  Targets = {}
  NoTarget = NoTarget
  Operations = {}
  Artifacts = {}
  Snapshots = {1, 2}
  NoSnapshot = 0
  Length = 2
  Models = {1}
  ReplaySafe = {}
  Ingress = i1
  MaxFaults = 1
PROPERTY Rests
CHECK_DEADLOCK FALSE
