SPECIFICATION Spec
CONSTANTS
  Workers = {w1, w2}
  NoOwner = NoOwner
  Tasks = {}
  Inputs = {i1, i2}
  Targets = {x1}
  NoTarget = NoTarget
  Operations = {o1}
  Artifacts = {a1}
  Snapshots = {s1}
  NoSnapshot = NoSnapshot
  CommitIds = {c1, c2}
  LeaseTTL = 1
  MaxWake = 1
  MaxFence = 2
  MaxRevision = 2
SYMMETRY Symmetry
INVARIANTS TypeOK NoSleepingSignal PollFindsClaimable
