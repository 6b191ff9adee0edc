SPECIFICATION Spec
CONSTANTS
  Workers = {w1, w2}
  NoOwner = NoOwner
  Tasks = {t1}
  Inputs = {i1}
  Targets = {}
  NoTarget = NoTarget
  Operations = {}
  Artifacts = {}
  Snapshots = {s1}
  NoSnapshot = NoSnapshot
  CommitIds = {c1, c2, c3}
  LeaseTTL = 1
  MaxWake = 0
  MaxFence = 2
  MaxRevision = 3
SYMMETRY Symmetry
INVARIANTS LedgerIsOrdered OneAuthority
PROPERTIES RevisionNamesFacts RunLedgerSpec
