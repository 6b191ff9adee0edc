SPECIFICATION Spec
CONSTANTS
  u1 = u1 h1 = h1
  Names <- MCNames
  Deps <- MCDeps
  Users = {u1}
  Hosts = {h1}
  Requests <- MCRequests
  Batches <- MCBatches
  Operated = {}
  MaxGens = 5
  MayForce = TRUE
  MayRestore = FALSE
INVARIANT DrainedIsUnused
CHECK_DEADLOCK FALSE
