SPECIFICATION Spec
CONSTANTS
  r1 = r1 r2 = r2
  Callers = {r1, r2}
  Nobody = Nobody
  Steps <- MCSteps
  Needs <- MCNeeds
  ReplaySafe = {"s2"}
  Durable = FALSE
  Serial = FALSE
  MaxFaults = 0
  MaxReads = 1
INVARIANT StepsRunOnce
CHECK_DEADLOCK FALSE
