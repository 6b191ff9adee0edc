SPECIFICATION FairSpec
CONSTANTS
  a = a
  Agents = {a} Callers = {c1, c2, c3} Home <- MCHome Kinds <- MCKinds Topical = {}
  Routers = {r1} Nobody = Nobody
  QueueSize = 1 InboxSize = 1 MaxNodes = 1
  MayExpire = FALSE MayCancel = FALSE
PROPERTY StopReturns
CHECK_DEADLOCK FALSE
