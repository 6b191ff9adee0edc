SPECIFICATION Spec
CONSTANTS
  w1 = w1 w2 = w2 Workers = {w1, w2} NoOwner = NoOwner
  Tasks <- MCTasks Inputs = {i0, i1} Ingress = i0
  Targets <- Questions NoTarget = NoTarget Operations = {} Artifacts = {}
  Snapshots <- Frontiers NoSnapshot = NoSnapshot
  Order <- MCOrder Entry = "a" Fixed <- MCFixed Branches <- MCBranches Asking <- MCAsking
  MaxAsks = 2 MaxFence = 3 MaxFaults = 1
SYMMETRY Symmetry
INVARIANTS NodesRunOnce FrontierIsBacked LosersHaveLost AnswersAreSettled
PROPERTY GraphIsWalkedOnce
CHECK_DEADLOCK FALSE
