SPECIFICATION MCSpec
CONSTANTS
  Foci = {"forced", "restored", "batches", "agents", "driven", "profile",
          "network", "spread"}
  Submitters = {q1, q2, q3} BatchWorkers = {w1, w2} BatchQueue = 2 BatchSize = 2
  Served = {t1} Senders = {m1, m2} Cancellers = {c1} Followers = {u1} ChannelSize = 1
  Drivers = {r1, r2} FlowSteps <- TwoSteps FlowNeeds <- InOrder Repeatable = {"s2"}
  FlowFaults = 1 FlowReads = 3
  Tasks = {"a", "b"} Owner <- OwnTask Calls = {k1, k2} Closers = {z1} NoTask = NoTask
  MaxGen = 2 MaxLeases = 3
  NetAgents = {"a"} NetCallers = {"n1", "n2"} NetHome <- OneHome NetKinds <- TwoKinds
  NetTopical = {"n2"} NetRouters = {v1, v2} NetQueue = 1 NetInbox = 1 NetNodes = 1
  NetExpires = TRUE NetCancels = TRUE
  None = None
SYMMETRY Symmetry
INVARIANTS TypesOK RefsAreHolders ServedWhileReferred NothingIsLost OneWorkerPerTask
  DrivenIsSafe
  GateIsConserved NothingBesideUnknown ClosedIsQuiet ChooserIsTheOwners
PROPERTY EndsAreFinal
CHECK_DEADLOCK FALSE
