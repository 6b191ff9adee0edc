SPECIFICATION LiveSpec
CONSTANTS
  Foci = {"together", "batches", "agents", "workflow", "network"}
  Submitters = {q1, q2, q3} BatchWorkers = {w1}
  Senders = {m1} Cancellers = {c1}
  t1 = t1 u1 = u1
  Callers = {r1, r2} Nobody = Nobody
  Steps <- TwoSteps Needs <- InOrder ReplaySafe = {"s2"}
  Durable = FALSE Serial = TRUE MaxFaults = 1 MaxReads = 2
  n1 = n1 n2 = n2
INVARIANTS StepsRunOnce CompletedIsEarned WaitersAreToldTheTruth
PROPERTIES EndIsFinal RetiredIsStopped AnswersArrive StopComesToAnEnd WorkflowSettles
CHECK_DEADLOCK FALSE
