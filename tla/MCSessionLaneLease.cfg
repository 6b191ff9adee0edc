SPECIFICATION MCFairSpec
CONSTANTS
  a1 = a1 a2 = a2 b1 = b1 b2 = b2 f1 = f1 f2 = f2 p1 = p1 g1 = g1 g2 = g2
  chat = chat note = note req = req l1 = l1 l2 = l2 l3 = l3
  NoCall = NoCall NoSession = NoSession NoRequest = NoRequest
  Calls <- MCCalls Lanes = {l1, l2, l3} Sessions = {chat, note} Requests = {req}
  LaneOf <- MCLaneOf SessionOf <- MCSessionOf RequestOf <- MCRequestOf
  Plain = {p1, g2} Leased = {l1, l2} Cancellable = {f1, f2, g1, b2}
  Outcomes = {"none"}
  MaxEpoch = 1
INVARIANTS MutualExclusion Once SameAnswer
PROPERTY Returns
CHECK_DEADLOCK FALSE
