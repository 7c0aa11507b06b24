\* A plain query whose response holds two gated calls, and a decision of one of them.
CHECK_DEADLOCK FALSE
SPECIFICATION Spec
CONSTANTS
  Query = {q1}
  Streams = {}
  Resume = {}
  Decider = {d1}
  Key = {k1}
  KeyOf <- SameKey
  p1 = p1
  p2 = p2
  Process = {p1, p2}
  Home <- Apart
  Call = {g1, g2}
  Gated = {g1, g2}
  None = None
  Stalls = FALSE
  MaxFaults = 0
INVARIANTS ModelSeesResults
