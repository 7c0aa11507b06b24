\* A streaming query and a resume on another process.
CHECK_DEADLOCK FALSE
SPECIFICATION Spec
CONSTANTS
  Query = {q1}
  Streams = {q1}
  Resume = {s1}
  Decider = {}
  Key = {k1}
  KeyOf <- SameKey
  p1 = p1
  p2 = p2
  Process = {p1, p2}
  Home <- Apart
  Call = {c1}
  Gated = {}
  None = None
  Stalls = FALSE
  MaxFaults = 0
INVARIANTS TurnsSerialized
