\* A streaming query, a resume on another process and two decisions: a gated and
\* an ungated call, one crash or error, interrupts.
CHECK_DEADLOCK FALSE
SPECIFICATION Spec
CONSTANTS
  Query = {q1}
  Streams = {q1}
  Resume = {s1}
  Decider = {d1, d2}
  Key = {k1}
  KeyOf <- SameKey
  p1 = p1
  p2 = p2
  Process = {p1, p2}
  Home <- Apart
  Call = {g1, c1}
  Gated = {g1}
  None = None
  Stalls = FALSE
  MaxFaults = 1
INVARIANTS GatedCallsRunOnce NothingLost
