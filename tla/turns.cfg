\* One plain and one streaming query under the same key, a resume on another
\* process, one tool call, two crashes or errors, interrupts.
CHECK_DEADLOCK FALSE
SPECIFICATION FairSpec
CONSTANTS
  Query = {q1, q2}
  Streams = {q2}
  Resume = {s1}
  Decider = {}
  Key = {k1}
  KeyOf <- SameKey
  p1 = p1
  p2 = p2
  Process = {p1, p2}
  Home <- Apart
  Call = {c1}
  Gated = {}
  None = None
  Stalls = FALSE
  MaxFaults = 2
INVARIANTS QueriesSerialized KeyAskedOnce Interruptible
PROPERTIES LeaseIsFreed
