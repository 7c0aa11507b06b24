\* A cancel call that overlaps the end of the task.
SPECIFICATION Spec
CONSTANTS
  Task = {t1}
  Executor = {w1}
  Caller = {c1}
  Api = {a1}
  None = None
  AgentOutcome = {"completed"}
  ParallelLimit = 1
  MaxAttempts = 2
  MaxAbandons = 0
  Stalls = FALSE
PROPERTIES EndedIsFinal
