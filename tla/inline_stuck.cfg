\* A cancel call that overlaps the end of the task, under fairness.
\* The process rests when every modelled request has been served.
CHECK_DEADLOCK FALSE
SPECIFICATION FairSpec
CONSTANTS
  Task = {t1}
  Executor = {t1}
  Caller = {c1}
  Api = {a1}
  None = None
  AgentOutcome = {"completed", "failed"}
  ParallelLimit = 1
  MaxAttempts = 1
  MaxAbandons = 0
  WorkerCount = 1
PROPERTIES CancelConcludes
