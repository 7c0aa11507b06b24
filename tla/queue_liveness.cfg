\* Heartbeats on time, under fairness: two tasks, one worker that crashes.
SPECIFICATION FairSpec
CONSTANTS
  Task = {t1, t2}
  Executor = {w1}
  Caller = {c1}
  Api = {a1}
  None = None
  AgentOutcome = {"completed"}
  ParallelLimit = 1
  MaxAttempts = 2
  MaxAbandons = 1
  Stalls = FALSE
PROPERTIES EveryTaskSettles
