\* Two tasks, room for one to run, one cancel call, one shutdown or failed call.
\* The process rests when every modelled request has been served.
CHECK_DEADLOCK FALSE
SPECIFICATION FairSpec
CONSTANTS
  Task = {t1, t2}
  Executor = {t1, t2}
  Caller = {c1}
  Api = {a1}
  None = None
  AgentOutcome = {"completed"}
  ParallelLimit = 2
  MaxAttempts = 1
  MaxAbandons = 1
  WorkerCount = 1
PROPERTIES EarlyCancelDecides FollowsLifecycle EveryTaskSettles
