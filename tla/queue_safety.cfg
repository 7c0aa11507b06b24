\* Heartbeats on time: three tasks, room for two, two workers, a cancel call, a crash.
SPECIFICATION Spec
CONSTANTS
  Task = {t1, t2, t3}
  Executor = {w1, w2}
  Caller = {c1}
  Api = {a1}
  None = None
  AgentOutcome = {"completed"}
  ParallelLimit = 2
  MaxAttempts = 2
  MaxAbandons = 1
  Stalls = FALSE
SYMMETRY Symmetry
INVARIANTS SingleExecutor Recoverable
PROPERTIES EndedUnlessStale AttemptsNotRewound FollowsLifecycle
