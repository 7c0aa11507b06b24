\* Leases may expire under a live worker: one task, two workers.
SPECIFICATION BeatSpec
CONSTANTS
  Task = {t1}
  Executor = {w1, w2}
  Caller = {}
  Api = {a1}
  None = None
  AgentOutcome = {"completed"}
  ParallelLimit = 1
  MaxAttempts = 2
  MaxAbandons = 1
  Stalls = TRUE
PROPERTIES UsurpedWorkerIsTold
