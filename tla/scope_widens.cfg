SPECIFICATION ScSpec
CHECK_DEADLOCK FALSE
CONSTANTS
  ScConns = 2
  ScRes = {r1,r2}
  ScAll = ScAll
  ScKinds = {"one"}
  ScEdits = 4
  ScWorker = FALSE
  ScRestarts = 0
  r1 = r1
  r2 = r2
INVARIANT ScopeOnlyNarrows
