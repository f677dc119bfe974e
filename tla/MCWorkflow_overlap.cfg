\* Two executions of one registered workflow at the same time.
SPECIFICATION Safety
CONSTANTS
  a = a
  b = b
  e1 = e1
  e2 = e2
  Nodes = {a, b}
  Unknown = {}
  Executions = {e1, e2}
  MaxWorkers = 2
  Overlap = TRUE
INVARIANTS FailuresCascade
CHECK_DEADLOCK FALSE
