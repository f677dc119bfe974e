\* Two executions of one DAG, one after the other, over every graph.
SPECIFICATION Spec
CONSTANTS
  a = a
  b = b
  c = c
  x = x
  e1 = e1
  e2 = e2
  Nodes = {a, b, c}
  Unknown = {x}
  Executions = {e1, e2}
  MaxWorkers = 2
  Overlap = FALSE
INVARIANTS ReportIsTrue FailuresCascade
PROPERTIES ImplementsSchedule ExecutionsEnd
CHECK_DEADLOCK FALSE
