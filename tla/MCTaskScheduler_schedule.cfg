SPECIFICATION Spec
CONSTANTS
  request1 = request1
  request2 = request2
  command = command
  Threads = {request1, request2, command}
  Process <- WebAndCommand
  Calls <- Callers
  Absent = Absent
  Empty = Empty
  Torn = Torn
  Unloaded = Unloaded
  Defaults = 1
  MaxTasks = 2
  MaxRuns = 2
  MaxTime = 1
INVARIANTS CrashLeavesItWhole AloneIsExact CountedWereRun SlotRunsOnce
VIEW Visible
SYMMETRY Requests
CHECK_DEADLOCK FALSE
