SPECIFICATION ClientSpec
CONSTANTS
  r1 = r1
  r2 = r2
  t1 = t1
  Calls = {r1, r2, t1}
  Requests = {r1, r2}
  FailureThreshold = 1
  OpenSeconds = 1
  HalfOpenProbes = 1
  MaxInFlight = 1
  MaxAttempts = 2
  MaxDelay = 1
  QueueTimeout = 1
  TotalTimeout = 1
  MaxNow = 2
INVARIANTS SlotsConserved AdmissionsRecorded RetriesBounded KindsAreHonest
PROPERTIES RequestsEnd
CHECK_DEADLOCK FALSE
