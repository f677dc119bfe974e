\* A commit in view 0, a view change that forgets it, another commit in view 1.
SPECIFICATION Spec
CONSTANTS
  a = a
  b = b
  NoDigest = NoDigest
  TotalNodes = 4
  Faulty = {}
  Digests = {a, b}
  Sequences = {1}
  MaxView = 1
  MaxViewChanges = 2
  Lost <- LostHalves
  Impatient = {1, 3}
ACTION_CONSTRAINT CommitThenChange
INVARIANTS Agreement
CHECK_DEADLOCK FALSE
