\* One round under a faulty leader that proposes differently to different replicas.
SPECIFICATION Spec
CONSTANTS
  a = a
  b = b
  NoDigest = NoDigest
  TotalNodes = 4
  Faulty = {0}
  Digests = {a, b}
  Sequences = {1}
  MaxView = 1
  MaxViewChanges = 2
  Lost <- Equivocates
  Impatient = {3}
ACTION_CONSTRAINT ChangeAfterCommit
INVARIANTS AgreementUnlessStrayed CommitIsSigned
PROPERTIES ViewChangeIsAskedFor
CHECK_DEADLOCK FALSE
