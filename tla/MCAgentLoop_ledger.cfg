\* The evidence ledger, with writes and restores that may fail half way.
SPECIFICATION Spec
CONSTANTS
  f = f
  t = t
  v1 = v1
  v2 = v2
  Original = Original
  Absent = Absent
  Damaged = Damaged
  Untouched = Untouched
  SrcFiles = {f}
  TestFiles = {t}
  Spellings = {"plain", "slash"}
  Tested = {f}
  Missing = {}
  Texts = {v1}
  Goals = {"repair", "change"}
  Tools = {"read_file", "patch_file", "write_file", "run_tests"}
  EditOutcomes = {"ok", "failed", "refused"}
  Faults = TRUE
  PatchCandidates = TRUE
  MaxSteps = 4
  MinActions = 1
  MaxParseRetries = 1
  MaxToolCalls = 3
  RequireEvidence = TRUE
  Required = {"FILE_READ", "TESTS_PASSED"}
CONSTRAINT Bounded
INVARIANTS TreeIsGuarded LedgerAgrees
CHECK_DEADLOCK FALSE
