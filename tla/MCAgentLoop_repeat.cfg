\* A patch that fails, sent again.
SPECIFICATION Spec
CONSTANTS
  f = f
  t = t
  v1 = v1
  v2 = v2
  Original = Original
  Absent = Absent
  Damaged = Damaged
  Untouched = Untouched
  SrcFiles = {f}
  TestFiles = {t}
  Spellings = {"plain"}
  Tested = {f}
  Missing = {}
  Texts = {v1}
  Goals = {"change"}
  Tools = {"patch_file"}
  EditOutcomes = {"failed"}
  Faults = FALSE
  PatchCandidates = FALSE
  MaxSteps = 4
  MinActions = 1
  MaxParseRetries = 1
  MaxToolCalls = 4
  RequireEvidence = FALSE
  Required = {}
INVARIANTS NoFalseGreen
CHECK_DEADLOCK FALSE
