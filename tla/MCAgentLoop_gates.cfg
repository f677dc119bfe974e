\* The gates of finish(), over every suite, with drawn patch candidates.
SPECIFICATION Spec
CONSTANTS
  f = f
  t = t
  v1 = v1
  v2 = v2
  Original = Original
  Absent = Absent
  Damaged = Damaged
  Untouched = Untouched
  SrcFiles = {f}
  TestFiles = {t}
  Spellings = {"plain", "dots"}
  Tested = {f}
  Missing = {}
  Texts = {v1, v2}
  Goals = {"repair", "change", "not_repair"}
  Tools = {"read_file", "patch_file"}
  EditOutcomes = {"ok", "failed"}
  Faults = FALSE
  PatchCandidates = TRUE
  MaxSteps = 5
  MinActions = 1
  MaxParseRetries = 1
  MaxToolCalls = 4
  RequireEvidence = FALSE
  Required = {}
SYMMETRY Symmetry
CONSTRAINT Bounded
INVARIANTS VerdictIsCurrent EveryChangeIsTested 
CHECK_DEADLOCK FALSE
