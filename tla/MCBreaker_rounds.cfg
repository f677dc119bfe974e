\* Two callers, two probes per round: probes outlive their rounds.
SPECIFICATION Spec
CONSTANTS
  c1 = c1
  c2 = c2
  Calls = {c1, c2}
  FailureThreshold = 2
  OpenSeconds = 2
  HalfOpenProbes = 2
  MaxNow = 7
INVARIANTS SlotsAreProbesInFlight
PROPERTIES CoolDownIsKept OpensOnlyOnConsecutiveFailures OnlyCurrentProbeDecides FullRoundEnds
