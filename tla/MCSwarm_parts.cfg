\* One mission on a pool smaller than its batches; two models that repair; two
\* calls of one execution, which may die, fail to save, and overlap.
SPECIFICATION SwarmSpec
CONSTANTS
  m1 = m1
  Missions = {m1}
  PoolSize = 2
  o = o
  c1 = c1
  c2 = c2
  c3 = c3
  Candidates = {o, c1, c2, c3}
  Original = o
  Tiers = 2
  Tries <- MCTries
  AtOnce <- MCAtOnce
  p1 = p1
  p2 = p2
  t1 = t1
  t2 = t2
  Calls = {p1, p2}
  Route <- MCRoute
  Programs = {t1, t2}
  Clean = {t1}
  CrossCheck = TRUE
CONSTRAINT Bounded
INVARIANTS
  VerdictsAreOfFinalCode SuccessIsReported
  VerifiedOnce FoundWhatPassed
  SuccessIsOfFinalCode VerdictsWereEarned CheckpointIsWhole
PROPERTIES MissionsEnd EscalatesLast CompletedStays
CHECK_DEADLOCK FALSE
