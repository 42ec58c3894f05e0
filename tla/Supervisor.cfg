SPECIFICATION FairSpec
CONSTANTS
  None = None
  t1 = t1
  t2 = t2
  a1 = a1
  a2 = a2
  shell = shell
  Tasks = {t1, t2}
  Agents = {a1, a2}
  Caps = {shell}
  Drivers = {d1, d2}
  Skilled <- OneSkilled
  Batches <- Repertoire
  MaxConcurrency = 1
  MaxAgentFanout = 1
  MaxTaskDepth = 2
  MaxReplanCount = 1
  MaxReviewRounds = 1
  MaxTicks = 2
  MaxRevocations = 1
INVARIANTS
  StartsReady
  RunnerWasCleared
  SuccessIsTrue
PROPERTIES
  Refines
  WorkflowEnds
CHECK_DEADLOCK FALSE
