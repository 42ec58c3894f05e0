SPECIFICATION FairSpec
CONSTANTS
  None = None
  Procs = {w1, w2}
  Slots = {s1}
  Jobs = {j1, j2}
  MaxAttempts <- Two
  Limit = 2
  Leader = TRUE
  MaxActions = 2
  MaxCrashes = 2
INVARIANTS
  OneRunnerPerJob
  ClaimsWithinAttempts
PROPERTIES
  SettledStays
  ClaimableIsClaimed
