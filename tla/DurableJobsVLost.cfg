SPECIFICATION FairSpec
CONSTANTS
  None = None
  Procs = {w1, w2}
  Slots = {s1}
  Jobs = {j1}
  MaxAttempts <- Two
  Limit = 1
  Leader = FALSE
  MaxActions = 0
  MaxCrashes = 1
PROPERTIES
  LostJobIsReclaimed
