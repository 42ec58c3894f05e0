SPECIFICATION FairSpec
CONSTANTS
  None = None
  c1 = c1
  c2 = c2
  c3 = c3
  k1 = k1
  q1 = q1
  q2 = q2
  Procs = {p1}
  Calls = {c1, c2, c3}
  Keys = {k1}
  Peers = {q1, q2}
  KeyOf <- Keyed
  Asked <- Panel
  Reviews = {c2, c3}
  EstInput = 1
  EstOutput = 4
  MinViable = 1
  MaxTotal = 10
  Usages = {4}
  MaxCalls = 3
  MaxRounds = 2
  MaxParallel = 1
  MaxLeavers = 1
  MaxStops = 1
  MaxCrashes = 1
INVARIANTS
  BudgetBalanced
  LimitHolds
  
  AnswersAgree
PROPERTIES
  EveryCallEnds
CHECK_DEADLOCK FALSE
