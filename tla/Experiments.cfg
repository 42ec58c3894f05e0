SPECIFICATION Spec
SYMMETRY Symmetry
CONSTANTS
  None = None
  d1 = d1
  d2 = d2
  d3 = d3
  t1 = t1
  t2 = t2
  Decisions = {d1, d2, d3}
  Tasks = {t1, t2}
  TaskOf <- About
  Allocated = {d1, d2, d3}
  MaxExecutions = 2
  MaxConcurrent = 2
  MaxFailures = 1
  MaxFaults = 1
INVARIANTS
  LedgerHolds
  OutcomeOnce
PROPERTIES
  StopIsFinal
CHECK_DEADLOCK FALSE
