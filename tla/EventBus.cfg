SPECIFICATION FairBusSpec
CONSTANTS
  s1 = s1
  s2 = s2
  s3 = s3
  s4 = s4
  git = git
  fs = fs
  Sources = {git, fs}
  Changes = {s1, s2, s3, s4}
  SourceOf <- Origin
  MaxFlushes = 2
INVARIANTS
  BusTypeOK
  EachChangeOnce
  CloseIsQuiet
  PanicIsLateReset
PROPERTIES
  
  CloseEnds
CHECK_DEADLOCK FALSE
