SPECIFICATION FairSpec
CONSTANTS
  None = None
  agent = agent
  Agents = {agent}
  AgentOf <- OneAgent
  Procs = {p1, p2}
  Equipped = {p1}
  Deliveries = {d1}
  MaxAttempts = 2
  BatchSize = 2
  Threshold = 1
  MaxQuotas = 1
  MaxRequeues = 1
  MaxCrashes = 1
INVARIANTS
  
  QuotaWaitsAreFree
  DeadOrQueued
PROPERTIES
  EnqueuedIsSettled
