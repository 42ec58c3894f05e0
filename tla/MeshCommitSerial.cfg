SPECIFICATION Spec
SYMMETRY Symmetry
CONSTANTS
  None = None
  tests = tests
  guarded = guarded
  src = src
  new = new
  Harness = harness
  Executors = {alice}
  Fallback = tests
  Procs = {p1}
  Changes = {c1}
  Participants = {alice}
  Paths = {src}
  Tracked = {src}
  Versions = {v1, v2}
  Proofs = {tests, guarded}
  DefaultProofs = {tests}
  CommandProofs = {tests}
  Scope <- ScopeRule
  ReuseIds = TRUE
  MaxEvidence = 3
  MaxCrashes = 0
INVARIANTS
  
  CommittableIsBacked
  StatusesAgree
PROPERTIES
  CommitIsBacked
