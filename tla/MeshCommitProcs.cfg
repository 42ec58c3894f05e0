SPECIFICATION Spec
SYMMETRY Symmetry
CONSTANTS
  None = None
  tests = tests
  guarded = guarded
  src = src
  new = new
  Harness = harness
  Executors = {alice}
  Fallback = tests
  Procs = {p1, p2}
  Changes = {c1}
  Participants = {alice}
  Paths = {src}
  Tracked = {src}
  Versions = {v1, v2}
  Proofs = {tests}
  DefaultProofs = {tests}
  CommandProofs = {tests}
  Scope <- ScopeTests
  ReuseIds = FALSE
  MaxEvidence = 1
  MaxCrashes = 1
INVARIANTS
  ProvedBeforeCommit
CONSTRAINTS
  SerialAfterCrash
