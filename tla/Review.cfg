SPECIFICATION Spec
CONSTANTS
  None = None
  o1 = o1
  o2 = o2
  o3 = o3
  o4 = o4
  o5 = o5
  a1 = a1
  a2 = a2
  a3 = a3
  e1 = e1
  c1 = c1
  c2 = c2
  v1 = v1
  v2 = v2
  Claims = {c1, c2}
  Observations = {o1, o2, o3, o4, o5}
  Agents = {a1, a2, a3}
  Evidence = {e1}
  Versions = {v1, v2}
  VersionOf <- OfVersion
  MadeAgainst <- About
  AgentOf <- By
  StanceOf <- Says
  Consumed <- Echo
  EvidenceOf <- Cites
  BoundTo <- Bound
  Reports <- Incoming
  Remediations <- Successors
  Batches <- Proposals
  Callers = {k1}
  MaxIndependentReviews = 3
  MaxArbitrationRounds = 2
  MaxEvidenceRequests = 1
  MaxReviewDepth = 1
INVARIANTS
  VerdictsAreOnFile
  LimitsHold
PROPERTIES
  
  NeverReversed
