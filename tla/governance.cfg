SPECIFICATION Spec
CONSTANTS
  Paths <- SoloOnly
  Params = {"h1"}
  Actions <- Names
  Deltas = {1}
  ReceiptIds = {r1, r2, r3}
  TokenIds = {}
  Pills = {}
  ReceiptTtl = 1
  MaxBudget = 0
  MaxTime = 2
  NoReceipt = NoReceipt
  NoToken = NoToken
  NoPill = NoPill
  TokenPills = {}
  ReceiptPills = {}
  Absent = Absent
  NoPermissions = NoPermissions
  NoManifest = NoManifest
  MaxInheritanceDepth = 10
  MaxSingleAction = 3
  DualAttestation = {}
  Window = 1
  Omega <- OmegaOne
  Requests = {k1}
  Proposals <- MCProposals
  TokenRequests = {}
  Manifests <- MCManifests
  Calls = {c1, c2}
  NoRequest = NoRequest
  MaxOverlaps = 1
  StoreFaults = TRUE
  MaxLostWrites = 1
  r1 = r1 r2 = r2 r3 = r3 k1 = k1 c1 = c1 c2 = c2
SYMMETRY GovernanceSymmetry
INVARIANTS ExecutedWithinThreshold ExecutionsWithinTwoThresholds
