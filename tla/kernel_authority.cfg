SPECIFICATION Spec
CONSTANTS
  Paths <- MCPaths
  Params = {"h1"}
  Actions <- Names
  Deltas = {0, 1, 2, 3}
  ReceiptIds = {r1}
  TokenIds = {t1}
  Pills = {p1}
  ReceiptTtl = 1
  MaxBudget = 2
  MaxTime = 0
  NoReceipt = NoReceipt
  NoToken = NoToken
  NoPill = NoPill
  TokenPills = {}
  ReceiptPills = {}
  Absent = Absent
  NoPermissions = NoPermissions
  NoManifest = NoManifest
  MaxInheritanceDepth = 10
  MaxSingleAction = 3
  DualAttestation = {}
  Window = 2
  Omega <- OmegaOne
  Requests = {k1}
  Proposals <- AuthorityProposals
  TokenRequests <- BotBudget
  Manifests <- AuthorityManifests
  NoRequest = NoRequest
  StoreFaults = TRUE
  Restarts = TRUE
  r1 = r1 r2 = r2 r3 = r3 k1 = k1 k2 = k2 t1 = t1 p1 = p1
INVARIANT TypeOK
PROPERTY NeverSignsBarred
