SPECIFICATION Spec
CONSTANTS
  Paths <- OnePath
  Params = {"h1", "h2"}
  ReceiptIds = {r1, r2}
  Deltas = {0}
  TokenIds = {}
  Actions = {}
  MaxBudget = 0
  Pills = {p1}
  ReceiptTtl = 0
  MaxTime = 1
  NoReceipt = NoReceipt
  NoToken = NoToken
  NoPill = NoPill
  TokenPills = {}
  ReceiptPills = {p1}
  Calls = {c1, c2}
  NoRequest = NoRequest
  OneCallPerReceipt = TRUE
  StoreFaults = FALSE
  r1 = r1 r2 = r2 c1 = c1 c2 = c2 p1 = p1 p2 = p2
SYMMETRY GateSymmetry
PROPERTY ImplementsLifecycle
