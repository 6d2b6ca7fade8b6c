SPECIFICATION Spec
CONSTANTS
  Paths <- MCPaths
  Params = {"h1"}
  ReceiptIds = {r1}
  Deltas = {0}
  TokenIds = {}
  Actions = {}
  MaxBudget = 0
  Pills = {p1}
  ReceiptTtl = 1
  MaxTime = 0
  NoReceipt = NoReceipt
  NoToken = NoToken
  NoPill = NoPill
  TokenPills = {}
  ReceiptPills = {p1}
  Calls = {c1, c2}
  NoRequest = NoRequest
  OneCallPerReceipt = FALSE
  StoreFaults = FALSE
  r1 = r1 r2 = r2 c1 = c1 c2 = c2 p1 = p1 p2 = p2
PROPERTY SingleUse
