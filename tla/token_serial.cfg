SPECIFICATION FairSpec
CONSTANTS
  Paths <- MCPaths
  Params = {}
  Actions = {"read", "write"}
  ReceiptIds = {}
  TokenIds = {t1}
  Pills = {p1, p2}
  ReceiptTtl = 0
  MaxBudget = 3
  MaxTime = 2
  NoReceipt = NoReceipt
  NoToken = NoToken
  NoPill = NoPill
  TokenPills = {p1}
  ReceiptPills = {}
  Uses = {u1, u2}
  Deltas = {0, 1, 2}
  TokenRequests <- MCTokenRequests
  OneCallPerToken = TRUE
  NoUse = NoUse
  t1 = t1 u1 = u1 u2 = u2 p1 = p1 p2 = p2
INVARIANTS BudgetRespected AccountsBalance
PROPERTIES RevocationDrains ImplementsTokenLedger
