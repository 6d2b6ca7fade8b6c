SPECIFICATION Spec
CONSTANTS
  Paths <- OnePath
  Params = {}
  Actions = {"read", "write"}
  ReceiptIds = {}
  TokenIds = {t1}
  Pills = {p1}
  ReceiptTtl = 0
  MaxBudget = 3
  MaxTime = 2
  NoReceipt = NoReceipt
  NoToken = NoToken
  NoPill = NoPill
  TokenPills = {p1}
  ReceiptPills = {}
  Uses = {u1, u2}
  Deltas = {1, 2, 3}
  TokenRequests <- MCTokenRequests
  OneCallPerToken = FALSE
  NoUse = NoUse
  t1 = t1 u1 = u1 u2 = u2 p1 = p1 p2 = p2
SYMMETRY UseSymmetry
INVARIANTS TypeOK TokenNeverRunsBlocked RemainingWithinGrant
