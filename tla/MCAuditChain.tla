----------------------------- MODULE MCAuditChain -----------------------------
EXTENDS TelemetryObserver, TLC

CONSTANTS w1, w2, e1, e2, e3, e4

\* Three denials of one action and an approval of another; an alteration turns
\* a decision into a harmless one of another entity.
Decision(entity, action, outcome, risk) ==
  [entity |-> entity, action |-> action, outcome |-> outcome, risk |-> risk]
MCDecisionOf ==
  [id \in {e1, e2, e3} |-> Decision("bot", "write", "denied", "low")]
  @@ (e4 :> Decision("bot", "pay", "approval_required", "critical"))
  @@ (Altered :> Decision("other", "read", "allowed", "low"))

AuditSymmetry == Permutations({w1, w2}) \cup Permutations({e1, e2, e3})
=============================================================================
