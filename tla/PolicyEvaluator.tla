--------------------------- MODULE PolicyEvaluator ---------------------------
(***************************************************************************)
(* The pure decision of governance-kernel/policy-evaluator.ts, for a path  *)
(* that validateEntityPath accepts.                                        *)
(***************************************************************************)
EXTENDS ManifestLoader

CONSTANTS
  MaxSingleAction,  \* PolicyMatrix.maxSingleAction
  DualAttestation   \* the magnitudes requireDualAttestation holds for

\* No allowed list, and an empty one, allow everything.
Permits(permissions, action) ==
  permissions.allowed \in {Absent, {}} \/ MatchesAnyPattern(action, permissions.allowed)

Denied(action, delta, permissions) ==
  \/ delta > MaxSingleAction
  \/ permissions = NoPermissions
  \/ MatchesAnyPattern(action, permissions.forbidden)
  \/ ~Permits(permissions, action)

RequiresApproval(action, delta, permissions) ==
  MatchesAnyPattern(action, permissions.requires_approval) \/ delta \in DualAttestation

Outcome(action, delta, permissions) ==
  IF Denied(action, delta, permissions) THEN "denied"
  ELSE IF RequiresApproval(action, delta, permissions) THEN "approval_required"
  ELSE "allowed"
=============================================================================
