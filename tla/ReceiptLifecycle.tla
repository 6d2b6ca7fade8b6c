-------------------------- MODULE ReceiptLifecycle --------------------------
(***************************************************************************)
(* What an Approval Receipt promises (docs/architecture.md 7.1): it is     *)
(* good for one completed execution, and while one is running or has       *)
(* completed no other starts.  A failed execution gives the receipt back.  *)
(***************************************************************************)
CONSTANT ReceiptIds

VARIABLE status

LifecycleTypeOK == status \in [ReceiptIds -> {"unissued", "ready", "running", "used"}]

Move(r, from, to) == status[r] = from /\ status' = [status EXCEPT ![r] = to]

LifecycleInit == status = [r \in ReceiptIds |-> "unissued"]

LifecycleNext ==
  \E r \in ReceiptIds :
    \/ Move(r, "unissued", "ready")
    \/ Move(r, "ready", "running")
    \/ Move(r, "running", "ready")
    \/ Move(r, "running", "used")

LifecycleSpec == LifecycleInit /\ [][LifecycleNext]_status
=============================================================================
