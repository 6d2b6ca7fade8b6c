------------------------------ MODULE Governance ------------------------------
(***************************************************************************)
(* The authority plane and the execution plane together: the Governance    *)
(* Kernel and the receipt path of the Execution Gate on one StorageAdapter *)
(* and one clock (index.ts; tests/integration/full-pipeline.test.ts).  The *)
(* gate runs receipts this kernel has signed.  Callers may overlap calls   *)
(* for one receipt, and writes to the stores may fail; the kernel does not *)
(* restart.                                                                *)
(***************************************************************************)
EXTENDS RetractionManager, Accumulator

CONSTANTS
  Requests, Proposals, TokenRequests, Manifests,            \* of the kernel
  StoreFaults,                                              \* of every store
  Absent, NoPermissions, NoManifest, MaxInheritanceDepth,   \* of its manifests
  MaxSingleAction, DualAttestation,                         \* of its policy matrix
  Calls,                                                    \* of the gate
  NoRequest,
  MaxOverlaps,   \* bound: so many calls begin beside another for their receipt
  MaxLostWrites  \* bound: the ledger loses so many writes

VARIABLES
  manifests, requestPc, request, permissions,  \* of the kernel
  callPc, call,                                \* of the gate
  verified,  \* history: call -> when its receipt passed the verifier
  effects,   \* history: receipt id -> when each execution that completed
             \*   under it had been verified
  lost,      \* history: receipt id -> how many of them the ledger did not record
  overlaps   \* history: receipt id -> how many calls began while another held it

requestVars == <<entries, manifests, requestPc, request, permissions>>
gateVars == <<callPc, call, verified, effects, lost, overlaps>>
vars == <<storageVars, pillVars, requestVars, gateVars>>

\* The kernel's histories are not needed here.
Kernel == INSTANCE GovernanceKernel WITH
  Restarts <- FALSE, forgotten <- {}, objections <- [k \in Requests |-> {}]

\* Nor is the gate's history of refusals.
Gate == INSTANCE ReceiptGate WITH
  request <- call, OneCallPerReceipt <- FALSE,
  succeeded <- {r \in ReceiptIds : effects[r] # <<>>},
  unrecorded <- {r \in ReceiptIds : lost[r] # 0},
  refusals <- [c \in Calls |-> {}]

\* The constants are those of the parts.
ASSUME GovernanceAssumption ==
  /\ Kernel!DepthAssumption /\ Kernel!KernelAssumption /\ Gate!GateAssumption

Init ==
  /\ StorageInit /\ RetractionInit /\ AccumulatorInit
  /\ Kernel!KernelInit
  /\ callPc = [c \in Calls |-> "idle"]
  /\ call = [c \in Calls |-> NoRequest]
  /\ verified = [c \in Calls |-> 0]
  /\ effects = [r \in ReceiptIds |-> <<>>]
  /\ lost = [r \in ReceiptIds |-> 0]
  /\ overlaps = [r \in ReceiptIds |-> 0]

\* The instant the verifier answers is noted while the call lasts.
NoteVerification ==
  verified' = [c \in Calls |-> IF callPc'[c] = "idle" THEN 0
                               ELSE IF callPc[c] = "unused" THEN now
                               ELSE verified[c]]

BeginCall(c, req) ==
  /\ IF Gate!Holds(req.id) = {}
       THEN UNCHANGED overlaps
       ELSE /\ SumOver(overlaps, ReceiptIds) < MaxOverlaps
            /\ overlaps' = [overlaps EXCEPT ![req.id] = @ + 1]
  /\ UNCHANGED <<effects, lost>>
  /\ Gate!Execute(c, req)

Effect(c) ==
  /\ callPc[c] = "running"
  /\ effects' = [effects EXCEPT ![call[c].id] = Append(@, verified[c])]

CompleteAction(c) ==
  /\ Effect(c)
  /\ UNCHANGED <<lost, overlaps>>
  /\ Gate!ActionSucceeds(c)

CompleteUnrecorded(c) ==
  /\ Effect(c)
  /\ SumOver(lost, ReceiptIds) < MaxLostWrites
  /\ lost' = [lost EXCEPT ![call[c].id] = @ + 1]
  /\ UNCHANGED overlaps
  /\ Gate!MarkConsumedFails(c)

GateStep(c) ==
  \/ \E req \in Gate!Request : BeginCall(c, req)
  \/ CompleteAction(c) \/ CompleteUnrecorded(c)
  \/ /\ UNCHANGED <<effects, lost, overlaps>>
     /\ \/ Gate!CheckSignatureAndUse(c) \/ Gate!CheckExpiryAndRetraction(c)
        \/ Gate!StartAction(c) \/ Gate!ActionFails(c)

Next ==
  \/ Kernel!KernelStep /\ UNCHANGED gateVars
  \/ \E c \in Calls : GateStep(c) /\ NoteVerification /\ UNCHANGED requestVars
  \/ Tick /\ UNCHANGED <<pillVars, requestVars, gateVars>>
  \/ RetractionNext /\ UNCHANGED <<requestVars, gateVars>>

Spec == Init /\ [][Next]_vars
-----------------------------------------------------------------------------
(***************************************************************************)
(* Properties                                                              *)
(***************************************************************************)

\* The magnitude executed under a set of receipts, each counted as often as it
\* ran to completion with a verification in the window (from, to].
Executed(receiptSet, from, to) ==
  LET runs(r) == {i \in DOMAIN effects[r] : from < effects[r][i] /\ effects[r][i] <= to}
  IN SumOver([r \in receiptSet |-> issued[r].delta * Cardinality(runs(r))], receiptSet)

\* What may be executed beyond the charges: once more for each call that
\* overlapped another for its receipt, and for each completion that the ledger
\* did not record.
Repeats(receiptSet) ==
  SumOver([r \in receiptSet |-> issued[r].delta * (lost[r] + overlaps[r])], receiptSet)

\* However often callers retry and actions fail, what is executed under the
\* receipts of one window stays within the threshold they were charged to, save
\* for one repetition for each overlapping call and each lost ledger write: the
\* threshold itself is kept where callers do not overlap calls for a receipt
\* and the ledger takes every write.
ExecutedWithinThreshold ==
  \A path \in Paths, t \in 0 .. MaxTime :
    LET receiptSet == Kernel!IssuedFor(path, t) \ Kernel!IssuedFor(path, t - Window)
    IN Executed(receiptSet, -1, MaxTime) <= Omega[path] + Repeats(receiptSet)

\* A receipt may be used until it expires, so a window of the clock may see
\* executions the kernel charged to two of its windows, but, where receipts
\* live no longer than a window, never more than that, save for repetitions of
\* the receipts of these two windows.
ExecutionsWithinTwoThresholds ==
  ReceiptTtl <= Window =>
    \A path \in Paths, t \in 0 .. MaxTime :
      LET receiptSet == Kernel!IssuedFor(path, t) \ Kernel!IssuedFor(path, t - 2 * Window)
      IN Executed(Kernel!IssuedFor(path, MaxTime), t - Window, t)
           <= 2 * Omega[path] + Repeats(receiptSet)
=============================================================================
