----------------------------- MODULE ReceiptGate -----------------------------
(***************************************************************************)
(* ExecutionGate.execute with the ReceiptVerifier and the gate's Poison    *)
(* Pill handler.  Calls run concurrently and interleave wherever the code  *)
(* awaits: each action below is the code between two awaits, with the      *)
(* decision on what a store answered taken in the step that asked it.      *)
(***************************************************************************)
EXTENDS RetractionManager

CONSTANTS
  Calls,             \* slots for concurrent calls of execute
  NoRequest,
  OneCallPerReceipt, \* callers wait for a call before retrying its receipt
  StoreFaults        \* the ConsumptionStore may reject a write

ASSUME GateAssumption ==
  /\ OneCallPerReceipt \in BOOLEAN /\ StoreFaults \in BOOLEAN
  /\ NoReceipt \notin Receipt

VARIABLES
  callPc,     \* call -> the last check it passed
  request,    \* call -> the arguments of execute
  succeeded,  \* history: receipts whose action has run to completion
  unrecorded, \* history: those of them for which a write to the ledger was lost
  refusals    \* history: call -> what has held against it since it began

callVars == <<callPc, request>>
outcomeVars == <<succeeded, unrecorded>>
gateVars == <<callVars, outcomeVars, refusals>>
vars == <<storageVars, pillVars, gateVars>>

CallStages == {"idle", "entered", "unused", "verified", "running"}

\* genuine: the presented receipt is, field by field, one the kernel signed.
Request == [id : ReceiptIds, genuine : BOOLEAN, params : Params]

Reasons == {"lockdown", "altered", "consumed", "expired", "retracted", "revoked"}

CallTypeOK ==
  /\ callPc \in [Calls -> CallStages]
  /\ request \in [Calls -> Request \cup {NoRequest}]
  /\ succeeded \subseteq ReceiptIds /\ unrecorded \subseteq ReceiptIds
  /\ refusals \in [Calls -> SUBSET Reasons]

TypeOK == StorageTypeOK /\ RetractionTypeOK /\ CallTypeOK

CallInit ==
  /\ callPc = [c \in Calls |-> "idle"]
  /\ request = [c \in Calls |-> NoRequest]
  /\ succeeded = {} /\ unrecorded = {}
  /\ refusals = [c \in Calls |-> {}]

Init == StorageInit /\ RetractionInit /\ CallInit

Holds(r) == {c \in Calls : callPc[c] # "idle" /\ request[c].id = r}

\* Signature and params_hash: the call is for exactly what was signed.
Authentic(req) == req.genuine /\ req.params = issued[req.id].params

\* No pill is between two steps of its broadcast.
BroadcastsOver == \A p \in Pills : pillPc[p] \in {"idle", "broadcast"}

\* Everything the architecture names as a reason not to execute req.  A pill
\* has revoked its receipts once its broadcast is over.
ReasonsAgainst(req) ==
  {why \in Reasons :
     \/ why = "lockdown" /\ InLockdown
     \/ why = "altered" /\ ~Authentic(req)
     \/ why = "consumed" /\ req.id \in consumed
     \/ why = "expired" /\ Expired(issued[req.id])
     \/ why = "retracted" /\ IsRetracted(issued[req.id].path, retracted)
     \/ why = "revoked" /\ req.id \in revokedReceipts /\ BroadcastsOver}

Goto(c, stage) == callPc' = [callPc EXCEPT ![c] = stage] /\ UNCHANGED request

Return(c) ==
  /\ callPc' = [callPc EXCEPT ![c] = "idle"]
  /\ request' = [request EXCEPT ![c] = NoRequest]

\* Mutant of Execute: the lockdown is not looked up.
ExecuteInLockdown(c, req) ==
  /\ callPc[c] = "idle"
  /\ Issued(req.id)
  /\ OneCallPerReceipt => Holds(req.id) = {}
  /\ callPc' = [callPc EXCEPT ![c] = "entered"]
  /\ request' = [request EXCEPT ![c] = req]
  /\ UNCHANGED <<storageVars, pillVars, outcomeVars>>

\* assertNotLockdown; in lockdown the call throws and nothing has changed.
Execute(c, req) ==
  /\ callPc[c] = "idle"
  /\ Issued(req.id)
  /\ OneCallPerReceipt => Holds(req.id) = {}
  /\ ~InLockdown
  /\ callPc' = [callPc EXCEPT ![c] = "entered"]
  /\ request' = [request EXCEPT ![c] = req]
  /\ UNCHANGED <<storageVars, pillVars, outcomeVars>>

\* Mutant of CheckSignatureAndUse: the ledger is not looked up.
CheckSignatureOnly(c) ==
  /\ callPc[c] = "entered"
  /\ IF Authentic(request[c]) THEN Goto(c, "unused") ELSE Return(c)
  /\ UNCHANGED <<storageVars, pillVars, outcomeVars>>

\* Verifier steps 1 to 4: signature, params_hash, consumption ledger.
CheckSignatureAndUse(c) ==
  /\ callPc[c] = "entered"
  /\ IF Authentic(request[c]) /\ request[c].id \notin consumed
       THEN Goto(c, "unused") ELSE Return(c)
  /\ UNCHANGED <<storageVars, pillVars, outcomeVars>>

\* Mutants of CheckExpiryAndRetraction: expiry, and retraction, is not looked up.
CheckRetractionOnly(c) ==
  /\ callPc[c] = "unused"
  /\ IF ~IsRetracted(issued[request[c].id].path, retracted) THEN Goto(c, "verified") ELSE Return(c)
  /\ UNCHANGED <<storageVars, pillVars, outcomeVars>>

CheckExpiryOnly(c) ==
  /\ callPc[c] = "unused"
  /\ IF ~Expired(issued[request[c].id]) THEN Goto(c, "verified") ELSE Return(c)
  /\ UNCHANGED <<storageVars, pillVars, outcomeVars>>

\* Verifier steps 5 and 6.
CheckExpiryAndRetraction(c) ==
  /\ callPc[c] = "unused"
  /\ LET receipt == issued[request[c].id]
     IN IF ~Expired(receipt) /\ ~IsRetracted(receipt.path, retracted)
          THEN Goto(c, "verified") ELSE Return(c)
  /\ UNCHANGED <<storageVars, pillVars, outcomeVars>>

StartAction(c) ==
  /\ callPc[c] = "verified"
  /\ Goto(c, "running")
  /\ UNCHANGED <<storageVars, pillVars, outcomeVars>>

\* Mutants of ActionSucceeds: the ledger is keyed by the receipt, not its id;
\* the receipt is not marked at all.
ConsumeWholeReceipt(c) ==
  /\ callPc[c] = "running"
  /\ consumed' = consumed \cup {issued[request[c].id]}
  /\ succeeded' = succeeded \cup {request[c].id}
  /\ Return(c)
  /\ UNCHANGED <<now, receiptVars, tokenVars, retracted, activePill, pillVars, unrecorded>>

SucceedUnmarked(c) ==
  /\ callPc[c] = "running"
  /\ succeeded' = succeeded \cup {request[c].id}
  /\ Return(c)
  /\ UNCHANGED <<storageVars, pillVars, unrecorded>>

ActionSucceeds(c) ==
  /\ callPc[c] = "running"
  /\ consumed' = consumed \cup {request[c].id}
  /\ succeeded' = succeeded \cup {request[c].id}
  /\ Return(c)
  /\ UNCHANGED <<now, receiptVars, tokenVars, retracted, activePill, pillVars, unrecorded>>

ActionFails(c) ==
  /\ callPc[c] = "running"
  /\ Return(c)
  /\ UNCHANGED <<storageVars, pillVars, outcomeVars>>

\* markConsumed rejects inside the try: the call reports the failure of an
\* action that did complete.
MarkConsumedFails(c) ==
  /\ StoreFaults
  /\ callPc[c] = "running"
  /\ succeeded' = succeeded \cup {request[c].id}
  /\ unrecorded' = unrecorded \cup {request[c].id}
  /\ Return(c)
  /\ UNCHANGED <<storageVars, pillVars>>

CallStep(c) ==
  \/ CheckSignatureAndUse(c) \/ CheckExpiryAndRetraction(c) \/ StartAction(c)
  \/ ActionSucceeds(c) \/ ActionFails(c) \/ MarkConsumedFails(c)

\* The kernel, as the gate sees it: it may sign a receipt for anything.
IssueReceipt(r, path, params, delta) ==
  /\ SignAndStoreReceipt(r, path, params, delta)
  /\ UNCHANGED <<now, consumed, tokenVars, retracted, activePill, pillVars,
                 callVars, outcomeVars>>

Environment ==
  \/ Tick /\ UNCHANGED <<pillVars, callVars, outcomeVars>>
  \/ RetractionNext /\ UNCHANGED <<callVars, outcomeVars>>
  \/ \E r \in ReceiptIds, path \in Paths, params \in Params, delta \in Deltas :
       IssueReceipt(r, path, params, delta)

\* A reason stays in refusals[c] only while it holds without interruption.
ObserveRefusals ==
  refusals' = [c \in Calls |->
                 IF callPc'[c] = "idle" THEN {}
                 ELSE IF callPc[c] = "idle" THEN ReasonsAgainst(request[c])'
                 ELSE refusals[c] \cap ReasonsAgainst(request[c])']

Next ==
  /\ \/ \E c \in Calls : CallStep(c) \/ \E req \in Request : Execute(c, req)
     \/ Environment
  /\ ObserveRefusals

Spec == Init /\ [][Next]_vars

\* Promise continuations run, and the promise of an action settles.
Fairness == \A c \in Calls : WF_vars(CallStep(c) /\ ObserveRefusals)

FairSpec == Spec /\ Fairness
-----------------------------------------------------------------------------
(***************************************************************************)
(* Properties                                                              *)
(***************************************************************************)

\* No action runs under a reason for refusal that the gate looks for and
\* that has held ever since the call began: whatever the interleaving, each
\* of the six checks of execute and verify passed at some moment of the call.
NeverRunsBlocked ==
  \A c \in Calls : callPc[c] = "running" => refusals[c] \subseteq {"revoked"}

\* The consumption ledger lists exactly the receipts whose action completed,
\* save those for which a write to it was lost: neither a failed action nor an
\* overlapping call ever costs a receipt, and none that completed and was
\* marked is good again.
LedgerIsExact ==
  /\ consumed \subseteq succeeded
  /\ succeeded \ unrecorded \subseteq consumed

\* Under callers that do not overlap calls for one receipt, the gate gives a
\* receipt exactly the life the architecture promises.
statusOf ==
  [r \in ReceiptIds |->
     IF \E c \in Calls : callPc[c] = "running" /\ request[c].id = r THEN "running"
     ELSE IF r \in consumed THEN "used"
     ELSE IF Issued(r) THEN "ready" ELSE "unissued"]

Lifecycle == INSTANCE ReceiptLifecycle WITH status <- statusOf

ImplementsLifecycle == Lifecycle!LifecycleSpec

\* An action never completes twice under one receipt (architecture 7.1).
SingleUse ==
  [][\A c \in Calls : (ActionSucceeds(c) \/ MarkConsumedFails(c))
                        => request[c].id \notin succeeded]_vars

\* No action runs under a receipt that a Poison Pill had revoked, by a broadcast
\* that was over when the call began.  As no call begins in a lockdown, such a
\* call begins after the review has cleared it.
RevokedNeverRuns ==
  \A c \in Calls : callPc[c] = "running" => "revoked" \notin refusals[c]

\* A lockdown that is not cleared lets no action run for ever, and a path
\* that stays retracted comes to rest, however often callers try again.
LockdownDrains == <>[]InLockdown => <>[](\A c \in Calls : callPc[c] # "running")

RunningFor(path) ==
  \E c \in Calls : callPc[c] = "running" /\ issued[request[c].id].path = path

RetractionDrains ==
  \A path \in Paths :
    <>[]IsRetracted(path, retracted) => <>[]~RunningFor(path)
=============================================================================
