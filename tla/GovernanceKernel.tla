--------------------------- MODULE GovernanceKernel ---------------------------
(***************************************************************************)
(* The Governance Kernel (governance-kernel/kernel.ts).  Concurrent calls  *)
(* of evaluate and issueFluidityToken interleave wherever the code awaits  *)
(* a store; from the policy decision to the store of the receipt there is  *)
(* no await, so check, issue and record are one action.                    *)
(***************************************************************************)
EXTENDS RetractionManager, PolicyEvaluator, Accumulator

CONSTANTS
  Requests,        \* slots for concurrent calls of the kernel
  Proposals,       \* intent proposals that are made
  TokenRequests,   \* fluidity token requests that are made
  Manifests,       \* authority manifests that are registered
  NoRequest,
  StoreFaults,     \* the ReceiptStore and the TokenStore may reject a write
  Restarts         \* the kernel process may restart on the same storage

ASSUME KernelAssumption ==
  /\ Proposals \subseteq [path : Paths, action : Actions, params : Params, delta : Deltas]
  /\ TokenRequests \subseteq TokenRequest
  /\ Proposals \cap TokenRequests = {}
  /\ \A path \in Paths : Ancestors(path) \subseteq Paths
  /\ StoreFaults \in BOOLEAN /\ Restarts \in BOOLEAN
  /\ NoReceipt \notin Receipt

VARIABLES
  manifests,    \* the ManifestStore: path -> manifest
  requestPc,    \* call -> how far it has got
  request,      \* call -> its proposal or token request
  permissions,  \* call -> the permissions evaluate resolved
  forgotten,    \* history: receipts signed before the last restart
  objections    \* history: call -> what has held against it since it began

callVars == <<requestPc, request, permissions>>
kernelVars == <<entries, manifests, callVars>>
vars == <<storageVars, pillVars, kernelVars, forgotten, objections>>

RequestStages == {"idle", "entered", "unretracted", "permitted", "resolved"}

Objections == {"lockdown", "retracted", "unauthorized"}

Authority(path) == ResolveEffectiveAuthority(manifests, path)

KernelTypeOK ==
  /\ manifests \in [Paths -> Manifests \cup {NoManifest}]
  /\ requestPc \in [Requests -> RequestStages]
  /\ request \in [Requests -> Proposals \cup TokenRequests \cup {NoRequest}]
  /\ \A k \in Requests : requestPc[k] = "idle" => permissions[k] = NoPermissions
  /\ forgotten \subseteq ReceiptIds
  /\ objections \in [Requests -> SUBSET Objections]

TypeOK == StorageTypeOK /\ RetractionTypeOK /\ AccumulatorTypeOK /\ KernelTypeOK

KernelInit ==
  /\ manifests = [path \in Paths |-> NoManifest]
  /\ requestPc = [k \in Requests |-> "idle"]
  /\ request = [k \in Requests |-> NoRequest]
  /\ permissions = [k \in Requests |-> NoPermissions]
  /\ forgotten = {}
  /\ objections = [k \in Requests |-> {}]

Init == StorageInit /\ RetractionInit /\ AccumulatorInit /\ KernelInit

\* Mutant of Forget: the permissions of one call are left to the next.
ForgetKeepingPermissions(K) ==
  /\ requestPc' = [k \in Requests |-> IF k \in K THEN "idle" ELSE requestPc[k]]
  /\ request' = [k \in Requests |-> IF k \in K THEN NoRequest ELSE request[k]]
  /\ UNCHANGED permissions

Forget(K) ==
  /\ requestPc' = [k \in Requests |-> IF k \in K THEN "idle" ELSE requestPc[k]]
  /\ request' = [k \in Requests |-> IF k \in K THEN NoRequest ELSE request[k]]
  /\ permissions' = [k \in Requests |-> IF k \in K THEN NoPermissions ELSE permissions[k]]

Return(k) == Forget({k})

Goto(k, stage) == requestPc' = [requestPc EXCEPT ![k] = stage] /\ UNCHANGED request

\* The lockdown check that opens evaluate and issueFluidityToken; in lockdown
\* the call throws and nothing has changed.
Submit(k, req) ==
  /\ requestPc[k] = "idle"
  /\ ~InLockdown
  /\ requestPc' = [requestPc EXCEPT ![k] = "entered"]
  /\ request' = [request EXCEPT ![k] = req]
  /\ UNCHANGED <<storageVars, pillVars, entries, manifests, permissions>>

\* Mutant of CheckRetraction: every path passes.
SkipRetraction(k) ==
  /\ requestPc[k] = "entered"
  /\ Goto(k, "unretracted")
  /\ UNCHANGED <<storageVars, pillVars, entries, manifests, permissions>>

CheckRetraction(k) ==
  /\ requestPc[k] = "entered"
  /\ IF IsRetracted(request[k].path, retracted)
       THEN Return(k)
       ELSE Goto(k, "unretracted") /\ UNCHANGED permissions
  /\ UNCHANGED <<storageVars, pillVars, entries, manifests>>

ResolvePermissions(k) ==
  /\ requestPc[k] = "unretracted" /\ request[k] \in Proposals
  /\ LET authority == Authority(request[k].path)
     IN permissions' = [permissions EXCEPT ![k] =
                          AgentPermissions(authority, request[k].path)]
  /\ Goto(k, "permitted")
  /\ UNCHANGED <<storageVars, pillVars, entries, manifests>>

\* The authority is resolved a second time, for the reference the evaluation
\* names; the decision stays with the permissions of the first.
ResolveReference(k) ==
  /\ requestPc[k] = "permitted"
  /\ Goto(k, "resolved")
  /\ UNCHANGED <<storageVars, pillVars, entries, manifests, permissions>>

OutcomeOf(k) == Outcome(request[k].action, request[k].delta, permissions[k])

\* Denied, or held for approval: no receipt.
Decline(k) ==
  /\ requestPc[k] = "resolved" /\ OutcomeOf(k) # "allowed"
  /\ Return(k)
  /\ UNCHANGED <<storageVars, pillVars, entries, manifests>>

\* check throws AccumulatorBreachError, having pruned.
Breach(k) ==
  /\ requestPc[k] = "resolved" /\ OutcomeOf(k) = "allowed"
  /\ ~WithinThreshold(request[k].path, request[k].delta)
  /\ Prune(request[k].path)
  /\ Return(k)
  /\ UNCHANGED <<storageVars, pillVars, manifests>>

\* check, issue, record and the start of the store, without an await.
Charge(k) ==
  /\ requestPc[k] = "resolved" /\ OutcomeOf(k) = "allowed"
  /\ WithinThreshold(request[k].path, request[k].delta)
  /\ Record(request[k].path, request[k].delta)
  /\ Return(k)

Approve(k, r) ==
  /\ Charge(k)
  /\ SignAndStoreReceipt(r, request[k].path, request[k].params, request[k].delta)
  /\ UNCHANGED <<now, consumed, tokenVars, retracted, activePill, pillVars, manifests>>

\* The store rejects: the caller gets no receipt, the charge stays.
LoseReceipt(k) ==
  /\ StoreFaults
  /\ Charge(k)
  /\ UNCHANGED <<storageVars, pillVars, manifests>>

IssueToken(k, t) ==
  /\ requestPc[k] = "unretracted" /\ request[k] \in TokenRequests
  /\ SignAndStoreToken(t, request[k])
  /\ Return(k)
  /\ UNCHANGED <<now, receiptVars, consumed, retracted, activePill, pillVars, entries,
                 manifests>>

\* issue throws, or the TokenStore rejects: the caller gets no token.
RefuseToken(k) ==
  /\ requestPc[k] = "unretracted" /\ request[k] \in TokenRequests
  /\ Grantable(request[k]) => StoreFaults
  /\ Return(k)
  /\ UNCHANGED <<storageVars, pillVars, entries, manifests>>

RequestStep(k) ==
  \/ CheckRetraction(k) \/ ResolvePermissions(k) \/ ResolveReference(k)
  \/ Decline(k) \/ Breach(k) \/ LoseReceipt(k)
  \/ \E r \in ReceiptIds : Approve(k, r)
  \/ \E t \in TokenIds : IssueToken(k, t)
  \/ RefuseToken(k)

RegisterManifest(path, m) ==
  /\ manifests' = [manifests EXCEPT ![path] = m]
  /\ UNCHANGED <<storageVars, pillVars, entries, callVars>>

\* getAccumulatorValue prunes as it reads.
GetAccumulatorValue(path) ==
  /\ Prune(path)
  /\ UNCHANGED <<storageVars, pillVars, manifests, callVars>>

\* What was in memory is lost: the accumulator and the calls in flight.
Restart ==
  /\ Restarts
  /\ entries' = [path \in Paths |-> <<>>]
  /\ forgotten' = {r \in ReceiptIds : Issued(r)}
  /\ Forget(Requests)
  /\ UNCHANGED <<storageVars, pillVars, manifests>>

\* Every operation of the kernel but those on retractions and pills.
KernelStep ==
  \/ \E k \in Requests : \/ RequestStep(k)
                         \/ \E req \in Proposals \cup TokenRequests : Submit(k, req)
  \/ \E path \in Paths : \/ GetAccumulatorValue(path)
                         \/ \E m \in Manifests : RegisterManifest(path, m)

Refuses(why, req) ==
  \/ why = "lockdown" /\ InLockdown
  \/ why = "retracted" /\ IsRetracted(req.path, retracted)
  \/ /\ why = "unauthorized" /\ req \in Proposals
     /\ \E perms \in {AgentPermissions(Authority(req.path), req.path)} :
          Outcome(req.action, req.delta, perms) # "allowed"

\* An objection stays only while it holds without interruption.
ObserveObjections ==
  objections' = [k \in Requests |->
                   IF requestPc'[k] = "idle" THEN {}
                   ELSE {why \in IF requestPc[k] = "idle" THEN Objections ELSE objections[k] :
                           Refuses(why, request[k])'}]

Next ==
  /\ \/ KernelStep /\ UNCHANGED forgotten
     \/ Tick /\ UNCHANGED <<pillVars, kernelVars, forgotten>>
     \/ RetractionNext /\ UNCHANGED <<kernelVars, forgotten>>
     \/ Restart
  /\ ObserveObjections

Spec == Init /\ [][Next]_vars
-----------------------------------------------------------------------------
(***************************************************************************)
(* Properties                                                              *)
(***************************************************************************)

\* No receipt or token is signed for a request that something in force has
\* barred ever since it was made: a lockdown, a retraction, or (for a
\* proposal) the authority of its path.
NeverSignsBarred ==
  [][\A k \in Requests : objections[k] # {} =>
       /\ \A r \in ReceiptIds : ~Approve(k, r)
       /\ \A t \in TokenIds : ~IssueToken(k, t)]_vars

IssuedFor(path, t) ==
  {r \in ReceiptIds : Issued(r) /\ issued[r].path = path /\ issued[r].at <= t}

Exposure(receiptSet) == SumOver([r \in receiptSet |-> issued[r].delta], receiptSet)

\* The kernel implements the window ledger: whatever two calls of evaluate
\* interleave, the receipts one life of the process issues for a path in one
\* window stay within its threshold (architecture 3.4).
Ledger == INSTANCE WindowLedger WITH
  total <- [path \in Paths |->
              [t \in 0 .. MaxTime |-> Exposure(IssuedFor(path, t) \ forgotten)]]

ImplementsLedger == Ledger!LedgerSpec

\* What follows for the receipts: those of any window of the clock, wherever it
\* begins, carry no more than the threshold of their path.
WindowBounded == Ledger!WindowBounded

\* The permissions the proposer of req has under the authority of an ancestor
\* of its path, and under that of the path.
PermissionsAt(path, req) == AgentPermissions(Authority(path), req.path)

\* A manifest only restricts what its ancestors' authority allows
\* (manifest-loader.ts:26).
ChildOnlyRestricts ==
  \A req \in Proposals : \A path \in Ancestors(req.path) :
    PermissionsAt(path, req) # NoPermissions
      /\ Outcome(req.action, req.delta, PermissionsAt(req.path, req)) = "allowed"
      => Outcome(req.action, req.delta, PermissionsAt(path, req)) = "allowed"
=============================================================================
