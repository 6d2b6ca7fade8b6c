--------------------------- MODULE GovernanceProofs ---------------------------
(***************************************************************************)
(* Proofs about Governance, for every set of paths, manifests, proposals,  *)
(* calls and pills and every clock bound.  The invariants of the kernel    *)
(* and of the gate are those of their own proofs; here the two planes meet *)
(* in the StorageAdapter and the clock.                                    *)
(***************************************************************************)
EXTENDS Governance, DataLemmas

KP == INSTANCE GovernanceKernelProofs WITH
  Restarts <- FALSE, forgotten <- {}, objections <- [k \in Requests |-> {}]

GP == INSTANCE ReceiptGateProofs WITH
  request <- call, OneCallPerReceipt <- FALSE,
  succeeded <- {r \in ReceiptIds : effects[r] # <<>>},
  unrecorded <- {r \in ReceiptIds : lost[r] # 0},
  refusals <- [c \in Calls |-> {}]

Assumed ==
  /\ KP!StorageAssumption /\ KP!PillAssumption /\ KP!DepthAssumption
  /\ KP!AccumulatorAssumption /\ KP!KernelAssumption
  /\ GP!StorageAssumption /\ GP!PillAssumption /\ GP!GateAssumption

LEMMA PartsAssume == Assumed
BY StorageAssumption, PillAssumption, AccumulatorAssumption, GovernanceAssumption
   DEF Assumed, KP!StorageAssumption, KP!PillAssumption, KP!DepthAssumption,
       KP!AccumulatorAssumption, KP!KernelAssumption, GP!StorageAssumption, GP!PillAssumption,
       GP!GateAssumption, Kernel!DepthAssumption, Kernel!KernelAssumption,
       Gate!GateAssumption, KP!TokenRequest, Kernel!TokenRequest, KP!Ancestors, Kernel!Ancestors,
       KP!Receipt, Kernel!Receipt, GP!Receipt, Gate!Receipt

-----------------------------------------------------------------------------
(***************************************************************************)
(* The instances the model steps with and those the lemmas speak of are    *)
(* the same actions.                                                       *)
(***************************************************************************)
LEMMA SameKernelStep == Kernel!KernelStep <=> KP!KernelStep
BY DEF Kernel!KernelStep, KP!KernelStep, Kernel!RequestStep, KP!RequestStep, Kernel!Submit,
      KP!Submit, Kernel!CheckRetraction, KP!CheckRetraction, Kernel!ResolvePermissions,
      KP!ResolvePermissions, Kernel!ResolveReference, KP!ResolveReference, Kernel!Decline,
      KP!Decline, Kernel!Breach, KP!Breach, Kernel!LoseReceipt, KP!LoseReceipt, Kernel!RefuseToken,
      KP!RefuseToken, Kernel!Grantable, KP!Grantable, Kernel!Approve,
      KP!Approve, Kernel!IssueToken, KP!IssueToken, Kernel!GetAccumulatorValue,
      KP!GetAccumulatorValue, Kernel!RegisterManifest, KP!RegisterManifest, Kernel!Charge,
      KP!Charge, Kernel!Return, KP!Return, Kernel!Forget, KP!Forget, Kernel!Goto, KP!Goto,
      Kernel!OutcomeOf, KP!OutcomeOf, Kernel!Outcome, KP!Outcome, Kernel!Denied, KP!Denied,
      Kernel!RequiresApproval, KP!RequiresApproval, Kernel!Permits, KP!Permits,
      Kernel!MatchesAnyPattern, KP!MatchesAnyPattern, Kernel!MatchActionPattern,
      KP!MatchActionPattern, Kernel!MergeManifests, KP!MergeManifests, Kernel!MergePermissions,
      KP!MergePermissions, Kernel!DenyAll, KP!DenyAll, Kernel!NoChange, KP!NoChange,
      Kernel!Wildcard, KP!Wildcard, Kernel!Authority, KP!Authority,
      Kernel!ResolveEffectiveAuthority, KP!ResolveEffectiveAuthority, Kernel!MergeChain,
      KP!MergeChain, Kernel!InheritanceChain, KP!InheritanceChain, Kernel!Without, KP!Without,
      Kernel!SelectAt, KP!SelectAt, Kernel!EffectiveAlong, KP!EffectiveAlong, Kernel!Depth,
      KP!Depth, Kernel!AgentPermissions, KP!AgentPermissions, Kernel!Last, KP!Last,
      Kernel!WithinThreshold, KP!WithinThreshold, Kernel!CurrentValue, KP!CurrentValue,
      Kernel!Live, KP!Live, Kernel!TotalOf, KP!TotalOf, Kernel!SumOver, KP!SumOver,
      Kernel!After, KP!After, Kernel!Prune, KP!Prune, Kernel!Record, KP!Record,
      Kernel!SignAndStoreReceipt, KP!SignAndStoreReceipt, Kernel!SignAndStoreToken,
      KP!SignAndStoreToken, Kernel!Issued, KP!Issued, Kernel!IsRetracted, KP!IsRetracted,
      Kernel!Ancestors, KP!Ancestors, Kernel!InLockdown, KP!InLockdown, Kernel!callVars,
      KP!callVars, Kernel!storageVars, KP!storageVars, Kernel!receiptVars, KP!receiptVars,
      Kernel!tokenVars, KP!tokenVars, Kernel!pillVars, KP!pillVars

LEMMA SameTick == Tick <=> KP!Tick
BY DEF Tick, KP!Tick, receiptVars, KP!receiptVars, tokenVars, KP!tokenVars

LEMMA SameRetraction == RetractionNext <=> KP!RetractionNext
BY DEF RetractionNext, KP!RetractionNext, BroadcastStep, KP!BroadcastStep, RevokeTokens,
      KP!RevokeTokens, RevokeReceipts, KP!RevokeReceipts, StorePill, KP!StorePill,
      ClearLockdown, KP!ClearLockdown, Retract, KP!Retract, Reinstate, KP!Reinstate,
      TokensHandled, KP!TokensHandled, ReceiptsHandled, KP!ReceiptsHandled, InLockdown,
      KP!InLockdown, receiptVars, KP!receiptVars, tokenVars, KP!tokenVars, pillVars,
      KP!pillVars

\* What a step of a gate call is to the gate's own proofs.
LEMMA SameGateStep ==
  ASSUME NEW c \in Calls, GateStep(c)
  PROVE  GP!CallStep(c) \/ \E req \in GP!Request : GP!Execute(c, req)
<1>1. /\ \A req : Gate!Execute(c, req) <=> GP!Execute(c, req)
      /\ Gate!Request = GP!Request
      /\ Gate!CheckSignatureAndUse(c) <=> GP!CheckSignatureAndUse(c)
      /\ Gate!CheckExpiryAndRetraction(c) <=> GP!CheckExpiryAndRetraction(c)
      /\ Gate!StartAction(c) <=> GP!StartAction(c)
      /\ Gate!ActionSucceeds(c) <=> GP!ActionSucceeds(c)
      /\ Gate!ActionFails(c) <=> GP!ActionFails(c)
      /\ Gate!MarkConsumedFails(c) <=> GP!MarkConsumedFails(c)
  BY DEF Gate!CheckSignatureAndUse, GP!CheckSignatureAndUse, Gate!CheckExpiryAndRetraction,
      GP!CheckExpiryAndRetraction, Gate!StartAction, GP!StartAction, Gate!ActionSucceeds,
      GP!ActionSucceeds, Gate!ActionFails, GP!ActionFails, Gate!MarkConsumedFails,
      GP!MarkConsumedFails, Gate!outcomeVars, GP!outcomeVars, Gate!Execute, GP!Execute,
      Gate!Request, GP!Request, Gate!Goto, GP!Goto, Gate!Return, GP!Return, Gate!Authentic,
      GP!Authentic, Gate!Expired, GP!Expired, Gate!IsRetracted, GP!IsRetracted, Gate!Ancestors,
      GP!Ancestors, Gate!Issued, GP!Issued, Gate!Holds, GP!Holds, Gate!InLockdown,
      GP!InLockdown, Gate!storageVars, GP!storageVars, Gate!receiptVars, GP!receiptVars,
      Gate!tokenVars, GP!tokenVars, Gate!pillVars, GP!pillVars, Gate!callVars, GP!callVars
<1> QED
  BY <1>1 DEF GateStep, BeginCall, CompleteAction, CompleteUnrecorded, GP!CallStep

LEMMA SameInit ==
  ASSUME Init
  PROVE  KP!StorageInit /\ KP!RetractionInit /\ KP!AccumulatorInit /\ KP!KernelInit
BY DEF Init, StorageInit, KP!StorageInit, RetractionInit, KP!RetractionInit, AccumulatorInit,
   KP!AccumulatorInit, Kernel!KernelInit, KP!KernelInit
-----------------------------------------------------------------------------
(***************************************************************************)
(* The invariant.                                                          *)
(***************************************************************************)
\* v lies in the life of a receipt.
InLife(receipt, v) == receipt.at <= v /\ v <= receipt.expires

LifetimesOK ==
  \A r \in ReceiptIds : issued[r] # NoReceipt =>
    /\ issued[r] \in Receipt
    /\ issued[r].expires = issued[r].at + ReceiptTtl

\* A call past the verifier was verified within the life of its receipt.
VerifiedOK ==
  /\ verified \in [Calls -> Nat]
  /\ \A c \in Calls : callPc[c] \in {"verified", "running"} =>
       InLife(issued[call[c].id], verified[c])

\* Each completed execution was verified within the life of its receipt.
EffectsOK ==
  /\ effects \in [ReceiptIds -> Seq(Nat)]
  /\ \A r \in ReceiptIds :
       /\ effects[r] # <<>> => issued[r] # NoReceipt
       /\ \A i \in 1 .. Len(effects[r]) : InLife(issued[r], effects[r][i])

\* The calls that hold a receipt, and those of them that found it unused.
Holders(r) == {c \in Calls : callPc[c] # "idle" /\ call[c].id = r}

Cleared(r) == {c \in Calls : callPc[c] \in {"unused", "verified", "running"} /\ call[c].id = r}

\* Why a receipt runs so often only.  There are never more holders than one and
\* those that overlapped another.  Until the ledger lists the receipt, each
\* completed execution is one it did not record; when it does, only the other
\* holders that had found it unused can still complete.
CountsOK ==
  /\ lost \in [ReceiptIds -> Nat] /\ overlaps \in [ReceiptIds -> Nat]
  /\ \A r \in ReceiptIds :
       /\ IsFiniteSet(Holders(r)) /\ Cardinality(Holders(r)) <= 1 + overlaps[r]
       /\ r \notin consumed => Len(effects[r]) <= lost[r]
       /\ r \in consumed =>
            Len(effects[r]) + Cardinality(Cleared(r)) <= 1 + lost[r] + overlaps[r]

PlanesInv == KP!CoreInv /\ KP!LedgerOK /\ GP!HoldInv

HistoriesInv == LifetimesOK /\ VerifiedOK /\ EffectsOK /\ CountsOK

GInv == PlanesInv /\ HistoriesInv

LEMMA PlaneTypes ==
  ASSUME PlanesInv
  PROVE  /\ now \in Nat /\ now <= MaxTime
         /\ issued \in [ReceiptIds -> Receipt \cup {NoReceipt}]
         /\ consumed \subseteq ReceiptIds
         /\ callPc \in [Calls -> GP!CallStages]
         /\ call \in [Calls -> GP!Request \cup {NoRequest}]
BY DEF PlanesInv, GP!HoldInv, GP!MoveTypes, KP!CoreInv, KP!ChargeInv, KP!SigningOK, GP!Receipt,
   Receipt

\* A signed receipt stays as it is, whatever moves.
LEMMA SignedForGood ==
  ASSUME PlanesInv, GP!Moves, NEW r \in ReceiptIds, issued[r] # NoReceipt
  PROVE  issued'[r] = issued[r]
BY PartsAssume, GP!IssuedForGood DEF Assumed, PlanesInv, GP!HoldInv, GP!Issued

\* A call past its first check holds a signed receipt.
LEMMA CallsHold ==
  ASSUME PlanesInv, NEW c \in Calls, callPc[c] # "idle"
  PROVE  call[c] \in GP!Request /\ call[c].id \in ReceiptIds /\ issued[call[c].id] # NoReceipt
BY DEF PlanesInv, GP!HoldInv, GP!CallsHoldReceipts, GP!Request, GP!Issued

LEMMA InitInv ==
  ASSUME Init
  PROVE  GInv
<1>1. KP!CoreInv /\ KP!LedgerOK
  BY SameInit, PartsAssume, KP!CoreBegins DEF Assumed
<1>2. /\ now = 0 /\ issued = [r \in ReceiptIds |-> NoReceipt] /\ consumed = {}
      /\ callPc = [c \in Calls |-> "idle"] /\ call = [c \in Calls |-> NoRequest]
      /\ verified = [c \in Calls |-> 0] /\ effects = [r \in ReceiptIds |-> <<>>]
      /\ lost = [r \in ReceiptIds |-> 0] /\ overlaps = [r \in ReceiptIds |-> 0]
  BY DEF Init, StorageInit
<1>3. GP!HoldInv
  BY <1>2 DEF GP!HoldInv, GP!MoveTypes, GP!CallStages, GP!CallsHoldReceipts,
     GP!ConsumedIssued
<1>4. LifetimesOK /\ VerifiedOK /\ EffectsOK
  BY <1>2 DEF LifetimesOK, VerifiedOK, EffectsOK
<1>5. CountsOK
  <2>1. \A r \in ReceiptIds : Holders(r) = {} /\ r \notin consumed /\ effects[r] = <<>>
    BY <1>2 DEF Holders
  <2>2. lost \in [ReceiptIds -> Nat] /\ overlaps \in [ReceiptIds -> Nat]
    BY <1>2
  <2>3. ASSUME NEW r \in ReceiptIds
        PROVE  /\ IsFiniteSet(Holders(r)) /\ Cardinality(Holders(r)) <= 1 + overlaps[r]
               /\ Len(effects[r]) <= lost[r]
    <3>1. IsFiniteSet(Holders(r)) /\ Cardinality(Holders(r)) = 0
      BY <2>1, FS_EmptySet
    <3>2. Len(effects[r]) = 0
      BY <2>1
    <3> QED
      BY <2>2, <3>1, <3>2
  <2> QED
    BY <2>1, <2>2, <2>3 DEF CountsOK
<1> QED
  BY <1>1, <1>3, <1>4, <1>5 DEF GInv, PlanesInv, HistoriesInv

\* Steps of the kernel, the clock and the retraction manager leave the calls
\* of the gate and what they executed alone.
LEMMA HistoriesStand ==
  ASSUME GInv, GP!Moves, LifetimesOK', UNCHANGED <<consumed, gateVars>>
  PROVE  HistoriesInv'
<1>1. PlanesInv /\ VerifiedOK /\ EffectsOK /\ CountsOK
  BY DEF GInv, HistoriesInv
<1>2. UNCHANGED <<consumed, callPc, call, verified, effects, lost, overlaps>>
  BY DEF gateVars
<1>3. VerifiedOK'
  <2> SUFFICES ASSUME NEW c \in Calls, callPc[c] \in {"verified", "running"}
               PROVE  InLife(issued'[call[c].id], verified[c])
    BY <1>1, <1>2 DEF VerifiedOK, InLife
  <2>1. issued'[call[c].id] = issued[call[c].id]
    BY <1>1, CallsHold, SignedForGood
  <2> QED
    BY <1>1, <2>1 DEF VerifiedOK
<1>4. EffectsOK'
  <2>1. ASSUME NEW r \in ReceiptIds, effects[r] # <<>>
        PROVE  issued'[r] # NoReceipt
               /\ \A i \in 1 .. Len(effects[r]) : InLife(issued'[r], effects[r][i])
    <3>1. issued'[r] = issued[r]
      BY <1>1, <2>1, SignedForGood DEF EffectsOK
    <3> QED
      BY <1>1, <2>1, <3>1 DEF EffectsOK
  <2>2. ASSUME NEW r \in ReceiptIds, effects[r] = <<>> PROVE 1 .. Len(effects[r]) = {}
    BY <2>2
  <2> QED
    BY <1>1, <1>2, <2>1, <2>2 DEF EffectsOK, InLife
<1>5. CountsOK'
  <2>1. \A r \in ReceiptIds : Holders(r)' = Holders(r) /\ Cleared(r)' = Cleared(r)
    BY <1>2 DEF Holders, Cleared
  <2> QED
    BY <1>1, <1>2, <2>1 DEF CountsOK
<1> QED
  BY <1>3, <1>4, <1>5 DEF HistoriesInv

LEMMA KernelStepInv ==
  ASSUME GInv, Kernel!KernelStep, UNCHANGED gateVars
  PROVE  GInv' /\ GP!Moves
<1>1. KP!KernelStep /\ PlanesInv /\ KP!CoreInv /\ UNCHANGED <<callPc, call, gateVars>>
  BY SameKernelStep DEF GInv, PlanesInv, gateVars
<1>2. KP!CoreInv' /\ KP!LedgerOK'
  BY <1>1, PartsAssume, KP!CoreKernelStep, KP!LedgerKept DEF Assumed, PlanesInv
<1>3. KP!Reads \/ KP!Prunes \/ KP!Loses \/ KP!Signs \/ KP!Grants
  BY <1>1, PartsAssume, KP!KindsOfSteps DEF Assumed, KP!CoreInv
<1>4. UNCHANGED <<now, consumed>>
  BY <1>3 DEF KP!Reads, KP!Prunes, KP!Loses, KP!Signs, KP!Grants, KP!storageVars
<1>5. ASSUME UNCHANGED issued PROVE GP!Moves /\ LifetimesOK'
  <2>1. GP!Moves
    BY <1>1, <1>4, <1>5 DEF GP!Moves, GP!Still
  <2>2. LifetimesOK'
    BY <1>5 DEF GInv, HistoriesInv, LifetimesOK
  <2> QED
    BY <2>1, <2>2
<1>6. ASSUME KP!Signs PROVE GP!Moves /\ LifetimesOK'
  <2>1. PICK p \in Proposals, r \in ReceiptIds :
          KP!SignAndStoreReceipt(r, p.path, p.params, p.delta)
    BY <1>6 DEF KP!Signs
  <2>2. p.path \in Paths /\ p.params \in Params /\ p.delta \in Deltas
    BY PartsAssume, KP!ProposalType DEF Assumed
  <2>3. GP!SignAndStoreReceipt(r, p.path, p.params, p.delta)
    BY <2>1 DEF KP!SignAndStoreReceipt, GP!SignAndStoreReceipt, KP!Issued, GP!Issued
  <2>4. GP!Moves
    BY <1>1, <1>4, <2>2, <2>3 DEF GP!Moves, GP!SigningMove
  <2> DEFINE receipt == [path |-> p.path, params |-> p.params, delta |-> p.delta,
                         at |-> now, expires |-> now + ReceiptTtl]
  <2>5. receipt \in Receipt /\ receipt.expires = receipt.at + ReceiptTtl
    BY <1>1, <2>2, PlaneTypes, StorageAssumption DEF Receipt
  <2>6. issued' = [issued EXCEPT ![r] = receipt]
    BY <2>1 DEF KP!SignAndStoreReceipt
  <2> HIDE DEF receipt
  <2>7. LifetimesOK'
    BY <1>1, <2>5, <2>6, PlaneTypes DEF GInv, HistoriesInv, LifetimesOK
  <2> QED
    BY <2>4, <2>7
<1>7. GP!Moves /\ LifetimesOK'
  <2>1. KP!Reads \/ KP!Prunes \/ KP!Loses \/ KP!Grants => UNCHANGED issued
    BY DEF KP!Reads, KP!Prunes, KP!Loses, KP!Grants, KP!storageVars, KP!receiptVars
  <2> QED
    BY <1>3, <1>5, <1>6, <2>1
<1>8. GP!HoldInv'
  <2>1. now' \in Nat
    BY <1>1, <1>4, PlaneTypes
  <2> QED
    BY <1>1, <1>7, <2>1, PartsAssume, GP!MovesHold DEF Assumed, PlanesInv
<1>9. HistoriesInv'
  BY <1>1, <1>4, <1>7, HistoriesStand
<1> QED
  BY <1>2, <1>7, <1>8, <1>9 DEF GInv, PlanesInv

\* What a step of a gate call is to the histories: the call begins, passes a
\* check, comes back without an effect, or completes its action.
Begins(c) ==
  \E req \in GP!Request :
    /\ callPc[c] = "idle"
    /\ callPc' = [callPc EXCEPT ![c] = "entered"]
    /\ call' = [call EXCEPT ![c] = req]
    /\ overlaps' = IF Holders(req.id) = {} THEN overlaps
                   ELSE [overlaps EXCEPT ![req.id] = @ + 1]
    /\ UNCHANGED <<consumed, effects, lost>>

Passes(c) ==
  /\ \E stage \in {"unused", "verified", "running"} : callPc' = [callPc EXCEPT ![c] = stage]
  /\ \/ callPc[c] = "entered" /\ call[c].id \notin consumed
     \/ callPc[c] \in {"unused", "verified"}
  /\ UNCHANGED <<call, consumed, effects, lost, overlaps>>

Leaves(c) ==
  /\ callPc[c] # "idle"
  /\ callPc' = [callPc EXCEPT ![c] = "idle"]
  /\ call' = [call EXCEPT ![c] = NoRequest]
  /\ UNCHANGED overlaps

Completes(c) ==
  /\ callPc[c] = "running" /\ Leaves(c) /\ Effect(c)
  /\ \/ consumed' = consumed \cup {call[c].id} /\ UNCHANGED lost
     \/ UNCHANGED consumed /\ lost' = [lost EXCEPT ![call[c].id] = @ + 1]

LEMMA KindsOfGateSteps ==
  ASSUME NEW c \in Calls, GateStep(c)
  PROVE  \/ Begins(c) \/ Passes(c) \/ Completes(c)
         \/ Leaves(c) /\ UNCHANGED <<consumed, effects, lost>>
<1>1. ASSUME NEW req \in Gate!Request, BeginCall(c, req) PROVE Begins(c)
  <2>1. req \in GP!Request /\ Gate!Holds(req.id) = Holders(req.id)
    BY DEF Gate!Request, GP!Request, Gate!Holds, Holders
  <2> QED
    BY <1>1, <2>1 DEF BeginCall, Gate!Execute, Gate!storageVars, Begins
<1>2. CASE CompleteAction(c)
  BY <1>2 DEF CompleteAction, Gate!ActionSucceeds, Gate!Return, Completes, Leaves
<1>3. CASE CompleteUnrecorded(c)
  BY <1>3 DEF CompleteUnrecorded, Gate!MarkConsumedFails, Gate!Return, Gate!storageVars,
     Completes, Leaves, Effect
<1>4. CASE /\ UNCHANGED <<effects, lost, overlaps>>
           /\ \/ Gate!CheckSignatureAndUse(c) \/ Gate!CheckExpiryAndRetraction(c)
              \/ Gate!StartAction(c) \/ Gate!ActionFails(c)
  BY <1>4 DEF Gate!CheckSignatureAndUse, Gate!CheckExpiryAndRetraction, Gate!StartAction,
     Gate!ActionFails, Gate!Goto, Gate!Return, Gate!storageVars, Passes, Leaves
<1> QED
  BY <1>1, <1>2, <1>3, <1>4 DEF GateStep

LEMMA EffectsKept ==
  ASSUME GInv, NEW c \in Calls, GateStep(c), UNCHANGED issued
  PROVE  EffectsOK'
<1>1. PlanesInv /\ VerifiedOK /\ EffectsOK
  BY DEF GInv, HistoriesInv
<1>2. CASE UNCHANGED effects
  BY <1>1, <1>2 DEF EffectsOK, InLife
<1>3. CASE Completes(c)
  <2> DEFINE r == call[c].id
             v == verified[c]
  <2>1. callPc[c] = "running" /\ effects' = [effects EXCEPT ![r] = Append(effects[r], v)]
    BY <1>3 DEF Completes, Effect
  <2>2. r \in ReceiptIds /\ issued[r] # NoReceipt
    BY <1>1, <2>1, CallsHold
  <2>3. v \in Nat /\ InLife(issued[r], v)
    BY <1>1, <2>1 DEF VerifiedOK
  <2>4. effects \in [ReceiptIds -> Seq(Nat)]
    BY <1>1 DEF EffectsOK
  <2> HIDE DEF r, v
  <2>5. /\ effects'[r] = Append(effects[r], v) /\ effects[r] \in Seq(Nat)
        /\ \A q \in ReceiptIds \ {r} : effects'[q] = effects[q]
    BY <2>1, <2>2, <2>4
  <2>6. /\ Len(effects'[r]) = Len(effects[r]) + 1 /\ effects'[r][Len(effects[r]) + 1] = v
        /\ \A i \in 1 .. Len(effects[r]) : effects'[r][i] = effects[r][i]
        /\ Append(effects[r], v) \in Seq(Nat) /\ Len(effects[r]) \in Nat
    BY <2>3, <2>5
  <2>7. effects' \in [ReceiptIds -> Seq(Nat)]
    BY <2>1, <2>4, <2>6
  <2>8. ASSUME NEW i \in 1 .. Len(effects'[r]) PROVE InLife(issued[r], effects'[r][i])
    <3>1. i \in 1 .. Len(effects[r]) \/ i = Len(effects[r]) + 1
      BY <2>6
    <3> QED
      BY <1>1, <2>2, <2>3, <2>6, <3>1 DEF EffectsOK
  <2>9. ASSUME NEW q \in ReceiptIds
        PROVE  /\ effects'[q] # <<>> => issued[q] # NoReceipt
               /\ \A i \in 1 .. Len(effects'[q]) : InLife(issued[q], effects'[q][i])
    BY <1>1, <2>2, <2>5, <2>8 DEF EffectsOK
  <2> QED
    BY <2>7, <2>9 DEF EffectsOK, InLife
<1> QED
  BY <1>2, <1>3, KindsOfGateSteps DEF Begins, Passes

\* The holders of one receipt by the holders before: see CountsOK.
LEMMA CountsKept ==
  ASSUME GInv, NEW c \in Calls, GateStep(c)
  PROVE  CountsOK'
<1>1. PlanesInv /\ EffectsOK /\ CountsOK
  BY DEF GInv, HistoriesInv
<1>2. callPc \in [Calls -> GP!CallStages] /\ call \in [Calls -> GP!Request \cup {NoRequest}]
  BY <1>1, PlaneTypes
<1>3. /\ effects \in [ReceiptIds -> Seq(Nat)] /\ lost \in [ReceiptIds -> Nat]
      /\ overlaps \in [ReceiptIds -> Nat]
  BY <1>1 DEF EffectsOK, CountsOK
<1>4. ASSUME NEW r \in ReceiptIds
      PROVE  /\ IsFiniteSet(Holders(r)) /\ Cardinality(Holders(r)) \in Nat
             /\ Cleared(r) \in SUBSET Holders(r) /\ IsFiniteSet(Cleared(r))
             /\ Cardinality(Cleared(r)) \in Nat /\ Cardinality(Cleared(r)) <= Cardinality(Holders(r))
             /\ Cardinality(Holders(r)) <= 1 + overlaps[r]
             /\ Len(effects[r]) \in Nat
             /\ r \notin consumed => Len(effects[r]) <= lost[r]
             /\ r \in consumed =>
                  Len(effects[r]) + Cardinality(Cleared(r)) <= 1 + lost[r] + overlaps[r]
  <2>1. IsFiniteSet(Holders(r)) /\ Cleared(r) \in SUBSET Holders(r)
    BY <1>1 DEF CountsOK, Cleared, Holders
  <2> QED
    BY <1>1, <1>3, <2>1, FS_Subset, FS_CardinalityType DEF CountsOK
<1>5. CASE Begins(c)
  <2>1. PICK req \in GP!Request :
          /\ callPc[c] = "idle" /\ callPc' = [callPc EXCEPT ![c] = "entered"]
          /\ call' = [call EXCEPT ![c] = req]
          /\ overlaps' = IF Holders(req.id) = {} THEN overlaps
                         ELSE [overlaps EXCEPT ![req.id] = @ + 1]
          /\ UNCHANGED <<consumed, effects, lost>>
    BY <1>5 DEF Begins
  <2>2. req.id \in ReceiptIds
    BY DEF GP!Request
  <2>3. ASSUME NEW r \in ReceiptIds
        PROVE  /\ Holders(r)' = IF r = req.id THEN Holders(r) \cup {c} ELSE Holders(r)
               /\ Cleared(r)' = Cleared(r) /\ c \notin Holders(r)
    BY <1>2, <2>1 DEF Holders, Cleared
  <2>4. /\ overlaps' \in [ReceiptIds -> Nat]
        /\ \A r \in ReceiptIds :
             overlaps'[r] = IF r = req.id /\ Holders(r) # {} THEN overlaps[r] + 1 ELSE overlaps[r]
    <3>1. CASE Holders(req.id) = {}
      BY <1>3, <2>1, <3>1
    <3>2. CASE Holders(req.id) # {}
      <4>1. overlaps' = [overlaps EXCEPT ![req.id] = overlaps[req.id] + 1]
        BY <2>1, <3>2
      <4> QED
        BY <1>3, <2>2, <3>2, <4>1
    <3> QED
      BY <3>1, <3>2
  <2>5. ASSUME NEW r \in ReceiptIds
        PROVE  IsFiniteSet(Holders(r)') /\ Cardinality(Holders(r)') <= 1 + overlaps'[r]
    <3> DEFINE n == Cardinality(Holders(r))
               o == overlaps[r]
    <3>1. n \in Nat /\ o \in Nat /\ n <= 1 + o /\ IsFiniteSet(Holders(r))
      BY <1>3, <1>4
    <3>2. Holders(r) = {} => n = 0
      BY FS_EmptySet
    <3>3. CASE r = req.id
      <4>1. IsFiniteSet(Holders(r)') /\ Cardinality(Holders(r)') = n + 1
        BY <2>3, <3>1, <3>3, FS_AddElement
      <4>2. overlaps'[r] = IF Holders(r) = {} THEN o ELSE o + 1
        BY <2>4, <3>3
      <4> HIDE DEF n, o
      <4> QED
        BY <3>1, <3>2, <4>1, <4>2
    <3>4. CASE r # req.id
      <4>1. Holders(r)' = Holders(r) /\ overlaps'[r] = o
        BY <2>3, <2>4, <3>4
      <4> QED
        BY <3>1, <4>1
    <3> QED
      BY <3>3, <3>4
  <2>6. ASSUME NEW r \in ReceiptIds, r \in consumed
        PROVE  Len(effects[r]) + Cardinality(Cleared(r)) <= 1 + lost[r] + overlaps'[r]
    <3> DEFINE e == Len(effects[r])
               k == Cardinality(Cleared(r))
    <3>1. overlaps[r] \in Nat /\ lost[r] \in Nat
      BY <1>3
    <3>2. overlaps'[r] \in Nat /\ overlaps[r] <= overlaps'[r]
      BY <2>4, <3>1
    <3>3. e \in Nat /\ k \in Nat /\ e + k <= 1 + lost[r] + overlaps[r]
      BY <1>4, <2>6
    <3> HIDE DEF e, k
    <3>4. e + k <= 1 + lost[r] + overlaps'[r]
      BY <3>1, <3>2, <3>3
    <3> QED
      BY <3>4 DEF e, k
  <2> QED
    BY <1>3, <1>4, <2>1, <2>3, <2>4, <2>5, <2>6 DEF CountsOK
<1>6. CASE Passes(c)
  <2>1. ASSUME NEW r \in ReceiptIds
        PROVE  /\ Holders(r)' = Holders(r)
               /\ r \in consumed => Cleared(r)' = Cleared(r)
    BY <1>2, <1>6 DEF Passes, Holders, Cleared
  <2> QED
    BY <1>1, <1>6, <2>1 DEF Passes, CountsOK
<1>7. ASSUME Leaves(c), NEW r \in ReceiptIds
      PROVE  /\ Holders(r)' \in SUBSET Holders(r) /\ Cleared(r)' = Cleared(r) \ {c}
             /\ IsFiniteSet(Holders(r)') /\ Cardinality(Holders(r)') <= Cardinality(Holders(r))
             /\ Cardinality(Holders(r)') \in Nat
             /\ Cardinality(Cleared(r)') \in Nat
             /\ Cardinality(Cleared(r)') <= Cardinality(Cleared(r))
             /\ c \in Cleared(r) => Cardinality(Cleared(r)') = Cardinality(Cleared(r)) - 1
             /\ overlaps'[r] = overlaps[r] /\ overlaps[r] \in Nat
  <2>1. Holders(r)' \in SUBSET Holders(r) /\ Cleared(r)' = Cleared(r) \ {c}
    BY <1>2, <1>7 DEF Leaves, Holders, Cleared
  <2>2. /\ IsFiniteSet(Cleared(r)')
        /\ Cardinality(Cleared(r)') =
             IF c \in Cleared(r) THEN Cardinality(Cleared(r)) - 1 ELSE Cardinality(Cleared(r))
    BY <1>4, <2>1, FS_RemoveElement
  <2>3. IsFiniteSet(Holders(r)') /\ Cardinality(Holders(r)') <= Cardinality(Holders(r))
    BY <1>4, <2>1, FS_Subset
  <2>4. Cardinality(Holders(r)') \in Nat /\ Cardinality(Cleared(r)') \in Nat
    BY <2>2, <2>3, FS_CardinalityType
  <2>5. overlaps'[r] = overlaps[r] /\ overlaps[r] \in Nat
    BY <1>3, <1>7 DEF Leaves
  <2> QED
    BY <1>4, <2>1, <2>2, <2>3, <2>4, <2>5
<1>8. CASE Leaves(c) /\ UNCHANGED <<consumed, effects, lost>>
  <2>1. ASSUME NEW r \in ReceiptIds
        PROVE  /\ IsFiniteSet(Holders(r)') /\ Cardinality(Holders(r)') <= 1 + overlaps'[r]
               /\ r \notin consumed' => Len(effects'[r]) <= lost'[r]
               /\ r \in consumed' =>
                    Len(effects'[r]) + Cardinality(Cleared(r)') <= 1 + lost'[r] + overlaps'[r]
    <3>1. lost[r] \in Nat
      BY <1>3
    <3>2. /\ effects'[r] = effects[r] /\ lost'[r] = lost[r] /\ overlaps'[r] = overlaps[r]
          /\ (r \in consumed' <=> r \in consumed)
      BY <1>7, <1>8
    <3>3. IsFiniteSet(Holders(r)') /\ Cardinality(Holders(r)') <= 1 + overlaps'[r]
      BY <1>4, <1>7, <1>8, <3>2
    <3>4. ASSUME r \in consumed
          PROVE  Len(effects[r]) + Cardinality(Cleared(r)') <= 1 + lost[r] + overlaps[r]
      BY <1>4, <1>7, <1>8, <3>1, <3>4
    <3> QED
      BY <1>4, <3>2, <3>3, <3>4
  <2> QED
    BY <1>3, <1>8, <2>1 DEF CountsOK, Leaves
<1>9. CASE Completes(c)
  <2> DEFINE d == call[c].id
  <2>1. /\ Leaves(c) /\ callPc[c] = "running"
        /\ effects' = [effects EXCEPT ![d] = Append(effects[d], verified[c])]
        /\ \/ consumed' = consumed \cup {d} /\ UNCHANGED lost
           \/ UNCHANGED consumed /\ lost' = [lost EXCEPT ![d] = lost[d] + 1]
    BY <1>9 DEF Completes, Effect
  <2>2. d \in ReceiptIds /\ c \in Cleared(d)
    BY <1>1, <2>1, CallsHold DEF Cleared
  <2>3. verified[c] \in Nat
    BY DEF GInv, HistoriesInv, VerifiedOK
  <2> HIDE DEF d
  <2>4. effects'[d] = Append(effects[d], verified[c]) /\ effects[d] \in Seq(Nat)
    BY <1>3, <2>1, <2>2
  <2>5. Len(effects'[d]) = Len(effects[d]) + 1
    BY <2>3, <2>4
  <2>6. lost' \in [ReceiptIds -> Nat] /\ overlaps' \in [ReceiptIds -> Nat]
    <3>1. overlaps' = overlaps
      BY <2>1 DEF Leaves
    <3>2. CASE UNCHANGED lost
      BY <1>3, <3>1, <3>2
    <3>3. CASE lost' = [lost EXCEPT ![d] = lost[d] + 1]
      <4>1. lost[d] + 1 \in Nat
        BY <1>3, <2>2
      <4> QED
        BY <1>3, <3>1, <3>3, <4>1
    <3> QED
      BY <2>1, <3>2, <3>3
  <2>7. ASSUME NEW r \in ReceiptIds
        PROVE  /\ IsFiniteSet(Holders(r)') /\ Cardinality(Holders(r)') <= 1 + overlaps'[r]
               /\ r \notin consumed' => Len(effects'[r]) <= lost'[r]
               /\ r \in consumed' =>
                    Len(effects'[r]) + Cardinality(Cleared(r)') <= 1 + lost'[r] + overlaps'[r]
    <3> DEFINE e == Len(effects[r])
               k == Cardinality(Cleared(r))
               n == Cardinality(Holders(r))
               l == lost[r]
               o == overlaps[r]
    <3>1. /\ e \in Nat /\ k \in Nat /\ n \in Nat /\ l \in Nat /\ o \in Nat
          /\ k <= n /\ n <= 1 + o
          /\ r \notin consumed => e <= l
          /\ r \in consumed => e + k <= 1 + l + o
      BY <1>3, <1>4
    <3> DEFINE kk == Cardinality(Cleared(r)')
               nn == Cardinality(Holders(r)')
    <3>2. /\ IsFiniteSet(Holders(r)') /\ nn \in Nat /\ kk \in Nat /\ nn <= n /\ kk <= k
          /\ (c \in Cleared(r) => kk = k - 1) /\ overlaps'[r] = o
      BY <1>7, <2>1
    <3>3. /\ r # d => Len(effects'[r]) = e /\ lost'[r] = l /\ (r \in consumed' <=> r \in consumed)
          /\ r = d => /\ Len(effects'[r]) = e + 1 /\ kk = k - 1
                      /\ \/ r \in consumed' /\ lost'[r] = l
                         \/ (r \in consumed' <=> r \in consumed) /\ lost'[r] = l + 1
      <4>1. CASE r # d
        <5>1. effects'[r] = effects[r]
          BY <1>3, <2>1, <4>1
        <5>2. lost'[r] = lost[r] /\ (r \in consumed' <=> r \in consumed)
          BY <1>3, <2>1, <4>1
        <5> QED
          BY <4>1, <5>1, <5>2
      <4>2. CASE r = d
        <5>1. \/ r \in consumed' /\ lost'[r] = lost[r]
              \/ (r \in consumed' <=> r \in consumed) /\ lost'[r] = lost[r] + 1
          BY <1>3, <2>1, <2>2, <4>2
        <5> QED
          BY <2>2, <2>5, <3>2, <4>2, <5>1
      <4> QED
        BY <4>1, <4>2
    <3> DEFINE ee == Len(effects'[r])
               ll == lost'[r]
               oo == overlaps'[r]
    <3> HIDE DEF e, k, n, l, o, kk, nn, ee, ll, oo
    <3>4. /\ oo = o
          /\ \/ ee = e /\ ll = l /\ (r \in consumed' <=> r \in consumed)
             \/ ee = e + 1 /\ kk = k - 1 /\ ll = l /\ r \in consumed'
             \/ ee = e + 1 /\ kk = k - 1 /\ ll = l + 1 /\ (r \in consumed' <=> r \in consumed)
      BY <3>2, <3>3 DEF ee, ll, oo
    <3>5. nn <= 1 + oo
      BY <3>1, <3>2, <3>4
    <3>6. ASSUME r \notin consumed' PROVE ee <= ll
      BY <3>1, <3>4, <3>6
    <3>7. ASSUME r \in consumed' PROVE ee + kk <= 1 + ll + oo
      <4>1. CASE r \in consumed
        BY <3>1, <3>2, <3>4, <4>1
      <4>2. CASE r \notin consumed
        BY <3>1, <3>2, <3>4, <3>7, <4>2
      <4> QED
        BY <4>1, <4>2
    <3> QED
      BY <3>2, <3>5, <3>6, <3>7 DEF ee, ll, oo, kk, nn
  <2> QED
    BY <2>6, <2>7 DEF CountsOK
<1> QED
  BY <1>5, <1>6, <1>8, <1>9, KindsOfGateSteps

LEMMA GateStepInv ==
  ASSUME GInv, NEW c \in Calls, GateStep(c), NoteVerification, UNCHANGED requestVars
  PROVE  GInv' /\ GP!Moves
<1>1. PlanesInv /\ KP!CoreInv /\ LifetimesOK /\ VerifiedOK
  BY DEF GInv, PlanesInv, HistoriesInv
<1>2. GP!CallStep(c) \/ \E req \in GP!Request : GP!Execute(c, req)
  BY SameGateStep
<1>3. GP!Moves
  BY <1>2 DEF GP!Moves, GP!CallMove
<1>4. /\ UNCHANGED <<now, receiptVars, tokenVars, retracted, activePill>>
      /\ UNCHANGED pillVars
  BY <1>2 DEF GP!CallStep, GP!CheckSignatureAndUse, GP!CheckExpiryAndRetraction,
     GP!StartAction, GP!ActionSucceeds, GP!ActionFails, GP!MarkConsumedFails, GP!Execute,
     GP!storageVars, GP!receiptVars, GP!tokenVars, GP!pillVars, receiptVars, tokenVars, pillVars
<1>5. now \in Nat /\ now' = now /\ issued' = issued
  BY <1>1, <1>4, PlaneTypes DEF receiptVars
<1>6. GP!HoldInv' /\ consumed' \subseteq ReceiptIds
  <2>1. GP!HoldInv'
    BY <1>1, <1>3, <1>5, PartsAssume, GP!MovesHold DEF Assumed, PlanesInv
  <2> QED
    BY <2>1 DEF GP!HoldInv, GP!MoveTypes
<1>7. KP!CoreInv' /\ KP!LedgerOK'
  <2>1. /\ UNCHANGED <<now, KP!receiptVars, KP!tokenVars, retracted, activePill>>
        /\ UNCHANGED KP!pillVars
    BY <1>4 DEF receiptVars, tokenVars, pillVars, KP!receiptVars, KP!tokenVars, KP!pillVars
  <2>2. UNCHANGED <<entries, manifests>> /\ UNCHANGED KP!callVars
    BY DEF requestVars, KP!callVars
  <2>3. KP!CoreInv' /\ KP!LedgerMove
    BY <1>1, <1>6, <2>1, <2>2, PartsAssume, KP!CoreStands DEF Assumed
  <2> QED
    BY <1>1, <2>3, PartsAssume, KP!LedgerKept DEF Assumed, PlanesInv
<1>8. LifetimesOK'
  BY <1>1, <1>5 DEF LifetimesOK
<1>9. VerifiedOK'
  <2>1. verified' = [d \in Calls |-> IF callPc'[d] = "idle" THEN 0
                                     ELSE IF callPc[d] = "unused" THEN now
                                     ELSE verified[d]]
    BY DEF NoteVerification
  <2>2. verified' \in [Calls -> Nat]
    BY <1>1, <1>5, <2>1 DEF VerifiedOK
  <2>3. ASSUME NEW d \in Calls, callPc'[d] \in {"verified", "running"}
        PROVE  InLife(issued'[call'[d].id], verified'[d])
    <3> DEFINE r == call[d].id
    <3>1. \/ callPc'[d] = callPc[d] /\ call'[d] = call[d]
          \/ /\ callPc[d] = "unused" /\ call'[d] = call[d]
             /\ ~GP!Expired(issued[r])
          \/ callPc[d] = "verified" /\ call'[d] = call[d]
      BY <1>1, <1>3, <2>3, PartsAssume, GP!CallMoves DEF Assumed, PlanesInv, GP!HoldInv
    <3>2. callPc[d] # "idle" /\ call'[d].id = r
      BY <2>3, <3>1
    <3>3. r \in ReceiptIds /\ issued[r] # NoReceipt
      BY <1>1, <3>2, CallsHold
    <3>4. CASE callPc[d] = "unused"
      <4>1. issued[r].at \in Nat /\ issued[r].expires \in Nat
        BY <1>1, <3>3, PlaneTypes DEF Receipt
      <4>2. issued[r].at <= now
        BY <1>1, <3>3 DEF KP!CoreInv, KP!ChargeInv, KP!SigningOK, KP!Signed, KP!Issued
      <4>3. now <= issued[r].expires
        BY <1>5, <2>3, <3>1, <3>4, <4>1 DEF GP!Expired
      <4> QED
        BY <1>5, <2>1, <2>3, <3>2, <3>4, <4>2, <4>3 DEF InLife
    <3>5. CASE callPc[d] \in {"verified", "running"}
      BY <1>1, <1>5, <2>1, <2>3, <3>2, <3>5 DEF VerifiedOK
    <3> QED
      BY <2>3, <3>1, <3>4, <3>5
  <2> QED
    BY <2>2, <2>3 DEF VerifiedOK
<1>10. EffectsOK'
  BY <1>5, EffectsKept
<1>11. CountsOK'
  BY CountsKept
<1> QED
  BY <1>3, <1>6, <1>7, <1>8, <1>9, <1>10, <1>11 DEF GInv, PlanesInv, HistoriesInv

LEMMA TickInv ==
  ASSUME GInv, Tick, UNCHANGED <<pillVars, requestVars, gateVars>>
  PROVE  GInv' /\ GP!Moves
<1>1. PlanesInv /\ KP!CoreInv /\ KP!Tick
  BY SameTick DEF GInv, PlanesInv
<1>2. /\ UNCHANGED KP!pillVars /\ UNCHANGED <<entries, manifests>> /\ UNCHANGED KP!callVars
      /\ UNCHANGED <<issued, consumed, callPc, call, gateVars>>
  BY DEF Tick, receiptVars, pillVars, KP!pillVars, requestVars, KP!callVars, gateVars
<1>3. KP!CoreInv' /\ KP!LedgerMove
  BY <1>1, <1>2, PartsAssume, KP!CoreTick DEF Assumed
<1>4. KP!LedgerOK'
  BY <1>1, <1>3, PartsAssume, KP!LedgerKept DEF Assumed, PlanesInv
<1>5. GP!Moves
  BY <1>2 DEF GP!Moves, GP!Still
<1>6. now' \in Nat
  BY <1>1, PlaneTypes DEF Tick
<1>7. GP!HoldInv'
  BY <1>1, <1>5, <1>6, PartsAssume, GP!MovesHold DEF Assumed, PlanesInv
<1>8. LifetimesOK'
  BY <1>2 DEF GInv, HistoriesInv, LifetimesOK
<1>9. HistoriesInv'
  BY <1>2, <1>5, <1>8, HistoriesStand
<1> QED
  BY <1>3, <1>4, <1>5, <1>7, <1>9 DEF GInv, PlanesInv

LEMMA RetractionInv ==
  ASSUME GInv, RetractionNext, UNCHANGED <<requestVars, gateVars>>
  PROVE  GInv' /\ GP!Moves
<1>1. PlanesInv /\ KP!CoreInv /\ KP!RetractionNext
  BY SameRetraction DEF GInv, PlanesInv
<1>2. /\ UNCHANGED <<entries, manifests>> /\ UNCHANGED KP!callVars
      /\ UNCHANGED <<callPc, call, gateVars>>
  BY DEF requestVars, KP!callVars, gateVars
<1>3. UNCHANGED <<now, issued, consumed>>
  BY DEF RetractionNext, BroadcastStep, RevokeTokens, RevokeReceipts, StorePill, ClearLockdown,
     Retract, Reinstate, receiptVars
<1>4. KP!CoreInv' /\ KP!LedgerMove
  BY <1>1, <1>2, PartsAssume, KP!CoreRetraction DEF Assumed
<1>5. KP!LedgerOK'
  BY <1>1, <1>4, PartsAssume, KP!LedgerKept DEF Assumed, PlanesInv
<1>6. GP!Moves
  BY <1>2, <1>3 DEF GP!Moves, GP!Still
<1>7. now' \in Nat
  BY <1>1, <1>3, PlaneTypes
<1>8. GP!HoldInv'
  BY <1>1, <1>6, <1>7, PartsAssume, GP!MovesHold DEF Assumed, PlanesInv
<1>9. LifetimesOK'
  BY <1>3 DEF GInv, HistoriesInv, LifetimesOK
<1>10. HistoriesInv'
  BY <1>2, <1>3, <1>6, <1>9, HistoriesStand
<1> QED
  BY <1>4, <1>5, <1>6, <1>8, <1>10 DEF GInv, PlanesInv

LEMMA StutterInv ==
  ASSUME GInv, UNCHANGED vars
  PROVE  GInv' /\ GP!Moves
<1>1. PlanesInv /\ KP!CoreInv
  BY DEF GInv, PlanesInv
<1>2. UNCHANGED storageVars /\ UNCHANGED pillVars /\ UNCHANGED requestVars /\ UNCHANGED gateVars
  BY DEF vars
<1>3. /\ UNCHANGED <<now, KP!receiptVars, KP!tokenVars, retracted, activePill>>
      /\ UNCHANGED KP!pillVars /\ UNCHANGED <<entries, manifests>> /\ UNCHANGED KP!callVars
      /\ UNCHANGED <<now, issued, consumed>>
      /\ UNCHANGED <<callPc, call, gateVars>>
  BY <1>2 DEF storageVars, receiptVars, tokenVars, KP!receiptVars, KP!tokenVars, pillVars,
     KP!pillVars, requestVars, KP!callVars, gateVars
<1>4. KP!CoreInv' /\ KP!LedgerMove
  BY <1>1, <1>3, PartsAssume, PlaneTypes, KP!CoreStands DEF Assumed
<1>5. KP!LedgerOK'
  BY <1>1, <1>4, PartsAssume, KP!LedgerKept DEF Assumed, PlanesInv
<1>6. GP!Moves
  BY <1>3 DEF GP!Moves, GP!Still
<1>7. GP!HoldInv'
  BY <1>1, <1>3, <1>6, PlaneTypes, PartsAssume, GP!MovesHold DEF Assumed, PlanesInv
<1>8. LifetimesOK'
  BY <1>3 DEF GInv, HistoriesInv, LifetimesOK
<1>9. HistoriesInv'
  BY <1>3, <1>6, <1>8, HistoriesStand
<1> QED
  BY <1>4, <1>5, <1>6, <1>7, <1>9 DEF GInv, PlanesInv

LEMMA NextInv ==
  ASSUME GInv, [Next]_vars
  PROVE  GInv' /\ GP!Moves
BY KernelStepInv, GateStepInv, TickInv, RetractionInv, StutterInv DEF Next

LEMMA Invariance == Spec => []GInv
BY InitInv, NextInv, PTL DEF Spec

-----------------------------------------------------------------------------
(***************************************************************************)
(* What is executed under the receipts of the kernel's windows.            *)
(***************************************************************************)
Runs(r, from, to) == {i \in DOMAIN effects[r] : from < effects[r][i] /\ effects[r][i] <= to}

\* A receipt runs once, and once more for each call that overlapped another and
\* each completion the ledger did not record, always within its life.
LEMMA RunsOfOne ==
  ASSUME GInv, NEW r \in ReceiptIds, NEW from, NEW to
  PROVE  /\ lost[r] \in Nat /\ overlaps[r] \in Nat
         /\ Cardinality(Runs(r, from, to)) \in Nat
         /\ Cardinality(Runs(r, from, to)) <= 1 + (lost[r] + overlaps[r])
         /\ Runs(r, from, to) = {} => Cardinality(Runs(r, from, to)) = 0
         /\ Runs(r, from, to) # {} =>
              \E v \in Nat : from < v /\ v <= to /\ InLife(issued[r], v)
<1>1. EffectsOK /\ CountsOK
  BY DEF GInv, HistoriesInv
<1>2. /\ effects[r] \in Seq(Nat) /\ Len(effects[r]) \in Nat
      /\ DOMAIN effects[r] = 1 .. Len(effects[r]) /\ lost[r] \in Nat /\ overlaps[r] \in Nat
  BY <1>1 DEF EffectsOK, CountsOK
<1>3. Len(effects[r]) <= 1 + (lost[r] + overlaps[r])
  <2>1. Cardinality(Cleared(r)) \in Nat
    <3>1. IsFiniteSet(Holders(r)) /\ Cleared(r) \in SUBSET Holders(r)
      BY <1>1 DEF CountsOK, Holders, Cleared
    <3> QED
      BY <3>1, FS_Subset, FS_CardinalityType
  <2> QED
    BY <1>1, <1>2, <2>1 DEF CountsOK
<1>4. Runs(r, from, to) \in SUBSET (1 .. Len(effects[r]))
  BY <1>2 DEF Runs
<1>5. /\ IsFiniteSet(Runs(r, from, to)) /\ Cardinality(Runs(r, from, to)) <= Len(effects[r])
      /\ Cardinality(Runs(r, from, to)) \in Nat
  <2>1. IsFiniteSet(1 .. Len(effects[r])) /\ Cardinality(1 .. Len(effects[r])) = Len(effects[r])
    <3>1. /\ IsFiniteSet(1 .. Len(effects[r]))
          /\ Cardinality(1 .. Len(effects[r])) =
               IF 1 > Len(effects[r]) THEN 0 ELSE Len(effects[r]) - 1 + 1
      <4>1. 1 \in Int /\ Len(effects[r]) \in Int
        BY <1>2
      <4> HIDE DEF Runs
      <4> QED
        BY <4>1, FS_Interval
    <3> QED
      BY <1>2, <3>1
  <2>2. /\ IsFiniteSet(Runs(r, from, to))
        /\ Cardinality(Runs(r, from, to)) <= Cardinality(1 .. Len(effects[r]))
    BY <1>4, <2>1, FS_Subset
  <2> QED
    BY <2>1, <2>2, FS_CardinalityType
<1>6. Runs(r, from, to) = {} => Cardinality(Runs(r, from, to)) = 0
  BY FS_EmptySet
<1>7. ASSUME Runs(r, from, to) # {}
      PROVE  \E v \in Nat : from < v /\ v <= to /\ InLife(issued[r], v)
  <2>1. PICK i \in 1 .. Len(effects[r]) : from < effects[r][i] /\ effects[r][i] <= to
    BY <1>2, <1>7 DEF Runs
  <2>2. effects[r][i] \in Nat /\ InLife(issued[r], effects[r][i])
    BY <1>1, <1>2, <2>1 DEF EffectsOK
  <2> QED
    BY <2>1, <2>2
<1> QED
  BY <1>2, <1>3, <1>5, <1>6, <1>7

LEMMA SignedFinite ==
  ASSUME GInv
  PROVE  /\ IsFiniteSet(KP!Signed)
         /\ \A r \in KP!Signed : r \in ReceiptIds /\ issued[r] # NoReceipt /\ issued[r] \in Receipt
                                 /\ issued[r].delta \in Nat /\ issued[r].at \in Nat
<1>1. KP!IsFiniteSet(KP!Signed)
  BY DEF GInv, PlanesInv, KP!CoreInv, KP!ChargeInv, KP!SigningOK
<1>2. IsFiniteSet(KP!Signed)
  BY <1>1 DEF IsFiniteSet, KP!IsFiniteSet
<1>3. \A r \in KP!Signed : r \in ReceiptIds /\ issued[r] # NoReceipt /\ issued[r] \in Receipt
  BY PlaneTypes DEF GInv, KP!Signed, KP!Issued
<1> QED
  BY <1>2, <1>3, StorageAssumption DEF Receipt

LEMMA TimesMonotone ==
  ASSUME NEW d \in Nat, NEW n \in Nat, NEW m \in Nat, n <= 1 + m
  PROVE  d * n \in Nat /\ d * m \in Nat /\ d * n <= d + d * m
<1> DEFINE k == 1 + m - n
<1>1. k \in Nat /\ n + k = 1 + m
  OBVIOUS
<1>2. d * n \in Nat /\ d * k \in Nat /\ d * m \in Nat
  BY <1>1
<1>3. d * (n + k) = d * n + d * k /\ d * (1 + m) = d + d * m
  BY <1>1
<1> HIDE DEF k
<1> QED
  BY <1>1, <1>2, <1>3

\* What is executed under some receipts weighs no more than those of them
\* that ran, and their repetitions.
LEMMA ExecutedBelow ==
  ASSUME GInv, NEW S, S \subseteq KP!Signed, NEW A, A \subseteq S, NEW from, NEW to,
         \A r \in S \ A : Runs(r, from, to) = {}
  PROVE  /\ Executed(S, from, to) \in Nat /\ KP!Weight(issued, A) \in Nat /\ Repeats(A) \in Nat
         /\ Executed(S, from, to) <= KP!Weight(issued, A) + Repeats(A)
<1> DEFINE f == [r \in S |-> issued[r].delta * Cardinality(Runs(r, from, to))]
           g == [r \in A |-> issued[r].delta]
           h == [r \in A |-> issued[r].delta * (lost[r] + overlaps[r])]
           B == S \ A
<1>1. Executed(S, from, to) = SumOver(f, S) /\ Repeats(A) = SumOver(h, A)
  BY DEF Executed, Runs, Repeats
<1>2. KP!Weight(issued, A) = SumOver(g, A)
  BY DEF KP!Weight, KP!SumOver, SumOver
<1>3. IsFiniteSet(A) /\ IsFiniteSet(B) /\ A \cap B = {} /\ A \cup B = S
  BY SignedFinite, FS_Subset
<1>4. ASSUME NEW r \in S
      PROVE  /\ f[r] \in Nat /\ (r \in B => f[r] = 0)
             /\ r \in A => g[r] \in Nat /\ h[r] \in Nat /\ f[r] <= g[r] + h[r]
  <2> DEFINE d == issued[r].delta
             n == Cardinality(Runs(r, from, to))
             m == lost[r] + overlaps[r]
  <2>1. r \in ReceiptIds /\ d \in Nat
    BY SignedFinite
  <2>2. n \in Nat /\ m \in Nat /\ n <= 1 + m
    BY <2>1, RunsOfOne
  <2>3. r \in B => n = 0
    BY <2>1, RunsOfOne
  <2>4. f[r] = d * n /\ (r \in A => g[r] = d /\ h[r] = d * m)
    OBVIOUS
  <2> HIDE DEF d, n, m, f, g, h, B
  <2>5. d * n \in Nat /\ d * m \in Nat /\ d * n <= d + d * m /\ d * 0 = 0
    BY <2>1, <2>2, TimesMonotone
  <2> QED
    BY <2>1, <2>3, <2>4, <2>5
<1> HIDE DEF f, g, h, B
<1>5. SumOver(f, S) = SumOver(f, A) + SumOver(f, B)
  BY <1>3, <1>4, SumApart
<1>6. SumOver(f, B) = 0
  BY <1>3, <1>4, SumNothing
<1>7. /\ SumOver(f, A) <= SumOver(g, A) + SumOver(h, A)
      /\ SumOver(f, A) \in Nat /\ SumOver(g, A) \in Nat /\ SumOver(h, A) \in Nat
  BY <1>3, <1>4, SumWithin, SumType
<1> QED
  BY <1>1, <1>2, <1>5, <1>6, <1>7

LEMMA IssuedForIs ==
  ASSUME NEW path, NEW t
  PROVE  /\ Kernel!IssuedFor(path, t) = KP!Counted(path, t)
         /\ KP!Counted(path, t) =
              {r \in ReceiptIds : issued[r] # NoReceipt /\ issued[r].path = path
                                  /\ issued[r].at <= t}
BY DEF Kernel!IssuedFor, Kernel!Issued, KP!Counted, KP!IssuedFor, KP!Issued

LEMMA WindowHolds ==
  ASSUME GInv, NEW path \in Paths, NEW t \in 0 .. MaxTime
  PROVE  KP!Weight(issued, KP!Counted(path, t) \ KP!Counted(path, t - Window)) <= Omega[path]
BY PartsAssume, KP!WindowWeighs DEF Assumed, GInv, PlanesInv

LEMMA WindowExecution ==
  ASSUME GInv
  PROVE  ExecutedWithinThreshold
<1> SUFFICES ASSUME NEW path \in Paths, NEW t \in 0 .. MaxTime
             PROVE  LET receiptSet == Kernel!IssuedFor(path, t) \ Kernel!IssuedFor(path, t - Window)
                    IN Executed(receiptSet, -1, MaxTime) <= Omega[path] + Repeats(receiptSet)
  BY DEF ExecutedWithinThreshold
<1> DEFINE A == KP!Counted(path, t) \ KP!Counted(path, t - Window)
<1>1. A = Kernel!IssuedFor(path, t) \ Kernel!IssuedFor(path, t - Window)
  BY IssuedForIs
<1>2. A \subseteq KP!Signed
  BY IssuedForIs DEF KP!Signed, KP!Issued
<1>3. KP!Weight(issued, A) <= Omega[path]
  BY WindowHolds
<1>4. Omega[path] \in Nat
  BY AccumulatorAssumption
<1> HIDE DEF A
<1>5. /\ Executed(A, -1, MaxTime) \in Nat /\ KP!Weight(issued, A) \in Nat /\ Repeats(A) \in Nat
      /\ Executed(A, -1, MaxTime) <= KP!Weight(issued, A) + Repeats(A)
  BY <1>2, ExecutedBelow
<1> QED
  BY <1>1, <1>3, <1>4, <1>5

LEMMA TwoWindowsExecution ==
  ASSUME GInv
  PROVE  ExecutionsWithinTwoThresholds
<1> SUFFICES ASSUME ReceiptTtl <= Window, NEW path \in Paths, NEW t \in 0 .. MaxTime
             PROVE  LET receiptSet ==
                          Kernel!IssuedFor(path, t) \ Kernel!IssuedFor(path, t - 2 * Window)
                    IN Executed(Kernel!IssuedFor(path, MaxTime), t - Window, t)
                         <= 2 * Omega[path] + Repeats(receiptSet)
  BY DEF ExecutionsWithinTwoThresholds
<1> DEFINE For(u) == {r \in KP!Signed : issued[r].path = path /\ issued[r].at <= u}
           u == t - Window
           late == For(t) \ For(u)
           early == For(u) \ For(u - Window)
           S == For(MaxTime)
<1>1. /\ t \in Nat /\ u \in Int /\ Window \in Nat /\ ReceiptTtl \in Nat /\ MaxTime \in Nat
      /\ t <= MaxTime /\ Omega[path] \in Nat /\ u - Window \in Int /\ u <= t
  BY AccumulatorAssumption, StorageAssumption
<1>2. \A v : For(v) = KP!Counted(path, v) /\ Kernel!IssuedFor(path, v) = For(v)
  BY IssuedForIs DEF KP!Signed, KP!Issued
<1>3. late \subseteq S /\ early \subseteq S /\ late \cap early = {} /\ S \subseteq KP!Signed
  BY <1>1, SignedFinite
<1>4. ASSUME NEW r \in S, r \notin late, r \notin early PROVE Runs(r, u, t) = {}
  <2>1. /\ r \in ReceiptIds /\ issued[r] \in Receipt /\ issued[r].at \in Nat
        /\ issued[r].path = path
    BY SignedFinite
  <2>2. issued[r].expires = issued[r].at + ReceiptTtl
    BY SignedFinite, <2>1 DEF GInv, HistoriesInv, LifetimesOK
  <2>3. ASSUME NEW v \in Nat, u < v, v <= t, InLife(issued[r], v) PROVE FALSE
    <3>1. issued[r].at <= t /\ u - Window < issued[r].at
      BY <1>1, <2>1, <2>2, <2>3 DEF InLife
    <3> QED
      BY <1>1, <1>4, <2>1, <3>1
  <2> QED
    BY <2>1, <2>3, RunsOfOne
<1>5. KP!Weight(issued, late) <= Omega[path]
  BY <1>2, WindowHolds
<1>6. KP!Weight(issued, early) <= Omega[path]
  <2>1. CASE u \in Nat
    BY <1>1, <1>2, <2>1, WindowHolds
  <2>2. CASE u \notin Nat
    <3>1. early = {}
      BY <1>1, <2>2, SignedFinite
    <3>2. KP!Weight(issued, {}) = 0
      BY KP!WeightEmpty, PartsAssume DEF Assumed
    <3> HIDE DEF early
    <3> QED
      BY <1>1, <3>1, <3>2
  <2> QED
    BY <2>1, <2>2
<1>7. Kernel!IssuedFor(path, MaxTime) = S
  BY <1>2
<1> DEFINE A == late \cup early
<1>11. A = Kernel!IssuedFor(path, t) \ Kernel!IssuedFor(path, t - 2 * Window)
  <2>1. u - Window = t - 2 * Window
    BY <1>1
  <2>2. A = For(t) \ For(u - Window)
    BY <1>1, SignedFinite
  <2> QED
    BY <1>2, <2>1, <2>2
<1>8. KP!Weight(issued, A) = KP!Weight(issued, late) + KP!Weight(issued, early)
  <2>1. /\ KP!IsFiniteSet(late) /\ KP!IsFiniteSet(early)
    <3>1. IsFiniteSet(late) /\ IsFiniteSet(early)
      BY <1>3, SignedFinite, FS_Subset
    <3> QED
      BY <3>1 DEF IsFiniteSet, KP!IsFiniteSet
  <2>2. \A r \in late \cup early : issued[r].delta \in Nat
    BY <1>3, SignedFinite
  <2> HIDE DEF late, early
  <2> QED
    BY <1>3, <2>1, <2>2, KP!WeightApart, PartsAssume DEF Assumed
<1> HIDE DEF late, early, S, u
<1>9. /\ Executed(S, u, t) \in Nat /\ Repeats(A) \in Nat
      /\ Executed(S, u, t) <= KP!Weight(issued, A) + Repeats(A)
  BY <1>3, <1>4, ExecutedBelow
<1>10. KP!Weight(issued, late) \in Nat /\ KP!Weight(issued, early) \in Nat
  BY <1>3, ExecutedBelow
<1> DEFINE x == Executed(S, u, t)
           w == KP!Weight(issued, late)
           e == KP!Weight(issued, early)
           p == Repeats(A)
<1>12. /\ x \in Nat /\ w \in Nat /\ e \in Nat /\ p \in Nat /\ Omega[path] \in Nat
       /\ x <= (w + e) + p /\ w <= Omega[path] /\ e <= Omega[path]
  BY <1>1, <1>5, <1>6, <1>8, <1>9, <1>10
<1> HIDE DEF x, w, e, p
<1>13. x <= 2 * Omega[path] + p
  BY <1>12
<1> QED
  BY <1>7, <1>11, <1>13 DEF u, x, p

\* However often callers retry, overlap calls for one receipt and actions or
\* ledger writes fail, what runs under the receipts of one window of the kernel
\* stays within the threshold they were charged to and one repetition for each
\* overlapping call and each lost write: see ExecutedWithinThreshold.
THEOREM ExecutionStaysCharged == Spec => []ExecutedWithinThreshold
BY Invariance, WindowExecution, PTL

\* A window of the clock never sees more executed than two windows of the
\* kernel were charged with, and the repetitions of their receipts: see
\* ExecutionsWithinTwoThresholds.
THEOREM ExecutionStaysBounded == Spec => []ExecutionsWithinTwoThresholds
BY Invariance, TwoWindowsExecution, PTL
===============================================================================
