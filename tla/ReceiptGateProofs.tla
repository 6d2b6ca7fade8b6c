-------------------------- MODULE ReceiptGateProofs --------------------------
(***************************************************************************)
(* Proofs about ReceiptGate, for every set of calls, receipts, paths and   *)
(* pills and every clock bound.                                            *)
(***************************************************************************)
EXTENDS ReceiptGate, TLAPS

\* A call in flight holds a receipt that was issued.
CallsHoldReceipts ==
  \A c \in Calls : callPc[c] # "idle" => request[c] \in Request /\ Issued(request[c].id)

\* What each stage of a call has ruled out, for good: refusals only shrink.
StagesClear ==
  \A c \in Calls :
    /\ callPc[c] # "idle" => "lockdown" \notin refusals[c]
    /\ callPc[c] \in {"unused", "verified", "running"}
         => "altered" \notin refusals[c] /\ "consumed" \notin refusals[c]
    /\ callPc[c] \in {"verified", "running"}
         => "expired" \notin refusals[c] /\ "retracted" \notin refusals[c]

IInv == TypeOK /\ CallsHoldReceipts /\ StagesClear

LEMMA InitType == Init => TypeOK
<1> USE DEF Init, StorageInit, RetractionInit, CallInit
<1> SUFFICES ASSUME Init PROVE TypeOK
  OBVIOUS
<1>1. StorageTypeOK
  BY DEF StorageTypeOK, Tokens
<1>2. RetractionTypeOK
  BY DEF RetractionTypeOK, PillStages
<1>3. CallTypeOK
  BY DEF CallTypeOK, CallStages, Reasons
<1> QED
  BY <1>1, <1>2, <1>3 DEF TypeOK

\* The observation of refusals keeps their type, whatever the step.
LEMMA RefusalsType == ObserveRefusals /\ CallTypeOK => refusals' \in [Calls -> SUBSET Reasons]
<1> SUFFICES ASSUME ObserveRefusals, CallTypeOK
             PROVE refusals' \in [Calls -> SUBSET Reasons]
  OBVIOUS
<1>1. \A c \in Calls : ReasonsAgainst(request[c])' \subseteq Reasons
  BY DEF ReasonsAgainst
<1> QED
  BY <1>1 DEF ObserveRefusals, CallTypeOK

LEMMA StepType == TypeOK /\ CallsHoldReceipts /\ [Next]_vars => TypeOK'
<1> SUFFICES ASSUME TypeOK, CallsHoldReceipts, [Next]_vars PROVE TypeOK'
  OBVIOUS
<1> USE StorageAssumption, PillAssumption
        DEF TypeOK, storageVars, receiptVars, tokenVars, pillVars, callVars, outcomeVars,
            StorageTypeOK, RetractionTypeOK, CallTypeOK
<1>1. CASE UNCHANGED vars
  BY <1>1 DEF vars, gateVars, Tokens
<1>2. CASE Next
  <2>0. refusals' \in [Calls -> SUBSET Reasons]
    BY <1>2, RefusalsType DEF Next
  <2>1. ASSUME NEW c \in Calls, CallStep(c) PROVE TypeOK'
    <3> USE <2>0 DEF Tokens, CallStages, Goto, Return
    <3>1. CASE CheckSignatureAndUse(c)
      BY <3>1 DEF CheckSignatureAndUse
    <3>2. CASE CheckExpiryAndRetraction(c)
      BY <3>2 DEF CheckExpiryAndRetraction
    <3>3. CASE StartAction(c)
      BY <3>3 DEF StartAction
    <3>4. CASE ActionSucceeds(c)
      BY <3>4 DEF ActionSucceeds, CallsHoldReceipts, Request
    <3>5. CASE ActionFails(c)
      BY <3>5 DEF ActionFails
    <3>6. CASE MarkConsumedFails(c)
      BY <3>6 DEF MarkConsumedFails, CallsHoldReceipts, Request
    <3> QED
      BY <2>1, <3>1, <3>2, <3>3, <3>4, <3>5, <3>6 DEF CallStep
  <2>2. ASSUME NEW c \in Calls, NEW req \in Request, Execute(c, req) PROVE TypeOK'
    BY <2>0, <2>2 DEF Execute, CallStages, Tokens
  <2>3. CASE Tick /\ UNCHANGED <<pillVars, callVars, outcomeVars>>
    BY <2>0, <2>3 DEF Tick, Tokens
  <2>4. CASE RetractionNext /\ UNCHANGED <<callVars, outcomeVars>>
    <3> USE <2>0, <2>4 DEF PillStages, TokensHandled, ReceiptsHandled
    <3>1. ASSUME NEW p \in Pills, RevokeTokens(p) PROVE TypeOK'
      BY <3>1 DEF RevokeTokens, Tokens
    <3>2. ASSUME NEW p \in Pills, RevokeReceipts(p) PROVE TypeOK'
      BY <3>2 DEF RevokeReceipts, Tokens
    <3>3. ASSUME NEW p \in Pills, StorePill(p) PROVE TypeOK'
      BY <3>3 DEF StorePill, Tokens
    <3>4. CASE ClearLockdown
      BY <3>4 DEF ClearLockdown, Tokens
    <3>5. ASSUME NEW path \in Paths, Retract(path) \/ Reinstate(path) PROVE TypeOK'
      BY <3>5 DEF Retract, Reinstate, Tokens
    <3> QED
      BY <2>4, <3>1, <3>2, <3>3, <3>4, <3>5 DEF RetractionNext, BroadcastStep
  <2>5. ASSUME NEW r \in ReceiptIds, NEW path \in Paths, NEW params \in Params,
             NEW delta \in Deltas, IssueReceipt(r, path, params, delta)
        PROVE  TypeOK'
    BY <2>0, <2>5 DEF IssueReceipt, SignAndStoreReceipt, Receipt, Tokens
  <2> QED
    BY <1>2, <2>1, <2>2, <2>3, <2>4, <2>5 DEF Next, Environment
<1> QED
  BY <1>1, <1>2

\* What the life of a receipt touches, however the rest of the system moves:
\* steps of calls, signatures, and steps that leave all of it alone.
CallMove == \E c \in Calls : CallStep(c) \/ \E req \in Request : Execute(c, req)

SigningMove ==
  /\ \E r \in ReceiptIds, path \in Paths, params \in Params, delta \in Deltas :
       SignAndStoreReceipt(r, path, params, delta)
  /\ UNCHANGED <<now, consumed, callPc, request>>

Still == UNCHANGED <<issued, consumed, callPc, request>>

Moves == CallMove \/ SigningMove \/ Still

MoveTypes ==
  /\ now \in Nat
  /\ issued \in [ReceiptIds -> Receipt \cup {NoReceipt}]
  /\ consumed \subseteq ReceiptIds
  /\ callPc \in [Calls -> CallStages]
  /\ request \in [Calls -> Request \cup {NoRequest}]

LEMMA NextMoves ==
  ASSUME TypeOK, [Next]_vars
  PROVE  MoveTypes /\ Moves
<1>1. MoveTypes
  BY DEF TypeOK, StorageTypeOK, CallTypeOK, MoveTypes
<1>2. CASE UNCHANGED vars
  BY <1>1, <1>2 DEF Moves, Still, vars, storageVars, receiptVars, gateVars, callVars
<1>3. ASSUME NEW r \in ReceiptIds, NEW path \in Paths, NEW params \in Params,
             NEW delta \in Deltas, IssueReceipt(r, path, params, delta)
      PROVE  Moves
  BY <1>3 DEF IssueReceipt, Moves, SigningMove, callVars
<1>4. CASE Tick /\ UNCHANGED <<pillVars, callVars, outcomeVars>>
  BY <1>1, <1>4 DEF Tick, Moves, Still, receiptVars, callVars
<1>5. CASE RetractionNext /\ UNCHANGED <<callVars, outcomeVars>>
  BY <1>1, <1>5 DEF RetractionNext, BroadcastStep, RevokeTokens, RevokeReceipts, StorePill,
     ClearLockdown, Retract, Reinstate, receiptVars, Moves, Still, callVars
<1> QED
  BY <1>1, <1>2, <1>3, <1>4, <1>5 DEF Next, Environment, Moves, CallMove

\* A receipt, once signed, is never signed again.
LEMMA IssuedForGood ==
  ASSUME MoveTypes, Moves, NEW r \in ReceiptIds, Issued(r)
  PROVE  issued'[r] = issued[r]
<1>1. CASE UNCHANGED issued
  BY <1>1
<1>2. CASE SigningMove
  BY <1>2 DEF SigningMove, SignAndStoreReceipt, Issued, MoveTypes
<1>3. ASSUME NEW c \in Calls, CallStep(c) PROVE UNCHANGED issued
  BY <1>3 DEF CallStep, CheckSignatureAndUse, CheckExpiryAndRetraction, StartAction,
     ActionSucceeds, ActionFails, MarkConsumedFails, storageVars, receiptVars
<1>4. ASSUME NEW c \in Calls, NEW req \in Request, Execute(c, req) PROVE UNCHANGED issued
  BY <1>4 DEF Execute, storageVars, receiptVars
<1> QED
  BY <1>1, <1>2, <1>3, <1>4 DEF Moves, Still, CallMove

\* How a step may move one call: not at all, into its first stage with a
\* fresh request, one stage on with the same request, or back to idle.
LEMMA CallMoves ==
  ASSUME MoveTypes, Moves, NEW c \in Calls, callPc'[c] # "idle"
  PROVE  \/ callPc'[c] = callPc[c] /\ request'[c] = request[c]
         \/ /\ callPc[c] = "idle" /\ callPc'[c] = "entered"
            /\ request'[c] \in Request /\ Issued(request'[c].id)
            /\ ~InLockdown /\ UNCHANGED activePill
         \/ /\ callPc[c] = "entered" /\ callPc'[c] = "unused"
            /\ request'[c] = request[c] /\ UNCHANGED <<issued, consumed>>
            /\ Authentic(request[c]) /\ request[c].id \notin consumed
         \/ /\ callPc[c] = "unused" /\ callPc'[c] = "verified"
            /\ request'[c] = request[c] /\ UNCHANGED <<now, issued, retracted>>
            /\ ~Expired(issued[request[c].id])
            /\ ~IsRetracted(issued[request[c].id].path, retracted)
         \/ /\ callPc[c] = "verified" /\ callPc'[c] = "running"
            /\ request'[c] = request[c]
<1> USE DEF MoveTypes, storageVars, receiptVars
<1>1. CASE UNCHANGED <<callPc, request>>
  BY <1>1
<1>2. ASSUME NEW d \in Calls, CallStep(d)
      PROVE  \/ d = c
             \/ callPc'[c] = callPc[c] /\ request'[c] = request[c]
  BY <1>2 DEF CallStep, CheckSignatureAndUse, CheckExpiryAndRetraction, StartAction,
     ActionSucceeds, ActionFails, MarkConsumedFails, Goto, Return
<1>3. CASE CheckSignatureAndUse(c)
  BY <1>3 DEF CheckSignatureAndUse, Goto, Return
<1>4. CASE CheckExpiryAndRetraction(c)
  BY <1>4 DEF CheckExpiryAndRetraction, Goto, Return
<1>5. CASE StartAction(c)
  BY <1>5 DEF StartAction, Goto
<1>6. CASE ActionSucceeds(c) \/ ActionFails(c) \/ MarkConsumedFails(c)
  BY <1>6 DEF ActionSucceeds, ActionFails, MarkConsumedFails, Return
<1>7. ASSUME NEW d \in Calls, NEW req \in Request, Execute(d, req)
      PROVE  \/ callPc'[c] = callPc[c] /\ request'[c] = request[c]
             \/ /\ callPc[c] = "idle" /\ callPc'[c] = "entered"
                /\ request'[c] \in Request /\ Issued(request'[c].id)
                /\ ~InLockdown /\ UNCHANGED activePill
  BY <1>7 DEF Execute
<1> QED
  BY <1>1, <1>2, <1>3, <1>4, <1>5, <1>6, <1>7 DEF Moves, CallMove, SigningMove, Still, CallStep

LEMMA HoldsReceipts ==
  ASSUME MoveTypes, CallsHoldReceipts, Moves
  PROVE  CallsHoldReceipts'
<1> SUFFICES ASSUME NEW c \in Calls, callPc'[c] # "idle"
             PROVE  request'[c] \in Request /\ Issued(request[c].id)'
  BY DEF CallsHoldReceipts
<1>1. request'[c] \in Request /\ Issued(request'[c].id)
  BY CallMoves DEF CallsHoldReceipts
<1>2. issued'[request'[c].id] = issued[request'[c].id]
  BY <1>1, IssuedForGood DEF Request
<1> QED
  BY <1>1, <1>2 DEF Issued

LEMMA StepStagesClear ==
  TypeOK /\ CallsHoldReceipts /\ StagesClear /\ [Next]_vars => StagesClear'
<1> SUFFICES ASSUME TypeOK, CallsHoldReceipts, StagesClear, [Next]_vars,
                    NEW c \in Calls, callPc'[c] # "idle"
             PROVE  /\ "lockdown" \notin refusals'[c]
                    /\ callPc'[c] \in {"unused", "verified", "running"}
                         => "altered" \notin refusals'[c] /\ "consumed" \notin refusals'[c]
                    /\ callPc'[c] \in {"verified", "running"}
                         => "expired" \notin refusals'[c] /\ "retracted" \notin refusals'[c]
  BY DEF StagesClear
<1>1. CASE UNCHANGED vars
  BY <1>1 DEF vars, gateVars, callVars, StagesClear
<1>2. CASE Next
  <2>1. callPc[c] # "idle" => refusals'[c] \subseteq refusals[c]
                               /\ refusals'[c] \subseteq ReasonsAgainst(request[c])'
    BY <1>2 DEF Next, ObserveRefusals
  <2>2. callPc[c] = "idle" => refusals'[c] = ReasonsAgainst(request[c])'
    BY <1>2 DEF Next, ObserveRefusals
  <2>3. CASE callPc'[c] = callPc[c] /\ request'[c] = request[c]
    BY <2>1, <2>3 DEF StagesClear
  <2>4. CASE callPc[c] = "idle" /\ ~InLockdown /\ UNCHANGED activePill
             /\ callPc'[c] = "entered"
    BY <2>2, <2>4 DEF ReasonsAgainst, InLockdown
  <2>5. CASE /\ callPc[c] = "entered" /\ callPc'[c] = "unused"
             /\ request'[c] = request[c] /\ UNCHANGED <<issued, consumed>>
             /\ Authentic(request[c]) /\ request[c].id \notin consumed
    BY <2>1, <2>5 DEF StagesClear, ReasonsAgainst, Authentic
  <2>6. CASE /\ callPc[c] = "unused" /\ callPc'[c] = "verified"
             /\ request'[c] = request[c] /\ UNCHANGED <<now, issued, retracted>>
             /\ ~Expired(issued[request[c].id])
             /\ ~IsRetracted(issued[request[c].id].path, retracted)
    BY <2>1, <2>6 DEF StagesClear, ReasonsAgainst, Expired, IsRetracted
  <2>7. CASE callPc[c] = "verified" /\ callPc'[c] = "running" /\ request'[c] = request[c]
    BY <2>1, <2>7 DEF StagesClear
  <2> QED
    BY NextMoves, CallMoves, <2>3, <2>4, <2>5, <2>6, <2>7
<1> QED
  BY <1>1, <1>2

LEMMA Invariance == Spec => []IInv
<1>1. Init => IInv
  BY InitType DEF Init, CallInit, IInv, CallsHoldReceipts, StagesClear
<1>2. IInv /\ [Next]_vars => IInv'
  BY StepType, NextMoves, HoldsReceipts, StepStagesClear DEF IInv
<1> QED
  BY <1>1, <1>2, PTL DEF Spec

\* Every variable of the gate and of the storage it shares keeps its type.
THEOREM TypeCorrect == Spec => []TypeOK
<1>1. IInv => TypeOK
  BY DEF IInv
<1> QED
  BY <1>1, Invariance, PTL

\* Whatever the interleaving of execute calls, retractions, pills and the
\* clock, an action runs only if each check of the gate passed at some
\* moment of its call.
THEOREM NeverBlocked == Spec => []NeverRunsBlocked
<1>1. IInv => NeverRunsBlocked
  BY DEF IInv, StagesClear, NeverRunsBlocked, TypeOK, CallTypeOK, Reasons
<1> QED
  BY <1>1, Invariance, PTL

\* The consumption ledger is exact: see LedgerIsExact.
THEOREM ExactLedger == Spec => []LedgerIsExact
<1>1. Init => LedgerIsExact
  BY DEF Init, StorageInit, CallInit, LedgerIsExact
<1>2. LedgerIsExact /\ [Next]_vars => LedgerIsExact'
  <2> SUFFICES ASSUME LedgerIsExact, [Next]_vars PROVE LedgerIsExact'
    OBVIOUS
  <2> USE DEF LedgerIsExact, storageVars, outcomeVars
  <2>1. CASE UNCHANGED <<consumed, outcomeVars>>
    BY <2>1
  <2>2. ASSUME NEW c \in Calls, ActionSucceeds(c) PROVE LedgerIsExact'
    BY <2>2 DEF ActionSucceeds
  <2>3. ASSUME NEW c \in Calls, MarkConsumedFails(c) PROVE LedgerIsExact'
    BY <2>3 DEF MarkConsumedFails
  <2>4. ASSUME NEW c \in Calls,
               \/ CheckSignatureAndUse(c) \/ CheckExpiryAndRetraction(c)
               \/ StartAction(c) \/ ActionFails(c)
        PROVE  UNCHANGED <<consumed, outcomeVars>>
    BY <2>4 DEF CheckSignatureAndUse, CheckExpiryAndRetraction, StartAction, ActionFails
  <2>5. ASSUME NEW c \in Calls, NEW req \in Request, Execute(c, req)
        PROVE  UNCHANGED <<consumed, outcomeVars>>
    BY <2>5 DEF Execute
  <2>6. Environment => UNCHANGED <<consumed, outcomeVars>>
    BY DEF Environment, Tick, RetractionNext, BroadcastStep, RevokeTokens, RevokeReceipts,
       StorePill, ClearLockdown, Retract, Reinstate, IssueReceipt
  <2>7. CASE UNCHANGED vars
    BY <2>7 DEF vars, gateVars
  <2> QED
    BY <2>1, <2>2, <2>3, <2>4, <2>5, <2>6, <2>7 DEF Next, CallStep
<1> QED
  BY <1>1, <1>2, PTL DEF Spec

-----------------------------------------------------------------------------
(***************************************************************************)
(* Refinement of ReceiptLifecycle, for callers that do not overlap calls   *)
(* for one receipt and a ConsumptionStore that does not reject writes.     *)
(***************************************************************************)

OneHolder ==
  \A c, d \in Calls :
    callPc[c] # "idle" /\ callPc[d] # "idle" /\ request[c].id = request[d].id => c = d

InFlightUnused ==
  \A c \in Calls :
    callPc[c] \in {"unused", "verified", "running"} => request[c].id \notin consumed

ConsumedIssued == \A r \in consumed : Issued(r)

\* What holds however callers overlap, and what serial callers add to it.
HoldInv == MoveTypes /\ CallsHoldReceipts /\ ConsumedIssued

LifeInv == HoldInv /\ OneHolder /\ InFlightUnused

LEMMA StepOneHolder ==
  ASSUME OneCallPerReceipt, MoveTypes, OneHolder, Moves
  PROVE  OneHolder'
<1> USE DEF OneHolder, MoveTypes
<1>1. CASE UNCHANGED <<callPc, request>>
  BY <1>1
<1>2. ASSUME NEW c \in Calls, CallStep(c) PROVE OneHolder'
  BY <1>2 DEF CallStep, CheckSignatureAndUse, CheckExpiryAndRetraction, StartAction,
     ActionSucceeds, ActionFails, MarkConsumedFails, Goto, Return
<1>3. ASSUME NEW c \in Calls, NEW req \in Request, Execute(c, req) PROVE OneHolder'
  BY <1>3 DEF Execute, Holds
<1> QED
  BY <1>1, <1>2, <1>3 DEF Moves, CallMove, SigningMove, Still

\* Only a completed action adds to the ledger.
LEMMA OnlySuccessConsumes ==
  ASSUME Moves
  PROVE  (\E c \in Calls : ActionSucceeds(c)) \/ UNCHANGED consumed
<1>1. ASSUME NEW c \in Calls, CallStep(c) PROVE ActionSucceeds(c) \/ UNCHANGED consumed
  BY <1>1 DEF CallStep, CheckSignatureAndUse, CheckExpiryAndRetraction, StartAction,
     ActionFails, MarkConsumedFails, storageVars
<1>2. ASSUME NEW c \in Calls, NEW req \in Request, Execute(c, req) PROVE UNCHANGED consumed
  BY <1>2 DEF Execute, storageVars
<1> QED
  BY <1>1, <1>2 DEF Moves, CallMove, SigningMove, Still

LEMMA StepInFlightUnused ==
  ASSUME MoveTypes, OneHolder, InFlightUnused, Moves
  PROVE  InFlightUnused'
<1> SUFFICES ASSUME NEW c \in Calls, callPc'[c] \in {"unused", "verified", "running"}
             PROVE  request'[c].id \notin consumed'
  BY DEF InFlightUnused
<1>1. request'[c] = request[c] /\ callPc[c] # "idle" /\ request[c].id \notin consumed
  BY CallMoves DEF InFlightUnused
<1>2. ASSUME NEW d \in Calls, ActionSucceeds(d) PROVE request[c].id \notin consumed'
  <2>1. callPc'[d] = "idle"
    BY <1>2 DEF ActionSucceeds, Return, MoveTypes
  <2> QED
    BY <1>1, <1>2, <2>1 DEF ActionSucceeds, OneHolder
<1> QED
  BY <1>1, <1>2, OnlySuccessConsumes

LEMMA StepConsumedIssued ==
  ASSUME MoveTypes, CallsHoldReceipts, ConsumedIssued, Moves
  PROVE  ConsumedIssued' /\ consumed' \subseteq ReceiptIds
<1>1. ASSUME NEW d \in Calls, ActionSucceeds(d)
      PROVE  \A r \in consumed' : r \in ReceiptIds /\ Issued(r)
  BY <1>1 DEF ActionSucceeds, ConsumedIssued, CallsHoldReceipts, Request, MoveTypes
<1>2. \A r \in consumed' : r \in ReceiptIds /\ Issued(r)
  BY <1>1, OnlySuccessConsumes DEF ConsumedIssued, MoveTypes
<1>3. \A r \in consumed' : issued'[r] = issued[r]
  BY <1>2, IssuedForGood
<1> QED
  BY <1>2, <1>3 DEF ConsumedIssued, Issued

LEMMA MovesType ==
  ASSUME MoveTypes, Moves, now' \in Nat, consumed' \subseteq ReceiptIds
  PROVE  MoveTypes'
<1> USE DEF MoveTypes
<1>1. ASSUME NEW c \in Calls, CallStep(c)
      PROVE  /\ callPc' \in [Calls -> CallStages]
             /\ request' \in [Calls -> Request \cup {NoRequest}]
             /\ UNCHANGED issued
  BY <1>1 DEF CallStep, CheckSignatureAndUse, CheckExpiryAndRetraction, StartAction,
     ActionSucceeds, ActionFails, MarkConsumedFails, Goto, Return, CallStages, storageVars,
     receiptVars
<1>2. ASSUME NEW c \in Calls, NEW req \in Request, Execute(c, req)
      PROVE  /\ callPc' \in [Calls -> CallStages]
             /\ request' \in [Calls -> Request \cup {NoRequest}]
             /\ UNCHANGED issued
  BY <1>2 DEF Execute, CallStages, storageVars, receiptVars
<1>3. ASSUME NEW r \in ReceiptIds, NEW path \in Paths, NEW params \in Params,
             NEW delta \in Deltas, SignAndStoreReceipt(r, path, params, delta)
      PROVE  issued' \in [ReceiptIds -> Receipt \cup {NoReceipt}]
  <2>1. [path |-> path, params |-> params, delta |-> delta, at |-> now,
         expires |-> now + ReceiptTtl] \in Receipt
    BY StorageAssumption DEF Receipt
  <2> QED
    BY <1>3, <2>1 DEF SignAndStoreReceipt
<1> QED
  BY <1>1, <1>2, <1>3 DEF Moves, CallMove, SigningMove, Still

LEMMA MovesHold ==
  ASSUME HoldInv, Moves, now' \in Nat
  PROVE  HoldInv'
<1>1. ConsumedIssued' /\ consumed' \subseteq ReceiptIds
  BY StepConsumedIssued DEF HoldInv
<1>2. MoveTypes'
  BY <1>1, MovesType DEF HoldInv
<1> QED
  BY <1>1, <1>2, HoldsReceipts DEF HoldInv

LEMMA LifecycleInvariance ==
  ASSUME OneCallPerReceipt PROVE Spec => [](IInv /\ LifeInv)
<1>1. Init => OneHolder /\ InFlightUnused /\ ConsumedIssued
  BY DEF Init, CallInit, StorageInit, OneHolder, InFlightUnused, ConsumedIssued
<1>2. IInv => MoveTypes /\ CallsHoldReceipts
  BY DEF IInv, TypeOK, StorageTypeOK, CallTypeOK, MoveTypes
<1>3. IInv /\ LifeInv /\ [Next]_vars => (OneHolder /\ InFlightUnused /\ ConsumedIssued)'
  BY NextMoves, StepOneHolder, StepInFlightUnused, StepConsumedIssued DEF LifeInv, HoldInv, IInv
<1>4. MoveTypes /\ CallsHoldReceipts /\ OneHolder /\ InFlightUnused /\ ConsumedIssued <=> LifeInv
  BY DEF LifeInv, HoldInv
<1> QED
  BY <1>1, <1>2, <1>3, <1>4, Invariance, PTL DEF Spec

RunningOn(r) == \E c \in Calls : callPc[c] = "running" /\ request[c].id = r

LEMMA MovesRefine ==
  ASSUME OneCallPerReceipt, ~StoreFaults, LifeInv, Moves
  PROVE  [Lifecycle!LifecycleNext]_statusOf
<1> USE DEF LifeInv, HoldInv, storageVars, receiptVars
<1>0. \A r \in ReceiptIds :
        statusOf[r] = IF RunningOn(r) THEN "running"
                      ELSE IF r \in consumed THEN "used"
                      ELSE IF Issued(r) THEN "ready" ELSE "unissued"
  BY DEF statusOf, RunningOn
<1>1. \A r \in ReceiptIds :
        statusOf'[r] = IF RunningOn(r)' THEN "running"
                       ELSE IF r \in consumed' THEN "used"
                       ELSE IF Issued(r)' THEN "ready" ELSE "unissued"
  BY DEF statusOf, RunningOn
<1> DEFINE SameFor(r) == (r \in consumed' <=> r \in consumed)
                         /\ (RunningOn(r)' <=> RunningOn(r)) /\ (Issued(r)' <=> Issued(r))
<1>2. ASSUME NEW r \in ReceiptIds, SameFor(r) PROVE statusOf'[r] = statusOf[r]
  BY <1>0, <1>1, <1>2
<1>3. ASSUME \A r \in ReceiptIds : SameFor(r) PROVE UNCHANGED statusOf
  BY <1>2, <1>3 DEF statusOf
<1>4. ASSUME NEW r \in ReceiptIds, NEW to, statusOf'[r] = to,
             \A q \in ReceiptIds \ {r} : SameFor(q)
      PROVE  statusOf' = [statusOf EXCEPT ![r] = to]
  <2>1. statusOf = [q \in ReceiptIds |-> statusOf[q]] /\ statusOf' = [q \in ReceiptIds |-> statusOf'[q]]
    BY DEF statusOf
  <2>2. \A q \in ReceiptIds \ {r} : statusOf'[q] = statusOf[q]
    BY <1>2, <1>4
  <2> HIDE DEF SameFor
  <2> QED
    BY <1>4, <2>1, <2>2
<1> HIDE DEF SameFor
<1>5. ASSUME UNCHANGED <<callPc, request, issued, consumed>> PROVE UNCHANGED statusOf
  <2>1. \A r \in ReceiptIds : SameFor(r)
    BY <1>5 DEF SameFor, RunningOn, Issued
  <2> QED
    BY <1>3, <2>1
<1>6. ASSUME NEW c \in Calls, CallStep(c) PROVE [Lifecycle!LifecycleNext]_statusOf
  <2> USE DEF MoveTypes
  <2>1. PICK r \in ReceiptIds : r = request[c].id /\ Issued(r)
    BY <1>6 DEF CallStep, CheckSignatureAndUse, CheckExpiryAndRetraction, StartAction,
       ActionSucceeds, ActionFails, MarkConsumedFails, CallsHoldReceipts, Request
  <2>2. CASE CheckSignatureAndUse(c)
    BY <1>3, <2>2 DEF CheckSignatureAndUse, Goto, Return, SameFor, RunningOn, Issued
  <2>3. CASE CheckExpiryAndRetraction(c)
    BY <1>3, <2>3 DEF CheckExpiryAndRetraction, Goto, Return, SameFor, RunningOn, Issued
  <2>4. \A q \in ReceiptIds \ {r} :
          StartAction(c) \/ ActionSucceeds(c) \/ ActionFails(c) => SameFor(q)
    BY <2>1 DEF StartAction, ActionSucceeds, ActionFails, Goto, Return, SameFor, RunningOn, Issued
  <2>5. CASE StartAction(c)
    <3>1. statusOf[r] = "ready"
      BY <1>0, <2>1, <2>5 DEF StartAction, RunningOn, OneHolder, InFlightUnused
    <3>2. statusOf'[r] = "running"
      BY <1>1, <2>1, <2>5 DEF StartAction, Goto, RunningOn, InFlightUnused
    <3> QED
      BY <1>4, <2>1, <2>4, <2>5, <3>1, <3>2 DEF Lifecycle!LifecycleNext, Lifecycle!Move
  <2>6. CASE ActionSucceeds(c)
    <3>1. statusOf[r] = "running"
      BY <1>0, <2>1, <2>6 DEF ActionSucceeds, RunningOn, InFlightUnused
    <3>2. statusOf'[r] = "used"
      <4>1. ~RunningOn(r)'
        BY <2>1, <2>6 DEF ActionSucceeds, Return, RunningOn, OneHolder
      <4> QED
        BY <1>1, <2>1, <2>6, <4>1 DEF ActionSucceeds
    <3> QED
      BY <1>4, <2>1, <2>4, <2>6, <3>1, <3>2 DEF Lifecycle!LifecycleNext, Lifecycle!Move
  <2>7. CASE ActionFails(c)
    <3>1. statusOf[r] = "running"
      BY <1>0, <2>1, <2>7 DEF ActionFails, RunningOn, InFlightUnused
    <3>2. statusOf'[r] = "ready"
      <4>1. r \notin consumed' /\ Issued(r)'
        BY <2>1, <2>7 DEF ActionFails, InFlightUnused, Issued
      <4>2. ~RunningOn(r)'
        BY <2>1, <2>7 DEF ActionFails, Return, RunningOn, OneHolder
      <4> QED
        BY <1>1, <2>1, <4>1, <4>2
    <3> QED
      BY <1>4, <2>1, <2>4, <2>7, <3>1, <3>2 DEF Lifecycle!LifecycleNext, Lifecycle!Move
  <2> QED
    BY <1>6, <2>2, <2>3, <2>5, <2>6, <2>7 DEF CallStep, MarkConsumedFails
<1>7. ASSUME NEW c \in Calls, NEW req \in Request, Execute(c, req) PROVE UNCHANGED statusOf
  BY <1>3, <1>7 DEF Execute, SameFor, RunningOn, Issued, MoveTypes
<1>8. ASSUME NEW r \in ReceiptIds, NEW path \in Paths, NEW params \in Params,
             NEW delta \in Deltas, SignAndStoreReceipt(r, path, params, delta),
             UNCHANGED <<now, consumed, callPc, request>>
      PROVE  [Lifecycle!LifecycleNext]_statusOf
  <2> USE <1>8 DEF SignAndStoreReceipt
  <2>0. issued \in [ReceiptIds -> Receipt \cup {NoReceipt}] /\ now \in Nat
    BY DEF MoveTypes
  <2>1. r \notin consumed /\ ~RunningOn(r)
    BY DEF ConsumedIssued, CallsHoldReceipts, RunningOn
  <2>2. [path |-> path, params |-> params, delta |-> delta, at |-> now,
         expires |-> now + ReceiptTtl] \in Receipt
    BY <2>0, StorageAssumption DEF Receipt
  <2>3. Issued(r)'
    BY <2>0, <2>2, GateAssumption DEF Issued
  <2>4. r \notin consumed' /\ ~RunningOn(r)'
    BY <2>1 DEF RunningOn
  <2>5. \A q \in ReceiptIds \ {r} : SameFor(q)
    BY <2>0 DEF SameFor, RunningOn, Issued
  <2>6. statusOf[r] = "unissued" /\ statusOf'[r] = "ready"
    BY <1>0, <1>1, <2>1, <2>3, <2>4
  <2> QED
    BY <1>4, <2>5, <2>6 DEF Lifecycle!LifecycleNext, Lifecycle!Move
<1> QED
  BY <1>5, <1>6, <1>7, <1>8 DEF Moves, CallMove, SigningMove, Still

\* With callers that wait for a call before they retry its receipt, and a
\* ConsumptionStore that takes every write, concurrent calls, pills and
\* retractions never break the life cycle the architecture promises: one
\* completed execution per receipt and no second start beside it.
THEOREM LifecycleRefinement ==
  ASSUME OneCallPerReceipt, ~StoreFaults PROVE Spec => ImplementsLifecycle
<1>1. Init => Lifecycle!LifecycleInit
  BY DEF Init, StorageInit, CallInit, statusOf, Issued, Lifecycle!LifecycleInit
<1>2. IInv /\ LifeInv /\ [Next]_vars => [Lifecycle!LifecycleNext]_statusOf
  BY NextMoves, MovesRefine DEF IInv
<1> QED
  BY <1>1, <1>2, LifecycleInvariance, PTL
     DEF Spec, ImplementsLifecycle, Lifecycle!LifecycleSpec
=============================================================================
