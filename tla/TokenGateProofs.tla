--------------------------- MODULE TokenGateProofs ---------------------------
(***************************************************************************)
(* Proofs about TokenGate, for every set of calls, tokens, magnitudes and  *)
(* pills and every clock bound.                                            *)
(***************************************************************************)
EXTENDS TokenGate, TLAPS

\* A call in flight names a granted token; past its load it has a copy whose
\* balance is within the grant.
UsesHoldTokens ==
  \A u \in Uses :
    /\ usePc[u] # "idle" => use[u] \in Use /\ use[u].id \in Granted
    /\ usePc[u] = "loaded" =>
         loaded[u] \in Token /\ loaded[u].remaining <= granted[use[u].id].remaining

StoredWithinGrant ==
  \A t \in Stored : t \in Granted /\ tokens[t].remaining <= granted[t].remaining

\* What each stage of a call has ruled out, for good.
UseStagesClear ==
  \A u \in Uses :
    /\ usePc[u] # "idle" => "lockdown" \notin against[u]
    /\ usePc[u] \in {"loaded", "charged", "running"} => "missing" \notin against[u]
    /\ usePc[u] \in {"charged", "running"}
         => against[u] \cap {"expired", "scope", "magnitude"} = {}

IInv == TypeOK /\ UsesHoldTokens /\ StoredWithinGrant /\ UseStagesClear

LEMMA InitInv == Init => IInv
<1> SUFFICES ASSUME Init PROVE IInv
  OBVIOUS
<1> USE DEF Init, StorageInit, RetractionInit, UseInit
<1>1. StorageTypeOK /\ RetractionTypeOK /\ UseTypeOK
  BY DEF StorageTypeOK, RetractionTypeOK, UseTypeOK, Tokens, PillStages, UseStages
<1>2. UsesHoldTokens /\ StoredWithinGrant /\ UseStagesClear
  BY DEF UsesHoldTokens, StoredWithinGrant, UseStagesClear, Stored
<1> QED
  BY <1>1, <1>2 DEF IInv, TypeOK

LEMMA AgainstType == ObserveUses /\ UseTypeOK => against' \in [Uses -> SUBSET UseReasons]
<1>1. \A u \in Uses : ReasonsAgainstUse(use[u])' \subseteq UseReasons
  BY DEF ReasonsAgainstUse
<1> QED
  BY <1>1 DEF ObserveUses, UseTypeOK

\* A token, once granted, is never granted again under other terms.
LEMMA GrantedForGood ==
  ASSUME [Next]_vars, TypeOK, NEW t \in Granted
  PROVE  t \in Granted' /\ granted'[t] = granted[t]
<1> USE DEF storageVars, tokenVars, Granted
<1>1. CASE UNCHANGED granted
  BY <1>1
<1>2. CASE \E q \in TokenIds, req \in TokenRequests : SignAndStoreToken(q, req)
  BY <1>2 DEF SignAndStoreToken, TypeOK, StorageTypeOK, Tokens
<1>3. UNCHANGED granted \/ \E q \in TokenIds, req \in TokenRequests : SignAndStoreToken(q, req)
  <2>1. CASE UNCHANGED vars
    BY <2>1 DEF vars
  <2>2. ASSUME NEW u \in Uses, UseStep(u) PROVE UNCHANGED granted
    BY <2>2 DEF UseStep, LoadToken, RefuseCharge, Charge, StartTokenAction, SettleTokenAction
  <2>3. ASSUME NEW u \in Uses, NEW req \in Use, ExecuteWithToken(u, req)
        PROVE  UNCHANGED granted
    BY <2>3 DEF ExecuteWithToken
  <2>4. Tick \/ RetractionNext => UNCHANGED granted
    BY DEF Tick, RetractionNext, BroadcastStep, RevokeTokens, RevokeReceipts, StorePill,
       ClearLockdown, Retract, Reinstate
  <2> QED
    BY <2>1, <2>2, <2>3, <2>4 DEF Next, Environment, IssueToken
<1> QED
  BY <1>1, <1>2, <1>3

\* What a charge writes back is a token with no more left than was loaded.
LEMMA ChargedToken ==
  ASSUME TypeOK, UsesHoldTokens, NEW u \in Uses, Charge(u)
  PROVE  LET t == use[u].id
             token == [loaded[u] EXCEPT !.remaining = @ - use[u].delta]
         IN /\ t \in Granted /\ use[u].delta \in Nat
            /\ token \in Token
            /\ token.remaining = loaded[u].remaining - use[u].delta
            /\ token.remaining <= granted[t].remaining
            /\ tokens' = [tokens EXCEPT ![t] = token]
<1>1. use[u] \in Use /\ use[u].id \in Granted /\ use[u].delta \in Nat
  BY StorageAssumption DEF Charge, UsesHoldTokens, Use
<1>2. loaded[u] \in Token /\ loaded[u].remaining <= granted[use[u].id].remaining
      /\ use[u].delta <= loaded[u].remaining
  BY DEF Charge, UsesHoldTokens, Chargeable
<1>3. granted[use[u].id].remaining \in Nat
  BY <1>1 DEF Granted, TypeOK, StorageTypeOK, Tokens, Token
<1> QED
  BY <1>1, <1>2, <1>3 DEF Charge, Token

\* What a grant stores is the token it signs, a Token.
LEMMA GrantedToken ==
  ASSUME TypeOK, NEW t \in TokenIds, NEW req \in TokenRequests, SignAndStoreToken(t, req)
  PROVE  \E token \in Token : /\ granted' = [granted EXCEPT ![t] = token]
                              /\ tokens' = [tokens EXCEPT ![t] = token]
                              /\ granted[t] = NoToken
<1>1. req \in TokenRequest /\ now \in Nat
  BY TokenGateAssumption DEF TypeOK, StorageTypeOK
<1> DEFINE token == [path |-> req.path, scope |-> req.scope, maxSingle |-> req.maxSingle,
                     remaining |-> req.budget, expires |-> now + req.duration]
<1>2. token \in Token
  BY <1>1 DEF TokenRequest, Token
<1> QED
  BY <1>2 DEF SignAndStoreToken

LEMMA StepType == TypeOK /\ UsesHoldTokens /\ [Next]_vars => TypeOK'
<1> SUFFICES ASSUME TypeOK, UsesHoldTokens, [Next]_vars PROVE TypeOK'
  OBVIOUS
<1> USE StorageAssumption, PillAssumption
        DEF TypeOK, storageVars, receiptVars, tokenVars, pillVars, useVars,
            StorageTypeOK, RetractionTypeOK, UseTypeOK
<1>1. CASE UNCHANGED vars
  BY <1>1 DEF vars, Tokens
<1>2. CASE Next
  <2>0. against' \in [Uses -> SUBSET UseReasons]
    BY <1>2, AgainstType DEF Next
  <2>1. ASSUME NEW u \in Uses, UseStep(u) PROVE TypeOK'
    <3> USE <2>0 DEF UseStages, UseGoto, ReturnUse
    <3>1. CASE LoadToken(u)
      BY <3>1 DEF LoadToken, StoredToken, Tokens, UsesHoldTokens, Use
    <3>2. CASE RefuseCharge(u)
      BY <3>2, SMTT(30) DEF RefuseCharge, Tokens
    <3>3. CASE Charge(u)
      <4>1. tokens' \in Tokens
        BY <3>3, ChargedToken DEF Tokens
      <4>2. spent' \in [TokenIds -> Nat]
        <5>1. use[u].id \in TokenIds /\ use[u].delta \in Nat
          BY <3>3, ChargedToken DEF Granted
        <5>2. spent' = [spent EXCEPT ![use[u].id] = @ + use[u].delta]
          BY <3>3 DEF Charge
        <5> QED
          BY <5>1, <5>2
      <4> QED
        BY <3>3, <4>1, <4>2 DEF Charge
    <3>4. CASE StartTokenAction(u)
      BY <3>4 DEF StartTokenAction, Tokens
    <3>5. CASE SettleTokenAction(u)
      BY <3>5 DEF SettleTokenAction, Tokens
    <3> QED
      BY <2>1, <3>1, <3>2, <3>3, <3>4, <3>5 DEF UseStep
  <2>2. ASSUME NEW u \in Uses, NEW req \in Use, ExecuteWithToken(u, req) PROVE TypeOK'
    BY <2>0, <2>2 DEF ExecuteWithToken, UseStages, Tokens
  <2>3. CASE Tick /\ UNCHANGED <<pillVars, useVars>>
    BY <2>0, <2>3 DEF Tick, Tokens
  <2>4. CASE RetractionNext /\ UNCHANGED useVars
    <3> USE <2>0, <2>4 DEF PillStages, TokensHandled, ReceiptsHandled
    <3>1. ASSUME NEW p \in Pills, RevokeTokens(p) PROVE TypeOK'
      BY <3>1 DEF RevokeTokens, Tokens
    <3>2. ASSUME NEW p \in Pills, RevokeReceipts(p) PROVE TypeOK'
      BY <3>2 DEF RevokeReceipts, Tokens
    <3>3. ASSUME NEW p \in Pills, StorePill(p) PROVE TypeOK'
      BY <3>3 DEF StorePill, Tokens
    <3>4. CASE ClearLockdown
      BY <3>4 DEF ClearLockdown, Tokens
    <3>5. ASSUME NEW path \in Paths, Retract(path) \/ Reinstate(path) PROVE TypeOK'
      BY <3>5 DEF Retract, Reinstate, Tokens
    <3> QED
      BY <2>4, <3>1, <3>2, <3>3, <3>4, <3>5 DEF RetractionNext, BroadcastStep
  <2>5. ASSUME NEW t \in TokenIds, NEW req \in TokenRequests, IssueToken(t, req) PROVE TypeOK'
    <3>1. granted' \in Tokens /\ tokens' \in Tokens
      BY <2>5, GrantedToken DEF IssueToken, Tokens
    <3> QED
      BY <2>0, <2>5, <3>1 DEF IssueToken, SignAndStoreToken
  <2> QED
    BY <1>2, <2>1, <2>2, <2>3, <2>4, <2>5 DEF Next, Environment
<1> QED
  BY <1>1, <1>2

\* How a step may move one call that does not return: not at all, or into
\* the next stage.
LEMMA UseMoves ==
  ASSUME TypeOK, [Next]_vars, NEW u \in Uses, usePc'[u] # "idle"
  PROVE  \/ usePc'[u] = usePc[u] /\ use'[u] = use[u] /\ loaded'[u] = loaded[u]
         \/ /\ usePc[u] = "idle" /\ usePc'[u] = "entered"
            /\ use'[u] \in Use /\ use'[u].id \in Granted
            /\ ~InLockdown /\ UNCHANGED activePill
         \/ /\ usePc[u] = "entered" /\ usePc'[u] = "loaded" /\ use'[u] = use[u]
            /\ loaded'[u] = StoredToken(use[u].id) /\ loaded'[u] # NoToken
            /\ UNCHANGED <<tokens, tokensRevoked, granted, spent>>
         \/ usePc'[u] = "charged" /\ use'[u] = use[u] /\ Charge(u)
         \/ usePc[u] = "charged" /\ usePc'[u] = "running" /\ use'[u] = use[u]
<1> USE DEF TypeOK, UseTypeOK, storageVars, tokenVars
<1>1. CASE UNCHANGED useVars
  BY <1>1 DEF useVars
<1>2. ASSUME NEW v \in Uses, UseStep(v)
      PROVE  \/ v = u
             \/ usePc'[u] = usePc[u] /\ use'[u] = use[u] /\ loaded'[u] = loaded[u]
  BY <1>2 DEF UseStep, LoadToken, RefuseCharge, Charge, StartTokenAction, SettleTokenAction,
     UseGoto, ReturnUse
<1>3. CASE LoadToken(u)
  BY <1>3 DEF LoadToken, UseGoto, ReturnUse
<1>4. CASE Charge(u)
  BY <1>4 DEF Charge, UseGoto
<1>5. CASE StartTokenAction(u)
  BY <1>5 DEF StartTokenAction, UseGoto
<1>6. CASE RefuseCharge(u) \/ SettleTokenAction(u)
  BY <1>6 DEF RefuseCharge, SettleTokenAction, ReturnUse
<1>7. ASSUME NEW v \in Uses, NEW req \in Use, ExecuteWithToken(v, req)
      PROVE  \/ usePc'[u] = usePc[u] /\ use'[u] = use[u] /\ loaded'[u] = loaded[u]
             \/ /\ usePc[u] = "idle" /\ usePc'[u] = "entered"
                /\ use'[u] \in Use /\ use'[u].id \in Granted
                /\ ~InLockdown /\ UNCHANGED activePill
  BY <1>7 DEF ExecuteWithToken, Granted, Use
<1> QED
  BY <1>1, <1>2, <1>3, <1>4, <1>5, <1>6, <1>7 DEF Next, Environment, IssueToken, UseStep, vars

\* How a step may change a stored token: write back a charged copy, store a
\* fresh grant, drop it, or leave it.
LEMMA TokenMoves ==
  ASSUME TypeOK, UsesHoldTokens, [Next]_vars, NEW t \in Stored'
  PROVE  \/ t \in Stored /\ tokens'[t] = tokens[t]
         \/ /\ t \notin Granted /\ t \in Granted' /\ tokens'[t] = granted'[t]
            /\ UNCHANGED <<spent, usePc, use>>
         \/ \E u \in Uses : Charge(u) /\ use[u].id = t
<1> USE DEF storageVars, tokenVars, Stored
<1>1. CASE UNCHANGED tokens
  BY <1>1
<1>2. ASSUME NEW u \in Uses, Charge(u)
      PROVE  \/ t \in Stored /\ tokens'[t] = tokens[t]
             \/ use[u].id = t
  BY <1>2, ChargedToken DEF TypeOK, StorageTypeOK, Tokens
<1>3. ASSUME NEW q \in TokenIds, NEW req \in TokenRequests, IssueToken(q, req)
      PROVE  \/ t \in Stored /\ tokens'[t] = tokens[t]
             \/ /\ t \notin Granted /\ t \in Granted' /\ tokens'[t] = granted'[t]
                /\ UNCHANGED <<spent, usePc, use>>
  <2>1. PICK token \in Token : /\ granted' = [granted EXCEPT ![q] = token]
                               /\ tokens' = [tokens EXCEPT ![q] = token]
                               /\ granted[q] = NoToken
    BY <1>3, GrantedToken DEF IssueToken
  <2>2. UNCHANGED <<spent, usePc, use>>
    BY <1>3 DEF IssueToken, useVars
  <2> QED
    BY <2>1, <2>2, TokenGateAssumption DEF Granted, TypeOK, StorageTypeOK, Tokens
<1>4. ASSUME NEW p \in Pills, RevokeTokens(p) PROVE FALSE
  BY <1>4 DEF RevokeTokens
<1>5. \/ UNCHANGED tokens
      \/ \E u \in Uses : Charge(u)
      \/ \E q \in TokenIds, req \in TokenRequests : IssueToken(q, req)
      \/ \E p \in Pills : RevokeTokens(p)
  BY DEF Next, vars, UseStep, LoadToken, RefuseCharge, StartTokenAction, SettleTokenAction,
     ExecuteWithToken, Environment, Tick, RetractionNext, BroadcastStep, RevokeReceipts,
     StorePill, ClearLockdown, Retract, Reinstate
<1> QED
  BY <1>1, <1>2, <1>3, <1>4, <1>5

LEMMA StepHoldsTokens ==
  TypeOK /\ UsesHoldTokens /\ StoredWithinGrant /\ [Next]_vars => UsesHoldTokens'
<1> SUFFICES ASSUME TypeOK, UsesHoldTokens, StoredWithinGrant, [Next]_vars,
                    NEW u \in Uses, usePc'[u] # "idle"
             PROVE  /\ use'[u] \in Use /\ use'[u].id \in Granted'
                    /\ usePc'[u] = "loaded" =>
                         /\ loaded'[u] \in Token
                         /\ loaded'[u].remaining <= granted'[use'[u].id].remaining
  BY DEF UsesHoldTokens
<1>1. use'[u] \in Use /\ use'[u].id \in Granted
  BY UseMoves DEF UsesHoldTokens, Charge
<1>2. use'[u].id \in Granted' /\ granted'[use'[u].id] = granted[use'[u].id]
  BY <1>1, GrantedForGood
<1>3. ASSUME usePc'[u] = "loaded"
      PROVE  loaded'[u] \in Token /\ loaded'[u].remaining <= granted[use'[u].id].remaining
  <2>1. CASE usePc[u] = "loaded" /\ use'[u] = use[u] /\ loaded'[u] = loaded[u]
    BY <2>1 DEF UsesHoldTokens
  <2>2. CASE use'[u] = use[u] /\ loaded'[u] = StoredToken(use[u].id) /\ loaded'[u] # NoToken
    <3>1. use[u].id \in Stored /\ loaded'[u] = tokens[use[u].id]
      BY <1>1, <2>2 DEF StoredToken, Stored, Use
    <3> QED
      BY <2>2, <3>1 DEF StoredWithinGrant, Stored, TypeOK, StorageTypeOK, Tokens
  <2> QED
    BY <1>3, <2>1, <2>2, UseMoves
<1> QED
  BY <1>1, <1>2, <1>3

LEMMA StepStoredWithinGrant ==
  TypeOK /\ UsesHoldTokens /\ StoredWithinGrant /\ [Next]_vars => StoredWithinGrant'
<1> SUFFICES ASSUME TypeOK, UsesHoldTokens, StoredWithinGrant, [Next]_vars, NEW t \in Stored'
             PROVE  t \in Granted' /\ tokens'[t].remaining <= granted'[t].remaining
  BY DEF StoredWithinGrant
<1>1. CASE t \in Stored /\ tokens'[t] = tokens[t]
  BY <1>1, GrantedForGood DEF StoredWithinGrant
<1>2. CASE t \notin Granted /\ t \in Granted' /\ tokens'[t] = granted'[t]
  <2>1. tokens'[t] \in Token
    BY StepType DEF Stored, TypeOK, StorageTypeOK, Tokens
  <2> QED
    BY <1>2, <2>1 DEF Token
<1>3. ASSUME NEW u \in Uses, Charge(u), use[u].id = t
      PROVE  t \in Granted' /\ tokens'[t].remaining <= granted'[t].remaining
  <2>1. t \in Granted' /\ granted'[t] = granted[t]
    BY <1>3, ChargedToken, GrantedForGood
  <2>2. tokens'[t].remaining <= granted[t].remaining
    BY <1>3, ChargedToken DEF TypeOK, StorageTypeOK, Tokens, Granted
  <2> QED
    BY <2>1, <2>2
<1> QED
  BY <1>1, <1>2, <1>3, TokenMoves

LEMMA StepUseStagesClear ==
  TypeOK /\ UsesHoldTokens /\ UseStagesClear /\ [Next]_vars => UseStagesClear'
<1> SUFFICES ASSUME TypeOK, UsesHoldTokens, UseStagesClear, [Next]_vars,
                    NEW u \in Uses, usePc'[u] # "idle"
             PROVE  /\ "lockdown" \notin against'[u]
                    /\ usePc'[u] \in {"loaded", "charged", "running"}
                         => "missing" \notin against'[u]
                    /\ usePc'[u] \in {"charged", "running"}
                         => against'[u] \cap {"expired", "scope", "magnitude"} = {}
  BY DEF UseStagesClear
<1>1. CASE UNCHANGED vars
  BY <1>1 DEF vars, useVars, UseStagesClear
<1>2. CASE Next
  <2>1. usePc[u] # "idle" => against'[u] \subseteq against[u]
                               /\ against'[u] \subseteq ReasonsAgainstUse(use[u])'
    BY <1>2 DEF Next, ObserveUses
  <2>2. usePc[u] = "idle" => against'[u] = ReasonsAgainstUse(use[u])'
    BY <1>2 DEF Next, ObserveUses
  <2>3. CASE usePc'[u] = usePc[u] /\ use'[u] = use[u] /\ loaded'[u] = loaded[u]
    BY <2>1, <2>3 DEF UseStagesClear
  <2>4. CASE usePc[u] = "idle" /\ usePc'[u] = "entered" /\ ~InLockdown /\ UNCHANGED activePill
    BY <2>2, <2>4 DEF ReasonsAgainstUse, InLockdown
  <2>5. CASE /\ usePc[u] = "entered" /\ usePc'[u] = "loaded" /\ use'[u] = use[u]
             /\ loaded'[u] = StoredToken(use[u].id) /\ loaded'[u] # NoToken
             /\ UNCHANGED <<tokens, tokensRevoked, granted, spent>>
    BY <2>1, <2>5 DEF UseStagesClear, ReasonsAgainstUse, StoredToken
  <2>6. CASE usePc'[u] = "charged" /\ use'[u] = use[u] /\ Charge(u)
    <3>1. usePc[u] = "loaded" /\ UNCHANGED now
      BY <2>6 DEF Charge
    <3> DEFINE t == use[u].id
               token == [loaded[u] EXCEPT !.remaining = @ - use[u].delta]
    <3>2. tokens'[t] = token /\ loaded[u] \in Token
      BY <2>6, <3>1, ChargedToken DEF UsesHoldTokens, Granted, TypeOK, StorageTypeOK, Tokens
    <3>3. /\ token.expires = loaded[u].expires /\ token.scope = loaded[u].scope
          /\ token.maxSingle = loaded[u].maxSingle
      BY <3>2 DEF Token
    <3>4. /\ ~(loaded[u].expires < now) /\ use[u].action \in loaded[u].scope
          /\ ~(use[u].delta > loaded[u].maxSingle)
      <4>1. loaded[u].maxSingle \in Nat /\ use[u].delta \in Nat
        BY <2>6, <3>2, ChargedToken DEF Token
      <4> QED
        BY <2>6, <4>1 DEF Charge, Chargeable, Expired
    <3>5. against'[u] \cap {"expired", "scope", "magnitude"} = {}
      BY <2>1, <2>6, <3>1, <3>2, <3>3, <3>4
         DEF ReasonsAgainstUse, StoredToken, Expired
    <3> QED
      BY <2>1, <3>1, <3>5 DEF UseStagesClear
  <2>7. CASE usePc[u] = "charged" /\ usePc'[u] = "running" /\ use'[u] = use[u]
    BY <2>1, <2>7 DEF UseStagesClear
  <2> QED
    BY UseMoves, <2>3, <2>4, <2>5, <2>6, <2>7
<1> QED
  BY <1>1, <1>2

LEMMA Invariance == Spec => []IInv
<1>1. IInv /\ [Next]_vars => IInv'
  BY StepType, StepHoldsTokens, StepStoredWithinGrant, StepUseStagesClear DEF IInv
<1> QED
  BY <1>1, InitInv, PTL DEF Spec

\* Every variable of the token gate and the storage it shares keeps its
\* type; a remaining budget, in particular, is never negative.
THEOREM TokenTypeCorrect == Spec => []TypeOK
<1>1. IInv => TypeOK
  BY DEF IInv
<1> QED
  BY <1>1, Invariance, PTL

\* Whatever the interleaving, a micro-action runs only if each check of
\* executeWithToken passed at some moment of its call.
THEOREM TokenNeverBlocked == Spec => []TokenNeverRunsBlocked
<1>1. IInv => TokenNeverRunsBlocked
  BY DEF IInv, UseStagesClear, TokenNeverRunsBlocked, TypeOK, UseTypeOK, UseReasons
<1> QED
  BY <1>1, Invariance, PTL

\* However stale the copies that concurrent calls write back, what is left
\* in a stored token never exceeds its grant.
THEOREM WithinGrant == Spec => []RemainingWithinGrant
<1>1. IInv => RemainingWithinGrant
  BY DEF IInv, StoredWithinGrant, RemainingWithinGrant
<1> QED
  BY <1>1, Invariance, PTL
-----------------------------------------------------------------------------
(***************************************************************************)
(* The budget, for callers that do not overlap calls on one token.         *)
(***************************************************************************)

OneUser ==
  \A u, v \in Uses :
    usePc[u] # "idle" /\ usePc[v] # "idle" /\ use[u].id = use[v].id => u = v

\* A copy about to be charged is not stale: it accounts for every charge.
CopiesBalance ==
  \A u \in Uses :
    usePc[u] = "loaded" =>
      loaded[u].remaining + spent[use[u].id] = granted[use[u].id].remaining

NothingSpentBeforeGrant == \A t \in TokenIds \ Granted : spent[t] = 0

BInv ==
  /\ IInv /\ OneUser /\ CopiesBalance /\ NothingSpentBeforeGrant
  /\ AccountsBalance /\ BudgetRespected

LEMMA StepOneUser ==
  ASSUME OneCallPerToken, TypeOK, OneUser, [Next]_vars
  PROVE  OneUser'
<1> USE DEF OneUser, TypeOK, UseTypeOK, storageVars
<1>1. CASE UNCHANGED useVars
  BY <1>1 DEF useVars
<1>2. ASSUME NEW u \in Uses, UseStep(u) PROVE OneUser'
  BY <1>2 DEF UseStep, LoadToken, RefuseCharge, Charge, StartTokenAction, SettleTokenAction,
     UseGoto, ReturnUse
<1>3. ASSUME NEW u \in Uses, NEW req \in Use, ExecuteWithToken(u, req) PROVE OneUser'
  BY <1>3 DEF ExecuteWithToken
<1> QED
  BY <1>1, <1>2, <1>3 DEF Next, Environment, IssueToken, vars

\* Only a charge changes what was spent, and only on its own token.
LEMMA SpentMoves ==
  ASSUME [Next]_vars
  PROVE  UNCHANGED spent \/ \E u \in Uses : Charge(u)
BY DEF Next, vars, useVars, UseStep, LoadToken, RefuseCharge, StartTokenAction,
   SettleTokenAction, ExecuteWithToken, Environment, IssueToken

LEMMA StepBalance ==
  ASSUME OneCallPerToken, BInv, [Next]_vars
  PROVE  (CopiesBalance /\ NothingSpentBeforeGrant /\ AccountsBalance /\ BudgetRespected)'
<1> USE DEF BInv, IInv
<1>0. TypeOK' /\ UsesHoldTokens'
  BY StepType, StepHoldsTokens
<1>1. ASSUME NEW u \in Uses, Charge(u)
      PROVE  LET t == use[u].id
             IN /\ t \in Granted /\ granted' = granted
                /\ spent' = [spent EXCEPT ![t] = spent[t] + use[u].delta]
                /\ spent[t] \in Nat /\ use[u].delta \in Nat
                /\ tokens'[t].remaining + spent'[t] = granted[t].remaining
                /\ tokens'[t].remaining \in Nat
  <2> DEFINE t == use[u].id
  <2>1. t \in Granted /\ spent[t] \in Nat /\ use[u].delta \in Nat
    BY <1>1, ChargedToken DEF Granted, TypeOK, UseTypeOK
  <2>2. spent' = [spent EXCEPT ![t] = spent[t] + use[u].delta] /\ granted' = granted
    BY <1>1 DEF Charge
  <2>3. spent'[t] = spent[t] + use[u].delta
    BY <2>1, <2>2 DEF TypeOK, UseTypeOK, Granted
  <2>4. /\ loaded[u].remaining + spent[t] = granted[t].remaining
        /\ loaded[u].remaining \in Nat
    BY <1>1 DEF Charge, CopiesBalance, UsesHoldTokens, Token
  <2>5. /\ tokens'[t].remaining = loaded[u].remaining - use[u].delta
        /\ tokens'[t].remaining \in Nat
    BY <1>1, <2>1, ChargedToken DEF TypeOK, StorageTypeOK, Tokens, Token, Granted
  <2> QED
    BY <2>1, <2>2, <2>3, <2>4, <2>5
<1>2. CopiesBalance'
  <2> SUFFICES ASSUME NEW v \in Uses, usePc'[v] = "loaded"
               PROVE  loaded'[v].remaining + spent'[use'[v].id] = granted'[use'[v].id].remaining
    BY DEF CopiesBalance
  <2>1. use'[v] = use[v] /\ usePc[v] # "idle" /\ use[v].id \in Granted
    BY UseMoves DEF UsesHoldTokens
  <2>2. granted'[use[v].id] = granted[use[v].id]
    BY <2>1, GrantedForGood
  <2>3. CASE UNCHANGED spent
    <3>1. CASE usePc[v] = "loaded" /\ loaded'[v] = loaded[v]
      BY <2>1, <2>2, <2>3, <3>1 DEF CopiesBalance
    <3>2. CASE loaded'[v] = StoredToken(use[v].id) /\ loaded'[v] # NoToken
      BY <2>1, <2>2, <2>3, <3>2 DEF StoredToken, AccountsBalance, Stored, Granted
    <3> QED
      BY <3>1, <3>2, UseMoves
  <2>4. ASSUME NEW u \in Uses, Charge(u)
        PROVE  spent'[use[v].id] = spent[use[v].id] /\ usePc[v] = "loaded"
               /\ loaded'[v] = loaded[v]
    <3>1. usePc[u] # "idle" /\ usePc'[u] = "charged" /\ UNCHANGED loaded
      BY <2>4 DEF Charge, UseGoto, TypeOK, UseTypeOK
    <3>2. use[v].id # use[u].id
      BY <2>1, <3>1 DEF OneUser
    <3>3. usePc[v] = "loaded"
      BY <2>4, <3>2 DEF Charge, UseGoto, TypeOK, UseTypeOK
    <3> QED
      BY <1>1, <2>4, <3>1, <3>2, <3>3, <2>1 DEF TypeOK, UseTypeOK, Granted
  <2> QED
    BY <2>1, <2>2, <2>3, <2>4, SpentMoves DEF CopiesBalance
<1>3. NothingSpentBeforeGrant'
  <2> SUFFICES ASSUME NEW t \in TokenIds \ Granted' PROVE spent'[t] = 0
    BY DEF NothingSpentBeforeGrant
  <2>1. t \notin Granted /\ spent[t] = 0
    BY GrantedForGood DEF NothingSpentBeforeGrant
  <2> QED
    BY <1>1, <2>1, SpentMoves DEF TypeOK, UseTypeOK
<1>4. AccountsBalance'
  <2> SUFFICES ASSUME NEW t \in Stored'
               PROVE  tokens'[t].remaining + spent'[t] = granted'[t].remaining
    BY DEF AccountsBalance
  <2>1. CASE t \in Stored /\ tokens'[t] = tokens[t] /\ \A u \in Uses : Charge(u) => use[u].id # t
    <3>1. granted'[t] = granted[t]
      BY <2>1, GrantedForGood DEF StoredWithinGrant
    <3>2. spent'[t] = spent[t]
      BY <1>1, <2>1, SpentMoves DEF TypeOK, UseTypeOK, Stored
    <3> QED
      BY <2>1, <3>1, <3>2 DEF AccountsBalance
  <2>2. CASE t \notin Granted /\ t \in Granted' /\ tokens'[t] = granted'[t] /\ UNCHANGED spent
    <3>1. spent'[t] = 0
      BY <2>2 DEF NothingSpentBeforeGrant, Stored
    <3>2. tokens'[t].remaining \in Nat
      BY <1>0 DEF Stored, TypeOK, StorageTypeOK, Tokens, Token
    <3> QED
      BY <2>2, <3>1, <3>2
  <2>3. ASSUME NEW u \in Uses, Charge(u), use[u].id = t
        PROVE  tokens'[t].remaining + spent'[t] = granted'[t].remaining
    BY <1>1, <2>3
  <2> QED
    BY <2>1, <2>2, <2>3, TokenMoves
<1>5. BudgetRespected'
  <2> SUFFICES ASSUME NEW t \in Granted' PROVE spent'[t] <= granted'[t].remaining
    BY DEF BudgetRespected
  <2>1. spent'[t] \in Nat /\ granted'[t].remaining \in Nat
    BY <1>0 DEF Granted, TypeOK, StorageTypeOK, UseTypeOK, Tokens, Token
  <2>2. CASE UNCHANGED spent
    <3>1. CASE t \in Granted
      BY <2>2, <3>1, GrantedForGood DEF BudgetRespected
    <3>2. CASE t \notin Granted
      BY <2>1, <2>2, <3>2 DEF NothingSpentBeforeGrant, Granted
    <3> QED
      BY <3>1, <3>2
  <2>3. ASSUME NEW u \in Uses, Charge(u) PROVE spent'[t] <= granted'[t].remaining
    <3>1. granted' = granted /\ t \in Granted
      BY <1>1, <2>3 DEF Granted
    <3>2. CASE use[u].id = t
      BY <1>1, <2>1, <2>3, <3>1, <3>2
    <3>3. CASE use[u].id # t
      BY <1>1, <2>3, <3>1, <3>3 DEF BudgetRespected, TypeOK, UseTypeOK, Granted
    <3> QED
      BY <3>2, <3>3
  <2> QED
    BY <2>2, <2>3, SpentMoves
<1> QED
  BY <1>2, <1>3, <1>4, <1>5

LEMMA BudgetInvariance ==
  ASSUME OneCallPerToken PROVE Spec => []BInv
<1>1. Init => BInv
  <2> SUFFICES ASSUME Init PROVE BInv
    OBVIOUS
  <2>1. Granted = {} /\ Stored = {}
    BY DEF Init, StorageInit, Granted, Stored
  <2>2. OneUser /\ CopiesBalance /\ NothingSpentBeforeGrant
    BY DEF Init, UseInit, OneUser, CopiesBalance, NothingSpentBeforeGrant
  <2> QED
    BY <2>1, <2>2, InitInv DEF BInv, AccountsBalance, BudgetRespected
<1>2. BInv /\ [Next]_vars => BInv'
  <2>1. IInv /\ [Next]_vars => IInv'
    BY StepType, StepHoldsTokens, StepStoredWithinGrant, StepUseStagesClear DEF IInv
  <2>2. BInv /\ [Next]_vars => OneUser'
    BY StepOneUser DEF BInv, IInv
  <2> QED
    BY <2>1, <2>2, StepBalance DEF BInv
<1> QED
  BY <1>1, <1>2, PTL DEF Spec

\* If callers wait for a call to return before the next on the same token,
\* the micro-actions charged to a token never sum up to more than its
\* risk_budget, and what is left in it accounts for every one of them.
THEOREM BudgetSafety ==
  ASSUME OneCallPerToken PROVE Spec => [](BudgetRespected /\ AccountsBalance)
<1>1. BInv => BudgetRespected /\ AccountsBalance
  BY DEF BInv
<1> QED
  BY <1>1, BudgetInvariance, PTL

\* A step of the gate charges a budget within its bounds, grants one, or
\* leaves the ledger as it is.
LEMMA LedgerStep ==
  ASSUME BInv, BInv', [Next]_vars
  PROVE  [TokenBudgets!TokenLedgerNext]_(TokenBudgets!tokenLedgerVars)
<1> USE DEF TokenBudgets!TokenLedgerNext, TokenBudgets!tokenLedgerVars
<1>0. TypeOK /\ TypeOK'
  BY DEF BInv, IInv
<1>1. ASSUME NEW u \in Uses, Charge(u)
      PROVE  TokenBudgets!ChargeBudget(use[u].id, use[u].delta)
  <2> DEFINE t == use[u].id
  <2>1. t \in TokenIds /\ use[u].delta \in Deltas /\ t \in Granted
    BY <1>1, ChargedToken DEF BInv, IInv, UsesHoldTokens, Use, Charge
  <2>2. UNCHANGED granted /\ spent' = [spent EXCEPT ![t] = spent[t] + use[u].delta]
    BY <1>1 DEF Charge
  <2>3. spent'[t] <= granted'[t].remaining /\ spent'[t] = spent[t] + use[u].delta
    BY <2>1, <2>2, <1>0 DEF BInv, BudgetRespected, Granted, TypeOK, UseTypeOK
  <2>4. budgetOf[t] = granted[t].remaining /\ UNCHANGED budgetOf
    BY <2>1, <2>2 DEF budgetOf, Granted
  <2> QED
    BY <2>2, <2>3, <2>4 DEF TokenBudgets!ChargeBudget
<1>2. ASSUME NEW t \in TokenIds, NEW req \in TokenRequests, IssueToken(t, req)
      PROVE  TokenBudgets!GrantBudget(t, req.budget) /\ req.budget \in 1 .. MaxBudget
  <2> DEFINE token == [path |-> req.path, scope |-> req.scope, maxSingle |-> req.maxSingle,
                       remaining |-> req.budget, expires |-> now + req.duration]
  <2>1. /\ req.budget \in 1 .. MaxBudget /\ granted[t] = NoToken
        /\ granted' = [granted EXCEPT ![t] = token] /\ UNCHANGED spent
    BY <1>2 DEF IssueToken, SignAndStoreToken, Grantable, useVars
  <2>2. token # NoToken
    <3>1. req \in TokenRequest /\ now \in Nat
      BY <1>0, TokenGateAssumption DEF TypeOK, StorageTypeOK
    <3> QED
      BY <3>1, TokenGateAssumption DEF Token, TokenRequest
  <2>3. budgetOf' = [budgetOf EXCEPT ![t] = req.budget] /\ budgetOf[t] = 0
    BY <1>0, <2>1, <2>2 DEF budgetOf, TypeOK, StorageTypeOK, Tokens
  <2> QED
    BY <2>1, <2>3 DEF TokenBudgets!GrantBudget
<1>3. CASE UNCHANGED <<granted, spent>>
  BY <1>3 DEF budgetOf
<1>4. \/ \E u \in Uses : Charge(u)
      \/ \E t \in TokenIds, req \in TokenRequests : IssueToken(t, req)
      \/ UNCHANGED <<granted, spent>>
  <2>1. ASSUME NEW u \in Uses, UseStep(u) PROVE Charge(u) \/ UNCHANGED <<granted, spent>>
    BY <2>1 DEF UseStep, LoadToken, RefuseCharge, StartTokenAction, SettleTokenAction,
       storageVars, tokenVars
  <2>2. ASSUME NEW u \in Uses, NEW req \in Use, ExecuteWithToken(u, req)
        PROVE  UNCHANGED <<granted, spent>>
    BY <2>2 DEF ExecuteWithToken, storageVars, tokenVars
  <2>3. CASE Tick /\ UNCHANGED <<pillVars, useVars>>
    BY <2>3 DEF Tick, tokenVars, useVars
  <2>4. CASE RetractionNext /\ UNCHANGED useVars
    BY <2>4 DEF RetractionNext, BroadcastStep, RevokeTokens, RevokeReceipts, StorePill,
       ClearLockdown, Retract, Reinstate, tokenVars, useVars
  <2>5. CASE UNCHANGED vars
    BY <2>5 DEF vars, storageVars, tokenVars, useVars
  <2> QED
    BY <2>1, <2>2, <2>3, <2>4, <2>5 DEF Next, Environment
<1>5. ASSUME NEW u \in Uses, Charge(u) PROVE use[u].id \in TokenIds /\ use[u].delta \in Deltas
  BY <1>5 DEF BInv, IInv, UsesHoldTokens, Use, Charge
<1> QED
  BY <1>1, <1>2, <1>3, <1>4, <1>5

\* If callers wait for a call to return before the next on the same token,
\* the gate, its stores and the pills that sweep them implement the ledger of
\* budgets that architecture 7.2 promises.
THEOREM TokenLedgerRefinement ==
  ASSUME OneCallPerToken PROVE Spec => ImplementsTokenLedger
<1>1. Init => TokenBudgets!TokenLedgerInit
  BY DEF Init, StorageInit, UseInit, budgetOf, TokenBudgets!TokenLedgerInit
<1>2. BInv /\ BInv' /\ [Next]_vars
        => [TokenBudgets!TokenLedgerNext]_(TokenBudgets!tokenLedgerVars)
  BY LedgerStep
<1> QED
  BY <1>1, <1>2, BudgetInvariance, PTL
     DEF Spec, ImplementsTokenLedger, TokenBudgets!TokenLedgerSpec
=============================================================================
