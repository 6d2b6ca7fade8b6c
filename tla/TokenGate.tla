------------------------------ MODULE TokenGate ------------------------------
(***************************************************************************)
(* ExecutionGate.executeWithToken with the FluidityManager.  consume reads *)
(* a token, awaits, and writes back the copy it read less deltaS, so two   *)
(* calls for one token may both start from the same copy.                  *)
(***************************************************************************)
EXTENDS RetractionManager

CONSTANTS
  Uses,            \* slots for concurrent calls of executeWithToken
  TokenRequests,   \* requests for tokens that are made
  OneCallPerToken, \* callers wait for a call before the next on its token
  NoUse

ASSUME TokenGateAssumption ==
  /\ TokenRequests \subseteq TokenRequest
  /\ OneCallPerToken \in BOOLEAN
  /\ NoToken \notin Token

VARIABLES
  usePc,    \* call -> how far it has got
  use,      \* call -> the arguments of executeWithToken
  loaded,   \* call -> the copy of the token consume works on
  spent,    \* history: token id -> sum of the deltaS charged to it
  against   \* history: call -> what has held against it since it began

useVars == <<usePc, use, loaded, spent>>
vars == <<storageVars, pillVars, useVars, against>>

UseStages == {"idle", "entered", "loaded", "charged", "running"}

Use == [id : TokenIds, action : Actions, delta : Deltas]

UseReasons == {"lockdown", "missing", "expired", "scope", "magnitude", "retracted"}

UseTypeOK ==
  /\ usePc \in [Uses -> UseStages]
  /\ use \in [Uses -> Use \cup {NoUse}]
  /\ loaded \in [Uses -> Token \cup {NoToken}]
  /\ spent \in [TokenIds -> Nat]
  /\ against \in [Uses -> SUBSET UseReasons]

TypeOK == StorageTypeOK /\ RetractionTypeOK /\ UseTypeOK

UseInit ==
  /\ usePc = [u \in Uses |-> "idle"]
  /\ use = [u \in Uses |-> NoUse]
  /\ loaded = [u \in Uses |-> NoToken]
  /\ spent = [t \in TokenIds |-> 0]
  /\ against = [u \in Uses |-> {}]

Init == StorageInit /\ RetractionInit /\ UseInit

ReturnUse(u) ==
  /\ usePc' = [usePc EXCEPT ![u] = "idle"]
  /\ use' = [use EXCEPT ![u] = NoUse]
  /\ loaded' = [loaded EXCEPT ![u] = NoToken]

UseGoto(u, stage) == usePc' = [usePc EXCEPT ![u] = stage] /\ UNCHANGED use

\* assertNotLockdown; in lockdown the call throws and nothing has changed.
ExecuteWithToken(u, req) ==
  /\ usePc[u] = "idle"
  /\ granted[req.id] # NoToken
  /\ OneCallPerToken => \A v \in Uses : usePc[v] # "idle" => use[v].id # req.id
  /\ ~InLockdown
  /\ usePc' = [usePc EXCEPT ![u] = "entered"]
  /\ use' = [use EXCEPT ![u] = req]
  /\ UNCHANGED <<storageVars, pillVars, loaded, spent>>

LoadToken(u) ==
  /\ usePc[u] = "entered"
  /\ LET token == StoredToken(use[u].id)
     IN IF token = NoToken
          THEN ReturnUse(u)
          ELSE UseGoto(u, "loaded") /\ loaded' = [loaded EXCEPT ![u] = token]
  /\ UNCHANGED <<storageVars, pillVars, spent>>

\* The signature covers every field but the remaining budget, for which the
\* risk_budget of issue stands in.
SignatureCovers(token, signed) ==
  /\ token.path = signed.path /\ token.scope = signed.scope
  /\ token.maxSingle = signed.maxSingle /\ token.expires = signed.expires

\* Mutants of Chargeable: the budget, and the scope, are not looked at.
ChargeableBeyondBudget(token, req) ==
  /\ SignatureCovers(token, granted[req.id]) /\ ~Expired(token)
  /\ req.action \in token.scope /\ req.delta <= token.maxSingle

ChargeableOutOfScope(token, req) ==
  /\ SignatureCovers(token, granted[req.id]) /\ ~Expired(token)
  /\ req.delta <= token.maxSingle /\ req.delta <= token.remaining

\* The checks of consume, all of them on the copy it loaded.
Chargeable(token, req) ==
  /\ SignatureCovers(token, granted[req.id])
  /\ ~Expired(token)
  /\ req.action \in token.scope
  /\ req.delta <= token.maxSingle
  /\ req.delta <= token.remaining

RefuseCharge(u) ==
  /\ usePc[u] = "loaded"
  /\ ~Chargeable(loaded[u], use[u])
  /\ ReturnUse(u)
  /\ UNCHANGED <<storageVars, pillVars, spent>>

\* Mutant of Charge: the budget is refunded instead of used up.
ChargeRefunds(u) ==
  /\ usePc[u] = "loaded"
  /\ Chargeable(loaded[u], use[u])
  /\ tokens' = [tokens EXCEPT ![use[u].id] =
                  [loaded[u] EXCEPT !.remaining = @ + use[u].delta]]
  /\ spent' = [spent EXCEPT ![use[u].id] = @ + use[u].delta]
  /\ UseGoto(u, "charged")
  /\ UNCHANGED <<now, receiptVars, consumed, tokensRevoked, granted, retracted,
                 activePill, pillVars, loaded>>

\* TokenStore.update replaces the stored token, be it revoked or not.
Charge(u) ==
  /\ usePc[u] = "loaded"
  /\ Chargeable(loaded[u], use[u])
  /\ tokens' = [tokens EXCEPT ![use[u].id] =
                  [loaded[u] EXCEPT !.remaining = @ - use[u].delta]]
  /\ spent' = [spent EXCEPT ![use[u].id] = @ + use[u].delta]
  /\ UseGoto(u, "charged")
  /\ UNCHANGED <<now, receiptVars, consumed, tokensRevoked, granted, retracted,
                 activePill, pillVars, loaded>>

StartTokenAction(u) ==
  /\ usePc[u] = "charged"
  /\ UseGoto(u, "running")
  /\ UNCHANGED <<storageVars, pillVars, loaded, spent>>

\* Success or failure: the budget stays consumed either way.
SettleTokenAction(u) ==
  /\ usePc[u] = "running"
  /\ ReturnUse(u)
  /\ UNCHANGED <<storageVars, pillVars, spent>>

UseStep(u) ==
  \/ LoadToken(u) \/ RefuseCharge(u) \/ Charge(u)
  \/ StartTokenAction(u) \/ SettleTokenAction(u)

\* The kernel, as the gate sees it: it may grant any request, at any time.
IssueToken(t, req) ==
  /\ SignAndStoreToken(t, req)
  /\ UNCHANGED <<now, receiptVars, consumed, retracted, activePill, pillVars, useVars>>

Environment ==
  \/ Tick /\ UNCHANGED <<pillVars, useVars>>
  \/ RetractionNext /\ UNCHANGED useVars
  \/ \E t \in TokenIds, req \in TokenRequests : IssueToken(t, req)

\* What the stores, the token and the architecture hold against a call now.
ReasonsAgainstUse(req) ==
  LET token == StoredToken(req.id)
  IN {why \in UseReasons :
        \/ why = "lockdown" /\ InLockdown
        \/ why = "missing" /\ token = NoToken
        \/ /\ token # NoToken
           /\ \/ why = "expired" /\ Expired(token)
              \/ why = "scope" /\ req.action \notin token.scope
              \/ why = "magnitude" /\ req.delta > token.maxSingle
              \/ why = "retracted" /\ IsRetracted(token.path, retracted)}

\* A reason stays in against[u] only while it holds without interruption.
ObserveUses ==
  against' = [u \in Uses |->
                IF usePc'[u] = "idle" THEN {}
                ELSE IF usePc[u] = "idle" THEN ReasonsAgainstUse(use[u])'
                ELSE against[u] \cap ReasonsAgainstUse(use[u])']

Next ==
  /\ \/ \E u \in Uses : UseStep(u) \/ \E req \in Use : ExecuteWithToken(u, req)
     \/ Environment
  /\ ObserveUses

Spec == Init /\ [][Next]_vars

\* Promise continuations run, and the promise of an action settles.
Fairness == \A u \in Uses : WF_vars(UseStep(u) /\ ObserveUses)

FairSpec == Spec /\ Fairness
-----------------------------------------------------------------------------
(***************************************************************************)
(* Properties                                                              *)
(***************************************************************************)

\* No micro-action runs under a reason the gate looks for that has held ever
\* since the call began.  In particular no call that begins once the tokens
\* are revoked ever runs, whatever copies are being written back meanwhile.
TokenNeverRunsBlocked ==
  \A u \in Uses : usePc[u] = "running" => against[u] \subseteq {"retracted"}

Stored == {t \in TokenIds : tokens[t] # NoToken}
Granted == {t \in TokenIds : granted[t] # NoToken}

\* A stored token never has more left than it was granted, however stale the
\* copies that are written back.
RemainingWithinGrant == \A t \in Stored : tokens[t].remaining <= granted[t].remaining

\* The micro-actions charged to a token never sum up to more than its
\* risk_budget.
BudgetRespected == \A t \in Granted : spent[t] <= granted[t].remaining

\* The budget left in a stored token accounts for every charge made to it.
AccountsBalance ==
  \A t \in Stored : tokens[t].remaining + spent[t] = granted[t].remaining

\* Under callers that do not overlap calls for one token, the gate is a ledger
\* of budgets: what is granted once is charged until it is used up, and no
\* revocation, stale copy or failed action gives any of it back.
budgetOf ==
  [t \in TokenIds |-> IF granted[t] = NoToken THEN 0 ELSE granted[t].remaining]

TokenBudgets == INSTANCE TokenLedger WITH budget <- budgetOf, charged <- spent

ImplementsTokenLedger == TokenBudgets!TokenLedgerSpec

\* Revoking a token brings the execution under it to rest for good, whatever
\* copy of it is written back and whatever is cleared later.  Tokens issued
\* after the review are no concern of it.
RunningUnder(t) == \E u \in Uses : usePc[u] = "running" /\ use[u].id = t

RevocationDrains == \A t \in TokenIds : t \in revokedTokens ~> []~RunningUnder(t)
=============================================================================
