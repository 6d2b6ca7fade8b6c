------------------------------- MODULE Storage -------------------------------
(***************************************************************************)
(* The state that crosses component boundaries: the StorageAdapter shared  *)
(* by the Governance Kernel and the Execution Gate (storage/memory.ts),    *)
(* the wall clock, and the receipts and tokens as the kernel signed them,  *)
(* which no store can change.                                              *)
(***************************************************************************)
EXTENDS EntityPaths, FiniteSets

CONSTANTS
  Paths,        \* entity paths, non-empty sequences of segments
  Params,       \* action parameters, as told apart by computeParamsHash
  Actions,      \* action names; a pattern list is the set of those it matches
  Deltas,       \* state-change magnitudes delta_S
  ReceiptIds,   \* receipt ids generateReceiptId may return
  TokenIds,     \* token ids generateTokenId may return
  Pills,        \* Poison Pill broadcasts
  ReceiptTtl,   \* ReceiptIssuer.defaultTtlMs, in clock ticks
  MaxBudget,    \* FluidityIssuer.maxBudget
  MaxTime,      \* bound: the clock stops here
  NoReceipt, NoToken, NoPill

ASSUME StorageAssumption ==
  /\ ReceiptTtl \in Nat /\ MaxTime \in Nat /\ MaxBudget \in Nat
  /\ Deltas \subseteq Nat
  /\ NoPill \notin Pills

VARIABLES
  now,             \* the wall clock
  issued,          \* receipt id -> the receipt the kernel signed under it
  receipts,        \* ids in the ReceiptStore
  receiptsRevoked, \* ReceiptStore.revoked
  consumed,        \* ids in the ConsumptionStore
  tokens,          \* the TokenStore: token id -> token
  tokensRevoked,   \* TokenStore.revoked
  granted,         \* token id -> the token the kernel signed under it
  retracted,       \* paths in the RetractionStore
  activePill       \* PoisonPillStore.active

receiptVars == <<issued, receipts, receiptsRevoked>>
tokenVars == <<tokens, tokensRevoked, granted>>
storageVars == <<now, receiptVars, consumed, tokenVars, retracted, activePill>>

\* What a signed receipt binds; at is issued_at.
Receipt == [path : Paths, params : Params, delta : Deltas, at : Nat, expires : Nat]

\* What a token binds; remaining is the only field that is ever updated.
Token == [path : Paths, scope : SUBSET Actions, maxSingle : Nat,
          remaining : Nat, expires : Nat]

Tokens == [TokenIds -> Token \cup {NoToken}]

StorageTypeOK ==
  /\ now \in Nat
  /\ issued \in [ReceiptIds -> Receipt \cup {NoReceipt}]
  /\ receipts \subseteq ReceiptIds
  /\ receiptsRevoked \in BOOLEAN
  /\ consumed \subseteq ReceiptIds
  /\ tokens \in Tokens
  /\ tokensRevoked \in BOOLEAN
  /\ granted \in Tokens
  /\ retracted \subseteq Paths
  /\ activePill \in Pills \cup {NoPill}

StorageInit ==
  /\ now = 0
  /\ issued = [r \in ReceiptIds |-> NoReceipt]
  /\ receipts = {}
  /\ receiptsRevoked = FALSE
  /\ consumed = {}
  /\ tokens = [t \in TokenIds |-> NoToken]
  /\ tokensRevoked = FALSE
  /\ granted = [t \in TokenIds |-> NoToken]
  /\ retracted = {}
  /\ activePill = NoPill

Tick ==
  /\ now < MaxTime
  /\ now' = now + 1
  /\ UNCHANGED <<receiptVars, consumed, tokenVars, retracted, activePill>>

InLockdown == activePill # NoPill

Issued(r) == issued[r] # NoReceipt

\* ReceiptIssuer.issue and the store that follows it, under a fresh id.
SignAndStoreReceipt(r, path, params, delta) ==
  /\ ~Issued(r)
  /\ issued' = [issued EXCEPT ![r] =
                  [path |-> path, params |-> params, delta |-> delta,
                   at |-> now, expires |-> now + ReceiptTtl]]
  /\ receipts' = receipts \cup {r}
  /\ UNCHANGED receiptsRevoked

\* A request kernel.issueFluidityToken may get; duration in clock ticks.
TokenRequest == [path : Paths, scope : SUBSET Actions, maxSingle : Nat,
                 budget : Nat, duration : Nat]

\* FluidityIssuer.issue throws unless the budget is positive and at most
\* MaxBudget, and the scope permits something.
Grantable(req) == req.budget \in 1 .. MaxBudget /\ req.scope # {}

\* FluidityIssuer.issue and the store after it.
SignAndStoreToken(t, req) ==
  /\ Grantable(req)
  /\ granted[t] = NoToken
  /\ LET token == [path |-> req.path, scope |-> req.scope, maxSingle |-> req.maxSingle,
                   remaining |-> req.budget, expires |-> now + req.duration]
     IN /\ granted' = [granted EXCEPT ![t] = token]
        /\ tokens' = [tokens EXCEPT ![t] = token]
  /\ UNCHANGED tokensRevoked

\* new Date(expires_at) < new Date(): the instant of expiry is still valid.
Expired(item) == item.expires < now

\* Mutant of StoredToken: the flag revokeAll sets is not looked at.
TokenInMap(t) == tokens[t]

\* TokenStore.get: nothing is found once revokeAll has run, whatever was
\* stored since.
StoredToken(t) == IF tokensRevoked THEN NoToken ELSE tokens[t]
=============================================================================
