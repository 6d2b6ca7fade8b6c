-------------------------- MODULE RetractionManager --------------------------
(***************************************************************************)
(* The kernel's retraction manager (governance-kernel/retraction.ts):      *)
(* retraction of paths and the Poison Pill broadcast.  The broadcast       *)
(* awaits each store in turn, so other calls run between its steps.        *)
(***************************************************************************)
EXTENDS Storage

CONSTANTS
  TokenPills,    \* pills broadcast with revokeFluidityTokens
  ReceiptPills   \* pills broadcast with revokeApprovalReceipts

ASSUME PillAssumption == TokenPills \subseteq Pills /\ ReceiptPills \subseteq Pills

VARIABLES
  pillPc,          \* pill -> how far broadcastPoisonPill has got
  revokedReceipts, \* history: receipts in the store when revokeAll ran
  revokedTokens    \* history: tokens in the store when revokeAll ran

pillVars == <<pillPc, revokedReceipts, revokedTokens>>

PillStages == {"idle", "tokens", "receipts", "broadcast"}

RetractionTypeOK ==
  /\ pillPc \in [Pills -> PillStages]
  /\ revokedReceipts \subseteq ReceiptIds
  /\ revokedTokens \subseteq TokenIds

RetractionInit ==
  /\ pillPc = [p \in Pills |-> "idle"]
  /\ revokedReceipts = {}
  /\ revokedTokens = {}

\* The steps before the named one are done, or the options skip them.
TokensHandled(p) == pillPc[p] = "tokens" \/ (pillPc[p] = "idle" /\ p \notin TokenPills)
ReceiptsHandled(p) == pillPc[p] = "receipts" \/ (TokensHandled(p) /\ p \notin ReceiptPills)

RevokeTokens(p) ==
  /\ pillPc[p] = "idle" /\ p \in TokenPills
  /\ tokensRevoked' = TRUE
  /\ tokens' = [t \in TokenIds |-> NoToken]
  /\ revokedTokens' = revokedTokens \cup {t \in TokenIds : tokens[t] # NoToken}
  /\ pillPc' = [pillPc EXCEPT ![p] = "tokens"]
  /\ UNCHANGED <<now, receiptVars, consumed, retracted, activePill,
                 granted, revokedReceipts>>

RevokeReceipts(p) ==
  /\ TokensHandled(p) /\ p \in ReceiptPills
  /\ receiptsRevoked' = TRUE
  /\ receipts' = {}
  /\ revokedReceipts' = revokedReceipts \cup receipts
  /\ pillPc' = [pillPc EXCEPT ![p] = "receipts"]
  /\ UNCHANGED <<now, issued, consumed, tokenVars, retracted, activePill, revokedTokens>>

\* The signed pill becomes the active one, in place of any other.
StorePill(p) ==
  /\ ReceiptsHandled(p)
  /\ activePill' = p
  /\ pillPc' = [pillPc EXCEPT ![p] = "broadcast"]
  /\ UNCHANGED <<now, receiptVars, consumed, tokenVars, retracted,
                 revokedReceipts, revokedTokens>>

BroadcastStep(p) == RevokeTokens(p) \/ RevokeReceipts(p) \/ StorePill(p)

ClearLockdown ==
  /\ InLockdown
  /\ activePill' = NoPill
  /\ UNCHANGED <<now, receiptVars, consumed, tokenVars, retracted, pillVars>>

Retract(path) ==
  /\ retracted' = retracted \cup {path}
  /\ UNCHANGED <<now, receiptVars, consumed, tokenVars, activePill, pillVars>>

Reinstate(path) ==
  /\ retracted' = retracted \ {path}
  /\ UNCHANGED <<now, receiptVars, consumed, tokenVars, activePill, pillVars>>

RetractionNext ==
  \/ \E p \in Pills : BroadcastStep(p)
  \/ ClearLockdown
  \/ \E path \in Paths : Retract(path) \/ Reinstate(path)
=============================================================================
