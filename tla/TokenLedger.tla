----------------------------- MODULE TokenLedger -----------------------------
(***************************************************************************)
(* What a fluidity token promises (docs/architecture.md 7.2): a risk       *)
(* budget granted once and for good, and charges that never exceed it.     *)
(***************************************************************************)
EXTENDS Naturals

CONSTANTS TokenIds, Deltas, MaxBudget

VARIABLES
  budget,  \* token id -> its risk budget, 0 as long as it is not granted
  charged  \* token id -> sum of what was charged to it

tokenLedgerVars == <<budget, charged>>

TokenLedgerInit ==
  /\ budget = [t \in TokenIds |-> 0]
  /\ charged = [t \in TokenIds |-> 0]

GrantBudget(t, b) ==
  /\ budget[t] = 0
  /\ budget' = [budget EXCEPT ![t] = b]
  /\ UNCHANGED charged

ChargeBudget(t, d) ==
  /\ charged[t] + d <= budget[t]
  /\ charged' = [charged EXCEPT ![t] = @ + d]
  /\ UNCHANGED budget

TokenLedgerNext ==
  \E t \in TokenIds : \/ \E b \in 1 .. MaxBudget : GrantBudget(t, b)
                      \/ \E d \in Deltas : ChargeBudget(t, d)

TokenLedgerSpec == TokenLedgerInit /\ [][TokenLedgerNext]_tokenLedgerVars
=============================================================================
