---------------------------- MODULE WindowLedger ----------------------------
(***************************************************************************)
(* What the kernel promises about cumulative risk (docs/architecture.md    *)
(* 3.4): whatever the clock reads, the magnitudes authorised for a path    *)
(* within one window never sum up to more than its threshold.              *)
(* total[e][t] is the sum of all that was authorised for e up to time t,   *)
(* so the sum over a window is a difference of two of its values.  The     *)
(* promise is made for one life of the process: it forgets on a restart.   *)
(***************************************************************************)
EXTENDS Integers

CONSTANTS Paths, Deltas, Window, Omega, MaxTime, Restarts

\* What the constants are: the kernel's own assumptions imply it.
LedgerConstants ==
  /\ Window \in Nat /\ MaxTime \in Nat /\ Deltas \subseteq Nat
  /\ Omega \in [Paths -> Nat]

VARIABLES now, total

ledgerVars == <<now, total>>

Times == 0 .. MaxTime

LedgerTypeOK == now \in Times /\ total \in [Paths -> [Times -> Nat]]

UpTo(e, t) == IF t < 0 THEN 0 ELSE total[e][t]

InWindow(e, t) == UpTo(e, t) - UpTo(e, t - Window)

NothingAuthorized == [e \in Paths |-> [t \in Times |-> 0]]

LedgerInit == now = 0 /\ total = NothingAuthorized

Advance == now < MaxTime /\ now' = now + 1 /\ UNCHANGED total

Authorize(e, d) ==
  /\ InWindow(e, now) + d <= Omega[e]
  /\ total' = [total EXCEPT ![e] =
                 [t \in Times |-> IF t >= now THEN total[e][t] + d ELSE total[e][t]]]
  /\ UNCHANGED now

StartAnew == Restarts /\ total' = NothingAuthorized /\ UNCHANGED now

LedgerNext == Advance \/ StartAnew \/ \E e \in Paths, d \in Deltas : Authorize(e, d)

LedgerSpec == LedgerInit /\ [][LedgerNext]_ledgerVars

\* The bound holds in every window that ends at an instant of the clock,
\* the ones to come included.
WindowBounded == \A e \in Paths, t \in Times : InWindow(e, t) <= Omega[e]
=============================================================================
