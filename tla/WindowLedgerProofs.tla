-------------------------- MODULE WindowLedgerProofs --------------------------
(***************************************************************************)
(* The window ledger keeps its bound, for every set of paths, every        *)
(* threshold, window length and horizon.                                   *)
(***************************************************************************)
EXTENDS WindowLedger, TLAPS

\* What is authorised only grows with time.
Monotone == \A e \in Paths, s, t \in Times : s <= t => total[e][s] <= total[e][t]

\* Nothing is authorised ahead of the clock.
SettledAhead == \A e \in Paths, t \in Times : t >= now => total[e][t] = total[e][now]

LedgerInv == LedgerTypeOK /\ Monotone /\ SettledAhead /\ WindowBounded

\* The sum up to an instant, the ones before the start included.
LEMMA UpToType ==
  ASSUME LedgerConstants, LedgerTypeOK, NEW e \in Paths, NEW t \in Int, t <= MaxTime
  PROVE  UpTo(e, t) \in Nat
BY DEF LedgerConstants, UpTo, LedgerTypeOK, Times

LEMMA UpToMonotone ==
  ASSUME LedgerConstants, LedgerTypeOK, Monotone, NEW e \in Paths, NEW s \in Int, NEW t \in Int,
         s <= t, t <= MaxTime
  PROVE  UpTo(e, s) <= UpTo(e, t)
BY DEF LedgerConstants, UpTo, LedgerTypeOK, Times, Monotone

LEMMA LedgerInitInv ==
  ASSUME LedgerConstants, LedgerInit
  PROVE  LedgerInv
BY SMTT(30) DEF LedgerConstants, LedgerInit, NothingAuthorized, LedgerInv, LedgerTypeOK, Times,
   Monotone, SettledAhead, WindowBounded, InWindow, UpTo

\* Authorising within the window's room keeps every window within its bound.
LEMMA AuthorizeStep ==
  ASSUME LedgerConstants, LedgerInv, NEW e \in Paths, NEW d \in Deltas, Authorize(e, d)
  PROVE  LedgerInv'
<1> USE DEF LedgerConstants
<1>0. d \in Nat /\ now \in Times /\ now \in Nat /\ now <= MaxTime
  BY DEF LedgerInv, LedgerTypeOK, Times
<1>1. LedgerTypeOK'
  BY <1>0 DEF LedgerInv, LedgerTypeOK, Authorize, Times
<1>2. \A f \in Paths, t \in Times :
        total'[f][t] = IF f = e /\ t >= now THEN total[f][t] + d ELSE total[f][t]
  BY DEF LedgerInv, LedgerTypeOK, Authorize
<1>3. Monotone'
  <2> SUFFICES ASSUME NEW f \in Paths, NEW s \in Times, NEW t \in Times, s <= t
               PROVE  total'[f][s] <= total'[f][t]
    BY DEF Monotone, Times
  <2>1. total[f][s] <= total[f][t] /\ total[f][s] \in Nat /\ total[f][t] \in Nat
    BY DEF LedgerInv, LedgerTypeOK, Monotone
  <2> QED
    BY <1>0, <1>2, <2>1 DEF Times
<1>4. SettledAhead'
  BY <1>0, <1>2 DEF LedgerInv, SettledAhead, Authorize, Times
<1>5. WindowBounded'
  <2> SUFFICES ASSUME NEW f \in Paths, NEW t \in Times
               PROVE  InWindow(f, t)' <= Omega[f]
    BY DEF WindowBounded, Times
  <2>1. t \in Nat /\ t - Window \in Int /\ t - Window <= t /\ t <= MaxTime
    BY DEF Times
  <2>2. InWindow(f, t) <= Omega[f] /\ Omega[f] \in Nat
    BY DEF LedgerInv, WindowBounded
  <2>3. UpTo(f, t) \in Nat /\ UpTo(f, t - Window) \in Nat /\ UpTo(f, now - Window) \in Nat
    BY <1>0, <2>1, UpToType DEF LedgerInv
  <2>4. CASE f # e \/ t < now
    <3>1. UpTo(f, t)' = UpTo(f, t) /\ UpTo(f, t - Window)' = UpTo(f, t - Window)
      BY <1>0, <1>2, <2>1, <2>4 DEF UpTo, Times
    <3> QED
      BY <2>2, <3>1 DEF InWindow
  <2>5. CASE f = e /\ t >= now /\ t - Window >= now
    <3>1. UpTo(f, t)' = UpTo(f, now) + d /\ UpTo(f, t - Window)' = UpTo(f, now) + d
      BY <1>0, <1>2, <2>1, <2>5 DEF UpTo, Times, LedgerInv, SettledAhead
    <3>2. UpTo(f, now) \in Nat
      BY <1>0, UpToType DEF LedgerInv
    <3> QED
      BY <1>0, <2>2, <3>1, <3>2 DEF InWindow
  <2>6. CASE f = e /\ t >= now /\ t - Window < now
    <3>1. UpTo(f, t)' = UpTo(f, now) + d /\ UpTo(f, t - Window)' = UpTo(f, t - Window)
      BY <1>0, <1>2, <2>1, <2>6 DEF UpTo, Times, LedgerInv, SettledAhead
    <3>2. UpTo(f, now - Window) <= UpTo(f, t - Window)
      BY <1>0, <2>1, <2>6, UpToMonotone DEF LedgerInv
    <3>3. UpTo(f, now) - UpTo(f, now - Window) + d <= Omega[f]
      BY <2>6 DEF Authorize, InWindow
    <3>4. UpTo(f, now) \in Nat
      BY <1>0, UpToType DEF LedgerInv
    <3> QED
      BY <1>0, <2>2, <2>3, <3>1, <3>2, <3>3, <3>4 DEF InWindow
  <2> QED
    BY <1>0, <2>1, <2>4, <2>5, <2>6
<1> QED
  BY <1>1, <1>3, <1>4, <1>5 DEF LedgerInv

\* The clock moves over what was settled ahead.
LEMMA AdvanceStep ==
  ASSUME LedgerConstants, LedgerInv, Advance
  PROVE  LedgerInv'
BY DEF LedgerConstants, LedgerInv, Advance, LedgerTypeOK, Times, Monotone, SettledAhead,
   WindowBounded, InWindow, UpTo

\* After a restart there is nothing to bound.
LEMMA StartAnewStep ==
  ASSUME LedgerConstants, LedgerInv, StartAnew
  PROVE  LedgerInv'
BY SMTT(30) DEF LedgerConstants, LedgerInv, StartAnew, NothingAuthorized, LedgerTypeOK, Times,
   Monotone, SettledAhead, WindowBounded, InWindow, UpTo

LEMMA LedgerStepInv ==
  ASSUME LedgerConstants, LedgerInv, [LedgerNext]_ledgerVars
  PROVE  LedgerInv'
<1>1. CASE Advance
  BY <1>1, AdvanceStep
<1>2. CASE \E e \in Paths, d \in Deltas : Authorize(e, d)
  BY <1>2, AuthorizeStep
<1>3. CASE StartAnew
  BY <1>3, StartAnewStep
<1>4. CASE UNCHANGED ledgerVars
  BY <1>4 DEF ledgerVars, LedgerInv, LedgerTypeOK, Monotone, SettledAhead, WindowBounded,
     InWindow, UpTo
<1> QED
  BY <1>1, <1>2, <1>3, <1>4 DEF LedgerNext

\* Cumulative risk (architecture 3.4): in every window of the clock, present
\* or to come, what was authorised for a path is within its threshold.  The
\* invariant needs the two facts on total because a charge made now counts in
\* every window that ends later.
THEOREM LedgerBound ==
  ASSUME LedgerConstants
  PROVE  LedgerSpec => []WindowBounded
<1>1. LedgerInit => LedgerInv
  BY LedgerInitInv
<1>2. LedgerInv /\ [LedgerNext]_ledgerVars => LedgerInv'
  BY LedgerStepInv
<1>3. LedgerInv => WindowBounded
  BY DEF LedgerInv
<1> QED
  BY <1>1, <1>2, <1>3, PTL DEF LedgerSpec
=============================================================================
