------------------------ MODULE GovernanceKernelProofs ------------------------
(***************************************************************************)
(* Proofs about GovernanceKernel, for every set of paths, manifests,       *)
(* proposals, calls and pills and every clock bound.                       *)
(***************************************************************************)
EXTENDS GovernanceKernel, DataLemmas

CallTypeOK ==
  /\ requestPc \in [Requests -> RequestStages]
  /\ request \in [Requests -> Proposals \cup TokenRequests \cup {NoRequest}]
  /\ DOMAIN permissions = Requests
  /\ objections \in [Requests -> SUBSET Objections]

\* What each stage of a call has ruled out: what was found not to hold is no
\* objection that has held throughout, whatever has happened since.
CallClear(k) ==
  /\ requestPc[k] = "idle" => objections[k] = {}
  /\ requestPc[k] # "idle" =>
       /\ request[k] \in Proposals \cup TokenRequests
       /\ "lockdown" \notin objections[k]
       /\ request[k] \in TokenRequests => "unauthorized" \notin objections[k]
  /\ requestPc[k] \in {"unretracted", "permitted", "resolved"} =>
       "retracted" \notin objections[k]
  /\ requestPc[k] \in {"permitted", "resolved"} =>
       /\ request[k] \in Proposals
       /\ OutcomeOf(k) = "allowed" => "unauthorized" \notin objections[k]

IInv == CallTypeOK /\ \A k \in Requests : CallClear(k)

LEMMA InitInv == Init => IInv
BY DEF Init, KernelInit, IInv, CallTypeOK, CallClear, RequestStages, Objections

\* A call that stays in flight gains no objection.
LEMMA ObjectionsShrink ==
  ASSUME CallTypeOK, ObserveObjections
  PROVE  /\ objections' \in [Requests -> SUBSET Objections]
         /\ \A k \in Requests :
              /\ requestPc'[k] = "idle" => objections'[k] = {}
              /\ requestPc'[k] # "idle" /\ requestPc[k] # "idle" =>
                   objections'[k] \subseteq objections[k]
              /\ requestPc'[k] # "idle" =>
                   \A why \in objections'[k] : Refuses(why, request[k])'
BY DEF CallTypeOK, ObserveObjections

\* A call whose own state is left alone stays clear.
LEMMA BystanderClear ==
  ASSUME IInv, ObserveObjections, NEW k \in Requests,
         requestPc'[k] = requestPc[k], request'[k] = request[k],
         permissions'[k] = permissions[k]
  PROVE  CallClear(k)'
<1>1. objections'[k] \subseteq objections[k]
  BY ObjectionsShrink DEF IInv, CallClear, CallTypeOK
<1>2. OutcomeOf(k)' = OutcomeOf(k)
  BY DEF OutcomeOf
<1> QED
  BY <1>1, <1>2 DEF IInv, CallClear

\* A call that has returned is clear.
LEMMA ReturnedClear ==
  ASSUME CallTypeOK, ObserveObjections, NEW k \in Requests, requestPc'[k] = "idle"
  PROVE  CallClear(k)'
BY ObjectionsShrink DEF CallClear

LEMMA SubmitClear ==
  ASSUME IInv, ObserveObjections, NEW k \in Requests, NEW req \in Proposals \cup TokenRequests,
         Submit(k, req)
  PROVE  CallClear(k)'
<1> USE DEF IInv, CallTypeOK
<1>1. requestPc'[k] = "entered" /\ request'[k] = req /\ ~InLockdown'
  BY DEF Submit, storageVars, InLockdown
<1>2. "lockdown" \notin objections'[k]
  BY <1>1, ObjectionsShrink DEF Refuses
<1>3. req \in TokenRequests => "unauthorized" \notin objections'[k]
  BY <1>1, ObjectionsShrink, KernelAssumption DEF Refuses
<1> QED
  BY <1>1, <1>2, <1>3 DEF CallClear

LEMMA CheckRetractionClear ==
  ASSUME IInv, ObserveObjections, NEW k \in Requests, CheckRetraction(k)
  PROVE  CallClear(k)'
<1> USE DEF IInv, CallTypeOK
<1>1. CASE IsRetracted(request[k].path, retracted)
  BY <1>1, ReturnedClear DEF CheckRetraction, Return, Forget
<1>2. CASE ~IsRetracted(request[k].path, retracted)
  <2>1. /\ requestPc[k] = "entered" /\ requestPc'[k] = "unretracted"
        /\ request' = request /\ retracted' = retracted
    BY <1>2 DEF CheckRetraction, Goto, storageVars
  <2>2. objections'[k] \subseteq objections[k] /\ "retracted" \notin objections'[k]
    BY <1>2, <2>1, ObjectionsShrink DEF Refuses, IsRetracted
  <2> QED
    BY <2>1, <2>2 DEF CallClear
<1> QED
  BY <1>1, <1>2

LEMMA ResolvePermissionsClear ==
  ASSUME IInv, ObserveObjections, NEW k \in Requests, ResolvePermissions(k)
  PROVE  CallClear(k)'
<1> USE DEF IInv, CallTypeOK
<1>1. /\ requestPc[k] = "unretracted" /\ requestPc'[k] = "permitted"
      /\ request[k] \in Proposals /\ request' = request /\ manifests' = manifests
      /\ permissions'[k] = AgentPermissions(Authority(request[k].path), request[k].path)
  BY DEF ResolvePermissions, Goto
<1>2. objections'[k] \subseteq objections[k]
  BY <1>1, ObjectionsShrink
<1>3. OutcomeOf(k)' = "allowed" => ~Refuses("unauthorized", request[k])'
  BY <1>1 DEF OutcomeOf, Refuses, Authority
<1>4. OutcomeOf(k)' = "allowed" => "unauthorized" \notin objections'[k]
  BY <1>1, <1>3, ObjectionsShrink
<1> QED
  BY <1>1, <1>2, <1>4 DEF CallClear

LEMMA ResolveReferenceClear ==
  ASSUME IInv, ObserveObjections, NEW k \in Requests, ResolveReference(k)
  PROVE  CallClear(k)'
<1> USE DEF IInv, CallTypeOK
<1>1. /\ requestPc[k] = "permitted" /\ requestPc'[k] = "resolved"
      /\ request' = request /\ permissions' = permissions
  BY DEF ResolveReference, Goto
<1>2. objections'[k] \subseteq objections[k] /\ OutcomeOf(k)' = OutcomeOf(k)
  BY <1>1, ObjectionsShrink DEF OutcomeOf
<1> QED
  BY <1>1, <1>2 DEF CallClear

\* The other steps of a call end it.
LEMMA EndOfCall ==
  ASSUME NEW k \in Requests,
         \/ Decline(k) \/ Breach(k) \/ LoseReceipt(k) \/ RefuseToken(k)
         \/ \E r \in ReceiptIds : Approve(k, r)
         \/ \E t \in TokenIds : IssueToken(k, t)
  PROVE  Return(k)
BY DEF Decline, Breach, LoseReceipt, Charge, Approve, IssueToken, RefuseToken

\* A step of one call leaves the other calls alone.
StepOf(k) ==
  /\ requestPc' \in [Requests -> RequestStages]
  /\ request' \in [Requests -> Proposals \cup TokenRequests \cup {NoRequest}]
  /\ DOMAIN permissions' = Requests
  /\ \A l \in Requests \ {k} : /\ requestPc'[l] = requestPc[l] /\ request'[l] = request[l]
                              /\ permissions'[l] = permissions[l]

LEMMA CallsApart ==
  ASSUME CallTypeOK, NEW k \in Requests,
         RequestStep(k) \/ \E req \in Proposals \cup TokenRequests : Submit(k, req)
  PROVE  StepOf(k)
<1> USE DEF CallTypeOK, RequestStages, StepOf
<1>1. CASE Return(k)
  BY <1>1 DEF Return, Forget
<1>2. ASSUME NEW req \in Proposals \cup TokenRequests, Submit(k, req)
      PROVE  StepOf(k)
  BY <1>2 DEF Submit
<1>3. CASE CheckRetraction(k)
  BY <1>1, <1>3 DEF CheckRetraction, Goto
<1>4. CASE ResolvePermissions(k) \/ ResolveReference(k)
  BY <1>4 DEF ResolvePermissions, ResolveReference, Goto
<1> QED
  BY <1>1, <1>2, <1>3, <1>4, EndOfCall DEF RequestStep

LEMMA CallsLeftAlone ==
  ASSUME IInv, ObserveObjections, UNCHANGED callVars
  PROVE  IInv'
<1>1. CallTypeOK'
  BY ObjectionsShrink DEF IInv, CallTypeOK, callVars
<1>2. \A k \in Requests : CallClear(k)'
  BY BystanderClear DEF callVars
<1> QED
  BY <1>1, <1>2 DEF IInv

LEMMA NextInv ==
  ASSUME IInv, [Next]_vars
  PROVE  IInv'
<1>1. CASE UNCHANGED vars
  <2>1. UNCHANGED <<callVars, objections>>
    BY <1>1 DEF vars, kernelVars
  <2>2. CallTypeOK'
    BY <2>1 DEF IInv, CallTypeOK, callVars
  <2>3. ASSUME NEW k \in Requests PROVE CallClear(k)'
    BY <2>1 DEF IInv, CallClear, OutcomeOf, callVars
  <2> QED
    BY <2>2, <2>3 DEF IInv
<1>2. ASSUME NEW k \in Requests, ObserveObjections,
             RequestStep(k) \/ \E req \in Proposals \cup TokenRequests : Submit(k, req)
      PROVE  IInv'
  <2>1. StepOf(k) /\ CallTypeOK
    BY <1>2, CallsApart DEF IInv
  <2>2. CallTypeOK'
    BY <1>2, <2>1, ObjectionsShrink DEF CallTypeOK, StepOf
  <2>3. ASSUME NEW l \in Requests \ {k} PROVE CallClear(l)'
    BY <1>2, <2>1, BystanderClear DEF StepOf
  <2>4. ASSUME Return(k) PROVE CallClear(k)'
    <3>1. requestPc'[k] = "idle"
      BY <2>1, <2>4 DEF Return, Forget, CallTypeOK
    <3> QED
      BY <1>2, <2>1, <3>1, ReturnedClear
  <2>5. CASE Decline(k) \/ Breach(k) \/ LoseReceipt(k) \/ RefuseToken(k)
             \/ (\E r \in ReceiptIds : Approve(k, r)) \/ (\E t \in TokenIds : IssueToken(k, t))
    <3>1. Return(k)
      BY <2>1, <2>5, EndOfCall
    <3> QED
      BY <2>2, <2>3, <2>4, <3>1 DEF IInv
  <2>6. CASE CheckRetraction(k)
    BY <1>2, <2>2, <2>3, <2>6, CheckRetractionClear DEF IInv
  <2>7. CASE ResolvePermissions(k)
    BY <1>2, <2>2, <2>3, <2>7, ResolvePermissionsClear DEF IInv
  <2>8. CASE ResolveReference(k)
    BY <1>2, <2>2, <2>3, <2>8, ResolveReferenceClear DEF IInv
  <2>9. CASE \E req \in Proposals \cup TokenRequests : Submit(k, req)
    BY <1>2, <2>2, <2>3, <2>9, SubmitClear DEF IInv
  <2> QED
    BY <1>2, <2>5, <2>6, <2>7, <2>8, <2>9 DEF RequestStep
<1>3. CASE Restart /\ ObserveObjections
  <2>1. /\ requestPc' = [k \in Requests |-> "idle"]
        /\ request' = [k \in Requests |-> NoRequest]
        /\ DOMAIN permissions' = Requests
    BY <1>3 DEF Restart, Forget
  <2>2. CallTypeOK'
    BY <1>3, <2>1, ObjectionsShrink DEF IInv, CallTypeOK, RequestStages
  <2> QED
    BY <1>3, <2>1, <2>2, ReturnedClear DEF IInv
<1>4. CASE ObserveObjections /\ UNCHANGED callVars
  BY <1>4, CallsLeftAlone
<1>5. ASSUME KernelStep, ~UNCHANGED callVars
      PROVE  \E k \in Requests :
               RequestStep(k) \/ \E req \in Proposals \cup TokenRequests : Submit(k, req)
  BY <1>5 DEF KernelStep, GetAccumulatorValue, RegisterManifest
<1> QED
  BY <1>1, <1>2, <1>3, <1>4, <1>5 DEF Next, kernelVars

\* What is signed, is signed for a call nothing has stood against throughout.
LEMMA SignsUnbarred ==
  ASSUME IInv, NEW k \in Requests,
         (\E r \in ReceiptIds : Approve(k, r)) \/ (\E t \in TokenIds : IssueToken(k, t))
  PROVE  objections[k] = {}
<1>1. objections[k] \subseteq {"lockdown", "retracted", "unauthorized"}
  BY DEF IInv, CallTypeOK, Objections
<1>2. CASE \E r \in ReceiptIds : Approve(k, r)
  BY <1>1, <1>2 DEF Approve, Charge, IInv, CallClear
<1>3. CASE \E t \in TokenIds : IssueToken(k, t)
  BY <1>1, <1>3 DEF IssueToken, IInv, CallClear
<1> QED
  BY <1>2, <1>3

\* No receipt or token is signed for a request that a lockdown, a retraction
\* or the authority of its path has barred ever since it was made, whatever
\* else happens between the awaits of evaluate and issueFluidityToken.
THEOREM SignsNothingBarred == Spec => NeverSignsBarred
<1>1. Init => IInv
  BY InitInv
<1>2. IInv /\ [Next]_vars => IInv'
  BY NextInv
<1>3. IInv => [\A k \in Requests : objections[k] # {} =>
                 /\ \A r \in ReceiptIds : ~Approve(k, r)
                 /\ \A t \in TokenIds : ~IssueToken(k, t)]_vars
  BY SignsUnbarred
<1> QED
  BY <1>1, <1>2, <1>3, PTL DEF Spec, NeverSignsBarred
-----------------------------------------------------------------------------
(***************************************************************************)
(* The entries of the accumulator.                                         *)
(***************************************************************************)
LEMMA AfterType ==
  ASSUME NEW s \in Seq(Entry), NEW t
  PROVE  After(s, t) \in Seq(Entry)
<1>1. Len(s) \in Nat /\ \A i \in 1 .. Len(s) : s[i] \in Entry
  OBVIOUS
<1> QED
  BY <1>1, SelectType DEF After

LEMMA AfterNothing ==
  ASSUME NEW t
  PROVE  After(<<>>, t) = <<>>
<1>1. <<>> \in Seq({})
  OBVIOUS
<1>2. 1 .. Len(<<>>) \subseteq {i \in DOMAIN <<>> : <<>>[i].timestamp > t}
  OBVIOUS
<1> QED
  BY <1>1, <1>2, SelectAll DEF After

LEMMA AfterAppend ==
  ASSUME NEW s \in Seq(Entry), NEW e \in Entry, NEW t
  PROVE  After(Append(s, e), t) = IF e.timestamp > t THEN Append(After(s, t), e) ELSE After(s, t)
<1> DEFINE more == Append(s, e)
           P == {i \in DOMAIN more : more[i].timestamp > t}
           Q == {i \in DOMAIN s : s[i].timestamp > t}
<1>1. /\ Len(s) \in Nat /\ DOMAIN s = 1 .. Len(s) /\ DOMAIN more = 1 .. Len(s) + 1
      /\ more[Len(s) + 1] = e /\ \A i \in 1 .. Len(s) : more[i] = s[i]
  OBVIOUS
<1> HIDE DEF more
<1>2. \A i \in 1 .. Len(s) : i \in Q <=> i \in P
  BY <1>1
<1>3. Len(s) + 1 \in P <=> e.timestamp > t
  BY <1>1
<1> HIDE DEF P, Q
<1>4. SelectAt(s, Q) = SelectAt(s, P)
  BY <1>2, SelectAlike
<1>5. SelectAt(Append(s, e), P) = IF Len(s) + 1 \in P THEN Append(SelectAt(s, P), e)
                                                     ELSE SelectAt(s, P)
  BY SelectAppend
<1> QED
  BY <1>3, <1>4, <1>5 DEF After, P, Q, more

\* Pruning twice is pruning once, with the later cut.
LEMMA AfterAfter ==
  ASSUME NEW c \in Int, NEW d \in Int, c <= d
  PROVE  \A s \in Seq(Entry) : After(After(s, c), d) = After(s, d)
<1> DEFINE F == {s \in Seq(Entry) : After(After(s, c), d) = After(s, d)}
<1>1. <<>> \in F
  BY AfterNothing
<1>2. ASSUME NEW s \in F, NEW e \in Entry PROVE Append(s, e) \in F
  <2>1. s \in Seq(Entry) /\ After(s, c) \in Seq(Entry) /\ After(After(s, c), d) = After(s, d)
    BY AfterType
  <2>2. Append(s, e) \in Seq(Entry) /\ e.timestamp \in Nat
    BY <2>1 DEF Entry
  <2>3. After(Append(s, e), c) = IF e.timestamp > c THEN Append(After(s, c), e) ELSE After(s, c)
    BY <2>1, AfterAppend
  <2>4. After(Append(s, e), d) = IF e.timestamp > d THEN Append(After(s, d), e) ELSE After(s, d)
    BY <2>1, AfterAppend
  <2>5. After(Append(After(s, c), e), d) = IF e.timestamp > d THEN Append(After(After(s, c), d), e)
                                           ELSE After(After(s, c), d)
    BY <2>1, AfterAppend
  <2>6. e.timestamp > d => e.timestamp > c
    BY <2>2
  <2>7. After(After(Append(s, e), c), d) = After(Append(s, e), d)
    BY <2>1, <2>3, <2>4, <2>5, <2>6
  <2> QED
    BY <2>2, <2>7
<1>3. F = Seq(Entry)
  <2>1. F \in SUBSET Seq(Entry)
    OBVIOUS
  <2>2. Reaches(F, Entry)
    BY <1>1, <1>2 DEF Reaches
  <2> HIDE DEF F
  <2> QED
    BY <2>1, <2>2, SequenceInduction
<1> QED
  BY <1>3

LEMMA TotalType ==
  ASSUME NEW s \in Seq(Entry)
  PROVE  TotalOf(s) \in Nat
<1> DEFINE f == [i \in DOMAIN s |-> s[i].deltaS]
<1>1. Len(s) \in Nat /\ DOMAIN s = 1 .. Len(s) /\ \A i \in 1 .. Len(s) : s[i] \in Entry
  OBVIOUS
<1>2. \A x \in Entry : x.deltaS \in Nat
  BY StorageAssumption DEF Entry
<1>3. IsFiniteSet(1 .. Len(s)) /\ \A i \in 1 .. Len(s) : f[i] \in Nat
  BY <1>1, <1>2, FS_Interval
<1>4. TotalOf(s) = SumOver(f, 1 .. Len(s))
  BY <1>1 DEF TotalOf
<1> HIDE DEF f
<1> QED
  BY <1>3, <1>4, SumType

LEMMA TotalAppend ==
  ASSUME NEW s \in Seq(Entry), NEW e \in Entry
  PROVE  TotalOf(Append(s, e)) = e.deltaS + TotalOf(s)
<1> DEFINE more == Append(s, e)
           f == [i \in DOMAIN s |-> s[i].deltaS]
           g == [i \in DOMAIN more |-> more[i].deltaS]
<1>1. /\ Len(s) \in Nat /\ DOMAIN s = 1 .. Len(s) /\ DOMAIN more = 1 .. Len(s) + 1
      /\ more[Len(s) + 1] = e /\ \A i \in 1 .. Len(s) : more[i] = s[i] /\ s[i] \in Entry
  OBVIOUS
<1>2. \A x \in Entry : x.deltaS \in Nat
  BY StorageAssumption DEF Entry
<1> HIDE DEF more
<1>3. /\ \A i \in 1 .. Len(s) : f[i] = g[i] /\ f[i] \in Nat /\ g[i] \in Nat
      /\ g[Len(s) + 1] = e.deltaS /\ g[Len(s) + 1] \in Nat
  BY <1>1, <1>2
<1>4. /\ IsFiniteSet(1 .. Len(s)) /\ Len(s) + 1 \notin 1 .. Len(s)
      /\ 1 .. Len(s) + 1 = (1 .. Len(s)) \cup {Len(s) + 1}
  <2>1. \A n \in Nat : n + 1 \notin 1 .. n /\ 1 .. n + 1 = (1 .. n) \cup {n + 1}
    OBVIOUS
  <2>2. IsFiniteSet(1 .. Len(s))
    BY <1>1, FS_Interval
  <2>3. Len(s) \in Nat
    BY <1>1
  <2> QED
    BY <2>1, <2>2, <2>3
<1>5. TotalOf(s) = SumOver(f, DOMAIN s)
  BY DEF TotalOf
<1>6. TotalOf(more) = SumOver(g, DOMAIN more)
  BY DEF TotalOf
<1> HIDE DEF f, g
<1>7. SumOver(f, 1 .. Len(s)) = SumOver(g, 1 .. Len(s))
  BY <1>3, <1>4, SumCongruent
<1>8. SumOver(g, (1 .. Len(s)) \cup {Len(s) + 1}) = g[Len(s) + 1] + SumOver(g, 1 .. Len(s))
  BY <1>3, <1>4, SumAdd
<1> QED
  BY <1>1, <1>3, <1>4, <1>5, <1>6, <1>7, <1>8 DEF more

-----------------------------------------------------------------------------
(***************************************************************************)
(* What a step of the kernel does to the stores and the accumulator.       *)
(***************************************************************************)
\* The calls, and which request each stage is reached with.
CallsOK ==
  /\ requestPc \in [Requests -> RequestStages]
  /\ request \in [Requests -> Proposals \cup TokenRequests \cup {NoRequest}]
  /\ DOMAIN permissions = Requests
  /\ \A k \in Requests :
       /\ requestPc[k] = "idle" => permissions[k] = NoPermissions
       /\ requestPc[k] # "idle" => request[k] \in Proposals \cup TokenRequests
       /\ requestPc[k] \in {"permitted", "resolved"} => request[k] \in Proposals

LEMMA ForgetOK ==
  ASSUME CallsOK, NEW K \in SUBSET Requests, Forget(K)
  PROVE  CallsOK'
BY DEF CallsOK, Forget, RequestStages

LEMMA CallStepOK ==
  ASSUME CallsOK, NEW k \in Requests,
         RequestStep(k) \/ \E req \in Proposals \cup TokenRequests : Submit(k, req)
  PROVE  CallsOK'
<1> USE DEF CallsOK, RequestStages
<1>1. CASE Return(k)
  BY <1>1, ForgetOK DEF Return
<1>2. ASSUME NEW req \in Proposals \cup TokenRequests, Submit(k, req) PROVE CallsOK'
  BY <1>2 DEF Submit
<1>3. CASE CheckRetraction(k)
  BY <1>1, <1>3 DEF CheckRetraction, Goto
<1>4. CASE ResolvePermissions(k)
  BY <1>4 DEF ResolvePermissions, Goto
<1>5. CASE ResolveReference(k)
  BY <1>5 DEF ResolveReference, Goto
<1> QED
  BY <1>1, <1>2, <1>3, <1>4, <1>5, EndOfCall DEF RequestStep

LEMMA KernelStepOK ==
  ASSUME CallsOK, KernelStep
  PROVE  CallsOK'
<1>1. CASE UNCHANGED callVars
  BY <1>1 DEF CallsOK, callVars
<1>2. CASE \E k \in Requests :
             RequestStep(k) \/ \E req \in Proposals \cup TokenRequests : Submit(k, req)
  BY <1>2, CallStepOK
<1> QED
  BY <1>1, <1>2 DEF KernelStep, GetAccumulatorValue, RegisterManifest

\* The kinds of steps.
Reads == UNCHANGED <<storageVars, entries>>

Prunes == \E path \in Paths : Prune(path) /\ UNCHANGED storageVars

Charges(p) == WithinThreshold(p.path, p.delta) /\ Record(p.path, p.delta)

Loses == \E p \in Proposals : Charges(p) /\ UNCHANGED storageVars

Signs ==
  \E p \in Proposals, r \in ReceiptIds :
    /\ Charges(p)
    /\ SignAndStoreReceipt(r, p.path, p.params, p.delta)
    /\ UNCHANGED <<now, consumed, tokenVars, retracted, activePill>>

Grants ==
  \E t \in TokenIds, req \in TokenRequests :
    /\ SignAndStoreToken(t, req)
    /\ UNCHANGED <<now, receiptVars, consumed, retracted, activePill, entries>>

LEMMA KindsOfSteps ==
  ASSUME CallsOK, KernelStep
  PROVE  /\ UNCHANGED pillVars
         /\ Reads \/ Prunes \/ Loses \/ Signs \/ Grants
         /\ UNCHANGED manifests \/ \E path \in Paths, m \in Manifests :
                                     manifests' = [manifests EXCEPT ![path] = m]
<1> DEFINE Kinds == /\ UNCHANGED pillVars
                    /\ Reads \/ Prunes \/ Loses \/ Signs \/ Grants
                    /\ UNCHANGED manifests \/ \E path \in Paths, m \in Manifests :
                                                manifests' = [manifests EXCEPT ![path] = m]
<1>1. ASSUME NEW k \in Requests, NEW req, Submit(k, req) PROVE Kinds
  BY <1>1 DEF Submit, Reads
<1>2. ASSUME NEW k \in Requests,
             \/ CheckRetraction(k) \/ ResolvePermissions(k) \/ ResolveReference(k)
             \/ Decline(k) \/ RefuseToken(k)
      PROVE  Kinds
  BY <1>2 DEF CheckRetraction, ResolvePermissions, ResolveReference, Decline, RefuseToken, Reads
<1>3. ASSUME NEW k \in Requests, requestPc[k] = "resolved"
      PROVE  request[k] \in Proposals /\ request[k].path \in Paths
  BY <1>3, KernelAssumption DEF CallsOK
<1>4. ASSUME NEW k \in Requests, Breach(k) PROVE Kinds
  BY <1>3, <1>4 DEF Breach, Prunes
<1>5. ASSUME NEW k \in Requests, LoseReceipt(k) PROVE Kinds
  BY <1>3, <1>5 DEF LoseReceipt, Charge, Loses, Charges
<1>6. ASSUME NEW k \in Requests, NEW r \in ReceiptIds, Approve(k, r) PROVE Kinds
  <2>1. request[k] \in Proposals
    BY <1>3, <1>6 DEF Approve, Charge
  <2> QED
    BY <1>6, <2>1 DEF Approve, Charge, Signs, Charges
<1>7. ASSUME NEW k \in Requests, NEW t \in TokenIds, IssueToken(k, t) PROVE Kinds
  BY <1>7 DEF IssueToken, Grants
<1>8. ASSUME NEW path \in Paths, GetAccumulatorValue(path) PROVE Kinds
  BY <1>8 DEF GetAccumulatorValue, Prunes
<1>9. ASSUME NEW path \in Paths, NEW m \in Manifests, RegisterManifest(path, m) PROVE Kinds
  BY <1>9 DEF RegisterManifest, Reads
<1> QED
  BY <1>1, <1>2, <1>4, <1>5, <1>6, <1>7, <1>8, <1>9 DEF KernelStep, RequestStep

-----------------------------------------------------------------------------
(***************************************************************************)
(* Types.                                                                  *)
(***************************************************************************)
StateOK ==
  /\ StorageTypeOK /\ RetractionTypeOK /\ AccumulatorTypeOK
  /\ manifests \in [Paths -> Manifests \cup {NoManifest}]

LEMMA ProposalType ==
  ASSUME NEW p \in Proposals
  PROVE  p.path \in Paths /\ p.params \in Params /\ p.delta \in Deltas /\ p.delta \in Nat
BY KernelAssumption, StorageAssumption

LEMMA PruneType ==
  ASSUME AccumulatorTypeOK, NEW path \in Paths
  PROVE  Live(path) \in Seq(Entry) /\ (Prune(path) => AccumulatorTypeOK')
<1>1. Live(path) \in Seq(Entry)
  BY AfterType DEF AccumulatorTypeOK, Live
<1> QED
  BY <1>1 DEF Prune, AccumulatorTypeOK

LEMMA RecordType ==
  ASSUME AccumulatorTypeOK, now \in Nat, NEW path \in Paths, NEW delta \in Deltas,
         Record(path, delta)
  PROVE  AccumulatorTypeOK'
<1> DEFINE e == [deltaS |-> delta, timestamp |-> now]
           more == Append(Live(path), e)
<1>1. e \in Entry
  BY DEF Entry
<1> HIDE DEF e
<1>2. more \in Seq(Entry)
  BY <1>1, PruneType
<1>3. entries' = [entries EXCEPT ![path] = more]
  BY DEF Record, e
<1> HIDE DEF more
<1> QED
  BY <1>2, <1>3 DEF AccumulatorTypeOK

LEMMA SignType ==
  ASSUME StorageTypeOK, NEW r \in ReceiptIds, NEW p \in Proposals,
         SignAndStoreReceipt(r, p.path, p.params, p.delta),
         UNCHANGED <<now, consumed, tokenVars, retracted, activePill>>
  PROVE  StorageTypeOK'
<1> DEFINE receipt == [path |-> p.path, params |-> p.params, delta |-> p.delta,
                       at |-> now, expires |-> now + ReceiptTtl]
<1>1. receipt \in Receipt
  BY ProposalType, StorageAssumption DEF Receipt, StorageTypeOK
<1>2. issued' = [issued EXCEPT ![r] = receipt]
  BY DEF SignAndStoreReceipt
<1> HIDE DEF receipt
<1>3. issued' \in [ReceiptIds -> Receipt \cup {NoReceipt}]
  BY <1>1, <1>2 DEF StorageTypeOK
<1>4. receipts' \subseteq ReceiptIds /\ UNCHANGED receiptsRevoked
  BY DEF SignAndStoreReceipt, StorageTypeOK
<1> QED
  BY <1>3, <1>4 DEF StorageTypeOK, tokenVars

LEMMA GrantType ==
  ASSUME StorageTypeOK, NEW t \in TokenIds, NEW req \in TokenRequests,
         SignAndStoreToken(t, req),
         UNCHANGED <<now, receiptVars, consumed, retracted, activePill>>
  PROVE  StorageTypeOK'
<1> DEFINE token == [path |-> req.path, scope |-> req.scope, maxSingle |-> req.maxSingle,
                     remaining |-> req.budget, expires |-> now + req.duration]
<1>1. token \in Token
  BY KernelAssumption DEF Token, TokenRequest, StorageTypeOK
<1>2. /\ granted' = [granted EXCEPT ![t] = token] /\ tokens' = [tokens EXCEPT ![t] = token]
      /\ UNCHANGED tokensRevoked
  BY DEF SignAndStoreToken
<1> HIDE DEF token
<1>3. granted' \in Tokens /\ tokens' \in Tokens
  BY <1>1, <1>2 DEF StorageTypeOK, Tokens
<1> QED
  BY <1>2, <1>3 DEF StorageTypeOK, receiptVars

LEMMA KernelStepType ==
  ASSUME StateOK, CallsOK, KernelStep
  PROVE  StateOK'
<1>1. /\ UNCHANGED pillVars
      /\ Reads \/ Prunes \/ Loses \/ Signs \/ Grants
      /\ UNCHANGED manifests \/ \E path \in Paths, m \in Manifests :
                                  manifests' = [manifests EXCEPT ![path] = m]
  BY KindsOfSteps
<1>2. manifests' \in [Paths -> Manifests \cup {NoManifest}]
  BY <1>1 DEF StateOK
<1>3. RetractionTypeOK'
  BY <1>1 DEF StateOK, RetractionTypeOK, pillVars
<1>4. ASSUME UNCHANGED storageVars PROVE StorageTypeOK'
  BY <1>4 DEF StateOK, StorageTypeOK, storageVars, receiptVars, tokenVars, Tokens
<1>5. CASE Reads
  BY <1>2, <1>3, <1>4, <1>5 DEF StateOK, Reads, AccumulatorTypeOK
<1>6. CASE Prunes
  BY <1>2, <1>3, <1>4, <1>6, PruneType DEF StateOK, Prunes
<1>7. ASSUME NEW p \in Proposals, Charges(p) PROVE AccumulatorTypeOK'
  BY <1>7, ProposalType, RecordType DEF StateOK, StorageTypeOK, Charges
<1>8. CASE Loses
  BY <1>2, <1>3, <1>4, <1>7, <1>8 DEF StateOK, Loses
<1>9. CASE Signs
  BY <1>2, <1>3, <1>7, <1>9, SignType DEF StateOK, Signs
<1>10. CASE Grants
  BY <1>2, <1>3, <1>10, GrantType DEF StateOK, Grants, AccumulatorTypeOK
<1> QED
  BY <1>1, <1>5, <1>6, <1>8, <1>9, <1>10

LEMMA TickType ==
  ASSUME StateOK, Tick, UNCHANGED <<pillVars, entries, manifests>>
  PROVE  StateOK'
BY DEF StateOK, Tick, StorageTypeOK, RetractionTypeOK, AccumulatorTypeOK, pillVars, receiptVars,
   tokenVars, Tokens

LEMMA RetractionType ==
  ASSUME StateOK, RetractionNext, UNCHANGED <<entries, manifests>>
  PROVE  StateOK'
<1>1. StorageTypeOK' /\ RetractionTypeOK'
  <2> USE DEF StateOK, StorageTypeOK, RetractionTypeOK, PillStages, Tokens, receiptVars,
              tokenVars, pillVars
  <2> USE PillAssumption
  <2>1. ASSUME NEW p \in Pills, RevokeTokens(p) PROVE StorageTypeOK' /\ RetractionTypeOK'
    BY <2>1 DEF RevokeTokens
  <2>2. ASSUME NEW p \in Pills, RevokeReceipts(p) PROVE StorageTypeOK' /\ RetractionTypeOK'
    BY <2>2 DEF RevokeReceipts
  <2>3. ASSUME NEW p \in Pills, StorePill(p) PROVE StorageTypeOK' /\ RetractionTypeOK'
    BY <2>3 DEF StorePill
  <2>4. CASE ClearLockdown
    BY <2>4 DEF ClearLockdown
  <2>5. ASSUME NEW path \in Paths, Retract(path) \/ Reinstate(path)
        PROVE  StorageTypeOK' /\ RetractionTypeOK'
    BY <2>5 DEF Retract, Reinstate
  <2> QED
    BY <2>1, <2>2, <2>3, <2>4, <2>5 DEF RetractionNext, BroadcastStep
<1> QED
  BY <1>1 DEF StateOK, AccumulatorTypeOK

LEMMA RestartType ==
  ASSUME StateOK, CallsOK, Restart
  PROVE  StateOK' /\ CallsOK'
<1>1. CallsOK'
  BY ForgetOK DEF Restart
<1>2. AccumulatorTypeOK'
  BY DEF Restart, AccumulatorTypeOK
<1>3. UNCHANGED <<storageVars, pillVars, manifests>>
  BY DEF Restart
<1>4. StorageTypeOK' /\ RetractionTypeOK' /\ manifests' \in [Paths -> Manifests \cup {NoManifest}]
  BY <1>3 DEF StateOK, StorageTypeOK, RetractionTypeOK, storageVars, receiptVars, tokenVars,
     pillVars, Tokens
<1> QED
  BY <1>1, <1>2, <1>4 DEF StateOK

LEMMA InitType ==
  ASSUME StorageInit, RetractionInit, AccumulatorInit, KernelInit
  PROVE  StateOK /\ CallsOK
<1>1. StorageTypeOK
  BY DEF StorageInit, StorageTypeOK, Tokens
<1>2. RetractionTypeOK
  BY DEF RetractionInit, RetractionTypeOK, PillStages
<1>3. AccumulatorTypeOK
  BY DEF AccumulatorInit, AccumulatorTypeOK
<1>4. CallsOK
  BY DEF KernelInit, CallsOK, RequestStages
<1>5. manifests \in [Paths -> Manifests \cup {NoManifest}]
  BY DEF KernelInit
<1> QED
  BY <1>1, <1>2, <1>3, <1>4, <1>5 DEF StateOK

\* The histories are typed with the rest.
HistoryOK == forgotten \subseteq ReceiptIds /\ objections \in [Requests -> SUBSET Objections]

LEMMA NextType ==
  ASSUME StateOK, CallsOK, HistoryOK, [Next]_vars
  PROVE  StateOK' /\ CallsOK' /\ HistoryOK'
<1>1. CASE UNCHANGED vars
  <2>1. UNCHANGED storageVars /\ UNCHANGED pillVars /\ UNCHANGED <<entries, manifests>>
        /\ UNCHANGED callVars /\ UNCHANGED <<forgotten, objections>>
    BY <1>1 DEF vars, kernelVars
  <2>2. StateOK'
    BY <2>1 DEF StateOK, StorageTypeOK, RetractionTypeOK, AccumulatorTypeOK, storageVars,
       receiptVars, tokenVars, pillVars, Tokens
  <2>3. CallsOK'
    BY <2>1 DEF CallsOK, callVars
  <2> QED
    BY <2>1, <2>2, <2>3 DEF HistoryOK
<1>2. CASE Next
  <2>1. objections' \in [Requests -> SUBSET Objections]
    BY <1>2 DEF Next, ObserveObjections, HistoryOK
  <2>2. forgotten' \subseteq ReceiptIds
    BY <1>2 DEF Next, Restart, HistoryOK
  <2>3. UNCHANGED callVars => CallsOK'
    BY DEF CallsOK, callVars
  <2>4. StateOK' /\ CallsOK'
    BY <1>2, <2>3, KernelStepOK, KernelStepType, TickType, RetractionType, RestartType
       DEF Next, kernelVars
  <2> QED
    BY <2>1, <2>2, <2>4 DEF HistoryOK
<1> QED
  BY <1>1, <1>2

LEMMA TypeInvariance == Spec => [](StateOK /\ CallsOK /\ HistoryOK)
<1>1. Init => StateOK /\ CallsOK /\ HistoryOK
  BY InitType DEF Init, KernelInit, HistoryOK
<1>2. StateOK /\ CallsOK /\ HistoryOK /\ [Next]_vars => (StateOK /\ CallsOK /\ HistoryOK)'
  BY NextType
<1> QED
  BY <1>1, <1>2, PTL DEF Spec

\* Every call, store and ledger of the kernel keeps its shape, and a call that
\* is over leaves no permissions to the next.
THEOREM KernelIsTyped == Spec => []TypeOK
<1>1. StateOK /\ CallsOK /\ HistoryOK => TypeOK
  BY DEF StateOK, CallsOK, HistoryOK, TypeOK, KernelTypeOK
<1> QED
  BY <1>1, TypeInvariance, PTL
-----------------------------------------------------------------------------
(***************************************************************************)
(* What the receipts weigh, and what the accumulator knows of them.        *)
(***************************************************************************)
Weight(issuance, receiptSet) ==
  SumOver([r \in receiptSet |-> issuance[r].delta], receiptSet)

LEMMA WeightType ==
  ASSUME NEW S, IsFiniteSet(S), NEW f, \A r \in S : f[r].delta \in Nat
  PROVE  Weight(f, S) \in Nat
BY SumType DEF Weight

LEMMA WeightEmpty ==
  ASSUME NEW f
  PROVE  Weight(f, {}) = 0
BY SumEmpty DEF Weight

LEMMA WeightAlike ==
  ASSUME NEW S, IsFiniteSet(S), NEW f, NEW g, \A r \in S : f[r] = g[r]
  PROVE  Weight(f, S) = Weight(g, S)
BY SumCongruent DEF Weight

LEMMA WeightApart ==
  ASSUME NEW f, NEW A, NEW B, IsFiniteSet(A), IsFiniteSet(B), A \cap B = {},
         \A r \in A \cup B : f[r].delta \in Nat
  PROVE  Weight(f, A \cup B) = Weight(f, A) + Weight(f, B)
<1> DEFINE h == [r \in A \cup B |-> f[r].delta]
           a == [r \in A |-> f[r].delta]
           b == [r \in B |-> f[r].delta]
<1>1. /\ \A r \in A : a[r] = h[r]
      /\ \A r \in B : b[r] = h[r]
      /\ \A r \in A \cup B : h[r] \in Nat
  OBVIOUS
<1>2. /\ Weight(f, A \cup B) = SumOver(h, A \cup B)
      /\ Weight(f, A) = SumOver(a, A) /\ Weight(f, B) = SumOver(b, B)
  BY DEF Weight
<1> HIDE DEF h, a, b
<1>3. SumOver(a, A) = SumOver(h, A) /\ SumOver(b, B) = SumOver(h, B)
  BY <1>1, SumCongruent
<1>4. SumOver(h, A \cup B) = SumOver(h, A) + SumOver(h, B)
  BY <1>1, SumApart
<1> QED
  BY <1>2, <1>3, <1>4

LEMMA WeightAdd ==
  ASSUME NEW f, NEW S, IsFiniteSet(S), NEW x, x \notin S, \A r \in S \cup {x} : f[r].delta \in Nat
  PROVE  Weight(f, S \cup {x}) = f[x].delta + Weight(f, S)
<1> DEFINE h == [r \in S \cup {x} |-> f[r].delta]
           a == [r \in S |-> f[r].delta]
<1>1. /\ \A r \in S : a[r] = h[r] /\ h[r] \in Nat
      /\ h[x] = f[x].delta /\ h[x] \in Nat
  OBVIOUS
<1>2. Weight(f, S \cup {x}) = SumOver(h, S \cup {x}) /\ Weight(f, S) = SumOver(a, S)
  BY DEF Weight
<1> HIDE DEF h, a
<1>3. SumOver(a, S) = SumOver(h, S)
  BY <1>1, SumCongruent
<1>4. SumOver(h, S \cup {x}) = h[x] + SumOver(h, S)
  BY <1>1, SumAdd
<1> QED
  BY <1>1, <1>2, <1>3, <1>4

Signed == {r \in ReceiptIds : Issued(r)}

\* The receipts of this life of the process for a path, signed after t.
Charged(path, t) ==
  {r \in Signed \ forgotten : issued[r].path = path /\ issued[r].at > t}

\* Finitely many receipts are signed, none ahead of the clock.
SigningOK ==
  /\ now <= MaxTime
  /\ IsFiniteSet(Signed) /\ forgotten \subseteq Signed
  /\ \A r \in Signed : issued[r].at <= now

\* Of what this life of the process signed, the accumulator has forgotten
\* nothing that a window to come may still have to count: pruning cuts no
\* deeper than the window, and a receipt is never signed without a record.
RecordedOK ==
  \A path \in Paths : \A t \in (now - Window) .. MaxTime :
    Weight(issued, Charged(path, t)) <= TotalOf(After(entries[path], t))

ChargeInv == SigningOK /\ RecordedOK

LEMMA EntriesType ==
  ASSUME StateOK, NEW path \in Paths, NEW t
  PROVE  /\ entries[path] \in Seq(Entry)
         /\ After(entries[path], t) \in Seq(Entry)
         /\ TotalOf(After(entries[path], t)) \in Nat
<1>1. entries[path] \in Seq(Entry)
  BY DEF StateOK, AccumulatorTypeOK
<1> QED
  BY <1>1, AfterType, TotalType

LEMMA SignedType ==
  ASSUME StateOK, KernelAssumption
  PROVE  \A r \in Signed : issued[r] \in Receipt /\ issued[r].delta \in Nat /\ issued[r].at \in Nat
<1>1. \A r \in Signed : issued[r] \in Receipt
  BY DEF StateOK, StorageTypeOK, Signed, Issued
<1> QED
  BY <1>1, StorageAssumption DEF Receipt

\* Pruning loses nothing a window to come counts.
LEMMA PruneKeeps ==
  ASSUME StateOK, NEW path \in Paths, Prune(path), NEW q \in Paths,
         NEW t \in Int, now - Window <= t
  PROVE  After(entries'[q], t) = After(entries[q], t)
<1>1. entries[q] \in Seq(Entry) /\ now - Window \in Int
  BY EntriesType, AccumulatorAssumption DEF StateOK, StorageTypeOK
<1>2. After(Live(q), t) = After(entries[q], t)
  BY <1>1, AfterAfter DEF Live
<1>3. entries'[q] = IF q = path THEN Live(q) ELSE entries[q]
  BY DEF Prune, StateOK, AccumulatorTypeOK
<1> QED
  BY <1>2, <1>3

\* Recording adds the magnitude to the windows that are to count it.
LEMMA RecordAdds ==
  ASSUME StateOK, NEW path \in Paths, NEW delta \in Deltas, Record(path, delta), NEW q \in Paths,
         NEW t \in Int, now - Window <= t
  PROVE  TotalOf(After(entries'[q], t))
           = IF q = path /\ now > t THEN delta + TotalOf(After(entries[q], t))
             ELSE TotalOf(After(entries[q], t))
<1> DEFINE e == [deltaS |-> delta, timestamp |-> now]
           live == Live(path)
<1>1. e \in Entry /\ e.timestamp = now /\ e.deltaS = delta
  BY DEF Entry, StateOK, StorageTypeOK
<1>2. entries[path] \in Seq(Entry) /\ live \in Seq(Entry) /\ now - Window \in Int
  <2>1. AccumulatorTypeOK /\ now \in Nat
    BY DEF StateOK, StorageTypeOK
  <2>2. Live(path) \in Seq(Entry)
    BY <2>1, PruneType
  <2> QED
    BY <2>1, <2>2, EntriesType, AccumulatorAssumption
<1>3. After(live, t) = After(entries[path], t)
  BY <1>2, AfterAfter DEF Live
<1>4. entries'[q] = IF q = path THEN Append(live, e) ELSE entries[q]
  BY DEF Record, StateOK, AccumulatorTypeOK
<1> HIDE DEF e, live
<1>5. After(Append(live, e), t) = IF now > t THEN Append(After(entries[path], t), e)
                                  ELSE After(entries[path], t)
  BY <1>1, <1>2, <1>3, AfterAppend
<1>6. TotalOf(Append(After(entries[path], t), e)) = delta + TotalOf(After(entries[path], t))
  BY <1>1, EntriesType, TotalAppend
<1> QED
  BY <1>4, <1>5, <1>6

\* A step that signs nothing and loses no entry a window is to count.
LEMMA StillRecorded ==
  ASSUME StateOK, StateOK', ChargeInv, UNCHANGED <<issued, forgotten>>,
         now <= now', now' <= MaxTime,
         \A path \in Paths : \A t \in (now' - Window) .. MaxTime :
           TotalOf(After(entries[path], t)) <= TotalOf(After(entries'[path], t))
  PROVE  ChargeInv'
<1>1. now \in Nat /\ now' \in Nat /\ Window \in Nat /\ MaxTime \in Nat
  BY AccumulatorAssumption, StorageAssumption DEF StateOK, StorageTypeOK
<1>2. Signed' = Signed
  BY DEF Signed, Issued
<1>3. SigningOK'
  <2>1. \A r \in Signed : issued[r].at <= now'
    BY <1>1, SignedType, KernelAssumption DEF ChargeInv, SigningOK
  <2> QED
    BY <1>2, <2>1 DEF ChargeInv, SigningOK
<1>4. ASSUME NEW path \in Paths, NEW t \in (now' - Window) .. MaxTime
      PROVE  Weight(issued, Charged(path, t))' <= TotalOf(After(entries[path], t))'
  <2>1. t \in (now - Window) .. MaxTime
    <3>1. \A a, b, w, m \in Nat : a <= b => (b - w) .. m \subseteq (a - w) .. m
      OBVIOUS
    <3> QED
      BY <1>1, <3>1
  <2>2. Weight(issued, Charged(path, t)) <= TotalOf(After(entries[path], t))
    BY <2>1 DEF ChargeInv, RecordedOK
  <2>3. Charged(path, t)' = Charged(path, t)
    BY <1>2 DEF Charged
  <2>4. Weight(issued, Charged(path, t))' = Weight(issued, Charged(path, t))
    BY <2>3 DEF Weight
  <2>5. TotalOf(After(entries[path], t)) <= TotalOf(After(entries'[path], t))
    OBVIOUS
  <2>6. /\ TotalOf(After(entries[path], t)) \in Nat
        /\ TotalOf(After(entries'[path], t)) \in Nat
    <3>1. entries'[path] \in Seq(Entry)
      BY DEF StateOK, AccumulatorTypeOK
    <3> QED
      BY <3>1, EntriesType, AfterType, TotalType
  <2>7. Weight(issued, Charged(path, t)) \in Nat
    <3>1. IsFiniteSet(Charged(path, t))
      BY FS_Subset DEF ChargeInv, SigningOK, Charged
    <3> QED
      BY <3>1, WeightType, SignedType, KernelAssumption DEF Charged
  <2>8. TotalOf(After(entries[path], t))' = TotalOf(After(entries'[path], t))
    OBVIOUS
  <2> HIDE DEF Weight
  <2> QED
    BY <2>2, <2>4, <2>5, <2>6, <2>7, <2>8
<1> QED
  BY <1>3, <1>4 DEF ChargeInv, RecordedOK

LEMMA WindowStarts ==
  ASSUME StateOK
  PROVE  /\ now \in Nat /\ Window \in Nat /\ MaxTime \in Nat
         /\ \A t \in (now - Window) .. MaxTime : t \in Int /\ now - Window <= t
<1>1. now \in Nat /\ Window \in Nat /\ MaxTime \in Nat
  BY AccumulatorAssumption, StorageAssumption DEF StateOK, StorageTypeOK
<1> QED
  BY <1>1

\* The receipt a signing step signs.
SignedFor(p) ==
  [path |-> p.path, params |-> p.params, delta |-> p.delta,
   at |-> now, expires |-> now + ReceiptTtl]

LEMMA SigningStep ==
  ASSUME StateOK, ChargeInv, NEW p \in Proposals, NEW r \in ReceiptIds,
         SignAndStoreReceipt(r, p.path, p.params, p.delta), UNCHANGED now
  PROVE  /\ r \notin Signed /\ Signed' = Signed \cup {r} /\ SignedFor(p) \in Receipt
         /\ issued' = [issued EXCEPT ![r] = SignedFor(p)]
         /\ issued'[r] = SignedFor(p)
         /\ \A q \in Signed : issued'[q] = issued[q]
<1> DEFINE receipt == SignedFor(p)
<1>1. receipt \in Receipt
  BY ProposalType, StorageAssumption DEF Receipt, SignedFor, StateOK, StorageTypeOK
<1>2. issued' = [issued EXCEPT ![r] = receipt] /\ r \notin Signed
  BY DEF SignAndStoreReceipt, SignedFor, Signed
<1> HIDE DEF receipt
<1>3. issued \in [ReceiptIds -> Receipt \cup {NoReceipt}] /\ receipt # NoReceipt
  BY <1>1, KernelAssumption DEF StateOK, StorageTypeOK
<1>4. issued'[r] = receipt /\ \A q \in ReceiptIds \ {r} : issued'[q] = issued[q]
  BY <1>2, <1>3
<1>5. Signed' = Signed \cup {r} /\ \A q \in Signed : issued'[q] = issued[q]
  BY <1>2, <1>3, <1>4 DEF Signed, Issued
<1> QED
  BY <1>1, <1>2, <1>4, <1>5 DEF receipt

\* A signed receipt joins the windows that begin before it.
LEMMA SigningCharges ==
  ASSUME StateOK, ChargeInv, NEW p \in Proposals, NEW r \in ReceiptIds,
         SignAndStoreReceipt(r, p.path, p.params, p.delta), UNCHANGED <<now, forgotten>>,
         NEW path, NEW t
  PROVE  /\ IsFiniteSet(Charged(path, t)) /\ r \notin Charged(path, t)
         /\ Charged(path, t)' = IF path = p.path /\ now > t THEN Charged(path, t) \cup {r}
                                ELSE Charged(path, t)
         /\ Weight(issued', Charged(path, t)')
              = IF path = p.path /\ now > t THEN p.delta + Weight(issued, Charged(path, t))
                ELSE Weight(issued, Charged(path, t))
<1>1. /\ r \notin Signed /\ Signed' = Signed \cup {r} /\ SignedFor(p) \in Receipt
      /\ issued'[r] = SignedFor(p)
      /\ \A q \in Signed : issued'[q] = issued[q]
  BY SigningStep
<1>2. issued'[r].path = p.path /\ issued'[r].at = now /\ issued'[r].delta = p.delta
  BY <1>1 DEF SignedFor
<1>3. r \notin forgotten' /\ forgotten' = forgotten
  BY <1>1 DEF ChargeInv, SigningOK
<1> DEFINE C == Charged(path, t)
<1>4. IsFiniteSet(C) /\ r \notin C /\ C \subseteq Signed
  BY <1>1, FS_Subset DEF ChargeInv, SigningOK, Charged
<1>5. Charged(path, t)' = IF path = p.path /\ now > t THEN C \cup {r} ELSE C
  BY <1>1, <1>2, <1>3 DEF Charged
<1> HIDE DEF C
<1>6. \A q \in C : issued'[q] = issued[q] /\ issued[q].delta \in Nat
  BY <1>1, <1>4, SignedType, KernelAssumption
<1>7. Weight(issued', C) = Weight(issued, C)
  BY <1>4, <1>6, WeightAlike
<1>8. Weight(issued', C \cup {r}) = p.delta + Weight(issued', C)
  <2>1. \A q \in C \cup {r} : issued'[q].delta \in Nat
    BY <1>2, <1>6, ProposalType
  <2> QED
    BY <1>2, <1>4, <2>1, WeightAdd
<1> QED
  BY <1>4, <1>5, <1>7, <1>8 DEF C

LEMMA SignsRecorded ==
  ASSUME StateOK, StateOK', ChargeInv, Signs, UNCHANGED forgotten
  PROVE  ChargeInv'
<1>1. PICK p \in Proposals, r \in ReceiptIds :
        /\ Record(p.path, p.delta)
        /\ SignAndStoreReceipt(r, p.path, p.params, p.delta)
        /\ UNCHANGED now
  BY DEF Signs, Charges
<1>2. SigningOK'
  <2>1. /\ Signed' = Signed \cup {r} /\ issued'[r] = SignedFor(p)
        /\ \A q \in Signed : issued'[q] = issued[q]
    BY <1>1, SigningStep
  <2>2. IsFiniteSet(Signed')
    BY <2>1, FS_AddElement DEF ChargeInv, SigningOK
  <2>3. now \in Nat
    BY WindowStarts
  <2> QED
    BY <1>1, <2>1, <2>2, <2>3 DEF ChargeInv, SigningOK, SignedFor
<1>3. ASSUME NEW path \in Paths, NEW t \in (now' - Window) .. MaxTime
      PROVE  Weight(issued, Charged(path, t))' <= TotalOf(After(entries[path], t))'
  <2>1. t \in Int /\ now - Window <= t
    BY <1>1, WindowStarts
  <2>2. Weight(issued, Charged(path, t)) <= TotalOf(After(entries[path], t))
    BY <1>1 DEF ChargeInv, RecordedOK
  <2>3. Weight(issued', Charged(path, t)')
          = IF path = p.path /\ now > t THEN p.delta + Weight(issued, Charged(path, t))
            ELSE Weight(issued, Charged(path, t))
    BY <1>1, SigningCharges
  <2>4. TotalOf(After(entries'[path], t))
          = IF path = p.path /\ now > t THEN p.delta + TotalOf(After(entries[path], t))
            ELSE TotalOf(After(entries[path], t))
    BY <1>1, <2>1, ProposalType, RecordAdds
  <2>5. /\ p.delta \in Nat /\ TotalOf(After(entries[path], t)) \in Nat
        /\ Weight(issued, Charged(path, t)) \in Nat
    <3>1. IsFiniteSet(Charged(path, t))
      BY <1>1, SigningCharges
    <3> QED
      BY <3>1, ProposalType, EntriesType, WeightType, SignedType, KernelAssumption DEF Charged
  <2> QED
    BY <2>2, <2>3, <2>4, <2>5
<1> QED
  BY <1>2, <1>3 DEF ChargeInv, RecordedOK

LEMMA KernelStepRecorded ==
  ASSUME StateOK, CallsOK, ChargeInv, KernelStep, UNCHANGED forgotten
  PROVE  ChargeInv'
<1>0. StateOK'
  BY KernelStepType
<1>1. Reads \/ Prunes \/ Loses \/ Signs \/ Grants
  BY KindsOfSteps
<1>2. now <= MaxTime /\ now \in Nat
  BY WindowStarts DEF ChargeInv, SigningOK
<1>3. ASSUME UNCHANGED <<now, issued, entries>> PROVE ChargeInv'
  <2>1. ASSUME NEW path \in Paths, NEW t \in (now' - Window) .. MaxTime
        PROVE  TotalOf(After(entries[path], t)) <= TotalOf(After(entries'[path], t))
    <3>1. TotalOf(After(entries[path], t)) \in Nat
      BY EntriesType
    <3>2. TotalOf(After(entries'[path], t)) = TotalOf(After(entries[path], t))
      BY <1>3
    <3> QED
      BY <3>1, <3>2
  <2> QED
    BY <1>0, <1>2, <1>3, <2>1, StillRecorded
<1>4. CASE Prunes
  <2>1. PICK path \in Paths : Prune(path) /\ UNCHANGED <<now, issued>>
    BY <1>4 DEF Prunes, storageVars, receiptVars
  <2>2. ASSUME NEW q \in Paths, NEW t \in (now' - Window) .. MaxTime
        PROVE  TotalOf(After(entries[q], t)) <= TotalOf(After(entries'[q], t))
    <3>1. t \in Int /\ now - Window <= t
      BY <2>1, WindowStarts
    <3>2. After(entries'[q], t) = After(entries[q], t)
      BY <2>1, <3>1, PruneKeeps
    <3>3. TotalOf(After(entries[q], t)) \in Nat
      BY EntriesType
    <3>4. TotalOf(After(entries'[q], t)) = TotalOf(After(entries[q], t))
      BY <3>2
    <3> QED
      BY <3>3, <3>4
  <2> QED
    BY <1>0, <1>2, <2>1, <2>2, StillRecorded
<1>5. CASE Loses
  <2>1. PICK p \in Proposals : Record(p.path, p.delta) /\ UNCHANGED <<now, issued>>
    BY <1>5 DEF Loses, Charges, storageVars, receiptVars
  <2>2. ASSUME NEW q \in Paths, NEW t \in (now' - Window) .. MaxTime
        PROVE  TotalOf(After(entries[q], t)) <= TotalOf(After(entries'[q], t))
    <3>1. TotalOf(After(entries'[q], t))
            = IF q = p.path /\ now > t THEN p.delta + TotalOf(After(entries[q], t))
              ELSE TotalOf(After(entries[q], t))
      <4>1. t \in Int /\ now - Window <= t
        BY <2>1, WindowStarts
      <4>2. p.path \in Paths /\ p.delta \in Deltas
        BY <2>1, ProposalType
      <4> QED
        BY <2>1, <4>1, <4>2, RecordAdds
    <3>2. p.delta \in Nat /\ TotalOf(After(entries[q], t)) \in Nat
      BY <2>1, ProposalType, EntriesType
    <3> QED
      BY <3>1, <3>2
  <2> QED
    BY <1>0, <1>2, <2>1, <2>2, StillRecorded
<1> QED
  BY <1>0, <1>1, <1>3, <1>4, <1>5, SignsRecorded DEF Reads, Grants, storageVars, receiptVars

LEMMA TickRecorded ==
  ASSUME StateOK, ChargeInv, Tick, UNCHANGED <<pillVars, entries, manifests, forgotten>>
  PROVE  ChargeInv'
<1>1. StateOK'
  BY TickType
<1>2. now <= now' /\ now' <= MaxTime /\ UNCHANGED issued
  BY WindowStarts DEF Tick, receiptVars
<1>3. ASSUME NEW path \in Paths, NEW t \in (now' - Window) .. MaxTime
      PROVE  TotalOf(After(entries[path], t)) <= TotalOf(After(entries'[path], t))
  BY EntriesType
<1> QED
  BY <1>1, <1>2, <1>3, StillRecorded

LEMMA RetractionRecorded ==
  ASSUME StateOK, ChargeInv, RetractionNext, UNCHANGED <<entries, manifests, forgotten>>
  PROVE  ChargeInv'
<1>1. StateOK'
  BY RetractionType
<1>2. UNCHANGED <<now, issued>>
  BY DEF RetractionNext, BroadcastStep, RevokeTokens, RevokeReceipts, StorePill, ClearLockdown,
     Retract, Reinstate, receiptVars
<1>3. now <= now' /\ now' <= MaxTime
  BY <1>2, WindowStarts DEF ChargeInv, SigningOK
<1>4. ASSUME NEW path \in Paths, NEW t \in (now' - Window) .. MaxTime
      PROVE  TotalOf(After(entries[path], t)) <= TotalOf(After(entries'[path], t))
  BY EntriesType
<1> QED
  BY <1>1, <1>2, <1>3, <1>4, StillRecorded

\* A restart forgets the entries, and what they were kept for.
LEMMA RestartRecorded ==
  ASSUME StateOK, CallsOK, ChargeInv, Restart
  PROVE  ChargeInv'
<1>1. /\ UNCHANGED <<now, issued>> /\ forgotten' = Signed
      /\ \A path \in Paths : entries'[path] = <<>>
  BY DEF Restart, storageVars, receiptVars, Signed
<1>2. Signed' = Signed
  BY <1>1 DEF Signed, Issued
<1>3. ASSUME NEW path \in Paths, NEW t
      PROVE  Weight(issued, Charged(path, t))' <= TotalOf(After(entries[path], t))'
  <2>1. Charged(path, t)' = {}
    BY <1>1, <1>2 DEF Charged
  <2>2. Weight(issued', Charged(path, t)') = 0
    BY <2>1, WeightEmpty
  <2>3. TotalOf(After(entries'[path], t)) \in Nat
    <3>1. <<>> \in Seq(Entry)
      OBVIOUS
    <3> QED
      BY <1>1, <3>1, AfterType, TotalType
  <2> QED
    BY <2>2, <2>3
<1> QED
  BY <1>1, <1>2, <1>3 DEF ChargeInv, SigningOK, RecordedOK

LEMMA InitRecorded ==
  ASSUME StateOK, StorageInit, AccumulatorInit, forgotten = {}
  PROVE  ChargeInv
<1>1. Signed = {} /\ now = 0 /\ now <= MaxTime
  BY WindowStarts DEF StorageInit, Signed, Issued
<1>2. ASSUME NEW path \in Paths, NEW t
      PROVE  Weight(issued, Charged(path, t)) <= TotalOf(After(entries[path], t))
  <2>1. Charged(path, t) = {}
    BY <1>1 DEF Charged
  <2>2. Weight(issued, Charged(path, t)) = 0
    BY <2>1, WeightEmpty
  <2>3. TotalOf(After(entries[path], t)) \in Nat
    BY EntriesType
  <2> QED
    BY <2>2, <2>3
<1> QED
  BY <1>1, <1>2, FS_EmptySet DEF ChargeInv, SigningOK, RecordedOK
-----------------------------------------------------------------------------
(***************************************************************************)
(* The kernel implements the window ledger.                                *)
(***************************************************************************)
total ==
  [path \in Paths |-> [t \in 0 .. MaxTime |-> Exposure(IssuedFor(path, t) \ forgotten)]]

L == INSTANCE WindowLedgerProofs

\* What this life of the process has signed for a path up to an instant.
Counted(path, t) == IssuedFor(path, t) \ forgotten

LEMMA TotalIs ==
  ASSUME NEW path \in Paths, NEW t \in 0 .. MaxTime
  PROVE  total[path][t] = Weight(issued, Counted(path, t))
BY DEF total, Exposure, Weight, Counted

LEMMA CountedType ==
  ASSUME StateOK, ChargeInv, NEW path, NEW t
  PROVE  /\ IsFiniteSet(Counted(path, t)) /\ Counted(path, t) \subseteq Signed
         /\ \A r \in Counted(path, t) : issued[r].delta \in Nat
         /\ Weight(issued, Counted(path, t)) \in Nat
<1>1. Counted(path, t) \subseteq Signed
  BY DEF Counted, IssuedFor, Signed
<1>2. IsFiniteSet(Counted(path, t))
  BY <1>1, FS_Subset DEF ChargeInv, SigningOK
<1>3. \A r \in Counted(path, t) : issued[r].delta \in Nat
  BY <1>1, SignedType, KernelAssumption
<1> QED
  BY <1>1, <1>2, <1>3, WeightType

\* What the ledger counts in the window that ends now.
LEMMA WindowNow ==
  ASSUME StateOK, ChargeInv, NEW path \in Paths
  PROVE  L!InWindow(path, now) = Weight(issued, Charged(path, now - Window))
<1> DEFINE since == now - Window
           A == Counted(path, since)
           B == Charged(path, since)
<1>1. now \in Nat /\ since \in Int /\ since <= now /\ now \in 0 .. MaxTime
  BY WindowStarts DEF ChargeInv, SigningOK
<1>2. \A r \in Signed : issued[r].at \in Nat /\ issued[r].at <= now
  BY SignedType, KernelAssumption DEF ChargeInv, SigningOK
<1>3. Counted(path, now) = A \cup B
  BY <1>1, <1>2 DEF Counted, IssuedFor, Charged, Signed
<1>4. A \cap B = {}
  BY <1>1, <1>2 DEF Counted, IssuedFor, Charged, Signed
<1>5. IsFiniteSet(A) /\ IsFiniteSet(B) /\ \A r \in A \cup B : issued[r].delta \in Nat
  BY <1>3, CountedType, FS_Subset
<1>6. Weight(issued, Counted(path, now)) = Weight(issued, A) + Weight(issued, B)
  <2> HIDE DEF A, B
  <2> QED
    BY <1>3, <1>4, <1>5, WeightApart
<1>7. L!UpTo(path, now) = Weight(issued, Counted(path, now))
  BY <1>1, TotalIs DEF L!UpTo
<1>8. L!UpTo(path, since) = Weight(issued, A)
  <2>1. CASE since < 0
    <3>1. A = {}
      BY <1>1, <1>2, <2>1 DEF Counted, IssuedFor, Signed
    <3> QED
      BY <2>1, <3>1, WeightEmpty DEF L!UpTo
  <2>2. CASE ~(since < 0)
    <3>1. since \in 0 .. MaxTime
      <4>1. \A a, w, m \in Nat : a <= m /\ ~(a - w < 0) => a - w \in 0 .. m
        OBVIOUS
      <4>2. now \in Nat /\ Window \in Nat /\ MaxTime \in Nat /\ now <= MaxTime
        BY WindowStarts DEF ChargeInv, SigningOK
      <4> QED
        BY <2>2, <4>1, <4>2
    <3> HIDE DEF since
    <3> QED
      BY <2>2, <3>1, TotalIs DEF L!UpTo
  <2> QED
    BY <2>1, <2>2
<1>9. Weight(issued, A) \in Nat /\ Weight(issued, B) \in Nat
  BY <1>5, CountedType, WeightType
<1>10. L!InWindow(path, now) = L!UpTo(path, now) - L!UpTo(path, since)
  BY DEF L!InWindow
<1> HIDE DEF since, A, B
<1> QED
  BY <1>6, <1>7, <1>8, <1>9, <1>10 DEF since, B

LEMMA LedgerStands ==
  ASSUME UNCHANGED <<issued, forgotten>>
  PROVE  UNCHANGED total
BY DEF total, Exposure, IssuedFor, Issued

\* Signing is authorising: the check before it counted at least as much as the
\* ledger does.
LEMMA LedgerSigns ==
  ASSUME StateOK, ChargeInv, Signs, UNCHANGED forgotten
  PROVE  \E e \in Paths, d \in Deltas : L!Authorize(e, d)
<1>1. PICK p \in Proposals, r \in ReceiptIds :
        /\ WithinThreshold(p.path, p.delta)
        /\ SignAndStoreReceipt(r, p.path, p.params, p.delta)
        /\ UNCHANGED now
  BY DEF Signs, Charges
<1>2. p.path \in Paths /\ p.delta \in Deltas /\ p.delta \in Nat
  BY ProposalType
<1>3. L!InWindow(p.path, now) + p.delta <= Omega[p.path]
  <2> DEFINE w == Weight(issued, Charged(p.path, now - Window))
             v == TotalOf(After(entries[p.path], now - Window))
  <2>1. w <= v
    <3>1. now - Window \in (now - Window) .. MaxTime
      <4>1. \A a, b, m \in Nat : a <= m => a - b \in (a - b) .. m
        OBVIOUS
      <4>2. now \in Nat /\ Window \in Nat /\ MaxTime \in Nat /\ now <= MaxTime
        BY WindowStarts DEF ChargeInv, SigningOK
      <4> QED
        BY <4>1, <4>2
    <3> QED
      BY <1>2, <3>1 DEF ChargeInv, RecordedOK
  <2>2. v \in Nat
    BY <1>2, EntriesType
  <2>3. w \in Nat
    <3>1. IsFiniteSet(Charged(p.path, now - Window))
      BY FS_Subset DEF ChargeInv, SigningOK, Charged
    <3> QED
      BY <3>1, WeightType, SignedType, KernelAssumption DEF Charged
  <2>4. v + p.delta <= Omega[p.path]
    BY <1>1 DEF WithinThreshold, CurrentValue, Live
  <2>5. L!InWindow(p.path, now) = w /\ Omega[p.path] \in Nat
    BY <1>2, WindowNow, AccumulatorAssumption
  <2> HIDE DEF w, v
  <2> QED
    BY <1>2, <2>1, <2>2, <2>3, <2>4, <2>5
<1>4. ASSUME NEW path \in Paths, NEW t \in 0 .. MaxTime
      PROVE  total'[path][t] = IF path = p.path /\ t >= now THEN total[path][t] + p.delta
                               ELSE total[path][t]
  <2> DEFINE C == Counted(path, t)
  <2>1. /\ r \notin Signed /\ Signed' = Signed \cup {r} /\ issued'[r] = SignedFor(p)
        /\ \A q \in Signed : issued'[q] = issued[q]
    BY <1>1, SigningStep
  <2>2. issued'[r].path = p.path /\ issued'[r].at = now /\ issued'[r].delta = p.delta
    BY <2>1 DEF SignedFor
  <2>3. r \notin forgotten' /\ forgotten' = forgotten /\ now \in Nat /\ t \in Nat
    BY <2>1, WindowStarts DEF ChargeInv, SigningOK
  <2>4. /\ IsFiniteSet(C) /\ C \subseteq Signed /\ \A q \in C : issued[q].delta \in Nat
        /\ Weight(issued, C) \in Nat /\ r \notin C
    BY <2>1, CountedType
  <2>5. Counted(path, t)' = IF path = p.path /\ t >= now THEN C \cup {r} ELSE C
    BY <2>1, <2>2, <2>3 DEF Counted, IssuedFor, Signed
  <2>6. total'[path][t] = Weight(issued', Counted(path, t)')
    BY DEF total, Exposure, Weight, Counted
  <2>7. total[path][t] = Weight(issued, C)
    BY TotalIs
  <2> HIDE DEF C
  <2>8. Weight(issued', C) = Weight(issued, C)
    BY <2>1, <2>4, WeightAlike
  <2>9. Weight(issued', C \cup {r}) = p.delta + Weight(issued', C)
    <3>1. \A q \in C \cup {r} : issued'[q].delta \in Nat
      BY <1>2, <2>1, <2>2, <2>4
    <3> QED
      BY <2>2, <2>4, <3>1, WeightAdd
  <2> QED
    BY <1>2, <2>4, <2>5, <2>6, <2>7, <2>8, <2>9
<1>5. total' = [total EXCEPT ![p.path] =
                  [t \in 0 .. MaxTime |-> IF t >= now THEN total[p.path][t] + p.delta
                                          ELSE total[p.path][t]]]
  <2> DEFINE row == [t \in 0 .. MaxTime |-> IF t >= now THEN total[p.path][t] + p.delta
                                            ELSE total[p.path][t]]
  <2>1. /\ total = [path \in Paths |-> total[path]] /\ total' = [path \in Paths |-> total'[path]]
        /\ \A path \in Paths : /\ total[path] = [t \in 0 .. MaxTime |-> total[path][t]]
                               /\ total'[path] = [t \in 0 .. MaxTime |-> total'[path][t]]
    BY DEF total
  <2>2. total'[p.path] = row
    <3>1. \A t \in 0 .. MaxTime : total'[p.path][t] = IF t >= now THEN total[p.path][t] + p.delta
                                                      ELSE total[p.path][t]
      BY <1>2, <1>4
    <3>2. total'[p.path] = [t \in 0 .. MaxTime |-> total'[p.path][t]]
      BY <1>2, <2>1
    <3> QED
      BY <3>1, <3>2
  <2>3. ASSUME NEW path \in Paths \ {p.path} PROVE total'[path] = total[path]
    <3>1. \A t \in 0 .. MaxTime : total'[path][t] = total[path][t]
      BY <1>4, <2>3
    <3> QED
      BY <2>1, <3>1
  <2> HIDE DEF row
  <2>4. total' = [total EXCEPT ![p.path] = row]
    BY <1>2, <2>1, <2>2, <2>3
  <2> QED
    BY <2>4 DEF row
<1>6. L!Authorize(p.path, p.delta)
  BY <1>1, <1>3, <1>5 DEF L!Authorize, L!Times
<1> QED
  BY <1>2, <1>6

LEMMA LedgerTicks ==
  ASSUME Tick, UNCHANGED forgotten
  PROVE  L!Advance
BY LedgerStands DEF Tick, receiptVars, L!Advance

LEMMA LedgerRestarts ==
  ASSUME Restart
  PROVE  L!StartAnew
<1>1. issued' = issued /\ forgotten' = Signed /\ UNCHANGED now /\ Restarts
  BY DEF Restart, storageVars, receiptVars, Signed
<1>2. \A path, t : Counted(path, t)' = {}
  BY <1>1 DEF Counted, IssuedFor, Signed, Issued
<1>3. ASSUME NEW path \in Paths, NEW t \in 0 .. MaxTime
      PROVE  total'[path][t] = 0
  <2>1. total'[path][t] = Weight(issued', Counted(path, t)')
    BY DEF total, Exposure, Weight, Counted
  <2> QED
    BY <1>2, <2>1, WeightEmpty
<1>4. total' = [path \in Paths |-> [t \in 0 .. MaxTime |-> total'[path][t]]]
  BY DEF total
<1>5. total' = [path \in Paths |-> [t \in 0 .. MaxTime |-> 0]]
  BY <1>3, <1>4
<1> QED
  BY <1>1, <1>5 DEF L!StartAnew, L!NothingAuthorized, L!Times

LEMMA LedgerInitially ==
  ASSUME StorageInit, forgotten = {}
  PROVE  L!LedgerInit
<1>1. now = 0 /\ \A path, t : Counted(path, t) = {}
  BY DEF StorageInit, Counted, IssuedFor, Issued
<1>2. ASSUME NEW path \in Paths, NEW t \in 0 .. MaxTime
      PROVE  total[path][t] = 0
  BY <1>1, TotalIs, WeightEmpty
<1>3. total = [path \in Paths |-> [t \in 0 .. MaxTime |-> total[path][t]]]
  BY DEF total
<1>4. total = [path \in Paths |-> [t \in 0 .. MaxTime |-> 0]]
  BY <1>2, <1>3
<1> QED
  BY <1>1, <1>4 DEF L!LedgerInit, L!NothingAuthorized, L!Times

\* The invariant of the kernel, and how its steps move the ledger.
CoreInv == StateOK /\ CallsOK /\ ChargeInv

LedgerMove == [L!LedgerNext]_(L!ledgerVars)

\* Steps that touch none of what the invariant relates; the gate may consume.
LEMMA CoreStands ==
  ASSUME CoreInv, consumed' \subseteq ReceiptIds,
         UNCHANGED <<now, receiptVars, tokenVars, retracted, activePill>>,
         UNCHANGED pillVars, UNCHANGED <<entries, manifests>>, UNCHANGED callVars,
         UNCHANGED forgotten
  PROVE  CoreInv' /\ LedgerMove
<1> USE DEF CoreInv
<1>1. StateOK' /\ CallsOK'
  BY DEF StateOK, StorageTypeOK, RetractionTypeOK, AccumulatorTypeOK, receiptVars, tokenVars,
     pillVars, Tokens, CallsOK, callVars
<1>2. UNCHANGED <<now, issued, forgotten>>
  BY DEF receiptVars
<1>3. ASSUME NEW path \in Paths, NEW t \in (now' - Window) .. MaxTime
      PROVE  TotalOf(After(entries[path], t)) <= TotalOf(After(entries'[path], t))
  BY EntriesType
<1>4. now <= now' /\ now' <= MaxTime
  BY <1>2, WindowStarts DEF ChargeInv, SigningOK
<1>5. ChargeInv'
  BY <1>1, <1>2, <1>3, <1>4, StillRecorded
<1> QED
  BY <1>1, <1>2, <1>5, LedgerStands DEF LedgerMove, L!ledgerVars

\* Every step of the kernel is a step of the ledger, or none.
LEMMA CoreKernelStep ==
  ASSUME CoreInv, KernelStep, UNCHANGED forgotten
  PROVE  CoreInv' /\ LedgerMove
<1> USE DEF CoreInv, LedgerMove
<1>1. CoreInv'
  BY KernelStepOK, KernelStepType, KernelStepRecorded
<1>2. CASE UNCHANGED <<now, issued>>
  BY <1>1, <1>2, LedgerStands DEF L!ledgerVars
<1>3. CASE Signs
  BY <1>1, <1>3, LedgerSigns DEF L!LedgerNext
<1>4. Reads \/ Prunes \/ Loses \/ Grants => UNCHANGED <<now, issued>>
  BY DEF Reads, Prunes, Loses, Grants, storageVars, receiptVars
<1> QED
  BY <1>2, <1>3, <1>4, KindsOfSteps

LEMMA CoreTick ==
  ASSUME CoreInv, Tick, UNCHANGED pillVars, UNCHANGED <<entries, manifests>>,
         UNCHANGED callVars, UNCHANGED forgotten
  PROVE  CoreInv' /\ LedgerMove
<1>1. StateOK' /\ ChargeInv'
  BY TickType, TickRecorded DEF CoreInv
<1>2. CallsOK'
  BY DEF CoreInv, CallsOK, callVars
<1>3. L!Advance
  BY LedgerTicks
<1> QED
  BY <1>1, <1>2, <1>3 DEF CoreInv, LedgerMove, L!LedgerNext

LEMMA CoreRetraction ==
  ASSUME CoreInv, RetractionNext, UNCHANGED <<entries, manifests>>,
         UNCHANGED callVars, UNCHANGED forgotten
  PROVE  CoreInv' /\ LedgerMove
<1>1. StateOK' /\ ChargeInv'
  BY RetractionType, RetractionRecorded DEF CoreInv
<1>2. CallsOK'
  BY DEF CoreInv, CallsOK, callVars
<1>3. UNCHANGED <<now, issued>>
  BY DEF RetractionNext, BroadcastStep, RevokeTokens, RevokeReceipts, StorePill,
     ClearLockdown, Retract, Reinstate, receiptVars
<1> QED
  BY <1>1, <1>2, <1>3, LedgerStands DEF CoreInv, LedgerMove, L!ledgerVars

LEMMA CoreInitially ==
  ASSUME StorageInit, RetractionInit, AccumulatorInit, KernelInit
  PROVE  CoreInv /\ L!LedgerInit
<1>1. StateOK /\ CallsOK
  BY InitType
<1> QED
  BY <1>1, InitRecorded, LedgerInitially DEF CoreInv, KernelInit

LEMMA LedgerHasConstants == L!LedgerConstants
BY AccumulatorAssumption, StorageAssumption DEF L!LedgerConstants

\* What the ledger's own proof says of its states holds in the kernel's.
LedgerOK == L!LedgerInv

LEMMA LedgerBegins ==
  ASSUME L!LedgerInit
  PROVE  LedgerOK
BY LedgerHasConstants, L!LedgerInitInv DEF LedgerOK

LEMMA LedgerKept ==
  ASSUME LedgerOK, LedgerMove
  PROVE  LedgerOK'
BY LedgerHasConstants, L!LedgerStepInv DEF LedgerOK, LedgerMove

LEMMA CoreBegins ==
  ASSUME StorageInit, RetractionInit, AccumulatorInit, KernelInit
  PROVE  CoreInv /\ LedgerOK
BY CoreInitially, LedgerBegins

\* The receipts of a window weigh no more than the threshold.
LEMMA WindowWeighs ==
  ASSUME CoreInv, LedgerOK, NEW path \in Paths, NEW t \in 0 .. MaxTime
  PROVE  Weight(issued, Counted(path, t) \ Counted(path, t - Window)) <= Omega[path]
<1> DEFINE A == Counted(path, t - Window)
           B == Counted(path, t)
<1>0. StateOK /\ ChargeInv /\ t \in Nat /\ Window \in Nat /\ t - Window <= t
  BY WindowStarts DEF CoreInv
<1>1. /\ IsFiniteSet(A) /\ IsFiniteSet(B) /\ \A r \in A \cup B : issued[r].delta \in Nat
      /\ Weight(issued, A) \in Nat /\ Weight(issued, B) \in Nat
      /\ B \subseteq Signed
  BY <1>0, CountedType
<1>2. A \subseteq B
  <2>1. \A r \in Signed : issued[r].at \in Nat
    BY <1>0, SignedType, KernelAssumption
  <2> QED
    BY <1>0, <2>1 DEF Counted, IssuedFor, Signed
<1>3. L!UpTo(path, t) = Weight(issued, B)
  BY <1>0, TotalIs DEF L!UpTo
<1>4. L!UpTo(path, t - Window) = Weight(issued, A)
  <2>1. CASE t - Window < 0
    <3>1. A = {}
      <4>1. \A r \in Signed : issued[r].at \in Nat
        BY <1>0, SignedType, KernelAssumption
      <4> QED
        BY <1>0, <2>1, <4>1 DEF Counted, IssuedFor, Signed
    <3> QED
      BY <2>1, <3>1, WeightEmpty DEF L!UpTo
  <2>2. CASE ~(t - Window < 0)
    <3>1. t - Window \in 0 .. MaxTime
      <4>1. \A a, w, m \in Nat : a <= m /\ ~(a - w < 0) => a - w \in 0 .. m
        OBVIOUS
      <4>2. t <= MaxTime /\ MaxTime \in Nat
        BY <1>0, WindowStarts
      <4> QED
        BY <1>0, <2>2, <4>1, <4>2
    <3> QED
      BY <2>2, <3>1, TotalIs DEF L!UpTo
  <2> QED
    BY <2>1, <2>2
<1>5. L!UpTo(path, t) - L!UpTo(path, t - Window) <= Omega[path]
  BY DEF LedgerOK, L!LedgerInv, L!WindowBounded, L!InWindow, L!Times
<1> HIDE DEF A, B
<1>6. IsFiniteSet(B \ A) /\ A \cap (B \ A) = {} /\ A \cup (B \ A) = B
  BY <1>1, <1>2, FS_Subset
<1>7. Weight(issued, B) = Weight(issued, A) + Weight(issued, B \ A)
  BY <1>1, <1>6, WeightApart
<1>8. Weight(issued, B \ A) \in Nat /\ Omega[path] \in Nat
  BY <1>1, <1>6, WeightType, AccumulatorAssumption
<1>9. Weight(issued, B \ A) <= Omega[path]
  BY <1>1, <1>3, <1>4, <1>5, <1>7, <1>8
<1> QED
  BY <1>9 DEF A, B

LEMMA KernelInitInv ==
  ASSUME Init
  PROVE  CoreInv /\ L!LedgerInit
BY CoreInitially DEF Init

LEMMA KernelNextInv ==
  ASSUME CoreInv, [Next]_vars
  PROVE  CoreInv' /\ LedgerMove
<1>1. CASE UNCHANGED vars
  <2>1. /\ UNCHANGED <<now, receiptVars, tokenVars, retracted, activePill>>
        /\ UNCHANGED consumed /\ UNCHANGED pillVars /\ UNCHANGED <<entries, manifests>>
        /\ UNCHANGED callVars /\ UNCHANGED forgotten
    BY <1>1 DEF vars, storageVars, kernelVars
  <2>2. consumed' \subseteq ReceiptIds
    BY <2>1 DEF CoreInv, StateOK, StorageTypeOK
  <2> QED
    BY <2>1, <2>2, CoreStands
<1>2. CASE KernelStep /\ UNCHANGED forgotten
  BY <1>2, CoreKernelStep
<1>3. CASE Tick /\ UNCHANGED <<pillVars, kernelVars, forgotten>>
  BY <1>3, CoreTick DEF kernelVars
<1>4. CASE RetractionNext /\ UNCHANGED <<kernelVars, forgotten>>
  BY <1>4, CoreRetraction DEF kernelVars
<1>5. CASE Restart
  <2>1. StateOK' /\ CallsOK' /\ ChargeInv'
    BY <1>5, RestartType, RestartRecorded DEF CoreInv
  <2>2. L!StartAnew
    BY <1>5, LedgerRestarts
  <2> QED
    BY <2>1, <2>2 DEF CoreInv, LedgerMove, L!LedgerNext
<1> QED
  BY <1>1, <1>2, <1>3, <1>4, <1>5 DEF Next

\* What the accumulator checks is enough, whatever calls interleave, are
\* denied, lose their receipt or die in a restart: every step of the kernel is
\* a step the window ledger allows.
THEOREM KernelImplementsLedger == Spec => ImplementsLedger
<1>1. Init => CoreInv /\ L!LedgerInit
  BY KernelInitInv
<1>2. CoreInv /\ [Next]_vars => CoreInv' /\ [L!LedgerNext]_(L!ledgerVars)
  BY KernelNextInv DEF LedgerMove
<1>3. Ledger!LedgerInit <=> L!LedgerInit
  BY DEF Ledger!LedgerInit, L!LedgerInit, Ledger!NothingAuthorized, L!NothingAuthorized, total,
     Ledger!Times, L!Times
<1>4. [Ledger!LedgerNext]_(Ledger!ledgerVars) <=> [L!LedgerNext]_(L!ledgerVars)
  BY DEF Ledger!LedgerNext, L!LedgerNext, Ledger!ledgerVars, L!ledgerVars, total,
     Ledger!Advance, L!Advance, Ledger!StartAnew, L!StartAnew, Ledger!Authorize, L!Authorize,
     Ledger!NothingAuthorized, L!NothingAuthorized, Ledger!Times, L!Times,
     Ledger!InWindow, L!InWindow, Ledger!UpTo, L!UpTo
<1> QED
  BY <1>1, <1>2, <1>3, <1>4, PTL DEF Spec, ImplementsLedger, Ledger!LedgerSpec

\* Cumulative risk (architecture 3.4): the receipts one life of the process
\* signs for a path in any window of the clock stay within its threshold.
THEOREM WindowsStayBounded == Spec => []WindowBounded
<1>1. Init => CoreInv /\ LedgerOK
  BY KernelInitInv, LedgerBegins
<1>2. CoreInv /\ LedgerOK /\ [Next]_vars => (CoreInv /\ LedgerOK)'
  BY KernelNextInv, LedgerKept
<1>3. LedgerOK => WindowBounded
  BY DEF LedgerOK, L!LedgerInv, L!WindowBounded, WindowBounded, Ledger!WindowBounded, L!InWindow,
     Ledger!InWindow, L!UpTo, Ledger!UpTo, L!Times, Ledger!Times, total
<1> QED
  BY <1>1, <1>2, <1>3, PTL DEF Spec
===============================================================================
