---------------------------- MODULE DriftDetector ----------------------------
(***************************************************************************)
(* The patterns telemetry/drift-detector.ts looks for and the score of     *)
(* telemetry/degradation.ts, over a list of decisions of one entity.  The  *)
(* rates are compared as integers, by cross-multiplication; where two      *)
(* sides are equal, rounding may decide otherwise in the code.             *)
(***************************************************************************)
EXTENDS Naturals, Subsequences

CONSTANTS
  SalamiCount,      \* allowed actions that make salami-slicing, 10 in the code
  EscalationCount,  \* entries an escalation is looked for in, 10 in the code
  RepetitionCount   \* denials of one action that make a repetition, 3 in the code

ASSUME DetectorAssumption == RepetitionCount \in Nat \ {0}

With(decisions, field, value) ==
  SelectAt(decisions, {i \in DOMAIN decisions : decisions[i][field] = value})

WithOutcome(decisions, outcome) == With(decisions, "outcome", outcome)

WithRisk(decisions, risk) == With(decisions, "risk", risk)

Occurrences(decisions, action) == Len(With(decisions, "action", action))

ActionsOf(decisions) == {decisions[i].action : i \in DOMAIN decisions}

Denials(decisions) == Len(WithOutcome(decisions, "denied"))

\* One action makes up most of the allowed ones.
SalamiSlicing(decisions) ==
  LET allowed == WithOutcome(decisions, "allowed")
  IN \E action \in ActionsOf(allowed) :
       /\ Occurrences(allowed, action) >= SalamiCount
       /\ 2 * Occurrences(allowed, action) > Len(allowed)

\* The denial rate of the second half exceeds 0.3, and that of the first by 0.2.
Escalation(decisions) ==
  LET half == Len(decisions) \div 2
      rest == Len(decisions) - half
      before == Denials(SubSeq(decisions, 1, half))
      after == Denials(SubSeq(decisions, half + 1, Len(decisions)))
  IN /\ Len(decisions) >= EscalationCount
     /\ 5 * after * half > 5 * before * rest + half * rest
     /\ 10 * after > 3 * rest

\* Mutant of Repetition: one denial more is needed.
RepetitionLater(decisions) ==
  LET denied == WithOutcome(decisions, "denied")
  IN \E action \in ActionsOf(denied) : Occurrences(denied, action) > RepetitionCount

Repetition(decisions) ==
  LET denied == WithOutcome(decisions, "denied")
  IN \E action \in ActionsOf(denied) : Occurrences(denied, action) >= RepetitionCount

\* detectDrift, on what it has read.
DriftDetected(decisions) ==
  /\ Len(decisions) >= 3
  /\ SalamiSlicing(decisions) \/ Escalation(decisions) \/ Repetition(decisions)

\* Mutant of Entropy: denials weigh less than what is approved.
EntropyOfApprovals(decisions) ==
  2 * Denials(decisions) + 6 * Len(WithOutcome(decisions, "approval_required"))
  + 6 * Len(WithRisk(decisions, "critical")) + 3 * Len(WithRisk(decisions, "high"))

\* Integrated Systemic Entropy times 20 times the number of decisions: 0.4 for
\* denials, 0.3 for approvals, 0.3 for critical and 0.15 for high risk.
Entropy(decisions) ==
  8 * Denials(decisions) + 6 * Len(WithOutcome(decisions, "approval_required"))
  + 6 * Len(WithRisk(decisions, "critical")) + 3 * Len(WithRisk(decisions, "high"))

\* drift_detected of the degradation score: more than 0.3.
Degraded(decisions) == Entropy(decisions) > 6 * Len(decisions)
=============================================================================
