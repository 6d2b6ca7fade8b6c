SPECIFICATION ObserverSpec
CONSTANTS
  Recorders = {w1, w2}
  EntryIds = {e1, e2, e3, e4}
  Genesis = Genesis
  NoEntry = NoEntry
  Altered = Altered
  SalamiCount = 2
  EscalationCount = 4
  RepetitionCount = 3
  WindowEntries = 3
  DecisionOf <- MCDecisionOf
  Entities = {"bot", "other"}
  w1 = w1 w2 = w2 e1 = e1 e2 = e2 e3 = e3 e4 = e4
SYMMETRY AuditSymmetry
INVARIANTS ObserverTypeOK VerdictHolds ChainLinked NoFalseAlarm ScoresMissNothing ReadsAreSnapshots EvidenceIsRecent ProbingIsReported
PROPERTY DenialsKeepTheFlag
