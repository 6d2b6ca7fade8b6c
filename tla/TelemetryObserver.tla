--------------------------- MODULE TelemetryObserver ---------------------------
(***************************************************************************)
(* The readers of the audit log beside its recorders and its verifier:     *)
(* getStats, getDegradationScore and detectDrift (telemetry/observer.ts).  *)
(* Each asks for the length of the log, awaits, and asks for a range of    *)
(* sequence numbers computed from it; getRange answers in one piece.       *)
(***************************************************************************)
EXTENDS AuditChain, DriftDetector

CONSTANTS
  DecisionOf,     \* entry id, or Altered -> [entity, action, outcome, risk]
  Entities,
  WindowEntries   \* detectDrift's windowEntries, 100 in the code

ASSUME ObserverAssumption ==
  /\ DOMAIN DecisionOf = EntryIds \cup {Altered}
  /\ WindowEntries \in Nat \ {0}

VARIABLES
  reading,  \* a reader awaits the answer of getRange
  counted   \* the length it was told

readerVars == <<reading, counted>>
observerVars == <<vars, readerVars>>

ObserverTypeOK == TypeOK /\ reading \in BOOLEAN /\ counted \in 0 .. Len(entries)

ObserverInit == Init /\ reading = FALSE /\ counted = 0

\* Readers and verifiers change nothing, so neither can tell whether the other
\* runs.  Bound: a reader begins while no verification of an entry has, and
\* none begins beside it.
NotVerifying == ~checking /\ length = 0

\* A reader of an empty log returns at once.
BeginReading ==
  /\ ~reading /\ NotVerifying /\ entries # <<>>
  /\ reading' = TRUE /\ counted' = Len(entries)
  /\ UNCHANGED vars

FinishReading ==
  /\ reading
  /\ reading' = FALSE /\ counted' = 0
  /\ UNCHANGED vars

ObserverNext ==
  \/ Next /\ (reading => NotVerifying') /\ UNCHANGED readerVars
  \/ BeginReading
  \/ FinishReading

ObserverSpec == ObserverInit /\ [][ObserverNext]_observerVars

\* Mutants of GetRange: the range is one number too long; one too short.
GetRangeTooLong(start) ==
  {i \in DOMAIN entries : start <= entries[i].sequence /\ entries[i].sequence <= counted}
GetRangeTooShort(start) ==
  {i \in DOMAIN entries : start <= entries[i].sequence /\ entries[i].sequence + 1 < counted}

\* The positions of the entries getRange(start, length - 1) answers with.
GetRange(start) ==
  {i \in DOMAIN entries : start <= entries[i].sequence /\ entries[i].sequence < counted}

\* Mutant of RecentStart: the window is not applied.
NoWindow == 0

RecentStart == IF counted > WindowEntries THEN counted - WindowEntries ELSE 0

\* The decisions of an entity among the entries at the given positions.
DecisionsAt(positions, entity) ==
  LET all == [i \in DOMAIN entries |-> DecisionOf[entries[i].decision]]
  IN SelectAt(all, {i \in positions : all[i].entity = entity})

\* What detectDrift reports if getRange answers now.
ReportsDrift(entity) == DriftDetected(DecisionsAt(GetRange(RecentStart), entity))
-----------------------------------------------------------------------------
(***************************************************************************)
(* Properties                                                              *)
(***************************************************************************)

Counted == 1 .. counted
RecentlyCounted == {i \in Counted : i + WindowEntries > counted}

\* Statistics and scores leave out no decision recorded before they began,
\* also over a log that overlapping recorders have forked, and whatever is
\* recorded between the count and the read.
ScoresMissNothing == reading => Counted \subseteq GetRange(0)

\* While recorders do not overlap, a reader sees exactly the log as it was
\* when it began, or its recent part, and nothing of what arrives meanwhile.
ReadsAreSnapshots ==
  reading /\ ~overlapped => GetRange(0) = Counted /\ GetRange(RecentStart) = RecentlyCounted

\* Even over a forked log, no decision older than the window is evidence.
EvidenceIsRecent ==
  reading => \A i \in GetRange(RecentStart) : i + WindowEntries > counted

\* An entity whose last decisions before the detection include enough denials
\* of one action is always reported, whatever the others are and whatever is
\* recorded meanwhile, as long as recorders do not overlap.
ProbingIsReported ==
  reading /\ ~overlapped =>
    \A entity \in Entities :
      LET recent == DecisionsAt(RecentlyCounted, entity)
      IN Len(recent) >= 3
           /\ (\E action \in ActionsOf(recent) :
                 Occurrences(WithOutcome(recent, "denied"), action) >= RepetitionCount)
         => ReportsDrift(entity)

\* Recording one more denial of an entity never clears its drift flag.
DenialsKeepTheFlag ==
  [][\A entity \in Entities :
       LET last == DecisionOf[entries'[Len(entries')].decision]
       IN /\ Len(entries') > Len(entries)
          /\ last.entity = entity /\ last.outcome = "denied"
          /\ Degraded(DecisionsAt(DOMAIN entries, entity))
          => Degraded(DecisionsAt(DOMAIN entries, entity))']_observerVars
=============================================================================
