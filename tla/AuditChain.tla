------------------------------ MODULE AuditChain ------------------------------
(***************************************************************************)
(* The hash-chained audit log (telemetry/audit-chain.ts) on its AuditStore *)
(* (storage/memory.ts), as TelemetryObserver.recordDecision and            *)
(* verifyAuditChain drive it.  Both await the store between its reads and  *)
(* its writes, so recorders and a verification interleave there.           *)
(***************************************************************************)
EXTENDS Naturals, Sequences

CONSTANTS
  Recorders,     \* concurrent calls of recordDecision
  EntryIds,      \* ids generateEntryId may return
  Genesis,       \* GENESIS_HASH
  NoEntry,
  Altered        \* external: what a stored decision may be turned into

ASSUME AuditAssumption == Genesis \notin EntryIds /\ Altered \notin EntryIds

VARIABLES
  entries,    \* the AuditStore, in order of arrival
  recorderPc, \* recorder -> "idle", "linked" (getLatest has answered) or "emitting"
  latest,     \* recorder -> the entry getLatest returned
  overlapped, \* history: two recorders were between read and store at once
  checking,   \* whether verifyIntegrity runs
  length,     \* its locals: the length at its start,
  next,       \*   i, the sequence it checks next,
  prevHash,   \*   the hash it expects that entry to link to,
  valid,      \*   whether it has found no error
  ailing      \* history: an entry was already altered when it began

recorderVars == <<recorderPc, latest, overlapped>>
verifierVars == <<checking, length, next, prevHash, valid, ailing>>
vars == <<entries, recorderVars, verifierVars>>

\* computeEntryHash, taken to be injective.  decision stands for the fields of
\* an entry other than its place in the chain: the id, or Altered.
ComputeEntryHash(e) == <<e.decision, e.sequence, e.prev_hash>>

\* What tampering leaves behind: the stored hash stays that of the original.
IsAltered(e) == e.decision = Altered

AnyAltered == \E i \in DOMAIN entries : IsAltered(entries[i])

TypeOK ==
  /\ \A i \in DOMAIN entries :
       /\ DOMAIN entries[i] = {"decision", "sequence", "prev_hash", "entry_hash"}
       /\ entries[i].decision \in EntryIds \cup {Altered}
       /\ entries[i].sequence \in Nat
  /\ recorderPc \in [Recorders -> {"idle", "linked", "emitting"}]
  /\ DOMAIN latest = Recorders
  /\ overlapped \in BOOLEAN /\ checking \in BOOLEAN /\ valid \in BOOLEAN /\ ailing \in BOOLEAN
  /\ length \in Nat /\ next \in 0 .. length

Init ==
  /\ entries = <<>>
  /\ recorderPc = [w \in Recorders |-> "idle"]
  /\ latest = [w \in Recorders |-> NoEntry]
  /\ overlapped = FALSE
  /\ checking = FALSE /\ length = 0 /\ next = 0
  /\ prevHash = Genesis /\ valid = TRUE /\ ailing = FALSE

\* Mutant of GetLatest: the first entry is taken for the last.
GetFirst == IF entries = <<>> THEN NoEntry ELSE entries[1]

GetLatest == IF entries = <<>> THEN NoEntry ELSE entries[Len(entries)]

LinkToLatest(w) ==
  /\ recorderPc[w] = "idle"
  /\ latest' = [latest EXCEPT ![w] = GetLatest]
  /\ recorderPc' = [recorderPc EXCEPT ![w] = "linked"]
  /\ overlapped' = (overlapped \/ \E v \in Recorders : recorderPc[v] = "linked")
  /\ UNCHANGED <<entries, verifierVars>>

\* The entry is built on what getLatest returned, and stored behind whatever
\* has been stored since.
NewEntry(id, last) ==
  LET e == [decision |-> id,
            sequence |-> IF last = NoEntry THEN 0 ELSE last.sequence + 1,
            prev_hash |-> IF last = NoEntry THEN Genesis ELSE last.entry_hash]
  IN [decision |-> e.decision, sequence |-> e.sequence, prev_hash |-> e.prev_hash,
      entry_hash |-> ComputeEntryHash(e)]

\* An id is used once, whether or not its entry has been altered since.
Used(id) == \E i \in DOMAIN entries : entries[i].entry_hash[1] = id

StoreEntry(w, id) ==
  /\ recorderPc[w] = "linked" /\ ~Used(id)
  /\ entries' = Append(entries, NewEntry(id, latest[w]))
  /\ recorderPc' = [recorderPc EXCEPT ![w] = "emitting"]
  /\ latest' = [latest EXCEPT ![w] = NoEntry]
  /\ UNCHANGED <<overlapped, verifierVars>>

\* The sinks are written to, and may fail; the entry stays either way.
EmitToSinks(w) ==
  /\ recorderPc[w] = "emitting"
  /\ recorderPc' = [recorderPc EXCEPT ![w] = "idle"]
  /\ UNCHANGED <<entries, latest, overlapped, verifierVars>>

\* External: a stored decision is altered in place.
Alter(i) ==
  /\ i \in DOMAIN entries
  /\ entries' = [entries EXCEPT ![i].decision = Altered]
  /\ UNCHANGED <<recorderVars, verifierVars>>

\* verifyIntegrity begins with getLength; valid starts out TRUE.
BeginVerification ==
  /\ ~checking
  /\ checking' = TRUE /\ length' = Len(entries) /\ next' = 0
  /\ prevHash' = Genesis /\ valid' = TRUE /\ ailing' = AnyAltered
  /\ UNCHANGED <<entries, recorderVars>>

\* getBySequence returns the first entry that bears the number.
WithSequence(n) == {i \in DOMAIN entries : entries[i].sequence = n}

GetBySequence(n) == entries[CHOOSE i \in WithSequence(n) : \A j \in WithSequence(n) : i <= j]

\* A missing entry is an error, and the expected hash stays.
CheckMissing ==
  /\ checking /\ next < length /\ WithSequence(next) = {}
  /\ valid' = FALSE /\ next' = next + 1
  /\ UNCHANGED <<entries, recorderVars, checking, length, prevHash, ailing>>

\* Mutants of CheckEntry: the entry is not hashed again; the loop runs one
\* entry too far.
CheckLinkOnly ==
  /\ checking /\ next < length /\ WithSequence(next) # {}
  /\ valid' = (valid /\ GetBySequence(next).prev_hash = prevHash)
  /\ prevHash' = GetBySequence(next).entry_hash
  /\ next' = next + 1
  /\ UNCHANGED <<entries, recorderVars, checking, length, ailing>>

CheckTooFar ==
  /\ checking /\ next <= length /\ WithSequence(next) # {}
  /\ LET e == GetBySequence(next)
     IN /\ valid' = (valid /\ e.prev_hash = prevHash /\ ComputeEntryHash(e) = e.entry_hash)
        /\ prevHash' = e.entry_hash
  /\ next' = next + 1
  /\ UNCHANGED <<entries, recorderVars, checking, length, ailing>>

CheckEntry ==
  /\ checking /\ next < length /\ WithSequence(next) # {}
  /\ LET e == GetBySequence(next)
     IN /\ valid' = (valid /\ e.prev_hash = prevHash /\ ComputeEntryHash(e) = e.entry_hash)
        /\ prevHash' = e.entry_hash
  /\ next' = next + 1
  /\ UNCHANGED <<entries, recorderVars, checking, length, ailing>>

EndVerification ==
  /\ checking /\ next = length
  /\ checking' = FALSE
  /\ UNCHANGED <<entries, recorderVars, length, next, prevHash, valid, ailing>>

Next ==
  \/ \E w \in Recorders : \/ LinkToLatest(w) \/ EmitToSinks(w)
                          \/ \E id \in EntryIds : StoreEntry(w, id)
  \/ \E i \in 1 .. Len(entries) : Alter(i)
  \/ BeginVerification \/ CheckMissing \/ CheckEntry \/ EndVerification

Spec == Init /\ [][Next]_vars
-----------------------------------------------------------------------------
(***************************************************************************)
(* Properties                                                              *)
(***************************************************************************)

\* A verification that reports the chain valid has not missed an entry that
\* was altered before it began (audit-chain.ts:84), although entries arrive
\* while it reads.
ValidMeansUnaltered == ~checking /\ valid => ~ailing

\* The code keeps that while recorders do not overlap, and even over a chain
\* they have forked, where two entries may bear one number, as long as no
\* entry arrives between the start and the end of the verification.
VerdictHolds == ~overlapped \/ Len(entries) = length => ValidMeansUnaltered

\* While recorders do not overlap, every entry links to the entry stored
\* before it (audit-chain.ts:9), also when a verification reads meanwhile.
ChainLinked ==
  ~overlapped =>
    \A i \in DOMAIN entries :
      entries[i].prev_hash = IF i = 1 THEN Genesis ELSE entries[i - 1].entry_hash

\* While recorders do not overlap, a verification finds fault only with a
\* chain that was altered.
NoFalseAlarm == ~overlapped /\ ~valid => AnyAltered
=============================================================================
