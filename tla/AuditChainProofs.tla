--------------------------- MODULE AuditChainProofs ---------------------------
(***************************************************************************)
(* Proofs about AuditChain and TelemetryObserver, for every set of         *)
(* recorders and ids, every length of the log and every window.            *)
(***************************************************************************)
EXTENDS TelemetryObserver, DataLemmas

\* The premise of the theorems: null is no entry.
NullIsApart == DOMAIN NoEntry # {"decision", "sequence", "prev_hash", "entry_hash"}

\* The entries are a sequence, whatever values their hashes are.
IsLog == entries \in Seq({entries[i] : i \in DOMAIN entries})

\* The stored hash is that of the entry as it was recorded.
HashesStand ==
  \A i \in DOMAIN entries :
    /\ entries[i].entry_hash
         = <<entries[i].entry_hash[1], entries[i].sequence, entries[i].prev_hash>>
    /\ entries[i].entry_hash[1] \in EntryIds
    /\ IsAltered(entries[i]) \/ entries[i].decision = entries[i].entry_hash[1]

\* Overlapping recorders repeat sequence numbers and never skip one, so that
\* an entry's number is at most the number of entries before it.
SequencesLag ==
  /\ \A i \in DOMAIN entries : entries[i].sequence < i
  /\ \A w \in Recorders :
       latest[w] # NoEntry => latest[w].sequence \in Nat /\ latest[w].sequence < Len(entries)

\* While recorders do not overlap, the one that has read holds the last entry.
LatestIsLast ==
  ~overlapped =>
    /\ \A v, w \in Recorders : recorderPc[v] = "linked" /\ recorderPc[w] = "linked" => v = w
    /\ \A w \in Recorders :
         recorderPc[w] = "linked" =>
           IF entries = <<>> THEN latest[w] = NoEntry
           ELSE /\ latest[w] # NoEntry
                /\ latest[w].sequence = entries[Len(entries)].sequence
                /\ latest[w].entry_hash = entries[Len(entries)].entry_hash

NumberedInOrder == ~overlapped => \A i \in DOMAIN entries : entries[i].sequence = i - 1

LogInv ==
  TypeOK /\ IsLog /\ HashesStand /\ SequencesLag /\ LatestIsLast /\ NumberedInOrder /\ ChainLinked

\* What the verifier has looked at: the entries up to the number it is at.
VerifierPlace ==
  /\ length <= Len(entries)
  /\ ~checking => next = length
  /\ ~overlapped => prevHash = IF next = 0 THEN Genesis ELSE entries[next].entry_hash

\* While recorders do not overlap, an altered entry not yet reported is ahead.
AlteredAhead ==
  ~overlapped /\ valid /\ ailing => \E i \in next + 1 .. length : IsAltered(entries[i])

\* On a forked chain that does not grow, every number so far was found, and an
\* altered entry not yet reported is ahead or behind one with its number.
AlteredAheadOrHidden ==
  Len(entries) = length /\ valid =>
    /\ \A n \in 0 .. next - 1 : WithSequence(n) # {}
    /\ ailing => \E i \in DOMAIN entries :
                   /\ IsAltered(entries[i])
                   /\ \/ next <= entries[i].sequence
                      \/ \E j \in 1 .. i - 1 : entries[j].sequence = entries[i].sequence

VerifierInv == VerifierPlace /\ NoFalseAlarm /\ AlteredAhead /\ AlteredAheadOrHidden

ReaderInv == reading \in BOOLEAN /\ counted \in Nat /\ counted <= Len(entries)
-----------------------------------------------------------------------------
LEMMA InitLog == Init => LogInv
<1> SUFFICES ASSUME Init PROVE LogInv
  OBVIOUS
<1>1. entries = <<>> /\ DOMAIN entries = {} /\ Len(entries) = 0
  BY DEF Init
<1>2. IsLog
  BY <1>1 DEF IsLog
<1>3. TypeOK
  <2>1. length \in Nat /\ next \in 0 .. length
    BY DEF Init
  <2>2. DOMAIN latest = Recorders
    BY DEF Init
  <2> QED
    BY <1>1, <2>1, <2>2, Zenon DEF Init, TypeOK
<1>4. SequencesLag /\ LatestIsLast
  BY <1>1 DEF Init, SequencesLag, LatestIsLast
<1> QED
  BY <1>1, <1>2, <1>3, <1>4 DEF LogInv, HashesStand, NumberedInOrder, ChainLinked

LEMMA LogFacts ==
  ASSUME IsLog
  PROVE  /\ Len(entries) \in Nat
         /\ DOMAIN entries = 1 .. Len(entries)
         /\ entries = <<>> <=> Len(entries) = 0
BY DEF IsLog

\* What storing an entry makes of the log.
LEMMA Stored ==
  ASSUME LogInv, NEW w \in Recorders, NEW id \in EntryIds, StoreEntry(w, id)
  PROVE  /\ Len(entries') = Len(entries) + 1
         /\ DOMAIN entries' = 1 .. Len(entries) + 1
         /\ \A i \in DOMAIN entries : entries'[i] = entries[i]
         /\ entries'[Len(entries) + 1] = NewEntry(id, latest[w])
         /\ IsLog'
<1> DEFINE R == {entries[i] : i \in DOMAIN entries}
           e == NewEntry(id, latest[w])
           S == R \cup {e}
<1>1. entries' = Append(entries, e)
  BY DEF StoreEntry
<1>2. entries \in Seq(R)
  BY DEF LogInv, IsLog
<1>3. entries \in Seq(S) /\ e \in S
  BY <1>2
<1> HIDE DEF e, S, R
<1>4. /\ entries' \in Seq(S) /\ Len(entries') = Len(entries) + 1
      /\ DOMAIN entries' = 1 .. Len(entries) + 1
      /\ \A i \in DOMAIN entries : entries'[i] = entries[i]
      /\ entries'[Len(entries) + 1] = e
  BY <1>1, <1>3
<1>5. entries' \in [1 .. Len(entries') -> {entries'[i] : i \in DOMAIN entries'}]
  BY <1>4
<1>6. Len(entries') \in Nat
  BY <1>4
<1>7. IsLog'
  BY <1>5, <1>6 DEF IsLog
<1> QED
  BY <1>4, <1>7 DEF e

\* What altering an entry makes of the log.
LEMMA Alteration ==
  ASSUME LogInv, NEW k \in 1 .. Len(entries), Alter(k)
  PROVE  /\ Len(entries') = Len(entries)
         /\ DOMAIN entries' = DOMAIN entries
         /\ \A i \in DOMAIN entries : i # k => entries'[i] = entries[i]
         /\ DOMAIN entries'[k] = DOMAIN entries[k]
         /\ entries'[k].decision = Altered
         /\ entries'[k].sequence = entries[k].sequence
         /\ entries'[k].prev_hash = entries[k].prev_hash
         /\ entries'[k].entry_hash = entries[k].entry_hash
         /\ IsLog'
<1>1. entries' = [entries EXCEPT ![k] = [entries[k] EXCEPT !.decision = Altered]]
  BY DEF Alter
<1>2. k \in DOMAIN entries /\ DOMAIN entries = 1 .. Len(entries) /\ Len(entries) \in Nat
  BY LogFacts DEF LogInv
<1>3. DOMAIN entries[k] = {"decision", "sequence", "prev_hash", "entry_hash"}
  BY <1>2 DEF LogInv, TypeOK
<1>4. DOMAIN entries' = 1 .. Len(entries)
  BY <1>1, <1>2
<1>5. entries' \in [1 .. Len(entries) -> {entries'[i] : i \in DOMAIN entries'}]
  BY <1>1, <1>2, <1>4
<1>6. IsLog' /\ Len(entries') = Len(entries)
  BY <1>2, <1>5 DEF IsLog
<1>7. entries'[k] = [entries[k] EXCEPT !.decision = Altered]
  BY <1>1, <1>2
<1> QED
  BY <1>1, <1>2, <1>3, <1>4, <1>6, <1>7

\* What every step keeps of the entries there are: their number, their link,
\* their stored hash, and that they are altered.
LEMMA EntriesStay ==
  ASSUME LogInv, [Next]_vars, NEW i \in DOMAIN entries
  PROVE  /\ i \in DOMAIN entries'
         /\ entries'[i].sequence = entries[i].sequence
         /\ entries'[i].prev_hash = entries[i].prev_hash
         /\ entries'[i].entry_hash = entries[i].entry_hash
         /\ IsAltered(entries[i]) => IsAltered(entries'[i])
         /\ Len(entries) \in Nat /\ Len(entries') \in Nat /\ Len(entries) <= Len(entries')
<1> USE LogFacts DEF LogInv
<1>1. CASE UNCHANGED entries
  BY <1>1
<1>2. ASSUME NEW w \in Recorders, NEW id \in EntryIds, StoreEntry(w, id)
      PROVE  /\ i \in DOMAIN entries' /\ entries'[i] = entries[i]
             /\ Len(entries') = Len(entries) + 1
  BY <1>2, Stored
<1>3. ASSUME NEW k \in 1 .. Len(entries), Alter(k)
      PROVE  /\ i \in DOMAIN entries' /\ Len(entries') = Len(entries)
             /\ entries'[i].sequence = entries[i].sequence
             /\ entries'[i].prev_hash = entries[i].prev_hash
             /\ entries'[i].entry_hash = entries[i].entry_hash
             /\ IsAltered(entries[i]) => IsAltered(entries'[i])
  BY <1>3, Alteration DEF IsAltered
<1>4. \/ UNCHANGED entries
      \/ \E w \in Recorders, id \in EntryIds : StoreEntry(w, id)
      \/ \E k \in 1 .. Len(entries) : Alter(k)
  BY DEF Next, vars, LinkToLatest, EmitToSinks, BeginVerification, CheckMissing, CheckEntry,
     EndVerification
<1> QED
  BY <1>1, <1>2, <1>3, <1>4

LEMMA NewEntryFields ==
  ASSUME NEW id, NEW last
  PROVE  LET e == NewEntry(id, last)
         IN /\ DOMAIN e = {"decision", "sequence", "prev_hash", "entry_hash"}
            /\ e.decision = id
            /\ e.sequence = IF last = NoEntry THEN 0 ELSE last.sequence + 1
            /\ e.prev_hash = IF last = NoEntry THEN Genesis ELSE last.entry_hash
            /\ e.entry_hash = <<e.decision, e.sequence, e.prev_hash>>
            /\ e.entry_hash[1] = id
BY DEF NewEntry, ComputeEntryHash

LEMMA StepStored ==
  ASSUME NullIsApart, LogInv, NEW w \in Recorders, NEW id \in EntryIds, StoreEntry(w, id)
  PROVE  LogInv'
<1> DEFINE n == Len(entries)
           last == latest[w]
           e == NewEntry(id, last)
<1> USE LogFacts DEF LogInv
<1>1. /\ n \in Nat /\ DOMAIN entries = 1 .. n
      /\ Len(entries') = n + 1 /\ DOMAIN entries' = 1 .. n + 1
      /\ \A i \in 1 .. n : entries'[i] = entries[i]
      /\ entries'[n + 1] = e /\ IsLog'
  BY Stored
<1>2. /\ DOMAIN e = {"decision", "sequence", "prev_hash", "entry_hash"}
      /\ e.decision = id
      /\ e.sequence = IF last = NoEntry THEN 0 ELSE last.sequence + 1
      /\ e.prev_hash = IF last = NoEntry THEN Genesis ELSE last.entry_hash
      /\ e.entry_hash = <<e.decision, e.sequence, e.prev_hash>>
      /\ e.entry_hash[1] = id
  BY NewEntryFields
<1> HIDE DEF e
<1>3. e.sequence \in Nat /\ e.sequence < n + 1
  BY <1>1, <1>2 DEF SequencesLag
<1>4. \A i \in 1 .. n + 1 : i \in 1 .. n \/ i = n + 1
  BY <1>1
<1>5. /\ recorderPc[w] = "linked"
      /\ recorderPc' = [recorderPc EXCEPT ![w] = "emitting"]
      /\ latest' = [latest EXCEPT ![w] = NoEntry]
      /\ UNCHANGED <<overlapped, verifierVars>>
  BY DEF StoreEntry
<1>6. TypeOK'
  <2>1. recorderPc' \in [Recorders -> {"idle", "linked", "emitting"}]
    BY <1>5 DEF TypeOK
  <2>2. DOMAIN latest' = Recorders
    BY <1>5 DEF TypeOK
  <2>3. \A i \in DOMAIN entries' :
          /\ DOMAIN entries'[i] = {"decision", "sequence", "prev_hash", "entry_hash"}
          /\ entries'[i].decision \in EntryIds \cup {Altered}
          /\ entries'[i].sequence \in Nat
    BY <1>1, <1>2, <1>3, <1>4 DEF TypeOK
  <2> QED
    BY <1>5, <2>1, <2>2, <2>3 DEF TypeOK, verifierVars
<1>7. HashesStand'
  BY <1>1, <1>2, <1>4 DEF HashesStand, IsAltered
<1>8. SequencesLag'
  <2>1. \A i \in DOMAIN entries' : entries'[i].sequence < i
    BY <1>1, <1>3, <1>4 DEF SequencesLag
  <2>2. ASSUME NEW v \in Recorders, latest'[v] # NoEntry
        PROVE  latest'[v].sequence \in Nat /\ latest'[v].sequence < Len(entries')
    BY <1>1, <1>5, <2>2 DEF SequencesLag, TypeOK
  <2> QED
    BY <2>1, <2>2 DEF SequencesLag
<1>9. LatestIsLast'
  BY <1>5 DEF LatestIsLast, TypeOK
<1>10. ASSUME ~overlapped
       PROVE  /\ e.sequence = n
              /\ e.prev_hash = IF n = 0 THEN Genesis ELSE entries[n].entry_hash
  <2>1. CASE n = 0
    BY <1>2, <1>5, <1>10, <2>1 DEF LatestIsLast
  <2>2. CASE n # 0
    <3>1. entries[n].sequence = n - 1
      BY <1>1, <1>10, <2>2 DEF NumberedInOrder
    <3>2. last # NoEntry /\ last.sequence = n - 1 /\ last.entry_hash = entries[n].entry_hash
      BY <1>5, <1>10, <2>2, <3>1 DEF LatestIsLast
    <3> QED
      BY <1>1, <1>2, <2>2, <3>2
  <2> QED
    BY <2>1, <2>2
<1>11. NumberedInOrder'
  BY <1>1, <1>4, <1>5, <1>10 DEF NumberedInOrder
<1>12. ChainLinked'
  <2> SUFFICES ASSUME ~overlapped, NEW i \in 1 .. n + 1
               PROVE  entries'[i].prev_hash
                        = IF i = 1 THEN Genesis ELSE entries'[i - 1].entry_hash
    BY <1>1, <1>5 DEF ChainLinked
  <2>1. CASE i \in 1 .. n
    <3>1. i # 1 => i - 1 \in 1 .. n
      BY <1>1, <2>1
    <3> QED
      BY <1>1, <2>1, <3>1 DEF ChainLinked
  <2>2. CASE i = n + 1
    <3>1. n # 0 => n \in 1 .. n
      BY <1>1
    <3> QED
      BY <1>1, <1>10, <2>2, <3>1
  <2> QED
    BY <1>4, <2>1, <2>2
<1> QED
  BY <1>1, <1>6, <1>7, <1>8, <1>9, <1>11, <1>12

LEMMA StepAltered ==
  ASSUME LogInv, NEW k \in 1 .. Len(entries), Alter(k)
  PROVE  LogInv'
<1> USE LogFacts DEF LogInv
<1>1. /\ Len(entries') = Len(entries) /\ DOMAIN entries' = DOMAIN entries /\ IsLog'
      /\ DOMAIN entries = 1 .. Len(entries) /\ Len(entries) \in Nat
      /\ UNCHANGED <<recorderVars, verifierVars>>
  BY Alteration DEF Alter
<1>2. \A i \in DOMAIN entries :
        /\ entries'[i].sequence = entries[i].sequence
        /\ entries'[i].prev_hash = entries[i].prev_hash
        /\ entries'[i].entry_hash = entries[i].entry_hash
        /\ DOMAIN entries'[i] = DOMAIN entries[i]
        /\ entries'[i].decision = Altered \/ entries'[i].decision = entries[i].decision
  BY Alteration
<1>3. TypeOK'
  BY <1>1, <1>2 DEF TypeOK, recorderVars, verifierVars
<1>4. HashesStand' /\ SequencesLag' /\ NumberedInOrder'
  BY <1>1, <1>2 DEF HashesStand, IsAltered, SequencesLag, NumberedInOrder, recorderVars
<1>5. LatestIsLast'
  <2>1. entries' = <<>> <=> entries = <<>>
    BY <1>1
  <2>2. entries # <<>> => Len(entries) \in DOMAIN entries
    BY <1>1
  <2> QED
    BY <1>1, <1>2, <2>1, <2>2 DEF LatestIsLast, recorderVars
<1>6. ChainLinked'
  <2>1. \A i \in DOMAIN entries : i # 1 => i - 1 \in DOMAIN entries
    BY <1>1
  <2> QED
    BY <1>1, <1>2, <2>1 DEF ChainLinked, recorderVars
<1> QED
  BY <1>1, <1>3, <1>4, <1>5, <1>6

LEMMA StepLinked ==
  ASSUME NullIsApart, LogInv, NEW w \in Recorders, LinkToLatest(w)
  PROVE  LogInv'
<1> USE LogFacts DEF LogInv
<1>1. /\ recorderPc' = [recorderPc EXCEPT ![w] = "linked"]
      /\ latest' = [latest EXCEPT ![w] = GetLatest]
      /\ overlapped' = (overlapped \/ \E v \in Recorders : recorderPc[v] = "linked")
      /\ UNCHANGED <<entries, verifierVars>>
  BY DEF LinkToLatest
<1>2. Len(entries) \in Nat /\ (entries # <<>> => Len(entries) \in DOMAIN entries)
  OBVIOUS
<1>3. GetLatest # NoEntry =>
        /\ entries # <<>> /\ GetLatest = entries[Len(entries)]
        /\ GetLatest.sequence \in Nat /\ GetLatest.sequence < Len(entries)
  BY <1>2 DEF GetLatest, SequencesLag, TypeOK
<1>4. entries # <<>> => GetLatest # NoEntry
  BY <1>2 DEF GetLatest, NullIsApart, TypeOK
<1>5. TypeOK'
  <2>1. recorderPc' \in [Recorders -> {"idle", "linked", "emitting"}]
    BY <1>1 DEF TypeOK
  <2>2. DOMAIN latest' = Recorders /\ overlapped' \in BOOLEAN
    BY <1>1 DEF TypeOK
  <2> QED
    BY <1>1, <2>1, <2>2 DEF TypeOK, verifierVars
<1>6. SequencesLag'
  BY <1>1, <1>3 DEF SequencesLag, TypeOK
<1>7. LatestIsLast'
  <2> SUFFICES ASSUME ~overlapped'
               PROVE  LatestIsLast'
    BY DEF LatestIsLast
  <2>1. \A v \in Recorders : recorderPc[v] # "linked"
    BY <1>1
  <2>2. \A v \in Recorders : recorderPc'[v] = "linked" => v = w
    BY <1>1, <2>1 DEF TypeOK
  <2>3. latest'[w] = GetLatest /\ entries' = entries
    BY <1>1 DEF TypeOK
  <2>4. entries = <<>> => GetLatest = NoEntry
    BY DEF GetLatest
  <2>5. ASSUME NEW v \in Recorders, recorderPc'[v] = "linked"
        PROVE  IF entries' = <<>> THEN latest'[v] = NoEntry
               ELSE /\ latest'[v] # NoEntry
                    /\ latest'[v].sequence = entries'[Len(entries')].sequence
                    /\ latest'[v].entry_hash = entries'[Len(entries')].entry_hash
    <3>1. latest'[v] = GetLatest
      BY <2>2, <2>3, <2>5
    <3> QED
      BY <1>3, <1>4, <2>3, <2>4, <3>1
  <2> QED
    BY <2>2, <2>5 DEF LatestIsLast
<1>8. IsLog' /\ HashesStand'
  BY <1>1 DEF IsLog, HashesStand, IsAltered
<1>9. NumberedInOrder' /\ ChainLinked'
  BY <1>1 DEF NumberedInOrder, ChainLinked
<1> QED
  BY <1>5, <1>6, <1>7, <1>8, <1>9

LEMMA StepLog == NullIsApart /\ LogInv /\ [Next]_vars => LogInv'
<1> SUFFICES ASSUME NullIsApart, LogInv, [Next]_vars PROVE LogInv'
  OBVIOUS
<1>1. ASSUME UNCHANGED <<entries, recorderVars>>,
             checking' \in BOOLEAN, valid' \in BOOLEAN, ailing' \in BOOLEAN,
             length' \in Nat, next' \in 0 .. length'
      PROVE  LogInv'
  <2>1. TypeOK'
    BY <1>1 DEF LogInv, TypeOK, recorderVars
  <2>2. IsLog' /\ HashesStand' /\ SequencesLag' /\ LatestIsLast' /\ NumberedInOrder' /\ ChainLinked'
    BY <1>1 DEF LogInv, recorderVars, IsLog, HashesStand, IsAltered, SequencesLag, LatestIsLast,
       NumberedInOrder, ChainLinked
  <2> QED
    BY <2>1, <2>2 DEF LogInv
<1>2. ASSUME NEW w \in Recorders, EmitToSinks(w) PROVE LogInv'
  <2>1. /\ recorderPc' = [recorderPc EXCEPT ![w] = "idle"]
        /\ UNCHANGED <<entries, latest, overlapped, verifierVars>>
    BY <1>2 DEF EmitToSinks
  <2>2. recorderPc' \in [Recorders -> {"idle", "linked", "emitting"}]
    BY <2>1 DEF LogInv, TypeOK
  <2>3. TypeOK'
    BY <2>1, <2>2 DEF LogInv, TypeOK, verifierVars
  <2>4. LatestIsLast'
    BY <2>1 DEF LogInv, TypeOK, LatestIsLast
  <2>5. IsLog' /\ HashesStand' /\ SequencesLag' /\ NumberedInOrder' /\ ChainLinked'
    BY <2>1 DEF LogInv, IsLog, HashesStand, IsAltered, SequencesLag, NumberedInOrder, ChainLinked
  <2> QED
    BY <2>3, <2>4, <2>5 DEF LogInv
<1>3. CASE BeginVerification
  <2>1. AnyAltered \in BOOLEAN /\ Len(entries) \in Nat
    BY LogFacts DEF LogInv, AnyAltered
  <2> QED
    BY <1>1, <1>3, <2>1 DEF BeginVerification
<1>4. CASE CheckMissing \/ CheckEntry
  <2>1. UNCHANGED <<entries, recorderVars>> /\ UNCHANGED <<checking, length, ailing>>
    BY <1>4 DEF CheckMissing, CheckEntry
  <2>2. next' \in 0 .. length
    BY <1>4 DEF CheckMissing, CheckEntry, LogInv, TypeOK
  <2>3. valid' \in BOOLEAN
    BY <1>4, Zenon DEF CheckMissing, CheckEntry
  <2> QED
    BY <1>1, <2>1, <2>2, <2>3 DEF LogInv, TypeOK
<1>5. CASE EndVerification \/ UNCHANGED vars
  BY <1>1, <1>5 DEF EndVerification, vars, verifierVars, LogInv, TypeOK
<1> QED
  BY <1>2, <1>3, <1>4, <1>5, StepLinked, StepStored, StepAltered DEF Next

LEMMA LogGrows ==
  ASSUME LogInv, [Next]_vars
  PROVE  Len(entries) \in Nat /\ Len(entries') \in Nat /\ Len(entries) <= Len(entries')
<1>1. CASE entries = <<>>
  <2>1. UNCHANGED entries \/ \E w \in Recorders, id \in EntryIds : StoreEntry(w, id)
    BY <1>1 DEF Next, vars, LinkToLatest, EmitToSinks, BeginVerification, CheckMissing,
       CheckEntry, EndVerification, Alter
  <2> QED
    BY <1>1, <2>1, LogFacts, Stored DEF LogInv
<1>2. CASE entries # <<>>
  <2>1. 1 \in DOMAIN entries
    BY <1>2, LogFacts DEF LogInv
  <2> QED
    BY <2>1, EntriesStay
<1> QED
  BY <1>1, <1>2

\* The recordings of the log, as a specification of its own: the readers
\* leave it alone.
LEMMA ReadersOnlyRead == ObserverSpec => Spec
<1>1. ObserverInit => Init
  BY DEF ObserverInit
<1>2. [ObserverNext]_observerVars => [Next]_vars
  BY DEF ObserverNext, BeginReading, FinishReading, observerVars
<1> QED
  BY <1>1, <1>2, PTL DEF ObserverSpec, Spec

LEMMA LogInvariance == ASSUME NullIsApart PROVE Spec => []LogInv
<1>1. LogInv /\ [Next]_vars => LogInv'
  BY StepLog
<1> QED
  BY InitLog, <1>1, PTL DEF Spec

\* While recordings do not overlap, every entry links to the one stored before
\* it, as audit-chain.ts:9 says, whatever is verified, read or altered
\* meanwhile.
THEOREM ChainStaysLinked == ASSUME NullIsApart PROVE ObserverSpec => []ChainLinked
<1>1. LogInv => ChainLinked
  BY DEF LogInv
<1> QED
  BY <1>1, LogInvariance, ReadersOnlyRead, PTL

\* A reader was told a length the log has not fallen below.
LEMMA ReaderInvariance ==
  ASSUME NullIsApart PROVE ObserverSpec => [](LogInv /\ ReaderInv)
<1>1. ObserverInit => ReaderInv
  <2> SUFFICES ASSUME ObserverInit PROVE ReaderInv
    OBVIOUS
  <2>1. Len(entries) = 0 /\ counted = 0
    BY DEF ObserverInit, Init
  <2>2. reading \in BOOLEAN
    BY Zenon DEF ObserverInit
  <2> QED
    BY <2>1, <2>2 DEF ReaderInv
<1>2. LogInv /\ ReaderInv /\ [ObserverNext]_observerVars => ReaderInv'
  <2> SUFFICES ASSUME LogInv, ReaderInv, [ObserverNext]_observerVars PROVE ReaderInv'
    OBVIOUS
  <2>1. CASE [Next]_vars /\ UNCHANGED readerVars
    <3>1. Len(entries) \in Nat /\ Len(entries') \in Nat /\ Len(entries) <= Len(entries')
      BY <2>1, LogGrows
    <3> QED
      BY <2>1, <3>1 DEF ReaderInv, readerVars
  <2>2. CASE BeginReading \/ FinishReading
    <3>1. Len(entries) \in Nat /\ entries' = entries
      BY <2>2, LogFacts DEF BeginReading, FinishReading, LogInv, vars
    <3>2. reading' \in BOOLEAN /\ (counted' = Len(entries) \/ counted' = 0)
      BY <2>2 DEF BeginReading, FinishReading
    <3> QED
      BY <3>1, <3>2 DEF ReaderInv
  <2> QED
    BY <2>1, <2>2 DEF ObserverNext, observerVars
<1> QED
  BY <1>1, <1>2, LogInvariance, ReadersOnlyRead, PTL DEF ObserverSpec

\* What a reader finds, between its count and its read.
LEMMA WhatReadersSee ==
  ASSUME ObserverAssumption, LogInv, ReaderInv
  PROVE  ScoresMissNothing /\ ReadsAreSnapshots /\ EvidenceIsRecent
<1>1. /\ Len(entries) \in Nat /\ DOMAIN entries = 1 .. Len(entries)
      /\ counted \in Nat /\ counted <= Len(entries) /\ WindowEntries \in Nat \ {0}
  BY LogFacts DEF LogInv, ReaderInv, ObserverAssumption
<1>2. \A i \in DOMAIN entries : entries[i].sequence \in Nat /\ entries[i].sequence < i
  BY DEF LogInv, TypeOK, SequencesLag
<1>3. ScoresMissNothing
  <2>1. ASSUME NEW i \in 1 .. counted
        PROVE  i \in DOMAIN entries /\ 0 <= entries[i].sequence /\ entries[i].sequence < counted
    BY <1>1, <1>2
  <2> QED
    BY <2>1 DEF ScoresMissNothing, Counted, GetRange
<1>4. RecentStart \in Nat /\ RecentStart >= counted - WindowEntries
      /\ (RecentStart = 0 \/ RecentStart = counted - WindowEntries)
  BY <1>1 DEF RecentStart
<1>5. EvidenceIsRecent
  <2>1. ASSUME NEW i \in GetRange(RecentStart)
        PROVE  i + WindowEntries > counted
    <3>1. i \in DOMAIN entries /\ RecentStart <= entries[i].sequence
      BY DEF GetRange
    <3> QED
      BY <1>1, <1>2, <1>4, <3>1
  <2> QED
    BY <2>1 DEF EvidenceIsRecent
<1>6. ReadsAreSnapshots
  <2> SUFFICES ASSUME ~overlapped
               PROVE  GetRange(0) = Counted /\ GetRange(RecentStart) = RecentlyCounted
    BY DEF ReadsAreSnapshots
  <2>1. \A i \in DOMAIN entries : entries[i].sequence = i - 1
    BY DEF LogInv, NumberedInOrder
  <2>2. ASSUME NEW start \in Nat
        PROVE  GetRange(start) = {i \in 1 .. counted : start < i}
    <3>1. \A i \in DOMAIN entries :
            /\ start <= entries[i].sequence <=> start < i
            /\ entries[i].sequence < counted <=> i <= counted
      BY <1>1, <2>1
    <3>2. \A i \in DOMAIN entries : i \in 1 .. counted <=> i <= counted
      BY <1>1
    <3>3. 1 .. counted \subseteq DOMAIN entries
      BY <1>1
    <3> QED
      BY <3>1, <3>2, <3>3 DEF GetRange
  <2>3. GetRange(0) = Counted
    <3>1. \A i \in 1 .. counted : 0 < i
      BY <1>1
    <3> QED
      BY <2>2, <3>1 DEF Counted
  <2>4. \A i \in 1 .. counted : RecentStart < i <=> i + WindowEntries > counted
    BY <1>1, <1>4
  <2> QED
    BY <1>4, <2>2, <2>3, <2>4 DEF RecentlyCounted, Counted
<1> QED
  BY <1>3, <1>5, <1>6

\* Statistics and scores leave out no decision recorded before they began, and
\* the drift detection takes no older one than its window holds, whatever
\* overlaps; while recordings do not overlap, both see exactly the log as it
\* was when they began (observer.ts).
THEOREM ReadersSeeTheLog ==
  ASSUME NullIsApart
  PROVE  ObserverSpec => [](ScoresMissNothing /\ ReadsAreSnapshots /\ EvidenceIsRecent)
BY ReaderInvariance, WhatReadersSee, ObserverAssumption, PTL

\* Type correctness of the log, its recorders, verifier and readers.
THEOREM ObserverIsTyped == ASSUME NullIsApart PROVE ObserverSpec => []ObserverTypeOK
<1>1. LogInv /\ ReaderInv => ObserverTypeOK
  BY LogFacts DEF LogInv, ReaderInv, ObserverTypeOK
<1> QED
  BY <1>1, ReaderInvariance, PTL

\* Counting one action among the selected decisions finds one of them.
LEMMA OccurringAction ==
  ASSUME NEW T, NEW decisions \in Seq(T), NEW action, Occurrences(decisions, action) # 0
  PROVE  action \in ActionsOf(decisions)
<1> SUFFICES ASSUME action \notin ActionsOf(decisions) PROVE FALSE
  OBVIOUS
<1> DEFINE P == {i \in DOMAIN decisions : decisions[i].action = action}
<1>1. P = {}
  BY DEF ActionsOf
<1>2. SelectAt(decisions, P) \in Seq({})
  BY <1>1, SelectType
<1>3. Len(SelectAt(decisions, P)) = 0
  BY <1>2
<1> QED
  BY <1>3 DEF Occurrences, With

\* The decisions of an entity are decisions DecisionOf knows.
LEMMA DecisionsType ==
  ASSUME LogInv, NEW positions, NEW entity
  PROVE  DecisionsAt(positions, entity) \in Seq({DecisionOf[id] : id \in EntryIds \cup {Altered}})
<1> DEFINE T == {DecisionOf[id] : id \in EntryIds \cup {Altered}}
           all == [i \in DOMAIN entries |-> DecisionOf[entries[i].decision]]
           P == {i \in positions : all[i].entity = entity}
<1>1. DOMAIN entries = 1 .. Len(entries) /\ Len(entries) \in Nat
  BY LogFacts DEF LogInv
<1>2. \A i \in DOMAIN entries : entries[i].decision \in EntryIds \cup {Altered}
  BY DEF LogInv, TypeOK
<1>3. all \in [1 .. Len(entries) -> T]
  BY <1>1, <1>2
<1>4. all \in Seq(T)
  BY <1>1, <1>3, FunctionIsSequence
<1> HIDE DEF all, T, P
<1>5. SelectAt(all, P) \in Seq(T)
  BY <1>4, SelectType
<1> QED
  BY <1>5 DEF DecisionsAt, all, T, P

\* Enough denials of one action among an entity's recent decisions are always
\* reported: what the detector reads is what was recorded when it began
\* (drift-detector.ts:49), as long as recordings do not overlap.
THEOREM ProbingIsAlwaysReported == ASSUME NullIsApart PROVE ObserverSpec => []ProbingIsReported
<1>1. LogInv /\ ReadsAreSnapshots => ProbingIsReported
  <2> SUFFICES ASSUME LogInv, ReadsAreSnapshots, reading, ~overlapped, NEW entity \in Entities
               PROVE  LET recent == DecisionsAt(RecentlyCounted, entity)
                      IN Len(recent) >= 3
                           /\ (\E action \in ActionsOf(recent) :
                                 Occurrences(WithOutcome(recent, "denied"), action)
                                   >= RepetitionCount)
                         => ReportsDrift(entity)
    BY DEF ProbingIsReported
  <2>1. GetRange(RecentStart) = RecentlyCounted
    BY DEF ReadsAreSnapshots
  <2> DEFINE T == {DecisionOf[id] : id \in EntryIds \cup {Altered}}
             recent == DecisionsAt(RecentlyCounted, entity)
             denied == WithOutcome(recent, "denied")
  <2>2. ReportsDrift(entity) = DriftDetected(recent)
    BY <2>1 DEF ReportsDrift
  <2>3. recent \in Seq(T)
    BY DecisionsType
  <2> HIDE DEF recent, T
  <2>4. denied \in Seq(T)
    BY <2>3, SelectType DEF WithOutcome, With
  <2>5. ASSUME Len(recent) >= 3, NEW action, Occurrences(denied, action) >= RepetitionCount
        PROVE  DriftDetected(recent)
    <3>1. Occurrences(denied, action) # 0
      BY <2>5, DetectorAssumption
    <3>2. action \in ActionsOf(denied)
      <4> HIDE DEF denied
      <4> QED
        BY <2>4, <3>1, OccurringAction
    <3>3. Repetition(recent)
      BY <2>5, <3>2 DEF Repetition
    <3> QED
      BY <2>5, <3>3 DEF DriftDetected
  <2> QED
    BY <2>2, <2>5 DEF recent
<1> QED
  BY <1>1, ReadersSeeTheLog, ReaderInvariance, PTL

-----------------------------------------------------------------------------
\* getBySequence answers with the first entry that bears the number.
LEMMA FirstWithSequence ==
  ASSUME LogInv, NEW n \in Nat, WithSequence(n) # {}
  PROVE  \E f \in DOMAIN entries :
           /\ GetBySequence(n) = entries[f] /\ entries[f].sequence = n
           /\ \A j \in DOMAIN entries : entries[j].sequence = n => f <= j
<1> DEFINE First(i) == i \in WithSequence(n) /\ \A j \in WithSequence(n) : i <= j
<1>1. WithSequence(n) \in SUBSET Nat
  BY LogFacts DEF LogInv, WithSequence
<1>2. \E i : First(i)
  BY <1>1, LeastNatural
<1>3. First(CHOOSE i : First(i))
  BY <1>2
<1>4. PICK f : First(f) /\ f = CHOOSE i : First(i)
  BY <1>3
<1>5. GetBySequence(n) = entries[CHOOSE i : First(i)]
  BY DEF GetBySequence
<1> QED
  BY <1>4, <1>5 DEF WithSequence

\* A log numbered in order has exactly one entry under each number.
LEMMA OneWithSequence ==
  ASSUME LogInv, ~overlapped, NEW n \in Nat, n < Len(entries)
  PROVE  /\ n + 1 \in DOMAIN entries /\ WithSequence(n) # {}
         /\ GetBySequence(n) = entries[n + 1]
<1>1. /\ Len(entries) \in Nat /\ DOMAIN entries = 1 .. Len(entries)
      /\ \A i \in DOMAIN entries : entries[i].sequence = i - 1
  BY LogFacts DEF LogInv, NumberedInOrder
<1>2. n + 1 \in DOMAIN entries /\ entries[n + 1].sequence = n
  BY <1>1
<1>3. n + 1 \in WithSequence(n)
  BY <1>2 DEF WithSequence
<1>4. PICK f \in DOMAIN entries : GetBySequence(n) = entries[f] /\ entries[f].sequence = n
  BY <1>3, FirstWithSequence
<1>5. f = n + 1
  BY <1>1, <1>4
<1> QED
  BY <1>2, <1>3, <1>4, <1>5

\* An entry that hashes to what is stored with it has not been altered.
LEMMA HashTellsAltered ==
  ASSUME LogInv, NEW i \in DOMAIN entries
  PROVE  ComputeEntryHash(entries[i]) = entries[i].entry_hash <=> ~IsAltered(entries[i])
<1>1. /\ entries[i].entry_hash
           = <<entries[i].entry_hash[1], entries[i].sequence, entries[i].prev_hash>>
      /\ entries[i].entry_hash[1] \in EntryIds
      /\ IsAltered(entries[i]) \/ entries[i].decision = entries[i].entry_hash[1]
  BY DEF LogInv, HashesStand
<1>2. CASE IsAltered(entries[i])
  <2>1. entries[i].decision # entries[i].entry_hash[1]
    BY <1>1, <1>2, AuditAssumption DEF IsAltered
  <2>2. ComputeEntryHash(entries[i])[1] = entries[i].decision
    BY DEF ComputeEntryHash
  <2> QED
    BY <1>2, <2>1, <2>2
<1>3. CASE ~IsAltered(entries[i])
  BY <1>1, <1>3 DEF ComputeEntryHash
<1> QED
  BY <1>2, <1>3

\* Who moves: a recorder or an alteration, or the verifier.
LEMMA LogOrVerifierMoves ==
  ASSUME [Next]_vars
  PROVE  /\ ~overlapped' => ~overlapped
         /\ \/ UNCHANGED verifierVars
            \/ BeginVerification \/ CheckMissing \/ CheckEntry
            \/ EndVerification /\ UNCHANGED <<length, next, prevHash, valid, ailing>>
<1>1. CASE UNCHANGED vars
  BY <1>1 DEF vars, recorderVars
<1>2. ASSUME NEW w \in Recorders, LinkToLatest(w)
      PROVE  (~overlapped' => ~overlapped) /\ UNCHANGED verifierVars
  BY <1>2 DEF LinkToLatest
<1>3. ASSUME NEW w \in Recorders, \/ EmitToSinks(w)
                                  \/ \E id \in EntryIds : StoreEntry(w, id)
      PROVE  UNCHANGED overlapped /\ UNCHANGED verifierVars
  BY <1>3 DEF EmitToSinks, StoreEntry
<1>4. ASSUME NEW k \in 1 .. Len(entries), Alter(k)
      PROVE  UNCHANGED overlapped /\ UNCHANGED verifierVars
  BY <1>4 DEF Alter, recorderVars
<1>5. CASE BeginVerification \/ CheckMissing \/ CheckEntry
  BY <1>5 DEF BeginVerification, CheckMissing, CheckEntry, recorderVars
<1>6. CASE EndVerification
  BY <1>6 DEF EndVerification, recorderVars
<1> QED
  BY <1>1, <1>2, <1>3, <1>4, <1>5, <1>6 DEF Next

LEMMA PlaceInLog ==
  ASSUME LogInv, VerifierPlace
  PROVE  /\ length \in Nat /\ next \in Nat /\ next <= length
         /\ Len(entries) \in Nat /\ length <= Len(entries) /\ DOMAIN entries = 1 .. Len(entries)
         /\ next # 0 => next \in DOMAIN entries
BY LogFacts DEF LogInv, TypeOK, VerifierPlace

LEMMA StepPlace ==
  ASSUME LogInv, VerifierPlace, [Next]_vars
  PROVE  VerifierPlace'
<1> USE PlaceInLog
<1>1. CASE UNCHANGED verifierVars
  <2>1. length' <= Len(entries') /\ (~checking' => next' = length')
    BY <1>1, LogGrows DEF VerifierPlace, verifierVars
  <2>2. ASSUME ~overlapped'
        PROVE  prevHash' = IF next' = 0 THEN Genesis ELSE entries'[next'].entry_hash
    <3>1. prevHash = IF next = 0 THEN Genesis ELSE entries[next].entry_hash
      BY <2>2, LogOrVerifierMoves DEF VerifierPlace
    <3>2. next # 0 => entries'[next].entry_hash = entries[next].entry_hash
      BY EntriesStay
    <3> QED
      BY <1>1, <3>1, <3>2 DEF verifierVars
  <2> QED
    BY <2>1, <2>2 DEF VerifierPlace
<1>2. CASE BeginVerification
  BY <1>2 DEF BeginVerification, VerifierPlace
<1>3. CASE CheckMissing
  <2>1. next < length /\ WithSequence(next) = {}
    BY <1>3 DEF CheckMissing
  <2>2. overlapped
    BY <2>1, OneWithSequence
  <2> QED
    BY <1>3, <2>2 DEF CheckMissing, VerifierPlace, recorderVars
<1>4. CASE CheckEntry
  <2>1. /\ checking /\ next < length /\ next' = next + 1
        /\ prevHash' = GetBySequence(next).entry_hash
        /\ UNCHANGED <<entries, overlapped, checking, length>>
    BY <1>4 DEF CheckEntry, recorderVars
  <2>2. ~overlapped => GetBySequence(next) = entries[next + 1]
    BY <2>1, OneWithSequence
  <2> QED
    BY <2>1, <2>2 DEF VerifierPlace
<1>5. CASE EndVerification /\ UNCHANGED <<length, next, prevHash, valid, ailing>>
  BY <1>5 DEF EndVerification, VerifierPlace, recorderVars
<1> QED
  BY <1>1, <1>2, <1>3, <1>4, <1>5, LogOrVerifierMoves

LEMMA StepNoFalseAlarm ==
  ASSUME LogInv, VerifierPlace, NoFalseAlarm, [Next]_vars
  PROVE  NoFalseAlarm'
<1> SUFFICES ASSUME ~overlapped', ~valid' PROVE AnyAltered'
  BY DEF NoFalseAlarm
<1> USE PlaceInLog
<1>0. ~overlapped
  BY LogOrVerifierMoves
<1>1. AnyAltered => AnyAltered'
  BY EntriesStay DEF AnyAltered
<1>2. CASE ~valid
  BY <1>0, <1>1, <1>2 DEF NoFalseAlarm
<1>3. CASE valid /\ CheckMissing
  BY <1>0, <1>3, OneWithSequence DEF CheckMissing
<1>4. CASE valid /\ CheckEntry
  <2> DEFINE e == entries[next + 1]
  <2>1. next < length /\ next + 1 \in DOMAIN entries /\ GetBySequence(next) = e
    BY <1>0, <1>4, OneWithSequence DEF CheckEntry
  <2>2. valid' = (valid /\ e.prev_hash = prevHash /\ ComputeEntryHash(e) = e.entry_hash)
        /\ UNCHANGED entries
    BY <1>4, <2>1 DEF CheckEntry
  <2>3. e.prev_hash = prevHash
    <3>1. prevHash = IF next = 0 THEN Genesis ELSE entries[next].entry_hash
      BY <1>0 DEF VerifierPlace
    <3>2. e.prev_hash = IF next + 1 = 1 THEN Genesis ELSE entries[(next + 1) - 1].entry_hash
      BY <1>0, <2>1 DEF LogInv, ChainLinked
    <3>3. (next + 1) - 1 = next /\ (next + 1 = 1 <=> next = 0)
      OBVIOUS
    <3> QED
      BY <3>1, <3>2, <3>3, Zenon
  <2>4. ComputeEntryHash(e) # e.entry_hash
    BY <1>4, <2>2, <2>3
  <2>5. IsAltered(e)
    BY <2>1, <2>4, HashTellsAltered
  <2> QED
    BY <2>1, <2>2, <2>5 DEF AnyAltered, IsAltered
<1>5. valid' = valid \/ CheckMissing \/ CheckEntry
  BY LogOrVerifierMoves DEF verifierVars, BeginVerification
<1> QED
  BY <1>2, <1>3, <1>4, <1>5

LEMMA StepAlteredAhead ==
  ASSUME LogInv, VerifierPlace, AlteredAhead, [Next]_vars
  PROVE  AlteredAhead'
<1> SUFFICES ASSUME ~overlapped', valid', ailing'
             PROVE  \E i \in next' + 1 .. length' : IsAltered(entries'[i])
  BY DEF AlteredAhead, IsAltered
<1> USE PlaceInLog
<1>0. ~overlapped
  BY LogOrVerifierMoves
<1>1. CASE UNCHANGED <<length, next, valid, ailing>>
  <2>1. PICK i \in next + 1 .. length : IsAltered(entries[i])
    BY <1>0, <1>1 DEF AlteredAhead
  <2>2. i \in DOMAIN entries
    OBVIOUS
  <2>3. IsAltered(entries'[i])
    BY <2>1, <2>2, EntriesStay DEF IsAltered
  <2> QED
    BY <1>1, <2>1, <2>3
<1>2. CASE BeginVerification
  <2>1. /\ length' = Len(entries) /\ next' = 0 /\ ailing' = AnyAltered /\ UNCHANGED entries
    BY <1>2 DEF BeginVerification
  <2>2. PICK i \in DOMAIN entries : IsAltered(entries[i])
    BY <2>1 DEF AnyAltered
  <2>3. i \in next' + 1 .. length'
    BY <2>1
  <2> QED
    BY <2>1, <2>2, <2>3
<1>3. CASE CheckMissing
  BY <1>3 DEF CheckMissing
<1>4. CASE CheckEntry
  <2>1. /\ next < length /\ next + 1 \in DOMAIN entries
        /\ GetBySequence(next) = entries[next + 1]
    BY <1>0, <1>4, OneWithSequence DEF CheckEntry
  <2>2. /\ valid /\ ailing /\ next' = next + 1 /\ UNCHANGED <<entries, length>>
        /\ ComputeEntryHash(entries[next + 1]) = entries[next + 1].entry_hash
    BY <1>4, <2>1 DEF CheckEntry
  <2>3. PICK i \in next + 1 .. length : IsAltered(entries[i])
    BY <1>0, <2>2 DEF AlteredAhead
  <2>4. i # next + 1
    BY <2>1, <2>2, <2>3, HashTellsAltered
  <2>5. i \in next' + 1 .. length'
    BY <2>2, <2>4
  <2> QED
    BY <2>2, <2>3, <2>5
<1> QED
  BY <1>1, <1>2, <1>3, <1>4, LogOrVerifierMoves DEF verifierVars

LEMMA StepAlteredAheadOrHidden ==
  ASSUME LogInv, VerifierPlace, AlteredAheadOrHidden, [Next]_vars
  PROVE  AlteredAheadOrHidden'
<1> DEFINE Hidden(i) == \E j \in 1 .. i - 1 : entries[j].sequence = entries[i].sequence
           Later(i) == next <= entries[i].sequence \/ Hidden(i)
<1> SUFFICES ASSUME Len(entries') = length', valid'
             PROVE  /\ \A n \in 0 .. next' - 1 : WithSequence(n)' # {}
                    /\ ailing' => \E i \in DOMAIN entries' : IsAltered(entries'[i]) /\ Later(i)'
  BY DEF AlteredAheadOrHidden, IsAltered
<1> USE PlaceInLog
<1>1. CASE UNCHANGED <<length, next, valid, ailing>>
  <2>1. Len(entries) = length
    BY <1>1, LogGrows
  <2>2. \A i \in DOMAIN entries :
          /\ i \in DOMAIN entries' /\ entries'[i].sequence = entries[i].sequence
          /\ IsAltered(entries[i]) => IsAltered(entries'[i])
    BY EntriesStay DEF IsAltered
  <2>3. ASSUME NEW n \in 0 .. next - 1 PROVE WithSequence(n)' # {}
    <3>1. PICK i \in DOMAIN entries : entries[i].sequence = n
      BY <1>1, <2>1 DEF AlteredAheadOrHidden, WithSequence
    <3>2. i \in WithSequence(n)'
      BY <2>2, <3>1 DEF WithSequence
    <3> QED
      BY <3>2
  <2>4. ASSUME ailing' PROVE \E i \in DOMAIN entries' : IsAltered(entries'[i]) /\ Later(i)'
    <3>1. PICK i \in DOMAIN entries : IsAltered(entries[i]) /\ Later(i)
      BY <1>1, <2>1, <2>4 DEF AlteredAheadOrHidden
    <3>2. \A j \in 1 .. i - 1 : j \in DOMAIN entries
      OBVIOUS
    <3>3. Hidden(i) => Hidden(i)'
      BY <2>2, <3>2
    <3> QED
      BY <1>1, <2>2, <3>1, <3>3
  <2> QED
    BY <1>1, <2>3, <2>4
<1>2. CASE BeginVerification
  <2>1. next' = 0 /\ ailing' = AnyAltered /\ UNCHANGED entries
    BY <1>2 DEF BeginVerification
  <2>2. \A i \in DOMAIN entries : entries[i].sequence \in Nat
    BY DEF LogInv, TypeOK
  <2>3. ailing' => \E i \in DOMAIN entries : IsAltered(entries[i])
    BY <2>1 DEF AnyAltered
  <2> QED
    BY <2>1, <2>2, <2>3
<1>3. CASE CheckMissing
  BY <1>3 DEF CheckMissing
<1>4. CASE CheckEntry
  <2>1. /\ next < length /\ WithSequence(next) # {} /\ valid /\ next' = next + 1
        /\ ComputeEntryHash(GetBySequence(next)) = GetBySequence(next).entry_hash
        /\ UNCHANGED <<entries, length, ailing>>
    BY <1>4 DEF CheckEntry
  <2>2. PICK f \in DOMAIN entries :
          /\ GetBySequence(next) = entries[f] /\ entries[f].sequence = next
          /\ \A j \in DOMAIN entries : entries[j].sequence = next => f <= j
    BY <2>1, FirstWithSequence
  <2>3. ~IsAltered(entries[f])
    BY <2>1, <2>2, HashTellsAltered
  <2>4. \A n \in 0 .. next : WithSequence(n) # {}
    <3>1. \A n \in 0 .. next : n \in 0 .. next - 1 \/ n = next
      OBVIOUS
    <3> QED
      BY <2>1, <3>1 DEF AlteredAheadOrHidden
  <2>5. ASSUME ailing
        PROVE  \E i \in DOMAIN entries :
                 IsAltered(entries[i]) /\ (next + 1 <= entries[i].sequence \/ Hidden(i))
    <3>1. PICK i \in DOMAIN entries : IsAltered(entries[i]) /\ Later(i)
      BY <2>1, <2>5 DEF AlteredAheadOrHidden
    <3>2. entries[i].sequence \in Nat
      BY DEF LogInv, TypeOK
    <3>3. CASE entries[i].sequence = next
      <4>1. f <= i /\ f # i
        BY <2>2, <2>3, <3>1, <3>3
      <4>2. f \in 1 .. i - 1
        BY <4>1
      <4> QED
        BY <2>2, <3>1, <3>3, <4>2
    <3> QED
      BY <3>1, <3>2, <3>3
  <2>6. next' - 1 = next
    BY <2>1
  <2> QED
    BY <2>1, <2>4, <2>5, <2>6 DEF WithSequence
<1> QED
  BY <1>1, <1>2, <1>3, <1>4, LogOrVerifierMoves DEF verifierVars

\* As many numbers as entries, and none missing: none is there twice.
LEMMA NoneMissingNoneTwice ==
  ASSUME NEW n \in Nat, NEW f \in [1 .. n -> 0 .. n - 1], \A m \in 0 .. n - 1 : \E i \in 1 .. n : f[i] = m
  PROVE  \A i, j \in 1 .. n : f[i] = f[j] => i = j
<1>1. IsFiniteSet(1 .. n) /\ Cardinality(1 .. n) = n /\ Cardinality(0 .. n - 1) = n
  BY FS_Interval
<1>2. f \in Surjection(1 .. n, 0 .. n - 1)
  BY DEF Surjection
<1>3. f \in Injection(1 .. n, 0 .. n - 1)
  BY <1>1, <1>2, FS_SurjSameCardinalityImpliesInj
<1> QED
  BY <1>3 DEF Injection, IsInjective

LEMMA VerdictFollows ==
  ASSUME LogInv, VerifierInv
  PROVE  VerdictHolds
<1> USE PlaceInLog DEF VerifierInv
<1> SUFFICES ASSUME ~checking, valid, ailing, ~overlapped \/ Len(entries) = length
             PROVE  FALSE
  BY DEF VerdictHolds, ValidMeansUnaltered
<1>1. next = length
  BY DEF VerifierPlace
<1>2. CASE ~overlapped
  BY <1>1, <1>2 DEF AlteredAhead
<1>3. CASE Len(entries) = length
  <2> DEFINE f == [k \in 1 .. length |-> entries[k].sequence]
  <2>1. \A k \in DOMAIN entries : entries[k].sequence \in Nat /\ entries[k].sequence < k
    BY DEF LogInv, TypeOK, SequencesLag
  <2>2. f \in [1 .. length -> 0 .. length - 1]
    BY <1>3, <2>1
  <2>3. \A m \in 0 .. length - 1 : \E i \in 1 .. length : f[i] = m
    BY <1>1, <1>3 DEF AlteredAheadOrHidden, WithSequence
  <2>4. \A i, j \in 1 .. length : f[i] = f[j] => i = j
    <3> HIDE DEF f
    <3> QED
      BY <2>2, <2>3, NoneMissingNoneTwice
  <2>5. PICK i \in DOMAIN entries : \/ next <= entries[i].sequence
                                    \/ \E j \in 1 .. i - 1 : entries[j].sequence = entries[i].sequence
    BY <1>3 DEF AlteredAheadOrHidden
  <2>6. ~(next <= entries[i].sequence)
    BY <1>1, <1>3, <2>1
  <2>7. PICK j \in 1 .. i - 1 : entries[j].sequence = entries[i].sequence
    BY <2>5, <2>6
  <2>8. i \in 1 .. length /\ j \in 1 .. length /\ i # j
    BY <1>3
  <2>9. f[i] = f[j]
    BY <2>7, <2>8
  <2> QED
    BY <2>4, <2>8, <2>9
<1> QED
  BY <1>2, <1>3

LEMMA VerifierInvariance == ASSUME NullIsApart PROVE Spec => [](LogInv /\ VerifierInv)
<1>1. Init => VerifierInv
  <2> SUFFICES ASSUME Init PROVE VerifierInv
    OBVIOUS
  <2>1. /\ Len(entries) = 0 /\ length = 0 /\ next = 0 /\ prevHash = Genesis
        /\ valid /\ ~ailing /\ 0 .. next - 1 = {}
    BY DEF Init
  <2> QED
    BY <2>1 DEF VerifierInv, VerifierPlace, NoFalseAlarm, AlteredAhead, AlteredAheadOrHidden
<1>2. LogInv /\ VerifierInv /\ [Next]_vars => VerifierInv'
  BY StepPlace, StepNoFalseAlarm, StepAlteredAhead, StepAlteredAheadOrHidden DEF VerifierInv
<1> QED
  BY <1>1, <1>2, LogInvariance, PTL DEF Spec

\* A verification that reports the chain valid has missed no entry that was
\* altered before it began (audit-chain.ts:84): while recordings do not
\* overlap, and over a forked chain as long as no entry arrives meanwhile.
\* Nor does it find fault with a chain nothing was altered in, while
\* recordings do not overlap.
THEOREM VerificationTells ==
  ASSUME NullIsApart PROVE ObserverSpec => [](VerdictHolds /\ NoFalseAlarm)
<1>1. LogInv /\ VerifierInv => VerdictHolds /\ NoFalseAlarm
  BY VerdictFollows DEF VerifierInv
<1> QED
  BY <1>1, VerifierInvariance, ReadersOnlyRead, PTL

-----------------------------------------------------------------------------
\* One more decision is among those with a value of a field, last, or not.
LEMMA WithAppend ==
  ASSUME NEW T, NEW s \in Seq(T), NEW d \in T, NEW field, NEW value
  PROVE  /\ With(s, field, value) \in Seq(T)
         /\ With(Append(s, d), field, value)
              = IF d[field] = value THEN Append(With(s, field, value), d) ELSE With(s, field, value)
<1> DEFINE t == Append(s, d)
           P == {i \in DOMAIN s : s[i][field] = value}
           Q == {i \in DOMAIN t : t[i][field] = value}
<1>1. /\ Len(s) \in Nat /\ DOMAIN s = 1 .. Len(s) /\ DOMAIN t = 1 .. Len(s) + 1
      /\ \A i \in 1 .. Len(s) : t[i] = s[i]
      /\ t[Len(s) + 1] = d
  OBVIOUS
<1>2. \A i \in 1 .. Len(s) : i \in P <=> i \in Q
  <2> HIDE DEF t
  <2> QED
    BY <1>1
<1>3. Len(s) + 1 \in Q <=> d[field] = value
  <2> HIDE DEF t
  <2> QED
    BY <1>1
<1>4. With(s, field, value) = SelectAt(s, P) /\ With(t, field, value) = SelectAt(t, Q)
  BY DEF With
<1> HIDE DEF P, Q
<1>5. SelectAt(t, Q) = IF Len(s) + 1 \in Q THEN Append(SelectAt(s, Q), d) ELSE SelectAt(s, Q)
  BY SelectAppend
<1>6. SelectAt(s, P) = SelectAt(s, Q)
  BY <1>2, SelectAlike
<1>7. SelectAt(s, P) \in Seq(T)
  BY SelectType
<1> QED
  BY <1>3, <1>4, <1>5, <1>6, <1>7

\* A denial raises the entropy by more than the score is divided by.
LEMMA DenialDegrades ==
  ASSUME NEW T, NEW s \in Seq(T), NEW d \in T, d.outcome = "denied", Degraded(s)
  PROVE  Degraded(Append(s, d))
<1> DEFINE t == Append(s, d)
<1>1. Len(t) = Len(s) + 1 /\ Len(s) \in Nat
  OBVIOUS
<1>2. Denials(t) = Denials(s) + 1 /\ Denials(s) \in Nat
  <2>1. With(t, "outcome", "denied") = Append(With(s, "outcome", "denied"), d)
        /\ With(s, "outcome", "denied") \in Seq(T)
    BY WithAppend
  <2> HIDE DEF t
  <2> QED
    BY <2>1 DEF Denials, WithOutcome
<1>3. ASSUME NEW field, NEW value
      PROVE  /\ Len(With(s, field, value)) \in Nat /\ Len(With(t, field, value)) \in Nat
             /\ Len(With(t, field, value)) >= Len(With(s, field, value))
  <2>1. /\ With(s, field, value) \in Seq(T)
        /\ \/ With(t, field, value) = With(s, field, value)
           \/ With(t, field, value) = Append(With(s, field, value), d)
    BY WithAppend
  <2> HIDE DEF t
  <2> QED
    BY <2>1
<1> DEFINE a(x) == Len(WithOutcome(x, "approval_required"))
           c(x) == Len(WithRisk(x, "critical"))
           h(x) == Len(WithRisk(x, "high"))
<1> HIDE DEF t
<1>4. /\ a(s) \in Nat /\ a(t) \in Nat /\ a(t) >= a(s)
      /\ c(s) \in Nat /\ c(t) \in Nat /\ c(t) >= c(s)
      /\ h(s) \in Nat /\ h(t) \in Nat /\ h(t) >= h(s)
  BY <1>3 DEF WithOutcome, WithRisk
<1>5. /\ Degraded(s) <=> 8 * Denials(s) + 6 * a(s) + 6 * c(s) + 3 * h(s) > 6 * Len(s)
      /\ Degraded(t) <=> 8 * Denials(t) + 6 * a(t) + 6 * c(t) + 3 * h(t) > 6 * Len(t)
  BY DEF Degraded, Entropy
<1> HIDE DEF a, c, h
<1>6. Degraded(t)
  <2>1. \A l, n, x, y, z, xx, yy, zz \in Nat :
          8 * n + 6 * x + 6 * y + 3 * z > 6 * l /\ xx >= x /\ yy >= y /\ zz >= z
          => 8 * (n + 1) + 6 * xx + 6 * yy + 3 * zz > 6 * (l + 1)
    OBVIOUS
  <2>2. 8 * Denials(s) + 6 * a(s) + 6 * c(s) + 3 * h(s) > 6 * Len(s)
    BY <1>5
  <2>3. 8 * (Denials(s) + 1) + 6 * a(t) + 6 * c(t) + 3 * h(t) > 6 * (Len(s) + 1)
    BY <1>1, <1>2, <1>4, <2>1, <2>2
  <2> QED
    BY <1>1, <1>2, <1>5, <2>3
<1> QED
  BY <1>6 DEF t

\* The entity's decisions, when one more entry is stored that is about it.
LEMMA DecisionsGrow ==
  ASSUME LogInv, NEW w \in Recorders, NEW id \in EntryIds, StoreEntry(w, id),
         NEW entity, DecisionOf[id].entity = entity
  PROVE  DecisionsAt(DOMAIN entries, entity)'
           = Append(DecisionsAt(DOMAIN entries, entity), DecisionOf[id])
<1> DEFINE T == {DecisionOf[e] : e \in EntryIds \cup {Altered}}
           n == Len(entries)
           d == DecisionOf[id]
           all == [i \in DOMAIN entries |-> DecisionOf[entries[i].decision]]
           next1 == [i \in DOMAIN entries' |-> DecisionOf[entries'[i].decision]]
<1>1. /\ n \in Nat /\ DOMAIN entries = 1 .. n /\ DOMAIN entries' = 1 .. n + 1
      /\ \A i \in 1 .. n : entries'[i] = entries[i]
      /\ entries'[n + 1].decision = id
  BY LogFacts, Stored, NewEntryFields DEF LogInv
<1>2. all \in Seq(T) /\ Len(all) = n
  <2>1. \A i \in 1 .. n : entries[i].decision \in EntryIds \cup {Altered}
    BY <1>1 DEF LogInv, TypeOK
  <2>2. all \in [1 .. n -> T]
    BY <1>1, <2>1
  <2> HIDE DEF all, T, n
  <2> QED
    BY <1>1, <2>2, FunctionIsSequence
<1>3. d \in T
  OBVIOUS
<1>4. next1 = Append(all, d)
  <2>1. next1 = [i \in 1 .. n + 1 |-> IF i <= n THEN all[i] ELSE d]
    <3>1. ASSUME NEW i \in 1 .. n + 1
          PROVE  DecisionOf[entries'[i].decision] = IF i <= n THEN all[i] ELSE d
      <4>1. CASE i <= n
        <5>1. i \in 1 .. n
          BY <4>1, <1>1
        <5> QED
          BY <1>1, <4>1, <5>1
      <4>2. CASE ~(i <= n)
        <5>1. i = n + 1
          BY <4>2, <1>1
        <5> QED
          BY <1>1, <4>2, <5>1
      <4> QED
        BY <4>1, <4>2
    <3> HIDE DEF all, d, n
    <3> QED
      BY <1>1, <3>1
  <2> HIDE DEF next1, all, d, T, n
  <2>2. Append(all, d) = [i \in 1 .. n + 1 |-> IF i <= n THEN all[i] ELSE d]
    BY <1>2, <1>3, AppendIs
  <2> QED
    BY <2>1, <2>2
<1> DEFINE P == {i \in DOMAIN entries : all[i].entity = entity}
           Q == {i \in DOMAIN entries' : next1[i].entity = entity}
<1>5. /\ DecisionsAt(DOMAIN entries, entity) = SelectAt(all, P)
      /\ DecisionsAt(DOMAIN entries, entity)' = SelectAt(next1, Q)
  BY DEF DecisionsAt
<1>6. /\ n + 1 \in Q
      /\ \A i \in 1 .. n : i \in P <=> i \in Q
  <2>1. /\ next1[n + 1] = d
        /\ \A i \in 1 .. n : next1[i] = all[i]
    <3> HIDE DEF next1, all, d, T, n
    <3> QED
      BY <1>1, <1>2, <1>3, <1>4
  <2> HIDE DEF next1, all, n
  <2> QED
    BY <1>1, <2>1
<1> HIDE DEF P, Q, next1, all, d, T, n
<1>7. SelectAt(next1, Q) = Append(SelectAt(all, Q), d)
  BY <1>2, <1>3, <1>4, <1>6, SelectAppend
<1>8. SelectAt(all, P) = SelectAt(all, Q)
  BY <1>2, <1>6, SelectAlike
<1> QED
  BY <1>5, <1>7, <1>8 DEF d

\* Recording one more denial of an entity never clears its drift flag, be it
\* recorded over a forked chain or an altered one (degradation.ts).
THEOREM DenialsAlwaysKeepTheFlag ==
  ASSUME NullIsApart PROVE ObserverSpec => DenialsKeepTheFlag
<1> DEFINE Keeps(entity) ==
             LET last == DecisionOf[entries'[Len(entries')].decision]
             IN /\ Len(entries') > Len(entries)
                /\ last.entity = entity /\ last.outcome = "denied"
                /\ Degraded(DecisionsAt(DOMAIN entries, entity))
                => Degraded(DecisionsAt(DOMAIN entries, entity))'
<1>1. ASSUME LogInv, ObserverNext, NEW entity \in Entities PROVE Keeps(entity)
  <2> DEFINE last == DecisionOf[entries'[Len(entries')].decision]
  <2> SUFFICES ASSUME Len(entries') > Len(entries), last.entity = entity, last.outcome = "denied",
                      Degraded(DecisionsAt(DOMAIN entries, entity))
               PROVE  Degraded(DecisionsAt(DOMAIN entries, entity))'
    OBVIOUS
  <2>1. PICK w \in Recorders, id \in EntryIds : StoreEntry(w, id)
    <3>1. Len(entries) \in Nat
      BY LogFacts DEF LogInv
    <3>2. UNCHANGED entries => Len(entries') = Len(entries)
      OBVIOUS
    <3>3. \A k \in 1 .. Len(entries) : Alter(k) => Len(entries') = Len(entries)
      BY <1>1, Alteration
    <3>4. \/ UNCHANGED entries
          \/ \E w \in Recorders, id \in EntryIds : StoreEntry(w, id)
          \/ \E k \in 1 .. Len(entries) : Alter(k)
      BY <1>1 DEF ObserverNext, BeginReading, FinishReading, Next, vars, LinkToLatest,
         EmitToSinks, BeginVerification, CheckMissing, CheckEntry, EndVerification
    <3> QED
      BY <3>1, <3>2, <3>3, <3>4
  <2>2. entries'[Len(entries')].decision = id
    BY <1>1, <2>1, Stored, NewEntryFields
  <2>3. DecisionsAt(DOMAIN entries, entity)'
          = Append(DecisionsAt(DOMAIN entries, entity), DecisionOf[id])
    BY <1>1, <2>1, <2>2, DecisionsGrow
  <2>4. DecisionsAt(DOMAIN entries, entity) \in Seq({DecisionOf[e] : e \in EntryIds \cup {Altered}})
    BY <1>1, DecisionsType
  <2>5. DecisionOf[id] \in {DecisionOf[e] : e \in EntryIds \cup {Altered}}
    BY <2>1
  <2> QED
    BY <2>2, <2>3, <2>4, <2>5, DenialDegrades
<1>2. LogInv /\ [ObserverNext]_observerVars
        => [\A entity \in Entities : Keeps(entity)]_observerVars
  BY <1>1
<1> QED
  BY <1>2, LogInvariance, ReadersOnlyRead, PTL DEF ObserverSpec, DenialsKeepTheFlag
=============================================================================
