----------------------------- MODULE Accumulator -----------------------------
(***************************************************************************)
(* The Stateful Accumulator (governance-kernel/accumulator.ts): per path,  *)
(* the magnitudes authorised in a sliding window.  It lives in the memory  *)
(* of the kernel process, not in the StorageAdapter.                       *)
(***************************************************************************)
EXTENDS Storage, Integers, Sums

CONSTANTS
  Window,   \* windowMs, in clock ticks
  Omega     \* path -> getThreshold(path)

ASSUME AccumulatorAssumption == Window \in Nat /\ Omega \in [Paths -> Nat]

VARIABLE entries  \* path -> AccumulatorState.entries, in order of recording

Entry == [deltaS : Deltas, timestamp : Nat]

AccumulatorTypeOK == entries \in [Paths -> Seq(Entry)]

AccumulatorInit == entries = [path \in Paths |-> <<>>]

\* The entries recorded after an instant, in their order.
After(recorded, t) ==
  SelectAt(recorded, {i \in DOMAIN recorded : recorded[i].timestamp > t})

\* Mutant of Live: the window ends an instant early.
LiveTooBriefly(path) == After(entries[path], now - Window + 1)

\* What prune keeps: the window excludes its oldest instant.
Live(path) == After(entries[path], now - Window)

TotalOf(recorded) == SumOver([i \in DOMAIN recorded |-> recorded[i].deltaS], DOMAIN recorded)

CurrentValue(path) == TotalOf(Live(path))

\* Mutant of WithinThreshold: the action itself is not counted.
WithinThresholdBefore(path, delta) == CurrentValue(path) <= Omega[path]

WithinThreshold(path, delta) == CurrentValue(path) + delta <= Omega[path]

Prune(path) == entries' = [entries EXCEPT ![path] = Live(path)]

\* check, which prunes, followed by record.
Record(path, delta) ==
  entries' = [entries EXCEPT ![path] =
                Append(Live(path), [deltaS |-> delta, timestamp |-> now])]
=============================================================================
