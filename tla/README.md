# Formal model of invariant-governance

TLA+ modules, TLC configurations and TLAPS proofs for the governance
middleware in `src/`: a Governance Kernel that signs Approval Receipts and
Fluidity Tokens, an Execution Gate that runs actions under them, and an audit
log of what was decided. The code is TypeScript on promises. Nothing runs in
parallel, but every `await` of a store lets another call in, so the questions
that matter are about calls that overlap, pills and retractions that arrive in
the middle of a call, and writes that fail.

## Inventory

| Part | State it keeps | Operations | Talks to |
|---|---|---|---|
| Governance Kernel (`governance-kernel/kernel.ts`) | key pair, accumulator | evaluate, issueFluidityToken, registerManifest, retract, reinstate, poisonPill, clearLockdown, getAccumulatorValue | every store; its signed receipts go to the gate by way of the caller |
| Stateful Accumulator (`accumulator.ts`) | per path, the magnitudes of the window, in memory | check, record, getCurrentValue, reset, resetAll | kernel only |
| Manifest loader (`manifest-loader.ts`, `types/policy.ts`) | none | resolveEffectiveAuthority, getAgentPermissions and the restrictive merge | ManifestStore |
| Policy evaluator (`policy-evaluator.ts`) | none | evaluate, classifyRiskLevel | kernel only |
| Issuers (`receipt-issuer.ts`, `fluidity-issuer.ts`) | none | issue | kernel only |
| Retraction Manager (`retraction.ts`) | none | retract, reinstate, isRetracted, broadcastPoisonPill, isLockdown, clearLockdown | stores of retractions, pills, receipts, tokens |
| Execution Gate (`execution-gate/`) | none | execute (six-step verification), executeWithToken (consume) | stores of consumption, tokens, retractions, pills |
| Storage (`storage/memory.ts`) | eight stores | get, store, update, revokeAll, ... | shared by kernel, gate and telemetry |
| Telemetry (`telemetry/`) | the audit chain, in the AuditStore | recordDecision, verifyAuditChain, scores, drift, statistics | AuditStore, sinks |
| Entity paths (`types/entity-path.ts`) | none | ancestors, validation, normalisation | everything |

What makes each part correct, and what makes that hard:

* **Gate, receipts**: a receipt completes one action; nothing runs in lockdown,
  after retraction or expiry, or with other parameters. Hard because the six
  checks are three reads at three moments, and the ledger is written after the
  action.
* **Gate, tokens**: charges stay within the budget. Hard because the charge is a
  read, an `await` and a write of the whole token.
* **Kernel**: nothing is signed that the authority, a retraction or a lockdown
  bars; no window exceeds its threshold. Hard because the answers are gathered
  over four awaits, and the window is in memory while the receipts are stored.
* **Manifests**: a child only restricts. Hard because an absent list, an empty
  list and `*` mean different things to the merge and to the evaluator.
* **Paths**: what is registered for an entity reaches it and its descendants.
  Hard because the stores take a path as it is spelled, the walk up to its
  ancestors drops doubled slashes, and jurisdiction ignores case as well.
* **Kernel and gate together**: what runs is what a window was charged for. Hard
  because a receipt is charged once, retried freely and good until it expires,
  and runs again where calls overlap or the ledger loses a write.
* **Audit chain**: entries are linked, and a verification reports the chains in
  which an entry was altered in place, and no others. Hard because append and
  verification both interleave.
* **Scores and drift**: a reader sees the decisions recorded before it began.
  Hard because it asks for a length, awaits, and computes a range of sequence
  numbers from it, while recordings go on and may have forked the numbering.

`PROJECT.json` lists the hazards at their lines, with the properties aimed at
each.

## Modules

| Module | Models |
|---|---|
| `EntityPaths` | a path as its list of segments; ancestors; when a path is retracted |
| `PathSpelling` | a path as callers spell it: validation, normalisation, ancestors, jurisdiction |
| `Storage` | the stores shared by kernel and gate, the clock, what was signed |
| `RetractionManager` | retract, reinstate, clearLockdown, and the pill broadcast in its three steps |
| `ReceiptGate` | `execute`: `callPc` and `request` hold a call between two awaits |
| `ReceiptLifecycle` | abstract: unissued, ready, running, used |
| `TokenGate` | `executeWithToken` and `consume`: `loaded` is the copy a call works on |
| `TokenLedger` | abstract: a budget granted once, and charges within it |
| `ManifestLoader`, `PolicyEvaluator` | pure: merge along the chain, and the decision |
| `EntityRegistry` | the stores of manifests and retractions, filled under any spelling, and the decision drawn from them |
| `Accumulator` | the window of each path |
| `WindowLedger` | abstract: totals over time, bounded in every window; a restart begins anew |
| `GovernanceKernel` | `evaluate` and `issueFluidityToken` from await to await, registration, restart |
| `Governance` | `GovernanceKernel` and `ReceiptGate` as instances on one storage and one clock |
| `AuditChain` | recordDecision and verifyIntegrity on the AuditStore |
| `DriftDetector` | pure: the three drift patterns and the degradation score |
| `TelemetryObserver` | the readers of the audit log beside its recorders and its verifier |
| `Subsequences`, `Sums` | pure: `filter` and `reduce` with `+`, as recursive functions |
| `ReceiptGateProofs`, `TokenGateProofs`, `GovernanceKernelProofs`, `GovernanceProofs`, `AuthorityProofs`, `AuditChainProofs`, `WindowLedgerProofs` | the proofs |
| `DataLemmas` | what the proofs need to know of induction, filters and sums |
| `MC...` | the values of the constants for TLC |

`Governance` and `EntityRegistry` divide what `GovernanceKernel` cannot hold at
once: the first composes, with one path and no pills; the second leaves out
the calls and takes every order of registrations and retractions, since a
decision reads nothing else of the stores. In `EntityRegistry` a spelling is
whether the string begins with a slash, and the parts between its slashes, so
that `/acme//bot`, `/acme/bot/` and `/Acme/bot` are three spellings that
validation accepts and `acme/bot` is one that it rejects.

Three things hold of all of them.

*Atomicity.* An action is the code from one `await` to the next, with the
decision on a store's answer taken in the step that asked. Two steps without an
await between them are one action: from the decision of `evaluate` to the start
of `receipts.store` (lines 154 to 178), for instance, the kernel neither yields nor fails.

*Slots.* `Calls`, `Uses`, `Requests` and `Recorders` are slots for calls in
flight, not threads; a slot is free again when its call returns.

*History variables.* `refusals`, `against` and `objections` hold, for each
call, the reasons against it that have held **without interruption since it
began**. They make "the check was really made" a statement about the system: a
reason that came and went may have fallen between two checks, one that stood
throughout may not be missed. `succeeded`, `unrecorded`, `spent`, `granted`, `issued`,
`revokedReceipts`, `revokedTokens`, `forgotten`, `verified`, `effects`, `lost`,
`overlaps`, `ailing` and `overlapped` also record only what happened and guard
nothing, save that `issued` and `granted` stand for the signed artefacts their
holders present and that `lost` and `overlaps` are what the bounds of
`governance` count.

*Faults.* Where `StoreFaults` is true the store that an operation writes to may
reject: a receipt is charged and not stored, a token is granted to nobody, an
action that completed is not recorded in the consumption ledger.

Signatures, hashes and ids are ideal: a signature verifies only over what was
signed (`genuine`, `SignatureCovers`), `ComputeEntryHash` is injective, ids are
fresh. Action patterns are pairs of domain and operation. Magnitudes are
natural numbers. Rates and scores are compared as integers, by
cross-multiplication; on the boundary itself the rounding of the code's floating
point may decide otherwise.

## Runs

The bounds are small on purpose: two calls are enough for every race found
here, since each is between one read and one write; one or two receipts, one
token, a path and its parent. `gate_concurrent` and `token_serial` have two pills,
one that revokes and one that does not, so that broadcasts overlap each other
and a review; the other runs have at most one. `MaxTime` bounds the clock and is
chosen so that receipts expire (past `ReceiptTtl`) and entries leave the window
(past `Window`) within a run. Where a run needs more or takes less:

* `governance`: one path, a threshold of one, three receipts, two calls,
  `Window` and `ReceiptTtl` 1 and clock readings up to 2, so that a second and a
  third window are charged while a receipt of the one before is still good. Of
  the two things that make a receipt run twice there is one each: `MaxOverlaps`
  lets one call begin beside another for its receipt, `MaxLostWrites` lets the
  ledger lose one write. With one of each, one receipt may run three times, or
  two receipts twice; further ones only add to both sides of the bound, and the
  theorems are for any number. Retractions and failing stores occur, pills and
  restarts do not: `gate_concurrent` and `kernel_window` have those.
* `registry`: twelve spellings, five manifests, registrations under five of the
  spellings and retractions under three, a depth limit of 3 where chains reach
  4 manifests, so that a list may be widened again in the middle of a chain.
  Every order of registrations and retractions is taken, there is no bound on
  their number.
* `audit_chain`: two recorders, four ids, a window of three entries. A reader
  begins only while no verification has looked at an entry, since neither
  changes what the other sees. The time window of the score covers the run. The
  counts that make salami-slicing and escalation are 2 and 4 instead of 10.

Passing:

| Run | Shows |
|---|---|
| `gate_concurrent` | two overlapping calls for one receipt, a pill, retractions, expiry, altered receipts, a failing ledger: `NeverRunsBlocked`; `LedgerIsExact`, the ledger lists what completed, save receipts for which a write to it was lost; a lockdown or a retraction that stays brings running actions to rest (`LockdownDrains`, `RetractionDrains`) |
| `gate_serial` | without overlapping calls for one receipt, `execute` with two receipts, two calls and two values of the parameters implements `ReceiptLifecycle` |
| `token_concurrent` | `TokenNeverRunsBlocked`, `RemainingWithinGrant` with overlapping calls |
| `token_serial` | without overlapping calls for one token the gate implements `TokenLedger`, `BudgetRespected` and `AccountsBalance` hold; execution under the tokens a pill has revoked comes to rest for good (`RevocationDrains`), which says nothing of tokens granted later |
| `kernel_authority` | `NeverSignsBarred` while manifests, retractions and pills change and the kernel restarts |
| `kernel_window` | two overlapping evaluations implement `WindowLedger`, and so keep its bound (`WindowBounded`), also when receipts are lost on their way to the store; a restart begins the ledger anew |
| `governance` | kernel and gate together, calls that overlap and writes that are lost included: `ExecutedWithinThreshold`, what completes under the receipts of one window keeps within the threshold, however often actions fail and are retried, save for one repetition for each overlapping call and each lost write; `ExecutionsWithinTwoThresholds`, one window of the clock may execute what two windows were charged for and those repetitions, never more |
| `registry` | which retraction reaches which spelling (`RetractionCascades`, `NoStrayRetraction`), that slashes matter for a path's own records only, and what the merge along any chain preserves (`ChainsExtend`, `ManifestsBind`, `RestrictionsAreInherited`, `LiteralListsOnlyRestrict`) |
| `audit_chain` | two recorders with a verification or a reader. While recordings do not overlap: `ChainLinked`, `NoFalseAlarm`, `ReadsAreSnapshots`, `ProbingIsReported`. Also over a forked chain: `VerdictHolds` while no entry arrives, `ScoresMissNothing`, `EvidenceIsRecent`. `DenialsKeepTheFlag`: one more denial never clears a drift flag |

Violated, each a disagreement between the code and what its documents, comments
or tests say (the quotes are in `PROJECT.json`):

| Run | Shows |
|---|---|
| `gate_double_use` | two overlapping calls complete under one receipt |
| `gate_revoked` | a pill's broadcast revokes a receipt and is over, the lockdown is cleared, and a call that begins then runs the receipt |
| `kernel_expansion` | disjoint allowed lists merge into permission for everything |

Other disagreements met while modelling; the properties above are stated around
them, and no run is kept for them:

| Code | Document |
|---|---|
| `gate.ts:93`: `markConsumed` inside the `try` reports a completed action as failed when the ledger rejects the write, and the receipt stays good (`ExecutedWithinThreshold` allows a repetition for each such write) | `gate.ts:103` "receipt is NOT consumed (can be retried)" against `docs/architecture.md:545` "Replay-immune" |
| `gate.ts:83`: the lockdown is read once, before the awaits of `verify`; an action may start in a lockdown that came after | `docs/architecture.md:643` "the Gate refuses ALL execution" |
| `fluidity-manager.ts:118`: two overlapping charges spend one budget twice (`BudgetRespected` holds for serial callers only) | `docs/architecture.md:577` "Decrements the remaining risk budget" |
| `gate.ts:131`: `executeWithToken` never reads the retraction of the token's path (`"retracted"` is excepted in `TokenNeverRunsBlocked`) | `docs/architecture.md:688` "Retraction always supersedes approval" |
| `accumulator.ts:48`: a restart on the same storage and key pair empties the window while its receipts are still good | `docs/architecture.md:242` "Reset only at epoch boundaries" |
| `kernel.ts:150`: the manifest an evaluation names is resolved apart from the permissions it used | `policy-evaluator.ts:60` "Reference to the authority manifest used" |
| `kernel.ts:197`: a token's budget is granted without a look at the accumulator | `docs/architecture.md:572` "evaluates the token request against the Policy Matrix and Stateful Accumulator" |
| `audit-chain.ts:51`: overlapping recordings get one sequence number and one `prev_hash` (`ChainLinked` holds while they do not overlap) | `audit-chain.ts:9` "prev_hash: SHA-256 of the previous entry" |
| `audit-chain.ts:95`: on a forked chain an entry that arrives during a verification stands in for a missing number, and an altered one may pass (`VerdictHolds` excepts it) | `audit-chain.ts:84` "Detects any tampering with entries or chain linkage" |
| `memory.ts:145`: the revoked flag of the TokenStore is never reset, so tokens issued after a review are never found | `tests/integration/poison-pill.test.ts:87` "should resume after human review clears lockdown" |
| `memory.ts:195`: a doubled or trailing slash, or another case, is another key, so an alias of a path escapes the manifest, retraction, window and threshold recorded under the path's own spelling (`SlashesMatterForOwnRecordsOnly`; what is recorded of its ancestors still reaches it, slashes permitting) | `docs/architecture.md:675` "retracting an entity at any level automatically retracts all descendants" |
| `entity-path.ts:109`: `isAncestorOf` compares spellings, so an entity is an ancestor of itself under another spelling (`RetractionCascades` asks for a greater depth) | `entity-path.ts:106` "Check if ancestor is an ancestor of descendant." |
| `manifest-loader.ts:41`: a child's pattern, or `*`, under a parent's literal names widens the list, and a child's list under a parent without one becomes empty and allows everything (`LiteralListsOnlyRestrict` says where the promise does hold) | `manifest-loader.ts:26` "Child can only RESTRICT, never EXPAND parent permissions." |
| `drift-detector.ts:49`: after forks sequence numbers lag behind the number of entries, and the window misses recent entries, in the end all of them (`ProbingIsReported` asks for recorders that do not overlap) | `drift-detector.ts:39` "Check for drift patterns in an entity's recent behavior." |
| `accumulator.ts:120`: a negative magnitude lowers the sum, and raises it above the threshold when it leaves the window | `docs/architecture.md:234` "safety ceiling for this path+epoch" |

With concurrent calls and charges of zero, stale write-backs leave no bound at
all on what a token is charged, so only the serial run bounds it. `gate_serial`,
`token_concurrent`, `kernel_window`, `governance` and `audit_chain` use symmetry
over interchangeable slots and ids; the runs with liveness properties do not.

**Fairness.** `gate_concurrent` and `token_serial` assume weak fairness of the
steps of each call: continuations of settled promises run, and the promise of
an action settles, as it does in Node.js unless the action hangs. Nothing is
assumed of callers, pills, retractions, the clock or the kernel. The other runs
are about safety and assume no fairness.

## Proofs

For every value of the constants, by TLAPS:

* `ReceiptGateProofs`: `TypeCorrect`, `NeverBlocked`, `ExactLedger`, and
  `LifecycleRefinement` (assuming callers that do not overlap calls for one
  receipt and a ledger that takes writes). `NeverRunsBlocked` is not inductive:
  it speaks of running calls only. The invariant `IInv` says of every stage of a
  call which reasons it has ruled out, and that a call in flight holds an issued
  receipt; a reason once out never returns. The refinement adds that one call
  at most holds a receipt and that a receipt in flight past the ledger check is
  unused; `HoldInv` is the part of it that overlapping callers keep too.
  `ExactLedger` needs neither premise.
* `TokenGateProofs`: `TokenTypeCorrect` (a stored budget never goes below zero),
  `TokenNeverBlocked`, `WithinGrant`, and `BudgetSafety` for serial callers. The
  invariant relates the copies held by calls to the grants: stale, but never
  more than was granted and signed for the same scope. `TokenLedgerRefinement`
  shows the serial token gate to implement `TokenLedger`, revocations, lost and
  late write-backs included: from the same invariant, a charge always fits.
* `GovernanceKernelProofs`: `SignsNothingBarred`. `IInv` says of every stage of
  `evaluate` and `issueFluidityToken` what it has ruled out: past the retraction
  check no retraction has stood since the call began, past the resolution the
  authority has not refused throughout if the stored permissions allow. An
  objection once out never returns to a call in flight, so the answers may be as
  stale as the awaits make them. `KernelIsTyped`, `KernelImplementsLedger` and
  `WindowsStayBounded` are about the window. The accumulator is pruned in
  passing, by calls that may then decide nothing, and keeps what receipts lost
  on the way to the store were charged, so it never equals what was signed.
  `CoreInv` says what does hold (`ChargeInv`): nothing is signed ahead of the
  clock, and for every instant a window may still begin at, what this life of
  the process signed after it weighs no more than the entries recorded after it.
  The check of `evaluate` therefore counts at least what the ledger does, so
  signing is authorising; every other step stutters, settles, or starts anew.
  The bound itself is the ledger's, by instance of `WindowLedgerProofs`.
* `GovernanceProofs`: `ExecutionStaysCharged` and `ExecutionStaysBounded`, for any
  number of overlapping calls and lost writes. The two planes are proved together
  from what is proved of each: the kernel's proofs state what each of its steps,
  a tick and a retraction keep; the gate's proofs are about `Moves`, a step of a
  call, a signature or anything that leaves receipts and calls alone, whoever
  takes it. So a kernel step is a signature or nothing to the gate, and a gate
  step only consumes, which the kernel's invariant allows for. What is new is
  `HistoriesInv`, that relates them. A call past the verifier was verified within
  the life of its receipt. And a receipt completes at most once more than it was
  overlapped or lost (`CountsOK`), which is not inductive as it stands: until the
  ledger lists the receipt, every completion was a lost one, and no more calls
  hold it than one and those that overlapped; from then on no further call finds
  it unused, so only those that had may still complete. The first bound follows
  from the weight of a window of receipts; the second since a receipt that ran in
  a window of the clock was signed in that window or in the one before, if it
  lives no longer than one.
* `AuthorityProofs`, the merge: `ChainsAlwaysExtend`, `ManifestsAlwaysBind`,
  `RestrictionsAreAlwaysInherited` and `LiteralListsAlwaysRestrict`, for any
  spellings, manifests, chains and depth limit. One merge is shown to restrict
  its parent and to bind the agents its child names (`MergeRestricts`); along a
  chain this is an induction over the number of manifests. The chains themselves
  are handled the same way: what the walk collects for an ancestor begins what
  it collects for the path, since the ancestors are spelled alike. The one
  premise, `NullIsApart`, says that the null values are no records.
* `AuthorityProofs`, the spelling: `RegistryIsTyped`, `RetractionsAlwaysCascade`,
  `NoRetractionEverStrays` and `SlashesNeverMatterElsewhere`, for every alphabet
  of segments and every set of spellings. They rest on what dropping empty
  segments does to prefixes: two spellings with one list of segments have one set
  of ancestors, and a canonical path with a deeper, lower-case path in its
  jurisdiction is spelled by a prefix of that path's segments.
* `AuditChainProofs`, the log: `ChainStaysLinked` needs that the recorder that has
  read the latest entry still holds the last one while no recording overlaps,
  and that numbers then follow the positions. `VerificationTells` needs where the
  verifier stands: what was altered and not yet reported is ahead of it, or, over
  a forked chain, hidden behind an entry with the same number. In a chain that
  did not grow meanwhile the second is impossible once every number was found,
  by the pigeonhole principle.
* `AuditChainProofs`, the readers: `ReadersSeeTheLog`, `ProbingIsAlwaysReported`,
  `DenialsAlwaysKeepTheFlag` and `ObserverIsTyped`. Numbers repeat on a forked
  chain and never run ahead of the positions, so a range of numbers misses only
  recent entries; without forks it is the range of positions. That a denial keeps
  the flag is arithmetic on counts, whatever chain it is recorded over.
  `NullIsApart` is the premise here too.
* `WindowLedgerProofs`: `LedgerBound`, of the abstract ledger, restarts included;
  its premise `LedgerConstants` follows from the assumptions of the kernel's
  modules. The bound needs two more facts, that totals grow with time and that
  nothing is settled ahead of the clock, since a charge counts in every window
  that ends later.
* `DataLemmas` is what they share. The library's induction theorems take an
  operator the provers cannot instantiate, so `SetInduction` states induction for
  a set of naturals and proves it by the pigeonhole principle; `SequenceInduction`
  and `FiniteInduction` follow from it. From these come the lemmas on `SelectAt`
  and `Without` (what a filter keeps of a prefix, of an append, of a sequence it
  has nothing to take from) and on `SumOver` (sums over disjoint sets, over
  subsets, of smaller summands).

Assumptions on constants are the ASSUMEs of the modules, which TLC evaluates
too. Every safety invariant and action property of the passing runs, and every
refinement they check, is also proved. Only model-checked is liveness
(`LockdownDrains`, `RetractionDrains`, `RevocationDrains`): fairness is out of
the prover's reach. What is proved of recursive functions rests on their bodies,
shown to be well defined in `DataLemmas`.

## Not modelled

Sinks (output only), cryptography and ids (ideal, as above), errors and exports.
Of modelled parts: `listActive`, `listRetracted`, the history of pills and the
key-value store, which no component uses; risk levels, spend limits, delegation,
alerts and global rules, which no decision reads; `reset` and `resetAll` of the
accumulator and `getParentPath`, which nothing calls; `recordExecution` and
`recordPoisonPill`, which write to the sinks only; negative and non-finite
magnitudes; the reviewer: `clearActive` clears whichever pill is active, and
neither code nor documents say which pill a review is about.

## Plan

1. Done: the gate, the kernel, the window, the audit log, spellings and
   manifests, the composition of kernel and gate, and the proofs above.
2. Composition: the token path in `Governance`, with the question what receipts
   and tokens may execute together in one window; a restart of the kernel while
   the gate goes on.
3. Proofs: done for every safety property the runs check. What the composition
   with tokens would add is to be proved from the same two planes.
