# A verification project for kairos-strategy-engine

TLA+ modules that model the strategy engine, TLC configurations that check them
on small instances, and theorems about them that TLAPS proves for every value
of the constants. `PROJECT.json` lists the components, the runs, the source
lines of every definition, the hazards that the properties are for, one
plausible bug ("slip") for every property, and the theorems.

    tlasany M.tla                               parse a module
    tlc -workers 2 -config X.cfg MCModule.tla   check a run
    tlapm MProofs.tla                           check the proofs of a component

## 1. The system

The engine consumes closed one-minute bars, evaluates the enabled strategies on
each, and publishes one *evaluation receipt* per strategy and bar, and the
intents that a strategy emitted. It never executes anything.

```
 transport (at least once)          output topics
      |  CLOSED_BAR envelope            ^  receipts, then intents
      v                                 |
  +-------------------- service.py --------------------+
  |  sequence guard -> window -> evaluate -> prepare ->|
  |  publish -> acknowledge        (one consumer loop) |
  +------|-----------------------------^---------------+
         v  rolling window of bars     |  batch
   runtime_evaluation.py --> runtime.py --> sleeves/*, adaptive/*
      (decision clock,          (window check,   (pure generators over
       readiness, verdict)       candles)         timeframes, indicators)

   campaign.py: the same generators, on a saved context, for research
```

### Inventory

| component | state | operations | what is hard | what makes it correct |
|---|---|---|---|---|
| strategy service (`service.py`) | rolling window, blocked symbols, restored history, prepared batch, unfinished publication or evaluation, per symbol | `_restore_history`, `handle_envelope`, `process_bar`, `_append_or_replay`, `_publish_batch`, acknowledge | redelivery, failure or crash at every await, retries of half-done work, gaps and conflicting bars | receipts before the acknowledgement, one outcome per bar, a contiguous window, every bar answered |
| evaluation receipts (`runtime_evaluation.py`) | none of its own, reads the window | `evaluate_runtime_bar`, `_history_ready`, `_volume_context_ready` | window length against the phase of the clock, zero volume | NO_INTENT only for a completed analysis, WARMUP only for a lack of history |
| runtime shell, requirements, settings (`runtime.py`, `runtime_requirements.py`, `config.py`) | constants | window check, minimum window, decision interval and phase | an accepted window that is too short for the frames | the registered minimum suffices |
| campaign evaluator (`campaign.py`) | construction, calls at their await | constructor, `evaluate` | registry, configuration and files change around the await; the resolver returns something else | results only from what was frozen, named and past |
| time frames (`timeframes.py`) | none | `aggregate` | partial buckets at both ends | only whole frames |
| regime veto retest reclaim (`sleeves/regime_retest_reclaim.py`) | segment, armed setup, event inventory | one pass over five-minute rows, evidence validator | gaps and zero volume while armed, expiry against reclaim | the validator accepts all generated evidence, sequential and timely lifecycles, fresh hours |
| adaptive pullback and range (`adaptive/*`) | none stored: everything is recomputed from rows | shock overlay, cooldown, regimes, trend, range and crash setups | bounded reach of the shock search, "used" attempts that nobody stored | one short per shock, entries only after its cooldown, overlay lifted in time |
| Donchian ensemble (`sleeves/donchian_ensemble.py`, `allocation.py`) | active models, stops, last allocation | daily loop, deadband | days without volatility, order of stop and high | stops explain exits, zero weight exactly without models |
| price sleeves: trend breakout, trend pullback, range reversion, order-flow expansion, right tail (two), quarter-hour flow, crowded trend, four-hour SMA200 (`sleeves/*`) | pass-local | one generator each | segments and gaps, hours joined to five-minute rows, strictly prior baselines, decision clocks, a rolling window live and an archive in research | a decision depends on the rows since the gap and on nothing later, live and research agree, a quiet receipt tells what the generator did |
| intent model (`models.py`) and `_runtime_exit_plan` (`runtime.py`) | immutable records | construction, conversion | one refused intent loses the whole batch | which plans can be refused |
| registry and provenance (`registry.py`, `provenance.py`) | constant table, files on disk | lookup, digests | a digest names only some of the files that run | a receipt vouches for the code that produced it |
| factors (`factors.py`) | rows per hour | checks, order | a missing hour | no decision without both rows |
| candles, validation, indicators | immutable records, pure functions | construction, averages | floating point, formats | field checks |
| legacy strategy (`legacy_strategy.py`) | - | comparison with old reports | - | not called by the service |
| package exports (`__init__.py` files) | - | names only | - | - |

Components interact through calls within one process. The only concurrency is
the interleaving at awaits (the service's database read, publishes and
acknowledgement; the campaign's resolver) and the outside world: transport,
database, clock, files on disk. Generators run without awaiting.

## 2. The modules

| module | models | used by |
|---|---|---|
| `SlotLedger` | abstract: what the durable service promises | `StrategyService` (refinement) |
| `StrategyService` | `service.py` | `MCStrategyService`, `StrategyServiceProofs` |
| `FrameReadiness` | complete frames of `timeframes.py` and the readiness policies over them | `RuntimeEvaluation`, `SleeveFeatures`, `CausalCampaign`, `FrameReadinessProofs` |
| `RuntimeEvaluation` | `runtime_evaluation.py`, the window check of `runtime.py`, `runtime_requirements.py`, `config.py` | `PriceSleeves` |
| `SleeveFeatures` | the nine price sleeves: on which rows a generator gets as far as its price rule, and what `campaign.py` and the evaluator know of it | `PriceSleeves` |
| `IntentPlans` | exit plans of the sleeves, their filters, the contract of `models.py` | `PriceSleeves` |
| `PriceSleeves` | composition: one sleeve live (window, evaluator, conversion) and in research (archive) | `MCPriceSleeves`, `PriceSleevesProofs` |
| `SourceLineage` | `source_files` of `registry.py`, digests, receipts restored by `service.py` | `MCSourceLineage`, `SourceLineageProofs` |
| `CausalCampaign` | `campaign.py` | `MCCausalCampaign`, `CausalCampaignProofs` |
| `RegimeRetest` | `sleeves/regime_retest_reclaim.py` | `MCRegimeRetest`, `RegimeRetestProofs` |
| `AdaptiveRegime` | `adaptive/logic.py` and the slots of `adaptive/adapter.py` | `MCAdaptiveRegime`, `AdaptiveRegimeProofs` |
| `DonchianEnsemble` | `sleeves/donchian_ensemble.py`, `allocation.py` | `MCDonchianEnsemble`, `DonchianEnsembleProofs` |

`PriceSleeves` extends `RuntimeEvaluation` and implements it (`EvaluatorSpec`);
the other components do not share state. `StrategyService` keeps the promise that
`RuntimeEvaluation` relies on (`SoundWindow`: the window of an unblocked symbol
has no gap), and `RuntimeEvaluation` says what one receipt of a batch means.
Definitions whose comment starts with "Slip:" are no part of the model: each
is the plausible bug that a property of a passing run is known to catch.

### StrategyService

Memory of the service object: `bars` (`_bars`), `blockedSymbols`,
`restoredThrough`, `prepared`, `publicationPending`, `evaluationPending`. The
handler in progress: `pc` (the await it is suspended at), `current`, `sent`.
Outside: `audit` (bars the producer sent), `inbox` (envelopes that are not
acknowledged), `ledger` (visible outputs), the clock and the budgets of
failures, crashes and replays.

* `Start` creates the object and restores history: the latest `Window` audited
  bars in order, ties in any order, block at the first that does not follow.
* `Deliver(b)` hands an envelope to the idle loop. `Handle(b)` is the handler:
  rejection of a bar ahead of the clock or behind an unfinished predecessor
  (`Reject`), `ResumePublication`, `AnswerReplay`, `Accept`, `RetryEvaluation`,
  `Evaluate`, `Quarantine`, the lookup of a committed outcome after a restart
  (`Fetch`), `Publish` of one output, `FinishPublication` and `Acknowledge`.
  Those at an await have a variant that fails.
* With the durable bus the outputs and the acknowledgement become visible in
  one transaction and a failure rolls them back; with the in-memory bus each
  output is visible when published. `Durable` selects the bus.
* `Produce`, `Replay` and `Tick` are the environment. `Crash` loses the memory
  of the process; only the durable bus outlives it, so only there is it an action.

Left out: `_generate_for_bar` (118-149), which nothing calls, and
`_last_evaluations`, a view of the prepared batches. The policy digest is
constant across restarts. An envelope whose handler failed, or whose
acknowledgement failed after the commit, is assumed to reach the handler again.

`SlotLedger` is the abstract specification: a bar becomes due, gets one whole
outcome, and is retired only when it has one; analyses of one symbol are
recorded in market order. With `Durable = TRUE`, `StrategyService` implements
it under `announced <- audit, due <- inbox` (`OneOutcomePerBar`).

### RuntimeEvaluation and FrameReadiness

A behaviour is the life of one strategy on one symbol: settings that passed the
validators, then bars without a gap, with or without volume, a status per bar,
and restarts of the process: without a store its window is empty, with one it is
a gap-free window of archived bars. `Verdict` is the order of the early returns of `evaluate_runtime_bar`:
minimum window, decision clock, generator error, intents for this anchor,
readiness, volume context. The generator's answer is an input. A DISABLED
strategy does not reach the evaluator and is left out.

### SleeveFeatures, IntentPlans and PriceSleeves

Every price sleeve is one pass over frames that asks, row by row, whether its
rolling inputs are known, then compares prices, then builds an exit plan. The
modules keep the first and the last in full and let the comparison answer either
way: averages and ATRs are seeded at the first row of a segment, so their values
change as the window rolls, and no property here depends on them.

* `SleeveFeatures`. A row is the index of its frame since the epoch. The code's
  "index minus segment start is at least n" is `Run`: the last n frames have no
  gap. `BreakoutRow`, `PullbackRow`, `ReversionRow`, `OrderFlowRow`,
  `RightTailRow`, `AlignedRow`, `BoundaryRow`, `CrowdedRow` and
  `MovingAverageRow` are the guards of the nine generators before the price
  rule, `Regime` the hourly state that three of them join by `bisect_right`.
  `FrameRequirements` is the table of `campaign.py`, written independently of the
  rows as in the code.
* `IntentPlans`. Stop, target and trailing pair from close, ATR and the level the
  rule found, the filter each sleeve applies (`Wanted`) and the contract of
  `ExitPlan` and `SleeveIntent` (`Contract`).
* `PriceSleeves`. `Deliver`: a minute closes, joins the archive (`tape`) and the
  rolling window, and is evaluated: the generator runs if the minimum and the
  clock allow it, returns candidates or raises, the batch is converted, the
  receipt gets its status. `Archive`: the two sleeves that run in research only
  see the archive; the factor row of an hour may be missing. `Outage`: minutes
  pass while the process is down, the archive has them or has a gap, and the
  process starts without a store, with an empty window. `Resume`: it starts with a
  store, with the latest rows of the archive that fit the window, those it missed
  included, and goes on if they have no gap and reach the clock (otherwise the
  service has blocked the symbol; bars of the outage that are delivered all the same
  are restored ones, which the service answers without an evaluation). Candidates
  are told apart only as "of the
  anchor" and "of an earlier row", which is what the conversion looks at.

Left out: optional filters that no registered default switches on (volume and
taker share of the breakout, reward to risk of the reversion), intent validity,
holding time and hashes, which nothing in the engine reads back.

### SourceLineage

A digest is modelled by what goes into it, the versions of its files. `Upgrade`
installs another version of one file while the process is down (an assumption: a
package changed under a running process is not modelled), `Start`, `Stop`,
`Evaluate`, `RecordUnavailable` and `Restore` are what the service does with
receipts of an anchor. A receipt remembers in `ran` the versions of the files
that really ran; the code has no such field.

### CausalCampaign

Calls of `evaluate` with their phases. Between the generator and the result a
call does not await, so no other call runs (`Busy`), but files change on disk
at any time. The digest of the source is read by the generator after the check,
so it may differ from what was checked. Digests are versions, and windows stand
for their SHA-256. The second decision clock of `right_tail_trend_v1` and the
volume context of the live evaluator are no part of `campaign.py`, so they are
no part of the model.

### RegimeRetest

One action per transition of the pass: `ZeroRow`, `FirstRow` (of a segment,
with the reset of an armed setup), `BoundaryFailure`, `Overextension`,
`FlowMismatch`, `RiskGeometryReject`, `EmitIntent`, `Expiry`, `Wait`,
`NoCandidate`, `RegimeReject`, `ExpansionReject`, `Arm`, `Finish`. A comparison
of prices may come out either way, everything about time, position and segment
is computed. `Accepted` is the evidence validator of the same file.

### AdaptiveRegime

The code stores nothing and recomputes everything from the rows, so the state
is the history: rows (shock, whether it breaks the frozen edge, where the row
stands relative to it), the raw regimes of closed hours, whether the latest slot
is still to be evaluated, and the intents so far. `CloseRow`, `Trend`, `Range`,
`Crash`, `NoIntent`. A slot that was not evaluated before the next row closes
is lost (LATE_OBSERVATION). Behaviours start after the full gap-free history
that the adapter asks for. Where a row stands matters only within the reach of
an attempt.

### DonchianEnsemble

`Day` (a volatility exists: an allocation), `QuietDay` (warmup or a run of equal
returns: the models move, nothing is allocated) and `Gap`. Channels, midpoints,
entries, exits, stops and the deadband are computed from integer closes. Stops
are stored doubled. How large the volatility is is an input; whether there is
one is computed in exact arithmetic (the floats of the code may round a zero
deviation to a tiny one).

## 3. The runs

All runs have `CHECK_DEADLOCK FALSE`: producers, budgets and sources of rows are
bounded, so a behaviour really may stop.

| run | question | bounds |
|---|---|---|
| `service_memory` | in-memory bus, failures, redelivery and a conflicting bar: receipts for every acknowledged bar, each minute analysed by one batch, answers stay | 1 symbol, 3 minutes and a conflicting first bar, window 2, 2 failures, 2 replays |
| `service_durable` | types and the refinement of `SlotLedger` (which includes receipts before the acknowledgement) | 1 symbol, 3 minutes, window 2, 1 failure, 1 crash, 1 replay |
| `service_restart` | what a restart restores is contiguous, no symbol is analysed past a gap or a conflict, every delivered bar is acknowledged in the end | 2 minutes and a conflict, 2 crashes, 1 replay |
| `service_live_memory` | the last for two symbols that share the loop of the in-memory service | 2 and 1 minutes, 2 failures, 1 replay |
| `service_replay` | violation, see section 6 | 3 minutes, 2 failures, 2 replays |
| `retest` | evidence is accepted, lifecycles are sequential and timely, hours are fresh | 8 buckets, setup window 2, hours of 2 buckets, lookback 1 |
| `adaptive` | one short per shock, calm entries, overlay lifted, bounded search exact | 8 rows, hours of 3, crash state 5, reach 7, retest 2 to 4, 2 shocks |
| `evaluation` | nine sleeves live and in research: receipts are informed and exact, live and research agree, gaps isolate, nothing looks ahead, lost batches are explained, the evaluator is implemented | 12 configurations, windows 9, 11 and 20, 28 minutes from minute 0 or 1, one outage of 1, 2 or 4 minutes, restart from the store after 0, 1, 2 or 4, lull of 5, or missing factor |
| `lineage` | violation, see section 6 | 2 strategies, 2 anchors, 2 versions of each file |
| `donchian` | exits and stops are exactly those the closes tell, stops only rise, flat means inactive, signals move the weight | horizons 2 and 4, lookback 2, closes 1 to 4, 3 model weights, band 1/5, 8 days |
| `donchian_hold` | violation, see section 6 | as `donchian` |
| `campaign` | results are frozen, causal and informed | 2 calls, 2 rules, 2 minimums, 6 windows that are named or loaded, 4 intents |

Why these bounds are enough to see the interesting cases:

* *Service.* Three minutes with a window of two push a bar out of the window, so
  that its redelivery meets the "not in history" branch; a fourth bar conflicts
  with the first. Two failures let a retry fail again. Two crashes let a restart
  be interrupted before it answered what it restored. `Roster = {sleeve}` keeps
  one receipt and at most one intent per bar, so a batch already goes out in two
  publishes and can fail between them. The clock may lag the producer, so bars
  arrive early.
* *Retest.* Two breakouts, a gap or zero minute while armed, expiry against
  reclaim on the last row and the end of the source while armed all fit in eight
  buckets; with hours of two buckets a regime with lookback 1 needs four.
* *Adaptive.* The second shock falls before, in and after the attempt and the
  cooldown of the first; the reach covers exactly two hours and a row, the
  least that `ReachAssumption` allows for. TLC starts from settled histories,
  the proofs from any.
* *Evaluation.* Frames are scaled (5m to 2 minutes, 15m to 3, an hour to 4, 4h to
  8) and lookbacks to 1 or 2 rows, so that two hours with a five-minute run
  inside, three quarters, or two 4h frames and a day of two hours fit in 28
  minutes with an outage before, in and after them. Windows of 9 and 11 are too
  short for some sleeves and long enough for others at some phases only, which
  is what WARMUP and the comparison of live and research are about. One
  disturbance is enough: what two gaps isolate, the later one isolates. The
  prices make a target of the extended reversion zero or negative. `MCPriceSleeves`
  also evaluates the properties at the code's own numbers: the 48,060 bars of
  `regime_aligned_right_tail_v1` are enough and exactly tight
  (`AlignedMinimumIsTight`); the default window of 1,440 bars passes the settings
  for `right_tail_trend_v1` and `trend_pullback_reclaim_v1` although their hours
  ask for more at every decision, so that they report WARMUP for ever
  (`DefaultWindowIsTooShort`); and `quarter_hour_flow_v1` misses its ATR of 96
  quarters by one minute at every decision (`DefaultWindowMissesOneMinute`), which
  its receipts, UNAVAILABLE in any case, do not tell.
* *Donchian.* Eight days are two full channels of the longest horizon, and enough
  for a model to leave, enter again and leave again; four closes give new highs,
  equal returns and stops that are met exactly.
* *Campaign.* One of the windows is the named one, the others are shorter,
  longer, gapped or reach past the cutoff; intents are stale, expired, or two at
  once; two calls interleave at the await.

### What the properties say

*Service.* `ReceiptForEveryAck`: every bar that was acknowledged has its receipts
on the output topic. `CoherentAnalysis`: all
visible analyses of a minute are outputs of one batch, whatever retries published
them and whichever bar of the minute came first, and an intent is visible only beside all receipts of its batch. `SoundWindow`: the window
of an unblocked symbol is contiguous and its bars, but for restored ones, are
answered before the next is appended. `AnalysisMovesForward`: analyses become
visible in market order, never of a blocked symbol and never at or before the
restored history. `AnswersAreFinal`: once the whole outcome of a bar is visible
nothing but the same bytes follows it; only the in-memory bus shows a further
quarantine receipt when the bar of a blocked symbol is delivered again.
`OneOutcomePerBar`: the refinement. `EveryBarAnswered`:
liveness. A symbol whose quarantine receipt contradicts an outcome that is
already stored is excepted (`Contradicted`): the durable bus refuses that batch
for ever and the envelopes wait for an operator, as
`docs/RUNTIME-EVALUATIONS.md` (59-61) says.

*Retest.* `EvidenceAccepted`, `OneLifecycleAtATime`, `ResolvedInTime` (also: the
elapsed count taken from row positions is the distance in time, nothing was
skipped while armed), `HourIsFresh`.

*Adaptive.* `OneAttemptPerShock` (the first match uses the attempt up, also if it
was rejected or evaluated by nobody), `CalmBeforeRegime` (every shock of the whole
history, also those out of reach of the search, is at least a crash state old and
closed before both hours that an entry was judged by closed: the later hour is free
of shocks, the earlier one may contain one before its last row), `CooldownEnds`, `ReachIsExact` (at every row of the history
the search of the last rows gives the regime that a search of all rows would).

*Evaluation.* `QuietIsInformed`, `WarmupIsExact` and `RegisteredMinimumSuffices`
are about the receipts alone. `VerdictMatchesGenerator` compares two parts of the
code that were written separately: the lookback table that tells NO_INTENT from
WARMUP and the loops of the generators. `LiveIsResearch`: a decision on the rolling
window is one on the archive, and conversely as soon as the window holds what the
sleeve reads. `GapIsolation`: the rows since the last gap decide alone.
`DecisionsAreFinal`: a later minute neither adds nor removes a decision of the
past. `ReceiptTellsBatch`: what a status says about candidates, which fails for
a conversion that looks at the anchor only. `RefusalsAreExplained`: only two
configurations can lose a batch to the intent contract. `EvaluatorSpec`: with
its outages and restarts the composed system is still the evaluator of `RuntimeEvaluation`.

*Donchian.* `StopsAreExplained` and `ExitsAreExplained` together say that a model
is in the market exactly from the first high after its last exit to the first close
that is no high and at or below its stop, the highest midpoint since that entry (not
of an earlier position): both ask for the days of all exits of the segment, and
there is only one such set of days for given closes;
`StopsOnlyRise`; `FlatMeansInactive` relates weight and models through the
deadband and through days without an allocation; `SignalsMoveWeight` says that
between two consecutive days with an allocation no entry or exit is absorbed by the
deadband (which is what a quiet day in between breaks, section 6).

*Lineage.* The run `lineage` shows that a restored receipt may outlive its source.
`DigestedSourceIsInstalled`, which is proved, says what holds all the same: such a
receipt ran the installed version of every file that the policy digests, those of
the other enabled strategies included, so what may differ is an import that no
enabled strategy is fingerprinted by.

*Campaign.* `ResultsAreFrozen`; `ResultsAreCausal` (the generator ran on the bars
that the context names, whatever the resolver returned, and on nothing later);
`ResultsAreInformed`.

### Fairness

`FairSpec` of `StrategyService` assumes weak fairness of `Start` (the process is
restarted and its loop runs), of `Tick` (time passes) and, for each bar, of
`Handle` (a handler that can go on does: asyncio schedules it), and strong
fairness of `Deliver` (the transport redelivers an unacknowledged envelope again
and again, but other envelopes keep the loop busy in between, so delivery is
enabled only now and then). Failures and crashes are never fair and their budgets
end: liveness is a statement about what happens once they stop.

## 4. What is proved

Proofs are by TLAPS, for every value of the constants under the ASSUMEs named in
the modules (windows and lookbacks are positive, intervals nest, the `None` value
is not a value, and the like; the theorems of `SourceLineageProofs` name theirs,
`RosterOK`: the enabled strategies are registered).

| theorem | module | argument |
|---|---|---|
| `TypeCorrect` | `StrategyServiceProofs` | inductive; the bound of the window needs the shape of `Extend` |
| `EveryAckHasReceipt`, `WindowIsSound` | `StrategyServiceProofs` | `Accounted` |
| `AnalysisIsCoherent`, `AnalysesMoveForward` | `StrategyServiceProofs` | `Ordered` |
| `AnswersStay` | `StrategyServiceProofs` | `Ordered`, `WholeInv` on the durable bus, `MemoryInv` on the other |
| `ImplementsSlotLedger` (for `Durable`) | `StrategyServiceProofs` | `Ordered` and `WholeInv`, step by step |
| `TypeCorrect`, `LifecyclesAreSequential`, `OutcomesAreTimely`, `HoursAreFresh` | `RegimeRetestProofs` | `RetestInv` |
| `EvidenceIsAccepted` | `RegimeRetestProofs` | `RetestInv` and `EvidenceInv` |
| `TypeCorrect`, `AttemptsAreUsedUp`, `RegimesAreCalm`, `OverlayIsLifted` | `AdaptiveRegimeProofs` | `AdaptiveInv` |
| `SearchIsExact` | `AdaptiveRegimeProofs` | types of the rows and `ReachAssumption` |
| `TypeCorrect`, `WarmupIsTold`, `MinimumIsEnough`, `QuietIsAnalysis` (of the evaluator) | `PriceSleevesProofs` | closed form of the number of complete frames (`FrameReadinessProofs`) |
| `TypesAndWindow`, `ReceiptsAreEvaluations`, `ReceiptsAreSound`, `ReceiptsTellBatches`, `RefusedPlans`, `VerdictsMatchGenerators` | `PriceSleevesProofs` | `LiveInv` |
| `PastIsFinal`, `LiveDecidesLikeResearch`, `GapsIsolate` (aligned sleeve: hours that span a 4h frame) | `PriceSleevesProofs` | `LiveInv`, and the frames of an archive that continues or is cut |
| `TypeCorrect`, `ModelsAreExplained`, `ExitsFollowStops`, `WeightFollowsModels`, `StopsAreMonotonic` | `DonchianEnsembleProofs` | `EnsembleInv` |
| `SignalsAreFollowed` | `DonchianEnsembleProofs` | `AllocationIsCurrent` |
| `DigestedSourceIsKept`, `WithoutHiddenImport` | `SourceLineageProofs` | `LineageInv` |
| `TypeCorrect`, `OnlyFrozenResults`, `OnlyCausalResults`, `OnlyInformedResults` | `CausalCampaignProofs` | `CampaignInv` |

The strengthenings, and why they are needed:

* `Accounted`. An acknowledgement only looks at the handler, so the receipt must
  be traced back: to the batch in the handler's hands (`HandlerInv`), to a
  prepared batch that is visible or still to be published (`PreparedInv`), or,
  for a bar that is called a replay because it is in the window, to the window
  whose every bar is answered, prepared or pending (`WindowInv`).
* `Ordered`. `Accounted` says nothing of what is analysed after what. `OrderInv`
  adds that a batch or a bar that still waits belongs to the newest minute of an
  unblocked window and is later than every visible analysis of its symbol,
  `Covered` that no analysis is ahead of the window, and `SentInv` that a
  transaction holds outputs of the batch at hand, receipts before intents. A
  crash drops the waiting parts, and a restart begins with the window that the
  audit gives back.
* `WholeInv`. At the level of `SlotLedger` a bar has one batch, and all of it. With
  the durable bus a commit that shows anything comes after the last `Publish` of
  the batch, and a second batch for the bar would contradict a stored receipt,
  which `SentInv` excludes. Commits refine `Record`, acknowledgements without new
  outputs `Retire`, sends and redeliveries `Announce`; all else is a stutter.
* `MemoryInv`. The in-memory service restores nothing and starts once, so a receipt
  that is not an analysis is a quarantine and a block is never lifted. A second
  batch for an answered bar cannot be an analysis, since analyses move forward
  (`Ordered`), so it is a quarantine. On the durable bus a commit is the first
  of its bar (`WholeInv`).
* `RetestInv`. The inventory is judged by event times, the pass by row positions;
  `SegmentInv` says the segment is a maximal run of positive rows, so that
  `SetupInv` can say that positions and buckets advance together while a setup
  is armed; `TipInv` orders the next event after the last.
* `EvidenceInv`. The inventory is acceptable at every row, up to the one lifecycle
  that is still open: each event has the times that its kind asks for
  (`WellTimed`), decisions never go back and a settled setup never returns
  (`InSequence`), the counters of a side add up but for the last event (`Tallied`,
  `Unmatched`), and emitted events and intents are one to one (`EmittedInv`). The
  validator collects the events of a setup from all positions; that they are one
  stretch of the inventory, from the candidate to its end, follows from
  `OneLifecycleAtATime` and from `InSequence`: all that was settled before has an
  earlier trigger. Each event that a row may add keeps these parts, and after
  `Finish` no lifecycle is open.
* `AdaptiveInv`. Every intent carries the facts of its slot; they stay true as
  rows are appended because they only speak of rows up to the slot. The bounded
  reach of the search is enough by `ReachAssumption`: a shock outside of it is
  older than a crash state and closed before both hours closed.
* `SearchIsExact`. A shock out of reach is older than a crash state and than the
  hour in which its cooldown could end, so without a shock in reach both searches
  leave the base regime; with one, the latest of both is the same (`ReachCovers`).
* Frame count. Over a window without gaps the number of complete buckets is a
  quotient of the minutes held and the open part of the clock (`Needed`), which
  turns the counting of the code into arithmetic.
* `LiveInv`. The window ends at the clock while the process is up, a research
  sleeve has none, and an empty window has no receipt: then each delivery is a
  `FirstBar` or `NextBar` of the evaluator and each outage or resume a `Restart`
  (what the store gives back is the end of the archive, `RestoredIsEnd`), and what is
  proved of the evaluator carries over (`ReceiptsAreSound`).
* `VerdictsMatchGenerators`. Over a window without gaps, "so many complete frames
  of each length" (the table) turns into "the last row ends a run of that length"
  (the generator), sleeve by sleeve: the `...Ready` lemmas. The hour that
  `bisect_right` finds at a five-minute close, the decision hour of the daily
  sleeves and the 4h state are computed from the clock; the volume rule of the
  reversion is the evaluator's volume context.
* `PastIsFinal`. The archive only grows behind its newest bar, so it has the same
  frames, traded minutes and factor hours up to the old end (`FeaturesAgree`); each
  generator reads nothing that closes later than the row (`ReachesAgrees`).
* `LiveDecidesLikeResearch`. The window is the archive without the minutes before
  its first: it has the same frames from there on (`FramesAreCut`). A run of
  the window is one of the archive; a run of the archive is one of the window if
  the window holds it (`Held...`), which `Needed` says in minutes. The regime hour
  and the 4h state of a last row are the last closed ones, so neither depends on
  where the rows begin (`RegimeIsLastHour`, `AlignedAtEnd`). The quarter of the
  boundary sleeve needs `QuarterHour > 1`: its first minute does not close it.
* `GapsIsolate`. The minute before the latest gap's end is missing, so no run of
  frames that ends after it reaches back over it (`RunSinceGap`); every run that a
  sleeve reads is therefore held by the rows since the gap, and these decide like
  the window above. The 4h state is not part of a run with the hours; its age and
  the length of the hours together keep it behind the gap, which is the
  hypothesis on the aligned sleeve.
* `EnsembleInv`. For each model the days of its exits in the segment and, in the
  market, the day it entered after the last of them. A new day leaves the channels
  before it, and with them this history, as they are (`ExitsStay`); an entry needs
  the history of a model outside, an exit that of one inside and adds its day to
  the exits, so `StopsAreExplained` and `ExitsAreExplained` are inductive together
  only. The weight part needs that a deadband below 100 % never holds zero for more or more for
  zero (`DeadbandSeparatesZero`).
* `AllocationIsCurrent`. An allocation of yesterday is for the models as they are now;
  what is proved of the signal flag then speaks of the models of both allocations.
* `LineageInv`. A receipt is made at one time, so what ran and what the policy digests
  agree where they overlap (`MadeAtOnce`), and what a process restored was saved
  under the policy of the installed package (`RestoredUnderPolicy`).
  `WithoutHiddenImport` turns the finding of section 6 around: for a roster that
  also enables `right_tail_trend_v1`, or that leaves the aligned sleeve out, the
  policy digests all that an evaluation executes, and the documented promise holds.
* `CampaignInv`. The checks that a call passed still hold of what it keeps, the
  version of memory included, because nothing runs between generator and result;
  contiguity becomes a formula for the position of each bar by the least
  counterexample (`ContiguousPositions`).

Only model-checked: `EveryBarAnswered` (liveness and ENABLED are out of the
prover's reach) and the properties of the runs that expect a violation. What recursive definitions on data
compute cannot be proved by induction with these backends; the validator of the
retest therefore selects by positions (`Nth`, `InOrder`, `SetupAt`).

## 5. What is not modelled

Floating-point indicators and the comparisons of prices and volumes, the optional
filters named in section 2, wording and identities of receipts and intents, the
field checks of `candles.py` and `validation.py`, `TradeRecord` of `models.py`,
which nothing in the engine constructs, the status guards and authority flags
(constants of a deployment), and the legacy strategy. They hold no state and
decide nothing that the properties speak of. The regime retest and the adaptive
sleeve are evaluated on their own rows, not inside `PriceSleeves`: the service
reports UNAVAILABLE for a quiet retest sleeve, and the adaptive evaluator has an
entry point of its own.
The transport, the database and the clock are modelled by how `service.py` uses
them and marked external in `PROJECT.json`.

## 6. Disagreements between code and documents

* *An exact replay can publish.* `process_bar` asks whether the symbol is blocked
  (`service.py:91`) before it asks whether the bar is a replay. A bar that was
  answered before its symbol was blocked is quarantined when it is delivered
  again. `docs/RUNTIME-EVALUATIONS.md:68-69` says "A successful exact replay
  produces no new outputs." Run `service_replay`, property `ExactReplayIsSilent`.
* *A signal on a day without volatility is lost.* The models move before the loop
  asks for the volatility, and continues without one
  (`donchian_ensemble.py:126`). On the next day the entry or exit is no signal
  any more, so the deadband may hold the old weight for the new set of models.
  `README.md:115-117` says "signal entries and exits update immediately". Run
  `donchian_hold`, property `HoldKeepsSignals`. With horizons (2, 3, 5), lookback 3
  and closes 1, 4, 1, 1, 1, 1, 1, 2 the code itself returns a DEADBAND_HOLD with
  three active horizons after an allocation for two; the published configuration
  needs 90 equal daily returns.

* *A receipt outlives the code it vouches for.* A definition is fingerprinted by the
  common files and its own module (`registry.py:133-160`). The only FORWARD_FROZEN
  strategy, `regime_aligned_right_tail_v1`, computes its signal with
  `sleeves/right_tail_trend.py`, which is not among them. After a change of that
  module a restart restores the receipts of the earlier version as evaluations of
  the installed one. `docs/RUNTIME-EVALUATIONS.md:80-82` says "Changed
  policy/source ... are not silently treated as a successful quiet evaluation."
  Run `lineage`, property `RestoredSourceIsInstalled`.

Observations that contradict no document: the settings accept a window that is
too short for `right_tail_trend_v1`, `trend_pullback_reclaim_v1` and
`quarter_hour_flow_v1` (section 3), the default exits of `trend_breakout_v1` trail
and have no runtime form, so one candidate in the window makes each of its
receipts an ERROR, an extended reversion target may be negative and a trailing
distance may exceed its activation price, either of which loses a batch, a block is forgotten at a
restart unless the conflict is still in the audited window, a bar older than the
restored window counts as a replay without a look at its contents, the
campaign gives results for `right_tail_trend_v1` at minutes at which the live
evaluator would say NOT_SCHEDULED, and nothing but its age ties the 4h state of
`regime_aligned_right_tail_v1` to the rows after a gap: with a lookback
and an ATR of one hour, which its settings accept (registered are 24), a state of
before the gap could authorize an entry.

## 7. Plan

Done, in the order of how much a mistake would matter: the service and its
abstract ledger, the evaluator, the campaign, the three sleeves with a lifecycle
of their own, the price sleeves live and in research, and the lineage of
receipts. Left:

1. Model the optional filters, and the retest and adaptive sleeves inside the
   composition of `PriceSleeves`.
