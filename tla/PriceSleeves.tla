--------------------------- MODULE PriceSleeves ---------------------------
(***************************************************************************)
(* One price sleeve on one symbol, live and in research.  Live, the        *)
(* service runs the generator on the rolling window of every accepted bar  *)
(* (RuntimeEvaluation), converts the whole batch (runtime.py) and keeps    *)
(* the intents of the anchor.  Research runs the same generator on the     *)
(* archive of all bars, gaps included.                                     *)
(*                                                                         *)
(* The price rule of a row that reaches it (SleeveFeatures) answers either *)
(* way on every run: averages and ATRs are seeded at the first row of the  *)
(* segment, so a row's numbers change as the window rolls.                 *)
(***************************************************************************)
EXTENDS RuntimeEvaluation, SleeveFeatures, IntentPlans

CONSTANTS
  Configurations,  \* sleeves with their exit plans and settings.window_bars
  Markets,         \* what a price rule may find
  Starts,          \* first minutes of a behaviour
  OutageLengths,   \* bound: how many minutes an outage may last
  LullLength,      \* bound: for how many minutes nothing may trade
  Disturbances     \* bound on outages, lulls and missing factors

ASSUME ConfigurationsAssumption ==
  /\ Configurations \subseteq [sleeve : Sleeve, plan : Plans, window : Windows]
  /\ \A c \in Configurations : RuleOf(c.sleeve) \in Rules
ASSUME MarketsAssumption == Markets \subseteq Market
ASSUME TimeAssumption ==
  /\ Starts \subseteq Nat /\ OutageLengths \subseteq Nat \ {0}
  /\ LullLength \in Nat \ {0} /\ Disturbances \in Nat

VARIABLES
  sleeve, plan,  \* the strategy and its registered configuration, fixed
  tape,          \* the archive, oldest bar first
  clock,         \* the minute that opens next
  observed,      \* hours with a derivatives observation, for the crowded sleeve
  batch,         \* which candidates the latest run of the generator returned
  refused,       \* the candidate that the contract refused in that run
  disturbed      \* outages, lulls and missing factors so far

research == <<tape, clock, observed, disturbed>>
live == <<history, status, batch, refused>>
liveVars == <<rule, window, sleeve, plan, research, live>>

--------------------------------------------------------------------------
(* One run of the generator and of the conversion to runtime intents.      *)

\* Rows that reach the price rule, told by the minute they close.
Reaching(rows) == Decisions(sleeve, rows, observed)

Candidates == {"earlier", "anchor"}

\* The candidates a run may return: every row that reaches the rule may add one.
Returns(reaching, anchor, candidates) ==
  /\ "anchor" \in candidates => anchor \in reaching
  /\ "earlier" \in candidates => reaching \ {anchor} # {}
  /\ candidates # {} => \E g \in Markets : Found(plan, g) /\ Wanted(plan, g) /\ Contract(plan, g)

\* One candidate that the contract refuses, and the run raises.
Raises(reaching, g) == reaching # {} /\ Refused(plan, g)

\* Slip: only the candidates of the anchor are converted.
ConversionOfAnchor(candidates, lost) ==
  IF lost # {} \/ (Trails(plan) /\ "anchor" \in candidates) THEN "failed"
  ELSE IF "anchor" \in candidates THEN "intent" ELSE "quiet"

\* A trailing plan has no form in the runtime contract: one such candidate
\* anywhere in the window raises before the anchor is looked for.
Conversion(candidates, lost) ==
  IF lost # {} \/ (Trails(plan) /\ candidates # {}) THEN "failed"
  ELSE IF "anchor" \in candidates THEN "intent" ELSE "quiet"

\* The generator runs only at a scheduled bar with the minimum history.
Asked(rows) == Len(rows) >= rule.minimum /\ Scheduled(rule, Closed(rows))

Observe(b) ==
  LET rows == Extend(history, b)
      reaching == Reaching(rows)
  IN  /\ \/ batch' = {} /\ refused' = {}
         \/ /\ Asked(rows)
            /\ \/ /\ batch' \in SUBSET Candidates /\ batch' # {} /\ Returns(reaching, Closed(rows), batch')
                  /\ refused' = {}
               \/ /\ batch' = {}
                  /\ \E g \in Markets : Raises(reaching, g) /\ refused' = {g}
      /\ Evaluate(b, Conversion(batch', refused'))

--------------------------------------------------------------------------
\* Sleeves whose rows depend on which minutes traded.
ReadsVolume == sleeve.kind \in {"reversion", "orderflow", "boundary"}

Disturb == disturbed < Disturbances /\ disturbed' = disturbed + 1

\* The archive ends with n minutes without a trade.
Lull(n) == Len(tape) >= n /\ \A i \in (Len(tape) - n + 1)..Len(tape) : ~tape[i].traded

Minute(traded) == [open |-> clock, traded |-> traded]

Tick(b) ==
  /\ clock < MaxMinute
  /\ clock' = clock + 1 /\ tape' = Append(tape, b)

LiveInit ==
  /\ \E c \in Configurations : sleeve = c.sleeve /\ plan = c.plan /\ window = c.window
  /\ rule = RuleOf(sleeve) /\ Accepted(rule, window)
  /\ history = <<>> /\ status = "NONE" /\ batch = {} /\ refused = {}
  /\ tape = <<>> /\ clock \in Starts /\ observed = {} /\ disturbed = 0

\* The next minute closes, is archived and is evaluated.
Deliver ==
  \E traded \in BOOLEAN :
    /\ Registered(sleeve)
    /\ Tick(Minute(traded)) /\ Observe(Minute(traded))
    /\ \/ traded /\ UNCHANGED disturbed
       \/ ~traded /\ ReadsVolume /\ ~Lull(1) /\ Disturb
       \/ ~traded /\ Lull(1) /\ ~Lull(LullLength) /\ UNCHANGED disturbed
    /\ UNCHANGED <<rule, window, sleeve, plan, observed>>

\* For the sleeves that run in research only; the factor row of an hour may
\* be missing.
Archive ==
  LET completes == sleeve.kind = "crowded" /\ (clock + 1) % Hour = 0
  IN  /\ ~Registered(sleeve)
      /\ Tick(Minute(TRUE))
      /\ \/ /\ observed' = IF completes THEN observed \union {clock \div Hour} ELSE observed
            /\ UNCHANGED disturbed
         \/ completes /\ observed' = observed /\ Disturb
      /\ UNCHANGED <<rule, window, sleeve, plan, live>>

Missed(n) == [i \in 1..n |-> [open |-> clock + i - 1, traded |-> TRUE]]

\* Slip: the rows of before the outage stay in the window.
OutageKeepingWindow ==
  \E n \in OutageLengths, archived \in BOOLEAN :
    /\ tape # <<>> /\ clock + n <= MaxMinute /\ Disturb
    /\ clock' = clock + n
    /\ tape' = IF archived THEN tape \o Missed(n) ELSE tape
    /\ UNCHANGED <<rule, window, sleeve, plan, observed, live>>

\* The process is down for n minutes and starts without a store; the
\* archive has these minutes or not.
Outage ==
  \E n \in OutageLengths, archived \in BOOLEAN :
    /\ tape # <<>> /\ clock + n <= MaxMinute /\ Disturb
    /\ clock' = clock + n
    /\ tape' = IF archived THEN tape \o Missed(n) ELSE tape
    /\ history' = <<>> /\ status' = "NONE" /\ batch' = {} /\ refused' = {}
    /\ UNCHANGED <<rule, window, sleeve, plan, observed>>

\* The rows that the store gives back, the latest ones that fit the window.
Restored(rows) ==
  SubSeq(rows, IF Len(rows) > window THEN Len(rows) - window + 1 ELSE 1, Len(rows))

\* With a store the process starts with the latest rows of the archive, those
\* it missed included; it goes on if they reach the clock without a gap.
Resume ==
  \E n \in OutageLengths \union {0} :
    /\ Registered(sleeve) /\ tape # <<>> /\ clock + n <= MaxMinute /\ Disturb
    /\ clock' = clock + n /\ tape' = tape \o Missed(n)
    /\ history' = Restored(tape') /\ Consecutive(history') /\ Closed(history') = clock'
    /\ status' = "NONE" /\ batch' = {} /\ refused' = {}
    /\ UNCHANGED <<rule, window, sleeve, plan, observed>>

LiveNext == Deliver \/ Archive \/ Outage \/ Resume

LiveSpec == LiveInit /\ [][LiveNext]_liveVars

--------------------------------------------------------------------------
(* Types and safety.                                                       *)

\* Every variable has its type, and the window is the end of the archive.
SleevesTypeOK ==
  /\ TypeOK
  /\ [sleeve |-> sleeve, plan |-> plan, window |-> window] \in Configurations
  /\ rule = RuleOf(sleeve)
  /\ tape \in Seq(Bar) /\ clock \in Nat /\ observed \subseteq Nat /\ disturbed \in 0..Disturbances
  /\ \A i \in 1..Len(tape) : tape[i].open < clock /\ (i > 1 => tape[i - 1].open < tape[i].open)
  /\ batch \subseteq Candidates /\ refused \subseteq Markets
  /\ Len(history) <= Len(tape)
  /\ history = SubSeq(tape, Len(tape) - Len(history) + 1, Len(tape))

\* The last row reaches the price rule.
Decided(rows) == rows # <<>> /\ Decides(sleeve, rows, observed)

\* The receipt and the generator agree about what was analysed: a quiet
\* receipt says NO_INTENT exactly if the generator got as far as the price
\* rule of this anchor.  The receipt is told by the table of lookbacks in
\* campaign.py (349-405), the generator by its own loops.
VerdictMatchesGenerator ==
  /\ status = "NO_INTENT" => Decided(history)
  /\ status \in {"WARMUP", "UNAVAILABLE"} /\ rule.reviewed => ~(Asked(history) /\ Decided(history))

\* Frames that the sleeve reads up to its anchor.
Reach ==
  IF sleeve.kind = "boundary"
  THEN OfLength(1, {sleeve.lags * QuarterHour + 1}) \union OfLength(QuarterHour, {sleeve.atr})
  ELSE FrameRequirements(sleeve)

\* What the service decides on its rolling window, research decides on the
\* archive; and the other way round once the window holds every frame that
\* the sleeve reads (runtime.py: research "enters the same runtime
\* conversion").  A decision clock that counts rows instead of time, or a
\* feature that reaches further back, would break it.
LiveIsResearch ==
  history # <<>> =>
    /\ Decided(history) => Decided(tape)
    /\ (\A f \in Reach : Len(history) >= Needed(f, Closed(history))) /\ Decided(tape)
         => Decided(history)

\* The minutes after the latest gap of the archive.
SinceGap ==
  LET before == {i \in 1..Len(tape) :
                   \E j \in (i + 1)..Len(tape) : tape[j].open # tape[j - 1].open + 1}
  IN  SubSeq(tape, Cardinality(before) + 1, Len(tape))

\* Nothing from before a gap authorizes a decision after it: the rows since
\* the gap decide alone (trend_breakout.py:296-299 and the segments of every
\* sleeve; of a 4h state, its age, which suffices because the hours of the
\* aligned sleeve, 24 as registered, span a 4h frame).
GapIsolation == Decided(tape) => Decided(SinceGap)

\* A bar that arrives later changes no decision of the past: nothing looks
\* ahead, and no past row begins to decide.
DecisionsAreFinal ==
  [][tape # <<>> /\ tape' # tape =>
       {m \in Decisions(sleeve, tape', observed') : m <= Closed(tape)} = Reaching(tape)]_liveVars

\* What a receipt says of the whole run: an intent is told for an anchor that
\* decided and whose batch could be converted; a quiet receipt is not given
\* over a candidate for this anchor, and of a sleeve with trailing exits it
\* says that no row of the window has a candidate.
ReceiptTellsBatch ==
  /\ status = "INTENT" => Decided(history) /\ ~Trails(plan) /\ "anchor" \in batch
  /\ status \in {"NO_INTENT", "WARMUP", "UNAVAILABLE", "NOT_SCHEDULED"} =>
       "anchor" \notin batch /\ refused = {} /\ (Trails(plan) => batch = {})

\* Which configurations can lose a batch to the contract of models.py: a
\* short reversion whose extended target is not positive, and a trailing
\* distance that reaches its activation price.  No other sleeve emits a plan
\* that its own filter lets through and the contract refuses.
RefusalsAreExplained ==
  \A g \in refused :
    \/ /\ plan.exits = "reversion" /\ g.side = "SHORT"
       /\ g.level <= plan.extension * g.atr
    \/ /\ Trails(plan)
       /\ IF g.side = "SHORT"
          THEN plan.activation + plan.distance > plan.target
          ELSE plan.distance > plan.stop + plan.activation

\* The evaluator on the window of a process that may start again.
EvaluatorSpec == Spec
=============================================================================
