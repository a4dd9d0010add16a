-------------------------- MODULE SleeveFeatures --------------------------
(***************************************************************************)
(* On which rows the price sleeves of kairos_strategy/sleeves reach their  *)
(* price rule: every sleeve first asks that its rolling inputs are known,  *)
(* each counted within a stretch of frames without a gap.  The price rule  *)
(* itself is an input, it may answer either way.                           *)
(*                                                                         *)
(* A row is named by the index of its frame since the epoch, and "index    *)
(* minus segment start" of the code is the length of the run of frames     *)
(* that ends there.  Optional filters that no registered default switches  *)
(* on are left out.                                                        *)
(***************************************************************************)
EXTENDS FrameReadiness

CONSTANTS FiveMinutes, QuarterHour, Hour, FourHours  \* lengths of the frames

Positive == Nat \ {0}

ASSUME FrameLengths ==
  /\ FiveMinutes \in Positive /\ QuarterHour \in Positive \ {1} /\ Hour \in Positive
  /\ FourHours \in Positive /\ Hour % FiveMinutes = 0 /\ FourHours % Hour = 0

(* What of its configuration a sleeve looks back with, in frames.          *)
Breakout == [kind : {"breakout"}, donchian : Positive, atr : Positive, lookback : Positive]
Pullback ==
  {s \in [kind : {"pullback"}, reclaim : Positive, trend : Positive, atr : Positive,
          fast : Positive, slow : Positive, rising : Positive, efficiency : Positive] :
     s.fast < s.slow /\ s.reclaim < s.trend}
Reversion == [kind : {"reversion"}, vwap : Positive, atr : Positive, lookback : Positive]
OrderFlow ==
  {s \in [kind : {"orderflow"}, baseline : Positive, long : Positive,
          persistence : Positive, flip : Positive, atr : Positive] : s.baseline <= s.long}
RightTail == [kind : {"right_tail"}, lookback : Positive, atr : Positive, interval : Positive]
Aligned == [kind : {"aligned"}, lookback : Positive, atr : Positive, interval : Positive,
            sma : Positive \ {1}]
Boundary == [kind : {"boundary"}, lags : Positive, atr : Positive]
Crowded == [kind : {"crowded"}, lookback : Positive, atr : Positive]
MovingAverage == [kind : {"moving_average"}, sma : Positive]

Sleeve == Breakout \union Pullback \union Reversion \union OrderFlow \union RightTail
            \union Aligned \union Boundary \union Crowded \union MovingAverage

\* The complete frames of each length and the minutes with volume.
TimeFrames(rows) ==
  [minute |-> Frames(rows, 1), five |-> Frames(rows, FiveMinutes),
   quarter |-> Frames(rows, QuarterHour), hour |-> Frames(rows, Hour),
   four |-> Frames(rows, FourHours),
   traded |-> {rows[i].open : i \in {j \in 1..Len(rows) : rows[j].traded}}]

\* The last n frames up to k have no gap: the segment of k is that long.
Run(frames, k, n) == \A i \in (k - n + 1)..k : i \in frames

HasVolume(tf, k, size) == \E m \in tf.traded : m \div size = k

--------------------------------------------------------------------------
(* The hourly regime of a five-minute row.                                 *)

\* Slip: the hour that the row is in counts once it is complete.
LatestHourByOpen(tf, k, h) ==
  /\ h \in tf.hour /\ h * Hour < (k + 1) * FiveMinutes
  /\ \A g \in tf.hour : g * Hour < (k + 1) * FiveMinutes => g <= h

\* bisect_right over the closes: the last hour closed with the row or before.
LatestHour(tf, k, h) ==
  /\ h \in tf.hour /\ (h + 1) * Hour <= (k + 1) * FiveMinutes
  /\ \A g \in tf.hour : (g + 1) * Hour <= (k + 1) * FiveMinutes => g <= h

\* Slip: a cached hour from before a gap authorizes the new segment.
RegimeFromCache(tf, k, counts) ==
  \E h \in tf.hour : LatestHour(tf, k, h) /\ \A n \in counts : Run(tf.hour, h, n)

\* That hour ends within the five-minute segment of the row, and each of its
\* inputs is known.
Regime(tf, k, counts) ==
  \E h \in tf.hour :
    /\ LatestHour(tf, k, h)
    /\ \A i \in (((h + 1) * Hour - 1) \div FiveMinutes)..k : i \in tf.five
    /\ \A n \in counts : Run(tf.hour, h, n)

--------------------------------------------------------------------------
(* Rows that reach the price rule, by sleeve.                              *)

BreakoutRow(s, tf, k) ==
  /\ Run(tf.five, k, s.donchian + 1) /\ Run(tf.five, k, s.atr)
  /\ Regime(tf, k, {s.lookback + 1})

\* A completed pullback row and the row that reclaims it.
PullbackRow(s, tf, k) ==
  /\ Run(tf.five, k, 2)
  /\ \A j \in {k - 1, k} : Run(tf.five, j, s.reclaim) /\ Run(tf.five, j, s.atr)
  /\ Run(tf.five, k - 1, s.trend)
  /\ Regime(tf, k, {s.slow, s.rising + s.fast, s.efficiency + 1})

\* Each of the last two rows has an ATR and the VWAP of rows strictly before.
ReversionRow(s, tf, k) ==
  /\ Run(tf.five, k, 2)
  /\ \A j \in {k - 1, k} :
       /\ Run(tf.five, j, s.atr) /\ Run(tf.five, j, s.vwap + 1)
       /\ \E i \in (j - s.vwap)..(j - 1) : HasVolume(tf, i, FiveMinutes)
  /\ Regime(tf, k, {s.lookback + 1})

\* The baselines and the flow that lie strictly before the row.
Priors(s) == {s.baseline, s.long, s.persistence - 1, s.flip, s.atr}

\* Slip: the baselines end one row earlier, and campaign.py is not told.
OrderFlowRowShifted(s, tf, k) ==
  LET positive == {i \in tf.five : HasVolume(tf, i, FiveMinutes)}
  IN  \A n \in Priors(s) : Run(positive, k, n + 2)

\* A row without volume ends the segment.
OrderFlowRow(s, tf, k) ==
  LET positive == {i \in tf.five : HasVolume(tf, i, FiveMinutes)}
  IN  \A n \in Priors(s) : Run(positive, k, n + 1)

\* Slip: the decision hour is counted from the first hour of the window.
RightTailRowByPosition(s, tf, h) ==
  /\ Cardinality({i \in tf.hour : i < h}) % s.interval = 0
  /\ Run(tf.hour, h, s.lookback + 1) /\ Run(tf.hour, h, s.atr)

RightTailRow(s, tf, h) ==
  /\ (h * Hour) % (s.interval * Hour) = 0
  /\ Run(tf.hour, h, s.lookback + 1) /\ Run(tf.hour, h, s.atr)

\* The latest known 4h state is less than a 4h frame old.
AlignedRow(s, tf, h) ==
  LET decision == (h + 1) * Hour
      states == {g \in tf.four : Run(tf.four, g, s.sma) /\ (g + 1) * FourHours <= decision}
  IN  /\ RightTailRow(s, tf, h)
      /\ \E g \in states : /\ \A o \in states : o <= g
                           /\ decision - (g + 1) * FourHours < FourHours

\* A first minute of a quarter and those `lags` quarters before have flow,
\* and the last quarter that closed strictly before has an ATR.
BoundaryRow(s, tf, m) ==
  /\ m % QuarterHour = 0
  /\ Run(tf.minute, m, s.lags * QuarterHour + 1)
  /\ \A lag \in 0..s.lags : m - lag * QuarterHour \in tf.traded
  /\ Run(tf.quarter, m \div QuarterHour - 1, s.atr)

\* Hours with a derivatives observation are in `observed`.
CrowdedRow(s, tf, observed, h) ==
  /\ Run(tf.hour, h, s.lookback + 1)
  /\ {h, h - s.lookback} \subseteq observed
  /\ Run(tf.hour, h, s.atr)

MovingAverageRow(s, tf, k) == Run(tf.four, k, s.sma)

--------------------------------------------------------------------------
(* The decisions a generator can make on the rows it is given.             *)

FrameOf(s) ==
  CASE s.kind = "boundary" -> 1
    [] s.kind \in {"right_tail", "aligned", "crowded"} -> Hour
    [] s.kind = "moving_average" -> FourHours
    [] OTHER -> FiveMinutes

ReachesRule(s, tf, observed, k) ==
  \/ s.kind = "breakout" /\ BreakoutRow(s, tf, k)
  \/ s.kind = "pullback" /\ PullbackRow(s, tf, k)
  \/ s.kind = "reversion" /\ ReversionRow(s, tf, k)
  \/ s.kind = "orderflow" /\ OrderFlowRow(s, tf, k)
  \/ s.kind = "right_tail" /\ RightTailRow(s, tf, k)
  \/ s.kind = "aligned" /\ AlignedRow(s, tf, k)
  \/ s.kind = "boundary" /\ BoundaryRow(s, tf, k)
  \/ s.kind = "crowded" /\ CrowdedRow(s, tf, observed, k)
  \/ s.kind = "moving_average" /\ MovingAverageRow(s, tf, k)

\* The minutes at which the sleeve may decide: a decision is made when the
\* last minute of its row has closed.
Decisions(s, rows, observed) ==
  LET tf == TimeFrames(rows)
  IN  {(k + 1) * FrameOf(s) : k \in {j \in Frames(rows, FrameOf(s)) : ReachesRule(s, tf, observed, j)}}

\* The anchor, the last minute of the rows, is one of them.
Decides(s, rows, observed) ==
  LET k == Closed(rows) \div FrameOf(s) - 1
  IN  /\ Closed(rows) % FrameOf(s) = 0 /\ k \in Frames(rows, FrameOf(s))
      /\ ReachesRule(s, TimeFrames(rows), observed, k)

--------------------------------------------------------------------------
(* What the readiness policy of campaign.py knows of a sleeve.             *)

\* Rows that cover n rows and the one that follows them.
Covering(n) == n + 1

OfLength(size, counts) == {[size |-> size, count |-> n] : n \in counts}

\* The code takes the largest count of each length: that all are covered.
FrameRequirements(s) ==
  CASE s.kind = "breakout" ->
         OfLength(FiveMinutes, {Covering(s.donchian), s.atr})
           \union OfLength(Hour, {s.lookback + 1})
    [] s.kind = "pullback" ->
         OfLength(FiveMinutes, {Covering(n) : n \in {s.reclaim, s.trend, s.atr}})
           \union OfLength(Hour, {s.slow, s.fast + s.rising, s.efficiency + 1})
    [] s.kind = "reversion" ->
         OfLength(FiveMinutes, {Covering(s.vwap + 1), Covering(s.atr), 2})
           \union OfLength(Hour, {s.lookback + 1})
    [] s.kind = "orderflow" -> OfLength(FiveMinutes, {Covering(n) : n \in Priors(s)})
    [] s.kind = "right_tail" -> OfLength(Hour, {s.lookback + 1, s.atr})
    [] s.kind = "aligned" ->
         OfLength(Hour, {s.lookback + 1, s.atr}) \union OfLength(FourHours, {s.sma})
    [] OTHER -> {}

\* Sleeves of the runtime registry; the other two have registries of their
\* own, which the service does not read.
Registered(s) == s.kind \notin {"crowded", "moving_average"}

\* Only the aligned sleeve has requirements of its own in runtime_requirements.py.
Requirements(s) ==
  IF s.kind = "aligned"
  THEN [minimum |-> s.sma * FourHours + Hour, interval |-> s.interval * Hour,
        phase |-> Hour % (s.interval * Hour)]
  ELSE [minimum |-> 2, interval |-> 1, phase |-> 0]

\* Requirements, decision clock and readiness of a registered sleeve, for the
\* evaluator.
RuleOf(s) ==
  [minimum |-> Requirements(s).minimum, interval |-> Requirements(s).interval,
   phase |-> Requirements(s).phase,
   cycle |-> CASE s.kind = "right_tail" -> s.interval * Hour
               [] s.kind = "boundary" -> QuarterHour
               [] OTHER -> FrameOf(s),
   offset |-> CASE s.kind = "right_tail" -> Hour % (s.interval * Hour)
                [] s.kind = "boundary" -> 1 % QuarterHour
                [] OTHER -> 0,
   reviewed |-> s.kind # "boundary", frames |-> FrameRequirements(s),
   segment |-> s.kind = "orderflow",
   prior |-> IF s.kind = "reversion" THEN s.vwap ELSE 0, priorSize |-> FiveMinutes]
=============================================================================
