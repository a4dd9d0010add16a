-------------------------- MODULE MCPriceSleeves --------------------------
(* The price sleeves scaled down for TLC: a 5m frame is 2 minutes, 15m 3,  *)
(* an hour 4 and a 4h frame 8.                                             *)
EXTENDS PriceSleeves

BreakoutSleeve == [kind |-> "breakout", donchian |-> 1, atr |-> 2, lookback |-> 1]
PullbackSleeve == [kind |-> "pullback", reclaim |-> 1, trend |-> 2, atr |-> 1, fast |-> 1,
                   slow |-> 2, rising |-> 1, efficiency |-> 1]
ReversionSleeve == [kind |-> "reversion", vwap |-> 2, atr |-> 1, lookback |-> 1]
OrderFlowSleeve == [kind |-> "orderflow", baseline |-> 2, long |-> 2, persistence |-> 2,
                    flip |-> 1, atr |-> 1]
RightTailSleeve == [kind |-> "right_tail", lookback |-> 1, atr |-> 2, interval |-> 3]
AlignedSleeve == [kind |-> "aligned", lookback |-> 1, atr |-> 1, interval |-> 2, sma |-> 2]
BoundarySleeve == [kind |-> "boundary", lags |-> 2, atr |-> 1]
CrowdedSleeve == [kind |-> "crowded", lookback |-> 1, atr |-> 2]
AverageSleeve == [kind |-> "moving_average", sma |-> 2]

\* The registered exits, in half ATRs where the code's are fractions; the
\* second reversion takes its target beyond the VWAP, the second breakout
\* does not trail.
TrailingExits == [exits |-> "breakout", stop |-> 1, target |-> 2, trailing |-> TRUE,
                  activation |-> 1, distance |-> 1]
FixedExits == [TrailingExits EXCEPT !.trailing = FALSE]
PullbackExits == [exits |-> "pullback", buffer |-> 1, minimum |-> 1, maximum |-> 3, reward |-> 2]
VwapExits == [exits |-> "reversion", stop |-> 1, extension |-> 0]
BeyondVwapExits == [exits |-> "reversion", stop |-> 1, extension |-> 2]
PlainExits == [exits |-> "plain", stop |-> 2, reward |-> 2]

With(s, p, w) == [sleeve |-> s, plan |-> p, window |-> w]
ScaledConfigurations ==
  {With(BreakoutSleeve, TrailingExits, 11), With(BreakoutSleeve, FixedExits, 9),
   With(PullbackSleeve, PullbackExits, 9), With(PullbackSleeve, PullbackExits, 11),
   With(ReversionSleeve, BeyondVwapExits, 11), With(OrderFlowSleeve, PlainExits, 9),
   With(RightTailSleeve, PlainExits, 9), With(RightTailSleeve, PlainExits, 11),
   With(AlignedSleeve, PlainExits, 20), With(BoundarySleeve, PlainExits, 11),
   With(CrowdedSleeve, PlainExits, 9), With(AverageSleeve, PlainExits, 9)}

RegisteredRules == {RuleOf(c.sleeve) : c \in ScaledConfigurations}
WindowSizes == {9, 11, 20}

SomeMarkets == [side : Sides, close : {3, 6}, atr : {1}, level : {2, 4, 7}]
FirstMinutes == {0, 1}
Lengths == {1, 2, 4}

--------------------------------------------------------------------------
(* The registered defaults with the frame lengths of the code, in minutes. *)

Registry == INSTANCE SleeveFeatures
              WITH FiveMinutes <- 5, QuarterHour <- 15, Hour <- 60, FourHours <- 240

DailyAligned == [kind |-> "aligned", lookback |-> 24, atr |-> 24, interval |-> 24, sma |-> 200]
DailyRightTail == [kind |-> "right_tail", lookback |-> 24, atr |-> 24, interval |-> 24]
DefaultPullback == [kind |-> "pullback", reclaim |-> 20, trend |-> 50, atr |-> 14, fast |-> 24,
                    slow |-> 72, rising |-> 6, efficiency |-> 24]
DefaultBoundary == [kind |-> "boundary", lags |-> 12, atr |-> 96]
DefaultWindow == 1440

\* RegisteredMinimumSuffices applies to the code's own numbers, and one bar
\* less would not do.
ASSUME AlignedMinimumIsTight ==
  LET r == Registry!RuleOf(DailyAligned)
  IN  /\ r.minimum = 48060 /\ CoversFrames(r)
      /\ ~CoversFrames([r EXCEPT !.minimum = @ - 1])

\* WarmupIsExact at the code's own numbers: the settings accept the default
\* window for these sleeves, yet at every decision it is too short.
ASSUME DefaultWindowIsTooShort ==
  \A s \in {DailyRightTail, DefaultPullback} :
    LET r == Registry!RuleOf(s)
    IN  /\ Accepted(r, DefaultWindow)
        /\ \E f \in r.frames : \A minute \in 0..2879 :
             Scheduled(r, minute) => DefaultWindow < Needed(f, minute)

\* The same for the quarter-hour sleeve, whose receipts do not tell: the ATR
\* of 96 quarters lies strictly before the boundary minute.
ASSUME DefaultWindowMissesOneMinute ==
  LET r == Registry!RuleOf(DefaultBoundary)
      quarters == [size |-> 15, count |-> DefaultBoundary.atr]
  IN  /\ Accepted(r, DefaultWindow)
      /\ \A minute \in 0..1439 : Scheduled(r, minute) => Needed(quarters, minute) = DefaultWindow + 1
============================================================================
