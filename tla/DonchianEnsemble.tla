------------------------- MODULE DonchianEnsemble -------------------------
(***************************************************************************)
(* The daily long-only ensemble of sleeves/donchian_ensemble.py: one       *)
(* Donchian model per horizon with a trailing stop, and one target weight  *)
(* for all of them, held inside a deadband around the volatility target.   *)
(*                                                                         *)
(* A behaviour walks through the complete UTC days of one symbol, one      *)
(* segment after the other.  Closes are small integers.  Stops are stored  *)
(* doubled (highest plus lowest close), weights in units of one model per  *)
(* model weight, so that both stay integers.  How large the volatility is  *)
(* is an input; whether there is one is computed.                          *)
(***************************************************************************)
EXTENDS Integers, Sequences, FiniteSets

CONSTANTS
  Closes,      \* daily closes
  Horizons,    \* horizons_days
  Lookback,    \* volatility_lookback_days
  Models,      \* values of min(target / volatility, maximum_weight), scaled
  Band, Scale, \* volatility_rebalance_threshold is Band / Scale
  MaxDays      \* bound on the days of a segment

ASSUME ClosesAssumption == Closes \subseteq Nat \ {0}
ASSUME HorizonsAssumption ==
  Horizons \subseteq Nat \ {0, 1} /\ IsFiniteSet(Horizons) /\ Horizons # {}
ASSUME LookbackAssumption == Lookback \in Nat \ {0, 1}
ASSUME ModelsAssumption == Models \subseteq Nat \ {0}
ASSUME BandAssumption == Scale \in Nat /\ Band \in Nat /\ 0 < Band /\ Band < Scale

Reason == {"signal", "volatility", "deadband_hold"}
TargetAllocation ==
  [day : Nat, target_weight : Nat, active_horizons : SUBSET Horizons, reason : Reason]
NoAllocation == [day |-> 0, target_weight |-> 0, active_horizons |-> {}, reason |-> "none"]

VARIABLES
  rows,        \* closes of the current segment, oldest first
  active,      \* horizons whose model is in the market
  trailing,    \* stop of each of them, doubled
  allocation   \* latest allocation of the segment

vars == <<rows, active, trailing, allocation>>

--------------------------------------------------------------------------
(* Channel and volatility of the day with index i of a segment (from 1).   *)

HasChannel(h, i) == i >= h

Channel(s, h, i) == {s[j] : j \in (i - h + 1)..i}

Upper(s, h, i) == CHOOSE c \in Channel(s, h, i) : \A d \in Channel(s, h, i) : d <= c

Lower(s, h, i) == CHOOSE c \in Channel(s, h, i) : \A d \in Channel(s, h, i) : c <= d

Midpoint(s, h, i) == Upper(s, h, i) + Lower(s, h, i)

IsHigh(s, h, i) == s[i] = Upper(s, h, i)

\* The standard deviation of the last returns is not zero: two of them differ.
HasVolatility(s) ==
  LET i == Len(s) IN
  /\ i > Lookback
  /\ \E j \in (i - Lookback + 1)..(i - 1) : s[j] * s[j] # s[j + 1] * s[j - 1]

\* Every horizon has a channel and the lookback is full.
WarmedUp(s) == Len(s) > Lookback /\ \A h \in Horizons : HasChannel(h, Len(s))

--------------------------------------------------------------------------
(* The models.                                                             *)

\* Slip: the close is compared with the stop it has just raised itself.
AtOrBelowRaisedStop(s, h) ==
  LET mid == Midpoint(s, h, Len(s))
      raised == IF trailing[h] > mid THEN trailing[h] ELSE mid
  IN  h \in active /\ 2 * s[Len(s)] <= raised

\* Slip: the stop of an earlier position is still there.
AtOrBelowEarlierStop(s, h) ==
  h \in active /\ \E i \in h..(Len(s) - 1) : 2 * s[Len(s)] <= Midpoint(s, h, i)

AtOrBelowStop(s, h) == h \in active /\ 2 * s[Len(s)] <= trailing[h]

Enters(s) == {h \in Horizons : HasChannel(h, Len(s)) /\ IsHigh(s, h, Len(s))}

Exits(s) == {h \in Horizons : HasChannel(h, Len(s)) /\ AtOrBelowStop(s, h)} \ Enters(s)

\* Slip: the stop follows the middle of the channel down as well.
FollowDown(s, h) == Midpoint(s, h, Len(s))

\* The stop of a model that is in the market after the day.
Ratchet(s, h) ==
  LET mid == Midpoint(s, h, Len(s))
  IN  IF h \in active /\ trailing[h] > mid THEN trailing[h] ELSE mid

\* Slip: the stop of a model that leaves is not dropped.
UpdateKeepingStops(s) ==
  /\ active' = (active \union Enters(s)) \ Exits(s)
  /\ trailing' = [h \in active \union active' |-> Ratchet(s, h)]

Update(s) ==
  /\ active' = (active \union Enters(s)) \ Exits(s)
  /\ trailing' = [h \in active' |-> Ratchet(s, h)]

--------------------------------------------------------------------------
(* The target weight.                                                      *)

Distance(a, b) == IF a >= b THEN a - b ELSE b - a

\* The relative difference exceeds the threshold (infinite from zero to more).
OutsideDeadband(desired, executed) == Scale * Distance(desired, executed) > Band * executed

Allocate(day, weight, reason) ==
  allocation' = [day |-> day, target_weight |-> weight,
                 active_horizons |-> active', reason |-> reason]

\* Slip: the weight is that of the models before the day.
DecideForYesterday(day, model) == Allocate(day, model * Cardinality(active), "signal")

\* Slip: an exit is left to the volatility rule.
DecideOnEntries(day, model) ==
  LET desired == model * Cardinality(active')
      executed == allocation.target_weight
  IN  IF allocation = NoAllocation \/ ~(active' \subseteq active)
      THEN Allocate(day, desired, "signal")
      ELSE IF OutsideDeadband(desired, executed)
      THEN Allocate(day, desired, "volatility")
      ELSE Allocate(day, executed, "deadband_hold")

\* The first allocation and one on a day with an entry or exit follow the
\* models at once, the others only when the volatility moved far enough.
Decide(day, model) ==
  LET desired == model * Cardinality(active')
      executed == allocation.target_weight
  IN  IF allocation = NoAllocation \/ active' # active
      THEN Allocate(day, desired, "signal")
      ELSE IF OutsideDeadband(desired, executed)
      THEN Allocate(day, desired, "volatility")
      ELSE Allocate(day, executed, "deadband_hold")

--------------------------------------------------------------------------
Init == rows = <<>> /\ active = {} /\ trailing = <<>> /\ allocation = NoAllocation

\* A day closes with a volatility to scale by.
Day(close) ==
  /\ rows' = Append(rows, close)
  /\ Update(rows')
  /\ WarmedUp(rows') /\ HasVolatility(rows')
  /\ \E model \in Models : Decide(Len(rows'), model)

\* A day closes in the warmup or after a run of equal returns: the models
\* move, but there is no allocation.
QuietDay(close) ==
  /\ rows' = Append(rows, close)
  /\ Update(rows')
  /\ ~(WarmedUp(rows') /\ HasVolatility(rows'))
  /\ UNCHANGED allocation

\* A day is missing or incomplete: a new segment starts from nothing.
Gap ==
  /\ rows # <<>> /\ rows' = <<>> /\ active' = {} /\ trailing' = <<>>
  /\ allocation' = NoAllocation

Next ==
  \/ Len(rows) < MaxDays /\ \E close \in Closes : Day(close) \/ QuietDay(close)
  \/ Gap

Spec == Init /\ [][Next]_vars

--------------------------------------------------------------------------
(* Types and safety.                                                       *)

\* Every variable has its type, and there is a stop for exactly the models
\* in the market (allocation.py:63-65 raises otherwise, and the read of a
\* missing stop would).
TypeOK ==
  /\ rows \in Seq(Closes)
  /\ active \subseteq Horizons
  /\ trailing \in [active -> Nat]
  /\ allocation \in TargetAllocation \union {NoAllocation}

\* The positions of one model in the segment, told by its rows alone: they
\* open on the first high after the last exit (or the start, day 0), ...
IsFirstHigh(h, exit, entry) ==
  /\ entry \in (exit + 1)..Len(rows) /\ HasChannel(h, entry) /\ IsHigh(rows, h, entry)
  /\ \A day \in (exit + 1)..(entry - 1) : HasChannel(h, day) => ~IsHigh(rows, h, day)

\* ... end on the first close that is no high and at or below the stop, the
\* highest midpoint from the entry to the day before, ...
MeetsStop(h, entry, day) ==
  /\ ~IsHigh(rows, h, day)
  /\ \E i \in entry..(day - 1) : 2 * rows[day] <= Midpoint(rows, h, i)

IsHeld(h, entry, last) == \A day \in (entry + 1)..last : ~MeetsStop(h, entry, day)

\* ... and follow one another.
IsLastExit(exits, exit, day) ==
  exit \in {0} \union exits /\ exit < day /\ \A x \in exits : x < day => x <= exit

AreExits(h, exits) ==
  \A x \in exits : \E exit \in {0} \union exits, entry \in 1..(x - 1) :
    /\ IsLastExit(exits, exit, x) /\ IsFirstHigh(h, exit, entry)
    /\ IsHeld(h, entry, x - 1) /\ MeetsStop(h, entry, x)

Setbacks(h) == {day \in 1..Len(rows) : HasChannel(h, day) /\ ~IsHigh(rows, h, day)}

\* A model is in the market exactly as its rows tell it: it entered on the
\* first high after its last exit, no close has met its stop since, and the
\* stop is the highest midpoint since that entry (not of an earlier one).
StopsAreExplained ==
  \A h \in active : \E exits \in SUBSET Setbacks(h) :
    \E exit \in {0} \union exits, entry \in 1..Len(rows) :
      /\ IsLastExit(exits, exit, Len(rows) + 1) /\ IsFirstHigh(h, exit, entry)
      /\ \E i \in entry..Len(rows) : Midpoint(rows, h, i) = trailing[h]
      /\ \A i \in entry..Len(rows) : Midpoint(rows, h, i) <= trailing[h]
      /\ IsHeld(h, entry, Len(rows)) /\ AreExits(h, exits)

\* A model is out of the market exactly as its rows tell it: each position
\* ended on the first close that met the stop of that position, and there was
\* no high since the last one ended.
ExitsAreExplained ==
  \A h \in Horizons \ active : \E exits \in SUBSET Setbacks(h) :
    \E exit \in {0} \union exits :
      /\ IsLastExit(exits, exit, Len(rows) + 1)
      /\ \A day \in (exit + 1)..Len(rows) : HasChannel(h, day) => ~IsHigh(rows, h, day)
      /\ AreExits(h, exits)

\* Capital is at work exactly when a model is in the market, whatever the
\* deadband held and whatever signals fell on days without an allocation.
FlatMeansInactive ==
  allocation # NoAllocation =>
    (allocation.target_weight = 0 <=> allocation.active_horizons = {})

\* While a model stays in the market its stop never falls (README.md:114,
\* "monotonic mid-channel stops").
StopsOnlyRise ==
  [][rows' # <<>> => \A h \in active \intersect active' : trailing[h] <= trailing'[h]]_vars

\* From one day to the next the deadband never absorbs an entry or exit: if
\* yesterday's allocation was for other models, today's follows the signal,
\* even when models and volatility moved against each other.  (Only a day
\* without an allocation in between can hide a signal, see HoldKeepsSignals.)
SignalsMoveWeight ==
  [][/\ allocation # NoAllocation /\ allocation'.day = allocation.day + 1
     /\ allocation'.active_horizons # allocation.active_horizons
     => allocation'.reason = "signal"]_vars

\* "A relative 20% deadband applies only to volatility-driven resizing;
\* signal entries and exits update immediately" (README.md:115-117): an
\* allocation held by the deadband is for the models of the one before.
HoldKeepsSignals ==
  [][allocation'.reason = "deadband_hold" =>
       allocation'.active_horizons = allocation.active_horizons]_vars
=============================================================================
