-------------------------- MODULE AdaptiveRegime --------------------------
(***************************************************************************)
(* The regime, shock and attempt rules of adaptive/logic.py.               *)
(*                                                                         *)
(* Every five minutes evaluate_adaptive looks at the closed history again  *)
(* and keeps nothing between calls: which shock is the last one, whether   *)
(* its cooldown is over and whether its one short attempt is used up are   *)
(* recomputed from the rows each time.  The model lets rows and hours      *)
(* close, and evaluates a closed slot in time or misses it.                *)
(*                                                                         *)
(* Row i is the i-th five-minute row and closes at time i; hour j closes   *)
(* at time j * HourRows.  Row 1 follows a complete history of 54 hours     *)
(* without gap or shock.  Prices are abstracted to what the rules compare: *)
(* whether a row is a shock, whether the shock closed below its frozen     *)
(* range, and where a later row stands to that range's lower edge.         *)
(***************************************************************************)
EXTENDS Integers, Sequences, FiniteSets

CONSTANTS
  HourRows,     \* five-minute rows in an hour (12)
  CrashRows,    \* config.crash_bars
  ShockReach,   \* rows searched for shocks (36)
  FirstRetest,  \* an attempt's first and last row, counted from the shock
  LastRetest,   \* (3 and 6)
  Raw,          \* the regimes _raw_regime may find in the explored hours
  Histories,    \* what it found in the last three hours before row 1
  MaxRows, MaxShocks  \* bounds on the feed

Regime == {"BULL", "BEAR", "RANGE", "CRASH", "UNCERTAIN"}

\* Rows as the rules see them.  `stand` compares a row with the lower edge of
\* the range frozen before the last shock, for the rows an attempt may look at.
Stand == {"above", "retest", "rejection", "elsewhere"}
Row == [shock : BOOLEAN, breaks : BOOLEAN, stand : Stand]

ASSUME HourAssumption == HourRows \in Nat \ {0}
ASSUME CrashAssumption == CrashRows \in Nat \ {0}
ASSUME RetestAssumption == /\ FirstRetest \in Nat /\ LastRetest \in Nat
                           /\ 2 <= FirstRetest /\ FirstRetest <= LastRetest
\* A cooldown lasts less than two hours and a row (see CalmBeforeRegime).
ASSUME ReachAssumption == ShockReach \in Nat /\ ShockReach >= 2 * HourRows
                          /\ ShockReach >= CrashRows
ASSUME RawAssumption == Raw \subseteq {"BULL", "BEAR", "RANGE", "UNCERTAIN"}
ASSUME HistoryAssumption == \A h \in Histories : h \in Seq(Raw) /\ Len(h) = 3
ASSUME BoundAssumption == MaxRows \in Nat /\ MaxShocks \in Nat

VARIABLES
  rows,     \* the closed five-minute rows
  hours,    \* _raw_regime of each closed hour, after three earlier hours
  due,      \* the last slot is closed and not evaluated yet
  intents   \* what was emitted: slot, regime, and the shock of a CRASH intent

vars == <<rows, hours, due, intents>>

Intent == [slot : Nat, regime : Regime, shock : Nat]

--------------------------------------------------------------------------
(* The regime at time n, _regime_at.                                       *)

IsShock(s) == s \in 1..Len(rows) /\ rows[s].shock

\* Slip: one hour of rows is searched.
ShocksOfHour(n) == {s \in 1..n : IsShock(s) /\ s > n - HourRows}
\* _shocks of the rows closed by time n.
Shocks(n) == {s \in 1..n : IsShock(s) /\ s > n - ShockReach}

IsLastShock(s, n) == s \in Shocks(n) /\ \A t \in Shocks(n) : t <= s

\* The raw regime of hour j, and the close of the hour before the last one
\* that is complete at time n: prefix_hours[-2].close_time_ms.
RawOf(j) == hours[j + 3]
LastHour(n) == n \div HourRows
PreviousHourClose(n) == (LastHour(n) - 1) * HourRows

\* _base_regime: two hours must agree.
BaseRegime(n) ==
  IF RawOf(LastHour(n)) = RawOf(LastHour(n) - 1) THEN RawOf(LastHour(n)) ELSE "UNCERTAIN"

\* Slip: the last hour alone must have closed after the shock.
CoolingByOneHour(s, n) == LastHour(n) * HourRows <= s
\* Slip: the hour of the shock and two more must pass.
CoolingTooLong(s, n) == (LastHour(n) - 2) * HourRows <= s
Cooling(s, n) == PreviousHourClose(n) <= s

RegimeAt(n) ==
  IF Shocks(n) = {} THEN BaseRegime(n)
  ELSE LET s == CHOOSE t \in Shocks(n) : IsLastShock(t, n)
       IN  IF n - s < CrashRows THEN "CRASH"
           ELSE IF Cooling(s, n) THEN "UNCERTAIN"
           ELSE BaseRegime(n)

--------------------------------------------------------------------------
(* The short attempt after a shock, _crash_setup.                          *)

\* Row e completes the geometry: a retest of the level and its rejection.
Matched(e) == rows[e - 1].stand = "retest" /\ rows[e].stand = "rejection"

\* A row of the attempt closed back above the level.
Invalidated(s, e) == \E i \in (s + 1)..e : rows[i].stand = "above"

\* Slip: an earlier match does not use the attempt up.
AnyEnd(s, n) == {e \in (s + FirstRetest)..(s + LastRetest) : e = n /\ (Invalidated(s, e) \/ Matched(e))}
\* The rows at which the search from shock s may stop, up to row n.
Ends(s, n) == {e \in (s + FirstRetest)..(s + LastRetest) :
                 e <= n /\ (Invalidated(s, e) \/ Matched(e))}

\* The first stop is a match, and it is row n.
PatternReady(s, n) ==
  /\ rows[s].breaks
  /\ n \in Ends(s, n) /\ ~Invalidated(s, n)
  /\ \A e \in Ends(s, n) : e = n

--------------------------------------------------------------------------
Init ==
  /\ rows = <<>> /\ hours \in Histories
  /\ due = FALSE /\ intents = {}

Now == Len(rows)

\* Where a row stands matters only within the reach of an attempt.
InAttempt == \E s \in Shocks(Now) :
               IsLastShock(s, Now) /\ rows[s].breaks /\ Now < s + LastRetest

NewRows ==
  [shock : {TRUE}, breaks : BOOLEAN, stand : {"elsewhere"}]
  \cup [shock : {FALSE}, breaks : {FALSE}, stand : IF InAttempt THEN Stand ELSE {"elsewhere"}]

ShockCount == Cardinality({s \in 1..Now : rows[s].shock})

\* Slip: the hour is taken one row before it is complete.
HourClosesEarly(n) == (n + 1) % HourRows = 0
\* aggregate keeps complete hours only.
HourCloses(n) == n % HourRows = 0

\* The next five-minute row closes, and an hour with every HourRows-th.  A
\* slot that was still due is never evaluated again: LATE_OBSERVATION.
CloseRow ==
  /\ Now < MaxRows
  /\ \E row \in NewRows :
       /\ row.shock => ShockCount < MaxShocks
       /\ rows' = Append(rows, row)
  /\ IF HourCloses(Now + 1) THEN \E regime \in Raw : hours' = Append(hours, regime)
     ELSE UNCHANGED hours
  /\ due' = TRUE
  /\ UNCHANGED intents

\* The evaluation of the slot that just closed ends with an intent.
Emit(regime, shock) ==
  /\ due
  /\ due' = FALSE
  /\ intents' = intents \cup {[slot |-> Now, regime |-> regime, shock |-> shock]}
  /\ UNCHANGED <<rows, hours>>

\* _trend_setup: the regime is the same at the first of the three rows.
Trend == \E regime \in {"BULL", "BEAR"} :
           RegimeAt(Now) = regime /\ RegimeAt(Now - 2) = regime /\ Emit(regime, 0)

Range == RegimeAt(Now) = "RANGE" /\ Emit("RANGE", 0)

Crash ==
  /\ RegimeAt(Now) = "CRASH"
  /\ \E s \in Shocks(Now) : /\ IsLastShock(s, Now)
                            /\ PatternReady(s, Now)
                            /\ Emit("CRASH", s)

\* No setup, barriers that cannot be executed, or economics that do not pay:
\* NO_INTENT, and nothing is remembered of it.
NoIntent == due /\ due' = FALSE /\ UNCHANGED <<rows, hours, intents>>

Next == CloseRow \/ Trend \/ Range \/ Crash \/ NoIntent

Spec == Init /\ [][Next]_vars

--------------------------------------------------------------------------
\* One raw regime for each closed hour, and no intent of an open row.
TypeOK ==
  /\ rows \in Seq(Row)
  /\ hours \in Seq(Raw) /\ Len(hours) = 3 + Len(rows) \div HourRows
  /\ due \in BOOLEAN
  /\ intents \subseteq Intent

\* A shock gives at most one short: its first match uses the attempt up, also
\* when economics rejected it or nobody evaluated it in time, and no row of
\* the attempt closed back above the level before (docs/ADAPTIVE-PULLBACK-
\* RANGE-V1.md:86-93, code _crash_setup).
OneAttemptPerShock ==
  \A i \in intents : i.regime = "CRASH" =>
    /\ \A j \in intents : j.shock = i.shock => j = i
    /\ i.slot - i.shock \in FirstRetest..LastRetest
    /\ \A e \in (i.shock + FirstRetest)..(i.slot - 1) : ~Matched(e)
    /\ \A k \in (i.shock + 1)..i.slot : rows[k].stand # "above" /\ ~rows[k].shock

\* A trend or range intent never follows a shock too closely: every shock of
\* the whole history, also those no longer searched for, is older than a crash
\* state and closed before the earlier of the two hours that the regime was
\* read from closed (_regime_at, _shocks).  So the later hour is free of
\* shocks; the earlier one may hold one, but not in its last row.  A trend was
\* calm at its first row already.
Calm(n) ==
  \A s \in 1..Len(rows) : rows[s].shock /\ s <= n =>
    s < PreviousHourClose(n) /\ n - s >= CrashRows
CalmBeforeRegime ==
  \A i \in intents : i.regime # "CRASH" =>
    /\ Calm(i.slot)
    /\ i.regime # "RANGE" => Calm(i.slot - 2)

\* The overlay is lifted in time: when every shock is two hours and CrashRows
\* old, the regime is again that of the hours, whatever is still in reach.
CooldownEnds ==
  (\A s \in 1..Now : rows[s].shock => Now - s >= 2 * HourRows /\ Now - s >= CrashRows)
    => RegimeAt(Now) = BaseRegime(Now)

\* What the regime would be if the whole history were searched for shocks.
AllShocks(n) == {s \in 1..n : IsShock(s)}
RegimeOfAll(n) ==
  IF AllShocks(n) = {} THEN BaseRegime(n)
  ELSE LET s == CHOOSE t \in AllShocks(n) : \A u \in AllShocks(n) : u <= t
       IN  IF n - s < CrashRows THEN "CRASH"
           ELSE IF Cooling(s, n) THEN "UNCERTAIN"
           ELSE BaseRegime(n)

\* "Only the last three hours can affect current CRASH/cooldown" (comment at
\* adaptive/logic.py:122-123): at the last row, and at each earlier one that a
\* pattern asks for, the bounded search gives the regime of the whole history.
ReachIsExact == \A n \in 1..Now : RegimeAt(n) = RegimeOfAll(n)
=============================================================================
