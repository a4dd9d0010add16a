------------------------ MODULE AdaptiveRegimeProofs ------------------------
(* Theorems about AdaptiveRegime, for every value of its constants.        *)
EXTENDS AdaptiveRegime, WellFoundedInduction, TLAPS

\* A nonempty set of numbers up to n has a largest one.
LEMMA LargestExists ==
  ASSUME NEW n \in Int, NEW S \in SUBSET (1..n), S # {}
  PROVE  \E s \in S : \A t \in S : t <= s
<1> DEFINE T == {d \in Nat : \E s \in S : d = n - s}
<1>1. T \subseteq Nat /\ T # {}
  <2>1. PICK s \in S : TRUE
    OBVIOUS
  <2>2. n - s \in Nat
    BY <2>1
  <2>3. QED
    BY <2>1, <2>2
<1>2. PICK d \in T : \A e \in T : ~ (<<e, d>> \in OpToRel(<, Nat))
  BY <1>1, NatLessThanWellFounded, WFMin
<1>3. \A e \in T : ~ (e < d)
  BY <1>1, <1>2 DEF OpToRel
<1>4. PICK s \in S : d = n - s
  OBVIOUS
<1>5. ASSUME NEW t \in S PROVE t <= s
  <2>1. n - t \in T /\ s \in Int /\ t \in Int
    OBVIOUS
  <2>2. ~ (n - t < n - s)
    BY <1>3, <1>4, <2>1
  <2>3. QED
    BY <2>1, <2>2
<1>6. QED
  BY <1>4, <1>5

LEMMA DivFacts ==
  ASSUME NEW n \in Int, NEW c \in Nat \ {0}
  PROVE  /\ n \div c \in Int
         /\ (n \div c) * c <= n /\ n < (n \div c) * c + c
  BY Z3

\* The hour before the last one closed less than two hours ago.
LEMMA PreviousHourIsRecent ==
  ASSUME NEW n \in Int
  PROVE  PreviousHourClose(n) \in Int /\ n - 2 * HourRows < PreviousHourClose(n)
<1> DEFINE q == n \div HourRows
<1>1. q \in Int /\ n < q * HourRows + HourRows
  BY HourAssumption, DivFacts
<1> HIDE DEF q
<1>2. (q - 1) * HourRows = q * HourRows - HourRows /\ q * HourRows \in Int
  BY <1>1, HourAssumption
<1>3. (q - 1) * HourRows \in Int /\ n - 2 * HourRows < (q - 1) * HourRows
  BY <1>1, <1>2, HourAssumption
<1>4. PreviousHourClose(n) = (q - 1) * HourRows
  BY DEF PreviousHourClose, LastHour, q
<1>5. QED
  BY <1>3, <1>4

\* When there is a shock in reach, there is a last one.
LEMMA LastShockExists ==
  ASSUME NEW n \in Int, Shocks(n) # {}
  PROVE  \E s \in Shocks(n) : IsLastShock(s, n)
<1>1. Shocks(n) \in SUBSET (1..n)
  BY DEF Shocks
<1>2. QED
  BY <1>1, LargestExists DEF IsLastShock

\* A regime that allows entries has every shock behind it: one in reach has
\* cooled down, and one that is out of reach is two hours old.
LEMMA AllowedIsCalm ==
  ASSUME TypeOK, NEW n \in Int, n <= Len(rows), RegimeAt(n) \notin {"CRASH", "UNCERTAIN"}
  PROVE  Calm(n)
<1>1. SUFFICES ASSUME NEW s \in 1..Len(rows), rows[s].shock, s <= n
               PROVE  s < PreviousHourClose(n) /\ n - s >= CrashRows
  BY DEF Calm
<1>2. s \in 1..n /\ IsShock(s)
  BY <1>1 DEF IsShock
<1>3. PreviousHourClose(n) \in Int /\ n - 2 * HourRows < PreviousHourClose(n)
  BY PreviousHourIsRecent
<1>4. CASE s \in Shocks(n)
  <2> DEFINE c == CHOOSE t \in Shocks(n) : IsLastShock(t, n)
  <2>1. c \in Shocks(n) /\ IsLastShock(c, n)
    BY <1>4, LastShockExists
  <2>2. s <= c /\ c \in Int
    BY <1>4, <2>1 DEF IsLastShock, Shocks
  <2>3. ~Cooling(c, n) /\ ~(n - c < CrashRows)
    BY <1>1, <1>4 DEF RegimeAt
  <2> HIDE DEF c
  <2>4. QED
    BY <1>2, <1>3, <2>2, <2>3, CrashAssumption DEF Cooling
<1>5. CASE s \notin Shocks(n)
  <2>1. s <= n - ShockReach
    BY <1>2, <1>5, ReachAssumption DEF Shocks
  <2>2. QED
    BY <1>2, <1>3, <2>1, ReachAssumption, HourAssumption, CrashAssumption
<1>6. QED
  BY <1>4, <1>5

--------------------------------------------------------------------------
(* Closing a row leaves what earlier rows showed as it was.                *)

LEMMA RowsGrow ==
  ASSUME TypeOK, CloseRow
  PROVE  /\ rows' \in Seq(Row) /\ Len(rows') = Len(rows) + 1 /\ Len(rows) \in Nat
         /\ \A k \in 1..Len(rows) : rows'[k] = rows[k]
<1>1. PICK row \in NewRows : rows' = Append(rows, row)
  BY DEF CloseRow
<1>2. row \in Row
  BY <1>1 DEF NewRows, Row, Stand
<1>3. QED
  BY <1>1, <1>2 DEF TypeOK

LEMMA CalmStays ==
  ASSUME TypeOK, CloseRow, NEW n \in Int, n <= Len(rows), Calm(n)
  PROVE  Calm(n)'
<1>1. PreviousHourClose(n)' = PreviousHourClose(n)
  BY DEF PreviousHourClose, LastHour
<1>2. SUFFICES ASSUME NEW s \in 1..Len(rows'), rows'[s].shock, s <= n
               PROVE  s < PreviousHourClose(n) /\ n - s >= CrashRows
  BY <1>1 DEF Calm
<1>3. s \in 1..Len(rows) /\ rows[s].shock
  BY <1>2, RowsGrow
<1>4. QED
  BY <1>2, <1>3 DEF Calm

\* An emitted intent is about closed rows, and only a short has a shock.
Placed(i) == /\ i.slot <= Len(rows)
             /\ i.regime # "CRASH" => i.shock = 0
\* A short stands on the first match after its shock.
FirstMatch(i) ==
  /\ i.shock # 0 /\ i.slot - i.shock \in FirstRetest..LastRetest
  /\ Matched(i.slot)
  /\ \A e \in (i.shock + FirstRetest)..(i.slot - 1) : ~Matched(e)
  /\ \A k \in (i.shock + 1)..i.slot : rows[k].stand # "above" /\ ~rows[k].shock

AdaptiveInv ==
  /\ TypeOK /\ OneAttemptPerShock /\ CalmBeforeRegime
  /\ \A i \in intents : Placed(i) /\ (i.regime = "CRASH" => FirstMatch(i))

--------------------------------------------------------------------------
\* A short is emitted on the first match after the last shock.
LEMMA CrashIsFirst ==
  ASSUME TypeOK, NEW s \in Shocks(Now), IsLastShock(s, Now), PatternReady(s, Now)
  PROVE  /\ s \in Nat \ {0} /\ s <= Now
         /\ FirstMatch([slot |-> Now, regime |-> "CRASH", shock |-> s])
<1>1. Now \in Nat /\ s \in 1..Now /\ Now = Len(rows) /\ s > Now - ShockReach
  BY DEF TypeOK, Now, Shocks
<1>2. /\ Now \in Ends(s, Now) /\ ~Invalidated(s, Now)
      /\ \A e \in Ends(s, Now) : e = Now
  BY DEF PatternReady
<1>3. Now \in (s + FirstRetest)..(s + LastRetest) /\ Matched(Now)
  BY <1>2 DEF Ends
<1>4. Now - s \in FirstRetest..LastRetest
  BY <1>1, <1>3, RetestAssumption
<1>5. ASSUME NEW e \in (s + FirstRetest)..(Now - 1) PROVE ~Matched(e)
  <2>1. e \in (s + FirstRetest)..(s + LastRetest) /\ e <= Now /\ e # Now
    BY <1>1, <1>3, <1>5, RetestAssumption
  <2>2. QED
    BY <1>2, <2>1 DEF Ends
<1>6. ASSUME NEW k \in (s + 1)..Now PROVE rows[k].stand # "above" /\ ~rows[k].shock
  <2>1. rows[k].stand # "above"
    BY <1>2 DEF Invalidated
  <2>2. k \in 1..Now /\ k > Now - ShockReach /\ ~(k <= s) /\ k \in 1..Len(rows)
    BY <1>1, ReachAssumption
  <2>3. ASSUME rows[k].shock PROVE FALSE
    BY <2>2, <2>3 DEF IsLastShock, Shocks, IsShock
  <2>4. QED
    BY <2>1, <2>3
<1>7. QED
  BY <1>1, <1>3, <1>4, <1>5, <1>6 DEF FirstMatch

\* The parts of a step.
LEMMA StepCases ==
  ASSUME [Next]_vars
  PROVE  \/ UNCHANGED vars \/ CloseRow \/ NoIntent
         \/ \E regime \in {"BULL", "BEAR"} :
              RegimeAt(Now) = regime /\ RegimeAt(Now - 2) = regime /\ Emit(regime, 0)
         \/ RegimeAt(Now) = "RANGE" /\ Emit("RANGE", 0)
         \/ \E s \in Shocks(Now) :
              IsLastShock(s, Now) /\ PatternReady(s, Now) /\ Emit("CRASH", s)
  BY DEF Next, Trend, Range, Crash

LEMMA EmitType ==
  ASSUME TypeOK, NEW regime \in Regime, NEW shock \in Nat, Emit(regime, shock)
  PROVE  TypeOK'
<1>1. [slot |-> Now, regime |-> regime, shock |-> shock] \in Intent
  BY DEF TypeOK, Now, Intent
<1>2. QED
  BY <1>1 DEF Emit, TypeOK

LEMMA HourCount ==
  ASSUME NEW n \in Nat, NEW c \in Nat \ {0}
  PROVE  (n + 1) \div c = (n \div c) + (IF (n + 1) % c = 0 THEN 1 ELSE 0)
  BY Z3

LEMMA TypeStep ==
  ASSUME TypeOK, [Next]_vars
  PROVE  TypeOK'
<1>1. CASE UNCHANGED vars
  BY <1>1 DEF vars, TypeOK
<1>2. CASE CloseRow
  <2>1. rows' \in Seq(Row) /\ Len(rows') = Len(rows) + 1 /\ Len(rows) \in Nat
    BY <1>2, RowsGrow
  <2>2. /\ hours' \in Seq(Raw)
        /\ Len(hours') = Len(hours) + (IF (Len(rows) + 1) % HourRows = 0 THEN 1 ELSE 0)
    <3>1. hours \in Seq(Raw)
      BY DEF TypeOK
    <3>2. CASE (Len(rows) + 1) % HourRows = 0
      <4>1. PICK regime \in Raw : hours' = Append(hours, regime)
        BY <1>2, <3>2 DEF CloseRow, HourCloses, Now
      <4>2. QED
        BY <3>1, <3>2, <4>1
    <3>3. CASE ~((Len(rows) + 1) % HourRows = 0)
      <4>1. hours' = hours
        BY <1>2, <3>3 DEF CloseRow, HourCloses, Now
      <4>2. QED
        BY <3>1, <3>3, <4>1
    <3>4. QED
      BY <3>2, <3>3
  <2>3. Len(hours') = 3 + Len(rows') \div HourRows
    <3>1. (Len(rows) + 1) \div HourRows
            = (Len(rows) \div HourRows) + (IF (Len(rows) + 1) % HourRows = 0 THEN 1 ELSE 0)
      BY <2>1, HourAssumption, HourCount
    <3>2. Len(rows) \div HourRows \in Int
      BY <2>1, HourAssumption, DivFacts
    <3>3. QED
      BY <2>1, <2>2, <3>1, <3>2 DEF TypeOK
  <2>4. due' \in BOOLEAN /\ intents' = intents
    BY <1>2 DEF CloseRow
  <2>5. QED
    BY <2>1, <2>2, <2>3, <2>4 DEF TypeOK
<1>3. CASE NoIntent
  BY <1>3 DEF NoIntent, TypeOK
<1>4. ASSUME NEW regime \in {"BULL", "BEAR", "RANGE"}, Emit(regime, 0) PROVE TypeOK'
  BY <1>4, EmitType DEF Regime
<1>5. ASSUME NEW s \in Shocks(Now), Emit("CRASH", s) PROVE TypeOK'
  <2>1. s \in Nat
    BY DEF Shocks
  <2>2. QED
    BY <1>5, <2>1, EmitType DEF Regime
<1>6. QED
  BY <1>1, <1>2, <1>3, <1>4, <1>5, StepCases

\* A new intent that is a first match, or calm, keeps the invariant.
LEMMA EmitKeeps ==
  ASSUME AdaptiveInv, TypeOK', NEW regime \in Regime, NEW shock \in Nat, Emit(regime, shock),
         regime = "CRASH" => FirstMatch([slot |-> Now, regime |-> regime, shock |-> shock]),
         regime # "CRASH" => shock = 0 /\ Calm(Now) /\ (regime # "RANGE" => Calm(Now - 2))
  PROVE  AdaptiveInv'
<1> DEFINE new == [slot |-> Now, regime |-> regime, shock |-> shock]
<1>1. /\ rows' = rows /\ intents' = intents \cup {new}
      /\ new.slot = Now /\ new.regime = regime /\ new.shock = shock
      /\ Now \in Nat /\ Now = Len(rows)
  BY DEF Emit, AdaptiveInv, TypeOK, Now
<1> HIDE DEF new
<1>2. /\ Placed(new) /\ (new.regime = "CRASH" => FirstMatch(new))
      /\ new.regime # "CRASH" => Calm(new.slot) /\ (new.regime # "RANGE" => Calm(new.slot - 2))
  BY <1>1 DEF Placed, new
<1>3. \A n : Calm(n)' = Calm(n)
  BY <1>1 DEF Calm, PreviousHourClose, LastHour
<1>4. CalmBeforeRegime'
  BY <1>1, <1>2, <1>3 DEF CalmBeforeRegime, AdaptiveInv
<1>5. \A i \in intents' : Placed(i) /\ (i.regime = "CRASH" => FirstMatch(i))
  BY <1>1, <1>2 DEF AdaptiveInv
<1>6. ASSUME NEW i \in intents, i.shock = new.shock, i.shock # 0 PROVE i = new
  <2>1. /\ i \in Intent /\ new \in Intent /\ i.slot <= Now
        /\ i.regime = "CRASH" /\ new.regime = "CRASH"
    BY <1>1, <1>2, <1>6 DEF AdaptiveInv, TypeOK, Placed
  <2>2. FirstMatch(i) /\ FirstMatch(new)
    BY <1>2, <2>1 DEF AdaptiveInv
  <2>3. /\ i.slot \in Nat /\ i.shock \in Nat /\ new.slot = Now
        /\ i.slot - i.shock \in FirstRetest..LastRetest /\ Matched(i.slot)
        /\ \A e \in (i.shock + FirstRetest)..(Now - 1) : ~Matched(e)
    BY <1>1, <1>6, <2>1, <2>2 DEF FirstMatch, Intent
  <2>4. i.slot = Now
    BY <1>1, <2>1, <2>3, RetestAssumption
  <2>5. QED
    BY <1>6, <2>1, <2>3, <2>4 DEF Intent
<1>7. ASSUME NEW i \in intents', i.regime = "CRASH", NEW j \in intents', j.shock = i.shock
      PROVE  j = i
  <2>1. i.shock # 0
    BY <1>5, <1>7 DEF FirstMatch
  <2>2. CASE i \in intents /\ j \in intents
    BY <1>7, <2>2 DEF AdaptiveInv, OneAttemptPerShock
  <2>3. QED
    BY <1>1, <1>6, <1>7, <2>1, <2>2
<1>8. OneAttemptPerShock'
  BY <1>1, <1>5, <1>7 DEF OneAttemptPerShock, FirstMatch, Matched
<1>9. QED
  BY <1>1, <1>4, <1>5, <1>8 DEF AdaptiveInv, Placed, FirstMatch, Matched

LEMMA CloseKeeps ==
  ASSUME AdaptiveInv, CloseRow, TypeOK'
  PROVE  AdaptiveInv'
<1>1. /\ Len(rows') = Len(rows) + 1 /\ Len(rows) \in Nat /\ intents' = intents
      /\ \A k \in 1..Len(rows) : rows'[k] = rows[k]
  BY RowsGrow DEF CloseRow, AdaptiveInv
<1>2. ASSUME NEW i \in intents
      PROVE  /\ i.slot \in Nat /\ i.slot <= Len(rows) /\ i.shock \in Nat
  BY <1>2 DEF AdaptiveInv, TypeOK, Intent, Placed
<1>3. ASSUME NEW i \in intents, i.regime # "CRASH"
      PROVE  Calm(i.slot)' /\ (i.regime # "RANGE" => Calm(i.slot - 2)')
  BY <1>1, <1>2, <1>3, CalmStays DEF AdaptiveInv, CalmBeforeRegime
<1>4. ASSUME NEW i \in intents, i.regime = "CRASH" PROVE FirstMatch(i)'
  <2>1. FirstMatch(i) /\ i.shock \in Nat \ {0}
    BY <1>2, <1>4 DEF AdaptiveInv, FirstMatch
  <2>2. ASSUME NEW e \in (i.shock + FirstRetest)..i.slot PROVE Matched(e)' <=> Matched(e)
    <3>1. e \in 1..Len(rows) /\ e - 1 \in 1..Len(rows)
      BY <1>2, <2>1, RetestAssumption
    <3>2. QED
      BY <1>1, <3>1 DEF Matched
  <2>3. /\ i.slot \in (i.shock + FirstRetest)..i.slot
        /\ (i.shock + FirstRetest)..(i.slot - 1) \subseteq (i.shock + FirstRetest)..i.slot
    BY <1>2, <2>1, RetestAssumption DEF FirstMatch
  <2>4. ASSUME NEW k \in (i.shock + 1)..i.slot
        PROVE  rows'[k].stand # "above" /\ ~rows'[k].shock
    <3>1. k \in 1..Len(rows)
      BY <1>2, <2>1
    <3>2. QED
      BY <1>1, <2>1, <3>1 DEF FirstMatch
  <2>5. QED
    BY <2>1, <2>2, <2>3, <2>4 DEF FirstMatch
<1>5. CalmBeforeRegime'
  BY <1>1, <1>3 DEF CalmBeforeRegime
<1>6. OneAttemptPerShock'
  BY <1>1, <1>4 DEF AdaptiveInv, OneAttemptPerShock, FirstMatch
<1>7. \A i \in intents' : Placed(i)' /\ (i.regime = "CRASH" => FirstMatch(i)')
  <2>1. ASSUME NEW i \in intents PROVE Placed(i)'
    BY <1>1, <1>2 DEF Placed, AdaptiveInv
  <2>2. QED
    BY <1>1, <1>4, <2>1
<1>8. QED
  BY <1>5, <1>6, <1>7 DEF AdaptiveInv

LEMMA AdaptiveInit == Init => AdaptiveInv
<1>1. 0 \div HourRows = 0
  BY HourAssumption, Z3
<1>2. Init => TypeOK
  <2>1. SUFFICES ASSUME Init PROVE TypeOK
    OBVIOUS
  <2>2. hours \in Seq(Raw) /\ Len(hours) = 3
    BY <2>1, HistoryAssumption DEF Init
  <2>3. rows = <<>> /\ due = FALSE /\ intents = {}
    BY <2>1 DEF Init
  <2>4. rows \in Seq(Row) /\ Len(rows) = 0 /\ due \in BOOLEAN /\ intents \subseteq Intent
    <3>1. <<>> \in Seq(Row) /\ Len(<<>>) = 0
      OBVIOUS
    <3>2. QED
      BY <2>3, <3>1
  <2>5. QED
    BY <1>1, <2>2, <2>4 DEF TypeOK
<1>3. QED
  BY <1>2 DEF Init, AdaptiveInv, OneAttemptPerShock, CalmBeforeRegime

LEMMA AdaptiveStep ==
  ASSUME AdaptiveInv, [Next]_vars
  PROVE  AdaptiveInv'
<1>1. TypeOK' /\ TypeOK /\ Now \in Nat /\ Now = Len(rows)
  BY TypeStep DEF AdaptiveInv, TypeOK, Now
<1>2. CASE UNCHANGED vars
  BY <1>2 DEF vars, AdaptiveInv, TypeOK, OneAttemptPerShock, CalmBeforeRegime, Calm, Placed,
     FirstMatch, Matched, PreviousHourClose, LastHour
<1>3. CASE NoIntent
  BY <1>1, <1>3 DEF NoIntent, AdaptiveInv, OneAttemptPerShock, CalmBeforeRegime, Calm, Placed,
     FirstMatch, Matched, PreviousHourClose, LastHour
<1>4. CASE CloseRow
  BY <1>1, <1>4, CloseKeeps
<1>5. ASSUME NEW regime \in {"BULL", "BEAR"}, RegimeAt(Now) = regime,
             RegimeAt(Now - 2) = regime, Emit(regime, 0)
      PROVE  AdaptiveInv'
  <2>1. Calm(Now) /\ Calm(Now - 2)
    BY <1>1, <1>5, AllowedIsCalm
  <2>2. QED
    BY <1>1, <1>5, <2>1, EmitKeeps DEF Regime
<1>6. ASSUME RegimeAt(Now) = "RANGE", Emit("RANGE", 0) PROVE AdaptiveInv'
  <2>1. Calm(Now)
    BY <1>1, <1>6, AllowedIsCalm
  <2>2. QED
    BY <1>1, <1>6, <2>1, EmitKeeps DEF Regime
<1>7. ASSUME NEW s \in Shocks(Now), IsLastShock(s, Now), PatternReady(s, Now), Emit("CRASH", s)
      PROVE  AdaptiveInv'
  <2>1. s \in Nat /\ FirstMatch([slot |-> Now, regime |-> "CRASH", shock |-> s])
    BY <1>1, <1>7, CrashIsFirst
  <2>2. QED
    BY <1>1, <1>7, <2>1, EmitKeeps DEF Regime
<1>8. QED
  BY <1>2, <1>3, <1>4, <1>5, <1>6, <1>7, StepCases

--------------------------------------------------------------------------
\* One raw regime per closed hour, in every behaviour of the rules.
THEOREM TypeCorrect == Spec => []TypeOK
<1>1. AdaptiveInv => TypeOK
  BY DEF AdaptiveInv
<1>2. QED
  BY AdaptiveInit, AdaptiveStep, <1>1, PTL DEF Spec

\* Every behaviour of the rules keeps one short per shock, on the first match.
THEOREM AttemptsAreUsedUp == Spec => []OneAttemptPerShock
<1>1. AdaptiveInv => OneAttemptPerShock
  BY DEF AdaptiveInv
<1>2. QED
  BY AdaptiveInit, AdaptiveStep, <1>1, PTL DEF Spec

\* Every shock before a trend or range intent is older than a crash state and
\* closed before both hours of its regime closed (it may lie in the earlier
\* one), although shocks are only searched for in ShockReach rows.
THEOREM RegimesAreCalm == Spec => []CalmBeforeRegime
<1>1. AdaptiveInv => CalmBeforeRegime
  BY DEF AdaptiveInv
<1>2. QED
  BY AdaptiveInit, AdaptiveStep, <1>1, PTL DEF Spec

\* The overlay is lifted once every shock is two hours and CrashRows old.
THEOREM OverlayIsLifted == Spec => []CooldownEnds
<1>1. ASSUME AdaptiveInv PROVE CooldownEnds
  <2>1. SUFFICES ASSUME \A s \in 1..Now : rows[s].shock =>
                          Now - s >= 2 * HourRows /\ Now - s >= CrashRows,
                        Shocks(Now) # {}
                 PROVE  RegimeAt(Now) = BaseRegime(Now)
    BY DEF CooldownEnds, RegimeAt
  <2> DEFINE c == CHOOSE t \in Shocks(Now) : IsLastShock(t, Now)
  <2>2. Now \in Int /\ PreviousHourClose(Now) \in Int
        /\ Now - 2 * HourRows < PreviousHourClose(Now)
    BY <1>1, PreviousHourIsRecent DEF AdaptiveInv, TypeOK, Now
  <2>3. c \in Shocks(Now)
    BY <2>1, <2>2, LastShockExists
  <2>4. RegimeAt(Now) = IF Now - c < CrashRows THEN "CRASH"
                        ELSE IF Cooling(c, Now) THEN "UNCERTAIN" ELSE BaseRegime(Now)
    BY <2>1 DEF RegimeAt
  <2> HIDE DEF c
  <2>5. c \in 1..Now /\ Now - c >= 2 * HourRows /\ Now - c >= CrashRows
    BY <2>1, <2>3 DEF Shocks, IsShock
  <2>6. ~(Now - c < CrashRows) /\ ~Cooling(c, Now)
    BY <2>2, <2>5, HourAssumption, CrashAssumption DEF Cooling
  <2>7. QED
    BY <2>4, <2>6
<1>2. QED
  BY AdaptiveInit, AdaptiveStep, <1>1, PTL DEF Spec

\* A shock that the bounded search leaves out has no effect any more, and one
\* that it finds last is the last of all.
LEMMA ReachCovers ==
  ASSUME TypeOK, NEW n \in 1..Now
  PROVE  RegimeAt(n) = RegimeOfAll(n)
<1> DEFINE last == CHOOSE t \in AllShocks(n) : \A u \in AllShocks(n) : u <= t
<1>1. n \in Int /\ AllShocks(n) \in SUBSET (1..n) /\ Shocks(n) \subseteq AllShocks(n)
  BY DEF TypeOK, Now, AllShocks, Shocks
<1>2. CASE AllShocks(n) = {}
  BY <1>1, <1>2 DEF RegimeAt, RegimeOfAll
<1>3. CASE AllShocks(n) # {}
  <2>1. last \in AllShocks(n) /\ \A u \in AllShocks(n) : u <= last
    BY <1>1, <1>3, LargestExists
  <2>2. RegimeOfAll(n) = IF n - last < CrashRows THEN "CRASH"
                         ELSE IF Cooling(last, n) THEN "UNCERTAIN" ELSE BaseRegime(n)
    BY <1>3 DEF RegimeOfAll
  <2> HIDE DEF last
  <2>3. last \in 1..n /\ IsShock(last)
    BY <2>1 DEF AllShocks
  <2>4. CASE last \in Shocks(n)
    <3> DEFINE c == CHOOSE t \in Shocks(n) : IsLastShock(t, n)
    <3>1. c \in Shocks(n) /\ IsLastShock(c, n)
      BY <1>1, <2>4, LastShockExists
    <3>2. RegimeAt(n) = IF n - c < CrashRows THEN "CRASH"
                        ELSE IF Cooling(c, n) THEN "UNCERTAIN" ELSE BaseRegime(n)
      BY <2>4 DEF RegimeAt
    <3> HIDE DEF c
    <3>3. c = last
      BY <1>1, <2>1, <2>4, <3>1 DEF IsLastShock
    <3>4. QED
      BY <2>2, <3>2, <3>3
  <2>5. CASE last \notin Shocks(n)
    <3>1. last <= n - ShockReach
      BY <2>3, <2>5, ReachAssumption DEF Shocks
    <3>2. Shocks(n) = {}
      <4>1. ASSUME NEW s \in Shocks(n) PROVE FALSE
        BY <1>1, <2>1, <2>3, <3>1, <4>1, ReachAssumption DEF Shocks
      <4>2. QED
        BY <4>1
    <3>3. PreviousHourClose(n) \in Int /\ n - 2 * HourRows < PreviousHourClose(n)
      BY <1>1, PreviousHourIsRecent
    <3>4. ~(n - last < CrashRows) /\ ~Cooling(last, n)
      BY <2>3, <3>1, <3>3, ReachAssumption, HourAssumption, CrashAssumption DEF Cooling
    <3>5. QED
      BY <2>2, <3>2, <3>4 DEF RegimeAt
  <2>6. QED
    BY <2>4, <2>5
<1>4. QED
  BY <1>2, <1>3

\* The bounded search of _shocks gives the regime of the whole history.
THEOREM SearchIsExact == Spec => []ReachIsExact
<1>1. AdaptiveInv => ReachIsExact
  BY ReachCovers DEF AdaptiveInv, ReachIsExact
<1>2. QED
  BY AdaptiveInit, AdaptiveStep, <1>1, PTL DEF Spec
=============================================================================
