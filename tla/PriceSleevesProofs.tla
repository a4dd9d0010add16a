------------------------ MODULE PriceSleevesProofs ------------------------
(* Theorems about RuntimeEvaluation, and about PriceSleeves, which runs    *)
(* the evaluator on the window of one sleeve.                              *)
EXTENDS PriceSleeves, FrameReadinessProofs, SequenceTheorems, WellFoundedInduction

(***************************************************************************)
(* RuntimeEvaluation.                                                      *)
(***************************************************************************)

--------------------------------------------------------------------------
(* How many frames a window holds.                                         *)

\* F is the set of multiples of s whose frame lies between c - n and c.
Between(F, s, q, c, n) ==
  /\ F \in SUBSET Nat
  /\ \A k \in Nat : k \in F <=> k \in 0..q /\ c - n <= k * s /\ k * s + s <= c

\* How many they are.
LEMMA CountMultiples ==
  ASSUME NEW s \in Nat \ {0}, NEW count \in Nat \ {0}, NEW q \in Nat, NEW r \in 0..(s - 1),
         NEW c \in Nat, c = q * s + r, NEW n \in Nat, n <= c, NEW F, Between(F, s, q, c, n)
  PROVE  IsFiniteSet(F) /\ (Cardinality(F) >= count <=> n >= count * s + r)
<1> USE DEF Between
<1>1. \A k \in Nat : k * s \in Nat /\ (k + 1) * s = k * s + s
  BY Z3
<1>2. (q - count) * s = q * s - count * s /\ q * s \in Nat /\ count * s \in Nat
  BY Z3
<1>3. F \subseteq 0..(q - 1)
  <2> SUFFICES ASSUME NEW k \in F PROVE k \in 0..(q - 1)
    OBVIOUS
  <2>1. k \in Nat /\ k \in 0..q /\ k * s + s <= c
    OBVIOUS
  <2>2. q <= k => q * s <= k * s
    BY <2>1, Multiples
  <2> QED BY <2>1, <2>2, <1>1, <1>2
<1>4. IsFiniteSet(F)
  <2>1. q - 1 \in Int
    OBVIOUS
  <2>2. IsFiniteSet(0..(q - 1))
    BY <2>1, FS_Interval
  <2> QED BY <1>3, <2>2, FS_Subset
<1>5. Cardinality(F) \in Nat
  BY <1>4, FS_CardinalityType
<1>6. ASSUME n >= count * s + r PROVE Cardinality(F) >= count
  <2>1. count * s <= q * s
    BY <1>6, <1>2
  <2>2. count <= q
    BY <2>1, Multiples
  <2>3. ((q - count)..(q - 1)) \subseteq F
    <3> SUFFICES ASSUME NEW k \in (q - count)..(q - 1) PROVE k \in F
      OBVIOUS
    <3>1. k \in 0..q /\ k \in Nat /\ q - count \in Int /\ q - count <= k /\ k + 1 <= q
      BY <2>2
    <3>2. (q - count) * s <= k * s /\ (k + 1) * s <= q * s
      BY <3>1, Multiples
    <3>3. k * s \in Nat /\ (k + 1) * s = k * s + s
      BY <3>1, <1>1
    <3>4. c - n <= k * s /\ k * s + s <= c
      BY <3>2, <3>3, <1>2, <1>6
    <3> QED BY <3>1, <3>4
  <2>4. q - count \in Int /\ q - 1 \in Int /\ ~(q - count > q - 1) /\ (q - 1) - (q - count) + 1 = count
    OBVIOUS
  <2>5. Cardinality((q - count)..(q - 1)) = (q - 1) - (q - count) + 1
    BY <2>4, FS_Interval
  <2>6. Cardinality((q - count)..(q - 1)) <= Cardinality(F)
    BY <2>3, <1>4, FS_Subset
  <2> QED BY <2>4, <2>5, <2>6, <1>5
<1>7. ASSUME n < count * s + r PROVE Cardinality(F) < count
  <2>1. F \subseteq (q - count + 1)..(q - 1)
    <3> SUFFICES ASSUME NEW k \in F PROVE k \in (q - count + 1)..(q - 1)
      OBVIOUS
    <3>1. k \in 0..(q - 1) /\ k \in Nat /\ c - n <= k * s /\ k * s \in Nat
      BY <1>1, <1>3
    <3>2. ~(k * s <= (q - count) * s)
      BY <3>1, <1>2, <1>7
    <3>3. ~(k <= q - count)
      BY <3>1, <3>2, Multiples
    <3> QED BY <3>1, <3>3
  <2>2. q - count + 1 \in Int /\ q - 1 \in Int
    OBVIOUS
  <2>3. IsFiniteSet((q - count + 1)..(q - 1))
        /\ Cardinality((q - count + 1)..(q - 1))
             = IF q - count + 1 > q - 1 THEN 0 ELSE (q - 1) - (q - count + 1) + 1
    BY <2>2, FS_Interval
  <2>4. (q - count + 1 > q - 1 => 0 < count) /\ (q - 1) - (q - count + 1) + 1 < count
    OBVIOUS
  <2>5. Cardinality(F) <= Cardinality((q - count + 1)..(q - 1))
    BY <2>1, <2>3, FS_Subset
  <2> QED BY <2>3, <2>4, <2>5, <1>5
<1> QED BY <1>2, <1>4, <1>5, <1>6, <1>7

\* The count of complete frames in closed form.
LEMMA EnoughFrames ==
  ASSUME NEW rows, Consecutive(rows), NEW f \in Frame
  PROVE  /\ IsFiniteSet(Frames(rows, f.size))
         /\ Cardinality(Frames(rows, f.size)) >= f.count
              <=> Len(rows) >= Needed(f, Closed(rows))
<1> DEFINE s == f.size
           count == f.count
           c == Closed(rows)
           n == Len(rows)
           q == c \div s
           r == c % s
           F == Frames(rows, s)
<1>1. s \in Nat \ {0} /\ count \in Nat \ {0}
  BY DEF Frame
<1>2. c \in Nat /\ n \in Nat /\ n <= c
  BY WindowMinutes
<1> HIDE DEF s, count, c, n
<1>3. q \in Nat /\ r \in 0..(s - 1) /\ c = q * s + r
  BY <1>1, <1>2, Division
<1>4. Between(F, s, q, c, n)
  <2>1. \A k \in Nat : k \in F <=> k \in 0..q /\ c - n <= k * s /\ k * s + s <= c
    BY <1>1, FramesBetweenEnds DEF c, n
  <2>2. F \in SUBSET Nat
    BY DEF Frames
  <2> HIDE DEF q, F
  <2> QED BY <2>1, <2>2 DEF Between
<1> HIDE DEF q, r, F
<1>5. IsFiniteSet(F) /\ (Cardinality(F) >= count <=> n >= count * s + r)
  BY <1>1, <1>2, <1>3, <1>4, CountMultiples
<1> QED BY <1>5 DEF Needed, F, r, n, c, s, count

\* Without the zero-volume rule readiness is a question of length.
LEMMA ReadyWhenLongEnough ==
  ASSUME NEW rows, Consecutive(rows), NEW r \in Rule, ~r.segment
  PROVE  HistoryReady(r, rows) <=> \A f \in r.frames : Len(rows) >= Needed(f, Closed(rows))
<1>1. \A size : Available(r, rows, size) = Frames(rows, size)
  BY DEF Available
<1>2. \A f \in r.frames : f \in Frame
  BY DEF Rule
<1> QED BY <1>1, <1>2, EnoughFrames DEF HistoryReady

--------------------------------------------------------------------------
(* Type correctness, and what every step does.                             *)

LEMMA ExtendKeepsMinutes ==
  ASSUME TypeOK, NEW b \in Bar, history # <<>> => b.open = Closed(history)
  PROVE  Consecutive(Extend(history, b)) /\ Len(Extend(history, b)) <= window
<1> DEFINE longer == Append(history, b)
           n == Len(history)
<1>1. history \in Seq(Bar) /\ n \in Nat /\ n <= window /\ window \in Nat \ {0}
  BY WindowsAssumption DEF TypeOK
<1>2. \A i \in 1..n : history[i].open = Closed(history) - 1 - (n - i)
  BY DEF TypeOK
<1>3. /\ longer \in Seq(Bar) /\ Len(longer) = n + 1 /\ longer[n + 1] = b
      /\ \A i \in 1..n : longer[i] = history[i]
  BY <1>1
<1>4. Closed(longer) = b.open + 1 /\ b.open \in Nat
  BY <1>3 DEF Closed, Bar
<1>5. \A i \in 1..(n + 1) : longer[i].open = b.open - (n + 1 - i)
  <2> SUFFICES ASSUME NEW i \in 1..(n + 1) PROVE longer[i].open = b.open - (n + 1 - i)
    OBVIOUS
  <2>1. CASE i = n + 1
    BY <2>1, <1>1, <1>3, <1>4
  <2>2. CASE i \in 1..n
    <3>1. history # <<>> /\ b.open = Closed(history)
      BY <2>2, <1>1
    <3> QED BY <2>2, <3>1, <1>1, <1>2, <1>3, <1>4
  <2> QED BY <2>1, <2>2, <1>1
<1>6. CASE Len(longer) > window
  <2> DEFINE rows == Tail(longer)
  <2>1. Extend(history, b) = rows
    BY <1>6 DEF Extend
  <2>2. /\ rows \in Seq(Bar) /\ Len(rows) = n /\ n > 0
        /\ \A i \in 1..n : rows[i] = longer[i + 1]
    BY <1>1, <1>3, <1>6
  <2>3. Closed(rows) = b.open + 1
    BY <2>2, <1>1, <1>3 DEF Closed
  <2>4. \A i \in 1..n : rows[i].open = Closed(rows) - 1 - (n - i)
    <3> TAKE i \in 1..n
    <3>1. i + 1 \in 1..(n + 1) /\ rows[i] = longer[i + 1]
      BY <2>2, <1>1
    <3>2. rows[i].open = b.open - (n + 1 - (i + 1))
      <4> HIDE DEF longer, rows
      <4> QED BY <3>1, <1>5
    <3> QED BY <3>2, <2>3, <1>1, <1>4
  <2> HIDE DEF rows
  <2> QED BY <2>1, <2>2, <2>4, <1>1 DEF Consecutive
<1>7. CASE ~(Len(longer) > window)
  <2>1. Extend(history, b) = longer
    BY <1>7 DEF Extend
  <2>2. \A i \in 1..(n + 1) : longer[i].open = Closed(longer) - 1 - (n + 1 - i)
    BY <1>1, <1>4, <1>5
  <2> HIDE DEF longer
  <2> QED BY <2>1, <2>2, <1>1, <1>3, <1>7 DEF Consecutive
<1> QED BY <1>6, <1>7

\* A step stutters, begins without a receipt, or gives the bar's receipt on
\* the window with the bar.
LEMMA StepEvaluates ==
  ASSUME TypeOK, [Next]_vars
  PROVE  /\ TypeOK'
         /\ \/ UNCHANGED vars
            \/ status' = "NONE"
            \/ /\ rule' = rule /\ rule \in Rule /\ Consecutive(history')
               /\ \E result \in Result : status' = Verdict(rule, history', result)
<1>1. CASE UNCHANGED vars
  BY <1>1 DEF vars, TypeOK, Closed
<1>2. ASSUME NEW b \in Bar, NEW result \in Result, Evaluate(b, result),
             history # <<>> => b.open = Closed(history)
      PROVE  /\ TypeOK'
             /\ rule' = rule /\ rule \in Rule /\ Consecutive(history')
             /\ status' = Verdict(rule, history', result)
  <2>1. history' = Extend(history, b) /\ status' = Verdict(rule, history', result)
        /\ rule' = rule /\ window' = window
    BY <1>2 DEF Evaluate
  <2>2. Consecutive(history') /\ Len(history') <= window'
    BY <2>1, <1>2, ExtendKeepsMinutes
  <2>3. status' \in Status
    BY <2>1 DEF Verdict, QuietVerdict, Status
  <2>4. rule \in Rule /\ rule \in Rules /\ window \in Windows
    BY RulesAssumption DEF TypeOK
  <2> QED BY <2>1, <2>2, <2>3, <2>4 DEF TypeOK, Consecutive, Closed
<1>3. CASE FirstBar
  <2>1. PICK open \in 0..(MaxMinute - 1), traded \in BOOLEAN, result \in Result :
          Evaluate([open |-> open, traded |-> traded], result)
    BY <1>3 DEF FirstBar
  <2>2. [open |-> open, traded |-> traded] \in Bar
    BY BoundAssumption DEF Bar
  <2>3. history = <<>>
    BY <1>3 DEF FirstBar
  <2> QED BY <2>1, <2>2, <2>3, <1>2
<1>4. CASE NextBar
  <2>1. PICK traded \in BOOLEAN, result \in Result :
          Evaluate([open |-> Closed(history), traded |-> traded], result)
    BY <1>4 DEF NextBar
  <2>2. history # <<>> /\ Consecutive(history)
    BY <1>4 DEF NextBar, TypeOK, Consecutive
  <2>3. [open |-> Closed(history), traded |-> traded] \in Bar
    BY <2>2, WindowMinutes DEF Bar
  <2> QED BY <2>1, <2>2, <2>3, <1>2
<1>5. CASE Restart
  <2>1. status' = "NONE" /\ rule' = rule /\ window' = window
    BY <1>5 DEF Restart
  <2>2. CASE history' = <<>>
    <3>1. history' \in Seq(Bar) /\ Len(history') = 0 /\ window \in Nat
      BY <2>2, WindowsAssumption DEF TypeOK
    <3> QED BY <2>1, <3>1 DEF TypeOK, Status
  <2>3. CASE Consecutive(history') /\ Len(history') <= window
    BY <2>1, <2>3 DEF TypeOK, Status, Consecutive
  <2> QED BY <1>5, <2>2, <2>3 DEF Restart
<1> QED BY <1>1, <1>3, <1>4, <1>5 DEF Next

LEMMA InitialTypes == Init => TypeOK
<1> SUFFICES ASSUME Init PROVE TypeOK
  OBVIOUS
<1>1. rule \in Rules /\ window \in Windows /\ status \in Status
  BY DEF Init, Status
<1>2. history \in Seq(Bar) /\ Len(history) = 0
  BY DEF Init
<1>3. window \in Nat
  BY <1>1, WindowsAssumption
<1> QED BY <1>1, <1>2, <1>3 DEF TypeOK

--------------------------------------------------------------------------
(* Safety.                                                                 *)

\* Every variable has its type, and the window never grows past window_bars
\* nor has a gap.
THEOREM TypeCorrect == Spec => []TypeOK
<1>1. TypeOK /\ [Next]_vars => TypeOK'
  BY StepEvaluates
<1> QED BY InitialTypes, <1>1, PTL DEF Spec

\* A quiet receipt that claims an analysis has every frame it looked back on,
\* whole and traded, and a traded bar among the prior ones.
THEOREM QuietIsAnalysis == Spec => []QuietIsInformed
<1>1. Init => QuietIsInformed
  BY DEF Init, QuietIsInformed
<1>2. TypeOK /\ QuietIsInformed /\ [Next]_vars => QuietIsInformed'
  <2> SUFFICES ASSUME TypeOK, QuietIsInformed, [Next]_vars PROVE QuietIsInformed'
    OBVIOUS
  <2>1. CASE UNCHANGED vars
    BY <2>1 DEF vars, QuietIsInformed, Held, Closed, InBucket
  <2>2. CASE status' = "NONE"
    BY <2>2 DEF QuietIsInformed
  <2>3. ASSUME rule' = rule, rule \in Rule, Consecutive(history'),
               NEW result \in Result, status' = Verdict(rule, history', result)
        PROVE  QuietIsInformed'
    <3> SUFFICES ASSUME status' = "NO_INTENT" PROVE QuietIsInformed'
      BY DEF QuietIsInformed
    <3>1. HistoryReady(rule, history') /\ VolumeContextReady(rule, history')
      BY <2>3 DEF Verdict, QuietVerdict, Result
    <3>2. ASSUME NEW f \in rule.frames, NEW back \in 1..f.count
          PROVE  LET k == Closed(history') \div f.size - back
                 IN  /\ \A m \in (k * f.size)..(k * f.size + f.size - 1) :
                          \E i \in 1..Len(history') : history'[i].open = m
                     /\ rule.segment => Traded(history', k, f.size)
      <4>1. Closed(history') \div f.size - back \in Available(rule, history', f.size)
        BY <2>3, <3>1, LatestFramesAvailable
      <4>2. f.size \in Nat
        BY <2>3 DEF Rule, Frame
      <4> QED BY <4>1, <4>2, CountedFrameIsWhole
    <3>3. ASSUME rule.prior > 0, NEW last \in {1, 2}
          PROVE  LET frame == Closed(history') \div rule.priorSize - last
                 IN  \E i \in 1..Len(history') :
                       /\ history'[i].traded
                       /\ history'[i].open \in ((frame - rule.prior) * rule.priorSize)
                                                 ..(frame * rule.priorSize - 1)
      <4> DEFINE frame == Closed(history') \div rule.priorSize - last
      <4>1. rule.prior \in Nat /\ rule.priorSize \in Nat \ {0}
        BY <2>3 DEF Rule
      <4>2. history' \in Seq(Bar) /\ Closed(history') \in Nat
        BY <2>3, WindowMinutes DEF Consecutive
      <4>3. frame \in Int
        <5>1. Closed(history') \div rule.priorSize \in Nat
          BY <4>1, <4>2, Division
        <5> QED BY <5>1
      <4>4. PICK k \in 1..rule.prior : Traded(history', frame - k, rule.priorSize)
        BY <3>1, <3>3 DEF VolumeContextReady
      <4> HIDE DEF frame
      <4>5. \E i \in 1..Len(history') :
              /\ history'[i].traded
              /\ history'[i].open \in ((frame - rule.prior) * rule.priorSize)
                                        ..(frame * rule.priorSize - 1)
        BY <4>1, <4>2, <4>3, <4>4, PriorFrameTraded
      <4> QED BY <4>5 DEF frame
    <3> QED BY <2>3, <3>2, <3>3 DEF QuietIsInformed, Held, Traded, InBucket, Closed
  <2> QED BY <2>1, <2>2, <2>3, StepEvaluates
<1>3. TypeOK /\ [Next]_vars => TypeOK'
  BY StepEvaluates
<1> QED BY InitialTypes, <1>1, <1>2, <1>3, PTL DEF Spec

\* For all rules, windows and alignments of the clock: a quiet strategy is
\* in WARMUP exactly while the window is too short for a frame.
THEOREM WarmupIsTold == Spec => []WarmupIsExact
<1>1. Init => WarmupIsExact
  BY DEF Init, WarmupIsExact
<1>2. TypeOK /\ WarmupIsExact /\ [Next]_vars => WarmupIsExact'
  <2> SUFFICES ASSUME TypeOK, WarmupIsExact, [Next]_vars PROVE WarmupIsExact'
    OBVIOUS
  <2>1. CASE UNCHANGED vars
    BY <2>1 DEF vars, WarmupIsExact, Closed, Needed, Scheduled
  <2>2. ASSUME rule' = rule, rule \in Rule, Consecutive(history'),
               NEW result \in Result, status' = Verdict(rule, history', result)
        PROVE  WarmupIsExact'
    <3> SUFFICES ASSUME status' \in {"WARMUP", "NO_INTENT", "UNAVAILABLE"},
                        rule.reviewed, ~rule.segment, Scheduled(rule, Closed(history'))
                 PROVE  status' = "WARMUP" <=>
                          \/ Len(history') < rule.minimum
                          \/ \E f \in rule.frames : Len(history') < Needed(f, Closed(history'))
      BY <2>2 DEF WarmupIsExact, Scheduled, Closed, Needed
    <3>1. HistoryReady(rule, history') <=>
            \A f \in rule.frames : Len(history') >= Needed(f, Closed(history'))
      BY <2>2, ReadyWhenLongEnough
    <3>2. \A f \in rule.frames : /\ Len(history') \in Int
                                 /\ Needed(f, Closed(history')) \in Int
      <4> TAKE f \in rule.frames
      <4>1. f.size \in Nat \ {0} /\ f.count \in Nat
        BY <2>2 DEF Rule, Frame
      <4>2. Closed(history') \in Nat /\ Len(history') \in Int
        BY <2>2, WindowMinutes
      <4>3. f.count * f.size \in Nat
        BY <4>1, Z3
      <4>4. Closed(history') % f.size \in Int
        BY <4>1, <4>2, Division
      <4> QED BY <4>2, <4>3, <4>4 DEF Needed
    <3>3. CASE Len(history') < rule.minimum
      BY <3>3, <2>2 DEF Verdict
    <3>4. CASE ~(Len(history') < rule.minimum)
      <4>1. status' = "WARMUP" <=> ~HistoryReady(rule, history')
        BY <3>4, <2>2 DEF Verdict, QuietVerdict, Result
      <4> QED BY <4>1, <3>1, <3>2, <3>4
    <3> QED BY <3>3, <3>4
  <2>3. CASE status' = "NONE"
    BY <2>3 DEF WarmupIsExact
  <2> QED BY <2>1, <2>2, <2>3, StepEvaluates
<1>3. TypeOK /\ [Next]_vars => TypeOK'
  BY StepEvaluates
<1> QED BY InitialTypes, <1>1, <1>2, <1>3, PTL DEF Spec

\* At the registered phase the part of an open frame is the same every time.
LEMMA NeededAtPhase ==
  ASSUME NEW r \in Rule, NEW f \in r.frames, NEW minute \in Nat,
         r.interval % f.size = 0, minute % r.interval = r.phase
  PROVE  Needed(f, minute) = Needed(f, r.phase)
<1>1. f.size \in Nat \ {0} /\ r.interval \in Nat \ {0}
  BY DEF Rule, Frame
<1>2. (minute % r.interval) % f.size = minute % f.size
  BY <1>1, Residue
<1>3. r.phase % f.size = minute % f.size
  BY <1>2, Zenon
<1> QED BY <1>3 DEF Needed

\* A registered minimum that covers the frames at the decision phase keeps
\* the strategy out of WARMUP for good, whatever the window is aligned to.
THEOREM MinimumIsEnough == Spec => []RegisteredMinimumSuffices
<1>1. Init => RegisteredMinimumSuffices
  BY DEF Init, RegisteredMinimumSuffices
<1>2. TypeOK /\ RegisteredMinimumSuffices /\ [Next]_vars => RegisteredMinimumSuffices'
  <2> SUFFICES ASSUME TypeOK, RegisteredMinimumSuffices, [Next]_vars
               PROVE  RegisteredMinimumSuffices'
    OBVIOUS
  <2>1. CASE UNCHANGED vars
    BY <2>1 DEF vars, RegisteredMinimumSuffices
  <2>2. ASSUME rule' = rule, rule \in Rule, Consecutive(history'),
               NEW result \in Result, status' = Verdict(rule, history', result)
        PROVE  RegisteredMinimumSuffices'
    <3> SUFFICES ASSUME CoversFrames(rule), Len(history') >= rule.minimum, status' = "WARMUP"
                 PROVE  FALSE
      BY <2>2 DEF RegisteredMinimumSuffices, CoversFrames
    <3>1. Len(history') \in Nat /\ Closed(history') \in Nat /\ rule.minimum \in Nat
      BY <2>2, WindowMinutes DEF Rule
    <3>2. Scheduled(rule, Closed(history')) /\ ~HistoryReady(rule, history')
      BY <2>2, <3>1 DEF Verdict, QuietVerdict
    <3>3. PICK f \in rule.frames : ~(Len(history') >= Needed(f, Closed(history')))
      BY <2>2, <3>2, ReadyWhenLongEnough DEF CoversFrames
    <3>4. Needed(f, Closed(history')) = Needed(f, rule.phase)
      BY <2>2, <3>1, <3>2, NeededAtPhase DEF CoversFrames, Scheduled
    <3>5. rule.minimum >= Needed(f, rule.phase)
      BY DEF CoversFrames
    <3>6. Needed(f, rule.phase) \in Int
      <4>1. f.size \in Nat \ {0} /\ f.count \in Nat /\ rule.phase \in Nat
        BY <2>2 DEF Rule, Frame
      <4>2. f.count * f.size \in Nat /\ rule.phase % f.size \in Int
        <5>1. f.count * f.size \in Nat
          BY <4>1, Z3
        <5>2. rule.phase % f.size \in Int
          BY <4>1, Division
        <5> QED BY <5>1, <5>2
      <4> QED BY <4>2 DEF Needed
    <3> QED BY <3>1, <3>3, <3>4, <3>5, <3>6
  <2>3. CASE status' = "NONE"
    BY <2>3 DEF RegisteredMinimumSuffices
  <2> QED BY <2>1, <2>2, <2>3, StepEvaluates
<1>3. TypeOK /\ [Next]_vars => TypeOK'
  BY StepEvaluates
<1> QED BY InitialTypes, <1>1, <1>2, <1>3, PTL DEF Spec

(***************************************************************************)
(* PriceSleeves.                                                           *)
(***************************************************************************)

--------------------------------------------------------------------------
(* The rolling window is the end of the archive.                           *)

\* The rows are the last ones of the archive.
EndOf(rows, all) == Len(rows) <= Len(all) /\ rows = SubSeq(all, Len(all) - Len(rows) + 1, Len(all))

\* The same, bar by bar.
LEMMA EndBarByBar ==
  ASSUME NEW rows \in Seq(Bar), NEW all \in Seq(Bar), Len(rows) <= Len(all)
  PROVE  EndOf(rows, all) <=> \A i \in 1..Len(rows) : rows[i] = all[Len(all) - Len(rows) + i]
<1> DEFINE n == Len(rows)
           m == Len(all) - n + 1
           end == SubSeq(all, m, Len(all))
<1>1. n \in Nat /\ Len(all) \in Nat /\ m \in 1..(Len(all) + 1)
  OBVIOUS
<1>2. \A i \in m..Len(all) : all[i] \in Bar
  BY <1>1
<1>3. end \in Seq(Bar) /\ Len(end) = n /\ \A i \in 1..n : end[i] = all[m + i - 1]
  <2>1. m \in Int /\ Len(all) \in Int /\ Len(all) - m + 1 = n
    BY <1>1
  <2>2. /\ end \in Seq(Bar) /\ Len(end) = IF m <= Len(all) THEN Len(all) - m + 1 ELSE 0
        /\ \A i \in 1..(Len(all) - m + 1) : end[i] = all[m + i - 1]
    BY <1>2, <2>1, SubSeqProperties
  <2> QED BY <2>1, <2>2, <1>1
<1>4. \A i \in 1..n : m + i - 1 = Len(all) - n + i
  BY <1>1
<1> HIDE DEF end, m
<1>5. rows = end <=> \A i \in 1..n : rows[i] = end[i]
  BY <1>3, SeqEqual
<1>6. EndOf(rows, all) <=> rows = end
  BY DEF EndOf, end, m
<1> QED BY <1>3, <1>4, <1>5, <1>6

\* Archiving a bar and extending the window by it keeps the window at the end.
LEMMA ExtendKeepsEnd ==
  ASSUME NEW all \in Seq(Bar), history \in Seq(Bar), EndOf(history, all), NEW b \in Bar,
         window \in Nat \ {0}, Len(history) <= window
  PROVE  Extend(history, b) \in Seq(Bar) /\ EndOf(Extend(history, b), Append(all, b))
<1> DEFINE n == Len(history)
           longer == Append(history, b)
           archive == Append(all, b)
<1>1. n \in Nat /\ Len(all) \in Nat /\ n <= Len(all)
  BY DEF EndOf
<1>2. \A i \in 1..n : history[i] = all[Len(all) - n + i]
  BY <1>1, EndBarByBar
<1>3. /\ longer \in Seq(Bar) /\ Len(longer) = n + 1 /\ longer[n + 1] = b
      /\ \A i \in 1..n : longer[i] = history[i]
  OBVIOUS
<1>4. /\ archive \in Seq(Bar) /\ Len(archive) = Len(all) + 1 /\ archive[Len(all) + 1] = b
      /\ \A i \in 1..Len(all) : archive[i] = all[i]
  OBVIOUS
<1>5. \A i \in 1..(n + 1) : longer[i] = archive[Len(all) - n + i]
  <2> TAKE i \in 1..(n + 1)
  <2>1. CASE i = n + 1
    BY <2>1, <1>1, <1>3, <1>4
  <2>2. CASE i \in 1..n
    <3>1. Len(all) - n + i \in 1..Len(all)
      BY <2>2, <1>1
    <3>2. longer[i] = history[i] /\ history[i] = all[Len(all) - n + i]
      BY <2>2, <1>2, <1>3
    <3>3. archive[Len(all) - n + i] = all[Len(all) - n + i]
      BY <3>1, <1>4
    <3> QED BY <3>2, <3>3
  <2> QED BY <2>1, <2>2, <1>1
<1>6. CASE Len(longer) > window
  <2> DEFINE rows == Tail(longer)
  <2>1. Extend(history, b) = rows
    BY <1>6 DEF Extend
  <2>2. rows \in Seq(Bar) /\ Len(rows) = n /\ \A i \in 1..n : rows[i] = longer[i + 1]
    BY <1>1, <1>3
  <2>3. \A i \in 1..n : rows[i] = archive[Len(archive) - n + i]
    <3> TAKE i \in 1..n
    <3>1. i + 1 \in 1..(n + 1) /\ Len(archive) - n + i = Len(all) - n + (i + 1)
      BY <1>1, <1>4
    <3>2. rows[i] = longer[i + 1]
      BY <2>2
    <3> HIDE DEF rows, longer, archive
    <3> QED BY <3>1, <3>2, <1>5
  <2> HIDE DEF rows, archive
  <2>4. Len(rows) <= Len(archive)
    BY <2>2, <1>1, <1>4
  <2>5. EndOf(rows, archive)
    BY <2>2, <2>3, <2>4, <1>4, EndBarByBar
  <2> QED BY <2>1, <2>2, <2>5 DEF archive
<1>7. CASE ~(Len(longer) > window)
  <2>1. Extend(history, b) = longer
    BY <1>7 DEF Extend
  <2> HIDE DEF longer, archive
  <2>2. Len(longer) <= Len(archive) /\ Len(archive) - Len(longer) = Len(all) - n
    BY <1>1, <1>3, <1>4
  <2>3. EndOf(longer, archive)
    BY <2>2, <1>3, <1>4, <1>5, EndBarByBar
  <2> QED BY <2>1, <2>3, <1>3 DEF archive
<1> QED BY <1>6, <1>7

LEMMA EmptyEnd ==
  ASSUME NEW all \in Seq(Bar)
  PROVE  EndOf(<<>>, all)
<1>1. Len(all) \in Nat /\ Len(<<>>) = 0
  OBVIOUS
<1>2. SubSeq(all, Len(all) - 0 + 1, Len(all)) = <<>>
  BY <1>1, SubSeqEmpty
<1> QED BY <1>1, <1>2 DEF EndOf

--------------------------------------------------------------------------
(* Every step of the live system is a step of the evaluator.               *)

\* The type invariant; the window ends at the last minute; without a window
\* there is no receipt, and a research sleeve never has one.
LiveInv ==
  /\ SleevesTypeOK
  /\ history # <<>> => Closed(history) = clock
  /\ history = <<>> => status = "NONE"
  /\ ~Registered(sleeve) => history = <<>>

LEMMA SleevesStart == LiveInit => Init /\ LiveInv
<1> SUFFICES ASSUME LiveInit PROVE Init /\ LiveInv
  OBVIOUS
<1>1. PICK c \in Configurations : sleeve = c.sleeve /\ plan = c.plan /\ window = c.window
  BY DEF LiveInit
<1>2. c = [sleeve |-> sleeve, plan |-> plan, window |-> window] /\ window \in Windows
  <2>1. c \in [sleeve : Sleeve, plan : Plans, window : Windows]
    BY ConfigurationsAssumption
  <2> QED BY <1>1, <2>1
<1>3. rule \in Rules /\ rule = RuleOf(sleeve)
  BY <1>1, ConfigurationsAssumption DEF LiveInit
<1>4. Init
  BY <1>2, <1>3 DEF LiveInit, Init
<1>5. TypeOK
  BY <1>4, InitialTypes
<1>6. history = <<>> /\ tape = <<>> /\ clock \in Nat /\ observed = {} /\ disturbed = 0
      /\ batch = {} /\ refused = {}
  BY TimeAssumption DEF LiveInit
<1>7. tape \in Seq(Bar) /\ Len(tape) = 0 /\ Len(history) = 0 /\ disturbed \in 0..Disturbances
  BY <1>6, TimeAssumption
<1>8. SubSeq(tape, Len(tape) - Len(history) + 1, Len(tape)) = <<>>
  BY <1>7, SubSeqEmpty
<1>9. status = "NONE" /\ history = <<>>
  BY DEF LiveInit
<1> QED BY <1>1, <1>2, <1>3, <1>4, <1>5, <1>6, <1>7, <1>8, <1>9 DEF LiveInv, SleevesTypeOK, Candidates

\* What the run of a delivered bar leaves behind.
LEMMA ObserveStep ==
  ASSUME LiveInv, NEW traded \in BOOLEAN, Observe(Minute(traded)), clock < MaxMinute
  PROVE  /\ FirstBar \/ NextBar
         /\ TypeOK' /\ Consecutive(history')
         /\ history' = Extend(history, Minute(traded)) /\ Closed(history') = clock + 1
         /\ batch' \subseteq Candidates /\ refused' \subseteq Markets
<1> DEFINE b == Minute(traded)
           result == Conversion(batch', refused')
<1>1. clock \in Nat /\ TypeOK /\ b = [open |-> clock, traded |-> traded] /\ b \in Bar
  BY DEF LiveInv, SleevesTypeOK, Minute, Bar
<1>2. Evaluate(b, result)
  BY DEF Observe
<1>3. result \in Result
  BY DEF Conversion, Result
<1>4. batch' \subseteq Candidates /\ refused' \subseteq Markets
  BY DEF Observe
<1> HIDE DEF b, result
<1>5. FirstBar \/ NextBar
  <2>1. CASE history = <<>>
    <3>1. clock \in 0..(MaxMinute - 1)
      BY <1>1, BoundAssumption
    <3> QED BY <2>1, <3>1, <1>1, <1>2, <1>3 DEF FirstBar
  <2>2. CASE history # <<>>
    <3>1. Closed(history) = clock
      BY <2>2 DEF LiveInv
    <3> QED BY <2>2, <3>1, <1>1, <1>2, <1>3 DEF NextBar
  <2> QED BY <2>1, <2>2
<1>6. history' = Extend(history, b)
  BY <1>2 DEF Evaluate
<1>7. history # <<>> => b.open = Closed(history)
  BY <1>1 DEF LiveInv
<1>8. Consecutive(history')
  BY <1>1, <1>6, <1>7, ExtendKeepsMinutes
<1>9. TypeOK'
  BY <1>1, <1>5, StepEvaluates DEF Next
<1>10. Closed(history') = clock + 1
  <2>1. history \in Seq(Bar) /\ window \in Nat \ {0} /\ Len(history) <= window
    BY <1>1, WindowsAssumption DEF TypeOK
  <2>2. /\ Append(history, b) \in Seq(Bar) /\ Len(Append(history, b)) = Len(history) + 1
        /\ Append(history, b)[Len(history) + 1] = b
    BY <1>1, <2>1
  <2>3. CASE Len(Append(history, b)) > window
    <3>1. history' = Tail(Append(history, b))
      BY <1>6, <2>3 DEF Extend
    <3>2. Len(history') = Len(history) /\ Len(history) \in Nat \ {0}
      BY <2>1, <2>2, <2>3, <3>1
    <3>3. history'[Len(history')] = b
      BY <2>2, <3>1, <3>2
    <3> QED BY <3>3, <1>1 DEF Closed
  <2>4. CASE ~(Len(Append(history, b)) > window)
    <3>1. history' = Append(history, b)
      BY <1>6, <2>4 DEF Extend
    <3> QED BY <2>2, <3>1, <1>1 DEF Closed
  <2> QED BY <2>3, <2>4
<1> QED BY <1>4, <1>5, <1>6, <1>8, <1>9, <1>10 DEF b

\* Minutes from the clock on keep the archive in order.
Ordered(all, minute) ==
  \A i \in 1..Len(all) : all[i].open < minute /\ (i > 1 => all[i - 1].open < all[i].open)

LEMMA ArchiveStaysOrdered ==
  ASSUME NEW all \in Seq(Bar), NEW more \in Seq(Bar), NEW minute \in Nat, Ordered(all, minute),
         \A i \in 1..Len(more) : more[i].open = minute + i - 1
  PROVE  /\ all \o more \in Seq(Bar)
         /\ Ordered(all \o more, minute + Len(more))
<1> DEFINE n == Len(all)
           joined == all \o more
<1>1. n \in Nat /\ Len(more) \in Nat
  OBVIOUS
<1>2. /\ joined \in Seq(Bar) /\ Len(joined) = n + Len(more)
      /\ \A i \in 1..n : joined[i] = all[i]
      /\ \A i \in (n + 1)..(n + Len(more)) : joined[i] = more[i - n]
  OBVIOUS
<1>3. \A i \in 1..n : all[i].open \in Nat
  <2> TAKE i \in 1..n
  <2>1. all[i] \in Bar
    OBVIOUS
  <2> QED BY <2>1 DEF Bar
<1> HIDE DEF joined
<1>4. \A i \in 1..n : joined[i].open \in Nat /\ joined[i].open < minute
  BY <1>2, <1>3 DEF Ordered
<1>5. \A i \in (n + 1)..(n + Len(more)) : joined[i].open = minute + (i - n) - 1
  <2> TAKE i \in (n + 1)..(n + Len(more))
  <2>1. i - n \in 1..Len(more)
    BY <1>1
  <2>2. joined[i] = more[i - n] /\ more[i - n].open = minute + (i - n) - 1
    BY <2>1, <1>2
  <2> QED BY <2>2
<1>6. Ordered(joined, minute + Len(more))
  <2> SUFFICES ASSUME NEW i \in 1..(n + Len(more))
               PROVE  /\ joined[i].open < minute + Len(more)
                      /\ i > 1 => joined[i - 1].open < joined[i].open
    BY <1>2 DEF Ordered
  <2>1. CASE i \in 1..n
    <3>1. joined[i].open < minute + Len(more)
      BY <2>1, <1>1, <1>4
    <3>2. ASSUME i > 1 PROVE joined[i - 1].open < joined[i].open
      <4>1. i - 1 \in 1..n /\ joined[i - 1] = all[i - 1] /\ joined[i] = all[i]
        BY <2>1, <3>2, <1>1, <1>2
      <4> QED BY <4>1, <2>1, <3>2 DEF Ordered
    <3> QED BY <3>1, <3>2
  <2>2. CASE i \in (n + 1)..(n + Len(more))
    <3>1. joined[i].open = minute + (i - n) - 1
      BY <2>2, <1>5
    <3>2. i > 1 => joined[i - 1].open < joined[i].open
      <4>1. CASE i - 1 \in 1..n
        BY <4>1, <3>1, <2>2, <1>1, <1>4
      <4>2. CASE i - 1 \in (n + 1)..(n + Len(more))
        <5>1. joined[i - 1].open = minute + (i - 1 - n) - 1
          BY <4>2, <1>5
        <5> QED BY <5>1, <3>1, <2>2, <1>1
      <4> QED BY <4>1, <4>2, <2>2, <1>1
    <3> QED BY <3>1, <3>2, <2>2, <1>1
  <2> QED BY <2>1, <2>2, <1>1
<1> QED BY <1>2, <1>6 DEF joined

LEMMA TickStep ==
  ASSUME LiveInv, NEW traded \in BOOLEAN, Tick(Minute(traded))
  PROVE  /\ clock < MaxMinute /\ clock' = clock + 1 /\ clock' \in Nat
         /\ tape' = Append(tape, Minute(traded))
         /\ tape' \in Seq(Bar) /\ Ordered(tape', clock')
<1> DEFINE b == Minute(traded)
<1>1. clock \in Nat /\ tape \in Seq(Bar) /\ Ordered(tape, clock)
  BY DEF LiveInv, SleevesTypeOK, Ordered
<1>2. b \in Bar /\ b.open = clock
  BY <1>1 DEF Minute, Bar
<1>3. clock < MaxMinute /\ clock' = clock + 1 /\ tape' = Append(tape, b)
  BY DEF Tick
<1> HIDE DEF b
<1>4. <<b>> \in Seq(Bar) /\ Len(<<b>>) = 1 /\ <<b>>[1] = b
  BY <1>2
<1>5. tape \o <<b>> \in Seq(Bar) /\ Ordered(tape \o <<b>>, clock + 1)
  <2>1. \A i \in 1..Len(<<b>>) : <<b>>[i].open = clock + i - 1
    BY <1>1, <1>2, <1>4
  <2> QED BY <2>1, <1>1, <1>4, ArchiveStaysOrdered
<1>6. Append(tape, b) = tape \o <<b>>
  BY <1>1, <1>2, AppendIsConcat
<1> QED BY <1>1, <1>3, <1>5, <1>6 DEF b

\* What a restarted process gets back is the end of the archive.
LEMMA RestoredIsEnd ==
  ASSUME NEW rows \in Seq(Bar), window \in Nat \ {0}
  PROVE  EndOf(Restored(rows), rows) /\ Len(Restored(rows)) <= window
<1> DEFINE first == IF Len(rows) > window THEN Len(rows) - window + 1 ELSE 1
<1>1. first \in 1..(Len(rows) + 1) /\ Len(rows) \in Nat /\ Len(rows) - first + 1 <= window
  OBVIOUS
<1>2. Restored(rows) = SubSeq(rows, first, Len(rows))
  BY DEF Restored
<1> HIDE DEF first
<1>3. Len(SubSeq(rows, first, Len(rows))) = Len(rows) - first + 1
  BY <1>1
<1>4. Len(rows) - Len(Restored(rows)) + 1 = first
  BY <1>1, <1>2, <1>3
<1> QED BY <1>1, <1>2, <1>3, <1>4 DEF EndOf

\* A step of the live system is one of the evaluator or leaves it alone.
LEMMA LiveStep ==
  ASSUME LiveInv, [LiveNext]_liveVars
  PROVE  [Next]_vars /\ LiveInv'
<1>1. CASE UNCHANGED liveVars
  <2>1. UNCHANGED vars
    BY <1>1 DEF liveVars, live, research, vars
  <2>2. LiveInv'
    BY <1>1 DEF liveVars, live, research, LiveInv, SleevesTypeOK, TypeOK, Closed
  <2> QED BY <2>1, <2>2
<1>2. CASE Deliver
  <2>1. PICK traded \in BOOLEAN : Tick(Minute(traded)) /\ Observe(Minute(traded))
    BY <1>2 DEF Deliver
  <2>2. UNCHANGED <<rule, window, sleeve, plan, observed>> /\ disturbed' \in 0..Disturbances
    BY <1>2, TimeAssumption DEF Deliver, Disturb, LiveInv, SleevesTypeOK
  <2>3. /\ clock < MaxMinute /\ clock' = clock + 1 /\ clock' \in Nat
        /\ tape' = Append(tape, Minute(traded)) /\ tape' \in Seq(Bar) /\ Ordered(tape', clock')
    BY <2>1, TickStep
  <2>4. /\ FirstBar \/ NextBar
        /\ TypeOK' /\ Consecutive(history')
        /\ history' = Extend(history, Minute(traded)) /\ Closed(history') = clock + 1
        /\ batch' \subseteq Candidates /\ refused' \subseteq Markets
    BY <2>1, <2>3, ObserveStep
  <2>5. EndOf(history', tape')
    <3>1. /\ tape \in Seq(Bar) /\ history \in Seq(Bar) /\ EndOf(history, tape)
          /\ window \in Nat \ {0} /\ Len(history) <= window
      BY WindowsAssumption DEF LiveInv, SleevesTypeOK, TypeOK, EndOf
    <3>2. Minute(traded) \in Bar
      BY DEF LiveInv, SleevesTypeOK, Minute, Bar
    <3> QED BY <2>3, <2>4, <3>1, <3>2, ExtendKeepsEnd
  <2>6. history' # <<>> /\ Registered(sleeve')
    BY <1>2, <2>2, <2>4 DEF Consecutive, Deliver
  <2>7. SleevesTypeOK'
    BY <2>2, <2>3, <2>4, <2>5 DEF LiveInv, SleevesTypeOK, EndOf, Ordered
  <2> QED BY <2>3, <2>4, <2>6, <2>7 DEF LiveInv, Next
<1>3. CASE Archive
  <2>1. Tick(Minute(TRUE)) /\ ~Registered(sleeve)
    BY <1>3 DEF Archive
  <2>2. UNCHANGED <<rule, window, sleeve, plan, history, status, batch, refused>>
    BY <1>3 DEF Archive, live
  <2>3. disturbed' \in 0..Disturbances
    BY <1>3, TimeAssumption DEF Archive, Disturb, LiveInv, SleevesTypeOK
  <2>4. observed' \subseteq Nat
    <3>1. observed \subseteq Nat /\ clock \in Nat
      BY DEF LiveInv, SleevesTypeOK
    <3>2. clock \div Hour \in Nat
      BY <3>1, FrameLengths, Division DEF Positive
    <3> QED BY <1>3, <3>1, <3>2 DEF Archive
  <2>5. clock' \in Nat /\ tape' \in Seq(Bar) /\ Ordered(tape', clock')
    BY <2>1, TickStep
  <2>6. history = <<>>
    BY <2>1 DEF LiveInv
  <2>7. EndOf(history', tape')
    BY <2>2, <2>5, <2>6, EmptyEnd
  <2>8. TypeOK'
    BY <2>2 DEF LiveInv, SleevesTypeOK, TypeOK, Closed
  <2>9. SleevesTypeOK'
    BY <2>2, <2>3, <2>4, <2>5, <2>7, <2>8 DEF LiveInv, SleevesTypeOK, EndOf, Ordered
  <2> QED BY <2>2, <2>6, <2>9 DEF LiveInv, vars
<1>4. CASE Outage
  <2>1. PICK n \in OutageLengths, archived \in BOOLEAN :
          /\ clock' = clock + n
          /\ tape' = IF archived THEN tape \o Missed(n) ELSE tape
    BY <1>4 DEF Outage
  <2>2. /\ history' = <<>> /\ status' = "NONE" /\ batch' = {} /\ refused' = {}
        /\ UNCHANGED <<rule, window, sleeve, plan, observed>> /\ disturbed' \in 0..Disturbances
    BY <1>4, TimeAssumption DEF Outage, Disturb, LiveInv, SleevesTypeOK
  <2>3. n \in Nat /\ clock \in Nat /\ tape \in Seq(Bar) /\ Ordered(tape, clock)
    BY TimeAssumption DEF LiveInv, SleevesTypeOK, Ordered
  <2>4. tape' \in Seq(Bar) /\ Ordered(tape', clock')
    <3>1. CASE archived
      <4>1. /\ Missed(n) \in Seq(Bar) /\ Len(Missed(n)) = n
            /\ \A i \in 1..n : Missed(n)[i].open = clock + i - 1
        BY <2>3 DEF Missed, Bar
      <4>2. /\ tape \o Missed(n) \in Seq(Bar)
            /\ Ordered(tape \o Missed(n), clock + Len(Missed(n)))
        BY <2>3, <4>1, ArchiveStaysOrdered
      <4> QED BY <2>1, <3>1, <4>1, <4>2
    <3>2. CASE ~archived
      <4>1. \A i \in 1..Len(tape) : tape[i].open \in Nat
        <5> TAKE i \in 1..Len(tape)
        <5>1. tape[i] \in Bar
          BY <2>3
        <5> QED BY <5>1 DEF Bar
      <4> QED BY <2>1, <2>3, <3>2, <4>1 DEF Ordered
    <3> QED BY <3>1, <3>2
  <2>5. EndOf(history', tape')
    BY <2>2, <2>4, EmptyEnd
  <2>6. TypeOK'
    <3>1. history' \in Seq(Bar) /\ Len(history') = 0 /\ window \in Nat
      BY <2>2, WindowsAssumption DEF LiveInv, SleevesTypeOK, TypeOK
    <3> QED BY <2>2, <3>1 DEF LiveInv, SleevesTypeOK, TypeOK, Status
  <2>7. SleevesTypeOK'
    <3>1. clock' \in Nat /\ batch' \subseteq Candidates /\ refused' \subseteq Markets
      BY <2>1, <2>2, <2>3
    <3>2. /\ [sleeve |-> sleeve', plan |-> plan', window |-> window'] \in Configurations
          /\ rule' = RuleOf(sleeve') /\ observed' \subseteq Nat
      BY <2>2 DEF LiveInv, SleevesTypeOK
    <3> QED BY <2>2, <2>4, <2>5, <2>6, <3>1, <3>2, Zenon DEF SleevesTypeOK, EndOf, Ordered
  <2>8. [Next]_vars
    BY <2>2 DEF Restart, Next
  <2> QED BY <2>2, <2>7, <2>8 DEF LiveInv
<1>5. CASE Resume
  <2>1. PICK n \in OutageLengths \union {0} :
          /\ clock' = clock + n /\ tape' = tape \o Missed(n)
          /\ history' = Restored(tape') /\ Consecutive(history') /\ Closed(history') = clock'
    BY <1>5 DEF Resume
  <2>2. /\ status' = "NONE" /\ batch' = {} /\ refused' = {} /\ Registered(sleeve')
        /\ UNCHANGED <<rule, window, sleeve, plan, observed>> /\ disturbed' \in 0..Disturbances
    BY <1>5, TimeAssumption DEF Resume, Disturb, LiveInv, SleevesTypeOK
  <2>3. n \in Nat /\ clock \in Nat /\ tape \in Seq(Bar) /\ Ordered(tape, clock) /\ window \in Nat \ {0}
    BY TimeAssumption, WindowsAssumption DEF LiveInv, SleevesTypeOK, TypeOK, Ordered
  <2>4. tape' \in Seq(Bar) /\ Ordered(tape', clock')
    <3>1. /\ Missed(n) \in Seq(Bar) /\ Len(Missed(n)) = n
          /\ \A i \in 1..n : Missed(n)[i].open = clock + i - 1
      BY <2>3 DEF Missed, Bar
    <3>2. /\ tape \o Missed(n) \in Seq(Bar)
          /\ Ordered(tape \o Missed(n), clock + Len(Missed(n)))
      BY <2>3, <3>1, ArchiveStaysOrdered
    <3> QED BY <2>1, <3>1, <3>2
  <2>5. EndOf(history', tape') /\ Len(history') <= window
    BY <2>1, <2>2, <2>3, <2>4, RestoredIsEnd
  <2>6. TypeOK'
    BY <2>1, <2>2, <2>5 DEF LiveInv, SleevesTypeOK, TypeOK, Status, Consecutive
  <2>7. SleevesTypeOK'
    <3>1. clock' \in Nat /\ batch' \subseteq Candidates /\ refused' \subseteq Markets
      BY <2>1, <2>2, <2>3
    <3>2. /\ [sleeve |-> sleeve', plan |-> plan', window |-> window'] \in Configurations
          /\ rule' = RuleOf(sleeve') /\ observed' \subseteq Nat
      BY <2>2 DEF LiveInv, SleevesTypeOK
    <3> QED BY <2>2, <2>4, <2>5, <2>6, <3>1, <3>2, Zenon DEF SleevesTypeOK, EndOf, Ordered
  <2>8. [Next]_vars
    BY <2>1, <2>2, <2>5 DEF Restart, Next
  <2> QED BY <2>1, <2>2, <2>7, <2>8 DEF LiveInv, Consecutive
<1> QED BY <1>1, <1>2, <1>3, <1>4, <1>5 DEF LiveNext

\* Every variable of the live system has its type, and the rolling window is
\* the end of the archive (history and archive).
THEOREM TypesAndWindow == LiveSpec => []SleevesTypeOK
<1>1. LiveInv /\ [LiveNext]_liveVars => LiveInv'
  BY LiveStep
<1>2. LiveInv => SleevesTypeOK
  BY DEF LiveInv
<1> QED BY SleevesStart, <1>1, <1>2, PTL DEF LiveSpec

\* The live system with its generators and outages implements the evaluator,
\* whose results are free: what is proved of the receipts of RuntimeEvaluation
\* holds of it too.
THEOREM ReceiptsAreEvaluations == LiveSpec => EvaluatorSpec
<1>1. LiveInv /\ [LiveNext]_liveVars => LiveInv' /\ [Next]_vars
  BY LiveStep
<1> QED BY SleevesStart, <1>1, PTL DEF LiveSpec, EvaluatorSpec, Spec

\* The receipts of the live system are sound (RuntimeEvaluation).
THEOREM ReceiptsAreSound ==
  LiveSpec => [](QuietIsInformed /\ WarmupIsExact /\ RegisteredMinimumSuffices)
BY ReceiptsAreEvaluations, QuietIsAnalysis, WarmupIsTold, MinimumIsEnough, PTL DEF EvaluatorSpec

--------------------------------------------------------------------------
(* Which plans the contract refuses.                                       *)

\* What RefusalsAreExplained says of one refused candidate.
Explained(p, g) ==
  \/ p.exits = "reversion" /\ g.side = "SHORT" /\ g.level <= p.extension * g.atr
  \/ /\ Trails(p)
     /\ IF g.side = "SHORT"
        THEN p.activation + p.distance > p.target
        ELSE p.distance > p.stop + p.activation

\* Comparisons of multiples of the ATR.
LEMMA MultiplesOfAtr ==
  ASSUME NEW a \in Nat \ {0}
  PROVE  /\ \A n \in Nat : n * a \in Nat
         /\ \A n \in Nat \ {0} : n * a \in Nat \ {0}
         /\ \A m, n \in Nat : m < n <=> m * a < n * a
         /\ \A m, n \in Nat : (m + n) * a = m * a + n * a
<1>1. \A n \in Nat : n * a \in Nat
  BY Z3
<1>2. \A n \in Nat \ {0} : n * a \in Nat \ {0}
  BY Z3
<1>3. \A m, n \in Nat : m < n <=> m * a < n * a
  <2> TAKE m, n \in Nat
  <2>1. n * a <= m * a <=> n <= m
    BY Multiples
  <2> QED BY <2>1, <1>1
<1>4. \A m, n \in Nat : (m + n) * a = m * a + n * a
  BY Z3
<1> QED BY <1>1, <1>2, <1>3, <1>4

LEMMA BreakoutRefusal ==
  ASSUME NEW p \in BreakoutPlans, NEW g \in Market, Refused(p, g)
  PROVE  Explained(p, g)
<1> DEFINE stop == p.stop * g.atr
           target == p.target * g.atr
           activation == p.activation * g.atr
           distance == p.distance * g.atr
<1>1. /\ p.exits = "breakout" /\ p.stop \in Nat \ {0} /\ p.target \in Nat \ {0}
      /\ p.trailing \in BOOLEAN /\ p.activation \in Nat \ {0} /\ p.distance \in Nat \ {0}
      /\ p.trailing => p.activation < p.target
      /\ g.atr \in Nat \ {0} /\ g.close \in Nat \ {0} /\ g.side \in {"LONG", "SHORT"}
  BY DEF BreakoutPlans, Market, Sides
<1>2. /\ stop \in Nat \ {0} /\ target \in Nat \ {0}
      /\ activation \in Nat \ {0} /\ distance \in Nat \ {0}
  BY <1>1, MultiplesOfAtr
<1>3. p.trailing => activation < target
  BY <1>1, MultiplesOfAtr
<1>4. p.activation + p.distance > p.target <=> activation + distance > target
  <2>1. p.activation + p.distance \in Nat
    BY <1>1
  <2>2. (p.activation + p.distance) * g.atr = activation + distance
    BY <1>1, MultiplesOfAtr
  <2> QED BY <1>1, <2>1, <2>2, MultiplesOfAtr
<1>5. p.distance > p.stop + p.activation <=> distance > stop + activation
  <2>1. p.stop + p.activation \in Nat
    BY <1>1
  <2>2. (p.stop + p.activation) * g.atr = stop + activation
    BY <1>1, MultiplesOfAtr
  <2> QED BY <1>1, <2>1, <2>2, MultiplesOfAtr
<1>6. /\ Stop(p, g) = IF g.side = "LONG" THEN g.close + -stop ELSE g.close - (-stop)
      /\ Target(p, g) = IF g.side = "LONG" THEN g.close + target ELSE g.close - target
      /\ Activation(p, g) = IF g.side = "LONG" THEN g.close + activation ELSE g.close - activation
      /\ Distance(p, g) = distance
  BY <1>1 DEF Stop, Risk, Ahead, Target, Activation, Distance
<1>7. Stop(p, g) > 0 /\ Target(p, g) > 0 /\ ~Contract(p, g)
  BY <1>1 DEF Refused, Wanted
<1> HIDE DEF stop, target, activation, distance
<1>8. CASE g.side = "LONG"
  BY <1>1, <1>2, <1>3, <1>5, <1>6, <1>7, <1>8 DEF Contract, Explained, Trails
<1>9. CASE g.side = "SHORT"
  BY <1>1, <1>2, <1>3, <1>4, <1>6, <1>7, <1>9 DEF Contract, Explained, Trails
<1> QED BY <1>1, <1>8, <1>9

LEMMA ReversionRefusal ==
  ASSUME NEW p \in ReversionPlans, NEW g \in Market, Refused(p, g)
  PROVE  Explained(p, g)
<1> DEFINE stop == p.stop * g.atr
           extension == p.extension * g.atr
<1>1. /\ p.exits = "reversion" /\ p.stop \in Nat \ {0} /\ p.extension \in Nat
      /\ g.atr \in Nat \ {0} /\ g.close \in Nat \ {0} /\ g.level \in Nat \ {0}
      /\ g.side \in {"LONG", "SHORT"}
  BY DEF ReversionPlans, Market, Sides
<1>2. stop \in Nat \ {0} /\ extension \in Nat
  BY <1>1, MultiplesOfAtr
<1>3. /\ Stop(p, g) = IF g.side = "LONG" THEN g.close + -stop ELSE g.close - (-stop)
      /\ Target(p, g) = IF g.side = "LONG" THEN g.level + extension ELSE g.level - extension
  BY <1>1 DEF Stop, Risk, Ahead, Target
<1>4. /\ Stop(p, g) > 0 /\ Target(p, g) # g.close /\ ~Contract(p, g)
      /\ IF g.side = "LONG" THEN g.close < g.level ELSE g.close > g.level
  BY <1>1 DEF Refused, Wanted, Found
<1> HIDE DEF stop
<1>5. CASE g.side = "LONG"
  BY <1>1, <1>2, <1>3, <1>4, <1>5 DEF Contract, Trails
<1>6. CASE g.side = "SHORT"
  <2>1. g.level <= extension
    <3> HIDE DEF extension
    <3> QED BY <1>1, <1>2, <1>3, <1>4, <1>6 DEF Contract, Trails
  <2> QED BY <2>1, <1>1, <1>6 DEF Explained
<1> QED BY <1>1, <1>5, <1>6

\* The plans of the other sleeves meet the contract once they pass the filter.
LEMMA NoOtherRefusal ==
  ASSUME NEW p \in PullbackPlans \union PlainPlans, NEW g \in Market, Refused(p, g)
  PROVE  FALSE
<1> DEFINE risk == Risk(p, g)
           reward == p.reward * risk
<1>1. /\ p.exits \in {"pullback", "plain"} /\ p.reward \in Nat \ {0}
      /\ p.exits = "pullback" => p.buffer \in Nat \ {0}
      /\ p.exits = "plain" => p.stop \in Nat \ {0}
      /\ g.atr \in Nat \ {0} /\ g.close \in Nat \ {0} /\ g.level \in Nat \ {0}
      /\ g.side \in {"LONG", "SHORT"}
  BY DEF PullbackPlans, PlainPlans, Market, Sides
<1>2. risk \in Nat \ {0}
  <2>1. CASE p.exits = "plain"
    <3>1. p.stop * g.atr \in Nat \ {0}
      BY <1>1, <2>1, MultiplesOfAtr
    <3> QED BY <2>1, <3>1 DEF Risk
  <2>2. CASE p.exits = "pullback"
    <3>1. p.buffer * g.atr \in Nat \ {0}
      BY <1>1, <2>2, MultiplesOfAtr
    <3>2. IF g.side = "LONG" THEN g.close > g.level ELSE g.close < g.level
      BY <2>2 DEF Refused, Found
    <3> QED BY <1>1, <2>2, <3>1, <3>2 DEF Risk
  <2> QED BY <1>1, <2>1, <2>2
<1>3. reward \in Nat \ {0}
  <2> HIDE DEF risk
  <2> QED BY <1>1, <1>2, MultiplesOfAtr
<1>4. /\ Stop(p, g) = IF g.side = "LONG" THEN g.close + -risk ELSE g.close - (-risk)
      /\ Target(p, g) = IF g.side = "LONG" THEN g.close + reward ELSE g.close - reward
  BY <1>1 DEF Stop, Ahead, Target
<1>5. Stop(p, g) > 0 /\ Target(p, g) > 0 /\ ~Contract(p, g) /\ ~Trails(p)
  BY <1>1 DEF Refused, Wanted, Trails
<1> HIDE DEF risk, reward
<1> QED BY <1>1, <1>2, <1>3, <1>4, <1>5 DEF Contract

\* Only the two plans named there lose a batch to the contract.
THEOREM RefusedPlans == LiveSpec => []RefusalsAreExplained
<1> DEFINE RefusedInv == \A g \in refused : g \in Market /\ Refused(plan, g)
<1>1. LiveInit => RefusedInv
  BY DEF LiveInit
<1>2. LiveInv /\ RefusedInv /\ [LiveNext]_liveVars => RefusedInv'
  <2> SUFFICES ASSUME LiveInv, RefusedInv, [LiveNext]_liveVars PROVE RefusedInv'
    OBVIOUS
  <2>1. plan' = plan
    BY DEF LiveNext, Deliver, Archive, Outage, Resume, liveVars
  <2>2. ASSUME refused' = refused \/ refused' = {} PROVE RefusedInv'
    BY <2>1, <2>2
  <2>3. CASE Deliver
    <3>1. PICK traded \in BOOLEAN : Observe(Minute(traded))
      BY <2>3 DEF Deliver
    <3>2. refused' = {} \/ \E g \in Markets : Refused(plan, g) /\ refused' = {g}
      BY <3>1 DEF Observe, Raises
    <3> QED BY <2>1, <2>2, <3>2, MarketsAssumption
  <2>4. refused' = refused \/ refused' = {} \/ Deliver
    BY DEF LiveNext, Archive, Outage, Resume, liveVars, live
  <2> QED BY <2>2, <2>3, <2>4
<1>3. LiveInv /\ RefusedInv => RefusalsAreExplained
  <2> SUFFICES ASSUME LiveInv, RefusedInv, NEW g \in refused PROVE Explained(plan, g)
    BY DEF RefusalsAreExplained, Explained
  <2>1. plan \in Plans
    <3>1. [sleeve |-> sleeve, plan |-> plan, window |-> window]
            \in [sleeve : Sleeve, plan : Plans, window : Windows]
      BY ConfigurationsAssumption DEF LiveInv, SleevesTypeOK
    <3> QED BY <3>1
  <2> QED BY <2>1, BreakoutRefusal, ReversionRefusal, NoOtherRefusal DEF Plans
<1>4. LiveInv /\ [LiveNext]_liveVars => LiveInv'
  BY LiveStep
<1> HIDE DEF RefusedInv
<1> QED BY SleevesStart, <1>1, <1>2, <1>3, <1>4, PTL DEF LiveSpec

--------------------------------------------------------------------------
(* The receipt and the run of the generator.                               *)

LEMMA FrameLength ==
  ASSUME NEW s
  PROVE  FrameOf(s) \in Nat \ {0}
BY FrameLengths DEF FrameOf, Positive

\* A decision at the last minute is one of the last row.
LEMMA AnchorDecides ==
  ASSUME NEW s, NEW rows, NEW obs, Closed(rows) \in Decisions(s, rows, obs)
  PROVE  Decides(s, rows, obs)
<1> DEFINE size == FrameOf(s)
           c == Closed(rows)
<1>1. PICK k \in Frames(rows, size) :
        c = (k + 1) * size /\ ReachesRule(s, TimeFrames(rows), obs, k)
  BY DEF Decisions
<1>2. k \in Nat /\ size \in Nat \ {0}
  BY <1>1, FrameLength DEF Frames
<1> HIDE DEF size, c
<1>3. c \in Nat
  BY <1>1, <1>2, Z3
<1>4. c \div size \in Nat /\ c % size \in 0..(size - 1)
      /\ c = (c \div size) * size + (c % size)
  BY <1>2, <1>3, Division
<1>5. c \div size = k + 1 /\ c % size = 0
  <2>1. (k + 1) * size + 0 = (c \div size) * size + (c % size)
    BY <1>1, <1>2, <1>3, <1>4
  <2>2. 0 \in 0..(size - 1) /\ k + 1 \in Nat
    BY <1>2
  <2> HIDE DEF size
  <2> QED BY <1>2, <1>4, <2>1, <2>2, UniqueRemainder
<1>6. c \div size - 1 = k
  BY <1>2, <1>5
<1> QED BY <1>1, <1>5, <1>6 DEF Decides, c, size

\* What a receipt says of the batch of the whole window (ReceiptTellsBatch).
THEOREM ReceiptsTellBatches == LiveSpec => []ReceiptTellsBatch
<1>1. LiveInit => ReceiptTellsBatch
  BY DEF LiveInit, ReceiptTellsBatch
<1>2. LiveInv /\ ReceiptTellsBatch /\ [LiveNext]_liveVars => ReceiptTellsBatch'
  <2> SUFFICES ASSUME LiveInv, ReceiptTellsBatch, [LiveNext]_liveVars PROVE ReceiptTellsBatch'
    OBVIOUS
  <2>1. CASE UNCHANGED liveVars
    BY <2>1 DEF liveVars, live, research, ReceiptTellsBatch, Decided
  <2>2. CASE Archive
    <3>1. UNCHANGED <<plan, history, status, batch, refused>> /\ status = "NONE"
      BY <2>2 DEF Archive, live, LiveInv
    <3> QED BY <3>1 DEF ReceiptTellsBatch
  <2>3. CASE Outage \/ Resume
    BY <2>3 DEF Outage, Resume, ReceiptTellsBatch
  <2>4. CASE Deliver
    <3>1. PICK traded \in BOOLEAN : Tick(Minute(traded)) /\ Observe(Minute(traded))
      BY <2>4 DEF Deliver
    <3>2. UNCHANGED <<rule, sleeve, plan, observed>>
      BY <2>4 DEF Deliver
    <3> DEFINE rows == history'
               result == Conversion(batch', refused')
    <3>3. clock < MaxMinute
      BY <3>1 DEF Tick
    <3>4. rows = Extend(history, Minute(traded)) /\ Consecutive(rows)
      BY <3>1, <3>3, ObserveStep
    <3>5. status' = Verdict(rule, rows, result)
      BY <3>1 DEF Observe, Evaluate
    <3>6. /\ ~Asked(rows) => batch' = {} /\ refused' = {}
          /\ batch' # {} => Returns(Reaching(rows), Closed(rows), batch')
      BY <3>1, <3>4 DEF Observe
    <3>7. rows # <<>>
      BY <3>4 DEF Consecutive
    <3>8. ASSUME status' = "INTENT"
          PROVE  Decides(sleeve, rows, observed) /\ ~Trails(plan) /\ "anchor" \in batch'
      <4>1. result = "intent"
        BY <3>5, <3>8 DEF Verdict, QuietVerdict
      <4>2. "anchor" \in batch' /\ ~(Trails(plan) /\ batch' # {})
        BY <4>1, <3>2 DEF Conversion
      <4>3. Closed(rows) \in Reaching(rows)
        BY <4>2, <3>6 DEF Returns
      <4>4. Decides(sleeve, rows, observed)
        BY <4>3, AnchorDecides DEF Reaching
      <4> QED BY <4>2, <4>4
    <3>9. ASSUME status' \in {"NO_INTENT", "WARMUP", "UNAVAILABLE", "NOT_SCHEDULED"}
          PROVE  "anchor" \notin batch' /\ refused' = {} /\ (Trails(plan) => batch' = {})
      <4>1. CASE ~Asked(rows)
        BY <4>1, <3>6
      <4>2. CASE Asked(rows)
        <5>1. Len(rows) \in Nat /\ rule.minimum \in Nat
          BY <3>4, WindowMinutes, RulesAssumption DEF LiveInv, SleevesTypeOK, TypeOK, Rule
        <5>2. ~(Len(rows) < rule.minimum) /\ Scheduled(rule, Closed(rows))
          BY <4>2, <5>1 DEF Asked
        <5>3. result \notin {"failed", "intent"}
          BY <5>2, <3>5, <3>9 DEF Verdict
        <5> QED BY <5>3 DEF Conversion
      <4> QED BY <4>1, <4>2
    <3> QED BY <3>2, <3>7, <3>8, <3>9 DEF ReceiptTellsBatch, Decided
  <2> QED BY <2>1, <2>2, <2>3, <2>4 DEF LiveNext
<1>3. LiveInv /\ [LiveNext]_liveVars => LiveInv'
  BY LiveStep
<1> QED BY SleevesStart, <1>1, <1>2, <1>3, PTL DEF LiveSpec

--------------------------------------------------------------------------
(* What the readiness counts say of the frames at the end of the window.   *)

\* The last frame that has closed by minute c.
LEMMA LastClosed ==
  ASSUME NEW size \in Nat \ {0}, NEW c \in Nat, NEW g \in Int
  PROVE  /\ (g + 1) * size <= c <=> g <= c \div size - 1
         /\ (g + 1) * size <= c /\ c - (g + 1) * size < size <=> g = c \div size - 1
<1> DEFINE q == c \div size
<1>1. q \in Nat /\ c % size \in 0..(size - 1) /\ c = q * size + (c % size)
  BY Division
<1> HIDE DEF q
<1>2. (q + 1) * size = q * size + size /\ q * size \in Nat
      /\ (g + 1) * size \in Int /\ (g + 2) * size = (g + 1) * size + size
  BY <1>1, Z3
<1>3. (g + 1) * size <= q * size <=> g + 1 <= q
  BY <1>1, Multiples
<1>4. (q + 1) * size <= (g + 1) * size <=> q + 1 <= g + 1
  BY <1>1, Multiples
<1>5. (g + 2) * size <= q * size <=> g + 2 <= q
  BY <1>1, Multiples
<1>6. (g + 1) * size <= c <=> g <= q - 1
  BY <1>1, <1>2, <1>3, <1>4
<1>7. c - (g + 1) * size < size <=> ~(g + 2 <= q)
  <2>1. (q + 1) * size <= (g + 2) * size <=> q + 1 <= g + 2
    BY <1>1, Multiples
  <2> QED BY <2>1, <1>1, <1>2, <1>5
<1>8. (g + 1) * size <= c /\ c - (g + 1) * size < size <=> g = q - 1
  BY <1>1, <1>6, <1>7
<1> QED BY <1>6, <1>8 DEF q

\* In a window without a gap every closed frame after a whole one is whole.
LEMMA LaterFrameIsWhole ==
  ASSUME NEW rows, Consecutive(rows), NEW size \in Nat \ {0},
         NEW g \in Frames(rows, size), NEW k \in Int, g <= k, k <= Closed(rows) \div size - 1
  PROVE  k \in Frames(rows, size)
<1> DEFINE c == Closed(rows)
<1>1. c \in Nat /\ Len(rows) \in Nat /\ g \in Nat /\ k \in Nat
  BY WindowMinutes DEF Frames
<1>2. c - Len(rows) <= g * size
  BY <1>1, FramesBetweenEnds
<1>3. g * size <= k * size
  BY <1>1, Multiples
<1>4. (k + 1) * size <= c
  BY <1>1, LastClosed
<1>5. k * size \in Nat /\ g * size \in Nat /\ (k + 1) * size = k * size + size
  BY <1>1, Z3
<1>6. c \div size \in Nat
  BY <1>1, Division
<1>7. k \in 0..(c \div size)
  BY <1>1, <1>6
<1> HIDE DEF c
<1>8. c - Len(rows) <= k * size /\ k * size + size <= c
  BY <1>1, <1>2, <1>3, <1>4, <1>5
<1> QED BY <1>1, <1>7, <1>8, FramesBetweenEnds DEF c

\* The counts are met exactly if the latest frames make a run of that length.
LEMMA ReadyMeansRuns ==
  ASSUME NEW rows, Consecutive(rows), NEW r \in Rule
  PROVE  HistoryReady(r, rows) <=>
           \A f \in r.frames : Run(Available(r, rows, f.size), Closed(rows) \div f.size - 1, f.count)
<1>1. ASSUME NEW f \in r.frames
      PROVE  /\ f.size \in Nat \ {0} /\ f.count \in Nat \ {0}
             /\ Closed(rows) \div f.size \in Nat
  <2>1. f.size \in Nat \ {0} /\ f.count \in Nat \ {0} /\ Closed(rows) \in Nat
    BY WindowMinutes DEF Rule, Frame
  <2> QED BY <2>1, Division
<1>2. ASSUME HistoryReady(r, rows), NEW f \in r.frames
      PROVE  Run(Available(r, rows, f.size), Closed(rows) \div f.size - 1, f.count)
  <2> DEFINE q == Closed(rows) \div f.size
             A == Available(r, rows, f.size)
  <2>1. q \in Nat /\ f.count \in Nat
    BY <1>1
  <2>2. \A back \in 1..f.count : q - back \in A
    BY <1>2, LatestFramesAvailable
  <2> HIDE DEF q, A
  <2>3. \A i \in (q - 1 - f.count + 1)..(q - 1) : q - i \in 1..f.count /\ q - (q - i) = i
    BY <2>1
  <2>4. \A i \in (q - 1 - f.count + 1)..(q - 1) : i \in A
    <3> TAKE i \in (q - 1 - f.count + 1)..(q - 1)
    <3>1. q - (q - i) \in A
      BY <2>2, <2>3
    <3> QED BY <3>1, <2>3
  <2>5. Run(A, q - 1, f.count)
    BY <2>4 DEF Run
  <2> QED BY <2>5 DEF A, q
<1>3. ASSUME NEW f \in r.frames,
             Run(Available(r, rows, f.size), Closed(rows) \div f.size - 1, f.count)
      PROVE  Cardinality(Available(r, rows, f.size)) >= f.count
  <2> DEFINE q == Closed(rows) \div f.size
             A == Available(r, rows, f.size)
  <2>1. q \in Nat /\ f.count \in Nat \ {0}
    BY <1>1
  <2>2. A \subseteq 0..q
    BY DEF Available, Frames
  <2>3. Run(A, q - 1, f.count)
    BY <1>3
  <2> HIDE DEF q, A
  <2>4. ((q - f.count)..(q - 1)) \subseteq A
    <3>1. q - 1 - f.count + 1 = q - f.count
      BY <2>1
    <3> QED BY <2>3, <3>1 DEF Run
  <2>5. IsFiniteSet(A)
    <3>1. IsFiniteSet(0..q)
      BY <2>1, FS_Interval
    <3> QED BY <2>2, <3>1, FS_Subset
  <2>6. Cardinality((q - f.count)..(q - 1)) = f.count
    <3>1. q - f.count \in Int /\ q - 1 \in Int /\ ~(q - f.count > q - 1)
          /\ (q - 1) - (q - f.count) + 1 = f.count
      BY <2>1
    <3> QED BY <3>1, FS_Interval
  <2>7. Cardinality((q - f.count)..(q - 1)) <= Cardinality(A)
    BY <2>4, <2>5, FS_Subset
  <2>8. Cardinality(A) \in Nat
    BY <2>5, FS_CardinalityType
  <2> QED BY <2>1, <2>6, <2>7, <2>8 DEF A
<1> QED BY <1>2, <1>3 DEF HistoryReady

\* A run ends with its last frame and holds every shorter one.
LEMMA Runs ==
  ASSUME NEW F, NEW k \in Int, NEW n \in Nat \ {0}
  PROVE  /\ Run(F, k, n) => k \in F
         /\ Run(F, k, n + 1) <=> k \in F /\ Run(F, k - 1, n)
         /\ Run(F, k, n + 1) => Run(F, k, n)
<1>1. Run(F, k, n) => k \in F
  BY DEF Run
<1>2. Run(F, k, n + 1) => Run(F, k, n) /\ k \in F /\ Run(F, k - 1, n)
  BY DEF Run
<1>3. k \in F /\ Run(F, k - 1, n) => Run(F, k, n + 1)
  <2> SUFFICES ASSUME k \in F, Run(F, k - 1, n), NEW i \in (k - (n + 1) + 1)..k PROVE i \in F
    BY DEF Run
  <2>1. i = k \/ i \in (k - 1 - n + 1)..(k - 1)
    OBVIOUS
  <2> QED BY <2>1 DEF Run
<1> QED BY <1>1, <1>2, <1>3

--------------------------------------------------------------------------
(* Decided and ready are the same, sleeve by sleeve.                       *)

\* The last short frame of a long one starts within it.
LEMMA LastRowWithinFrame ==
  ASSUME NEW size \in Nat \ {0}, NEW long \in Nat \ {0}, long % size = 0, NEW g \in Nat
  PROVE  /\ ((g + 1) * long - 1) \div size \in Nat
         /\ g * long <= (((g + 1) * long - 1) \div size) * size
<1>1. PICK m \in Nat : long = m * size
  <2>1. long \div size \in Nat /\ long = (long \div size) * size + (long % size)
    BY Division
  <2>2. (long \div size) * size \in Nat
    BY <2>1, Z3
  <2> QED BY <2>1, <2>2
<1>2. PICK e \in Nat : (g + 1) * long - 1 = e /\ g * long <= e
  <2>1. (g + 1) * long = g * long + long /\ g * long \in Nat
    BY Z3
  <2> QED BY <2>1
<1>3. PICK j \in Nat, x \in 0..(size - 1) : e \div size = j /\ e = j * size + x
  BY Division
<1>4. PICK a \in Nat : g * long = a * size
  <2>1. g * (m * size) = (g * m) * size /\ g * m \in Nat
    BY Z3
  <2> QED BY <1>1, <2>1
<1>5. (j + 1) * size = j * size + size /\ j * size \in Nat /\ a * size \in Nat
  BY Z3
<1>6. ~((j + 1) * size <= a * size)
  BY <1>2, <1>3, <1>4, <1>5
<1>7. a <= j
  BY <1>6, Multiples
<1>8. a * size <= j * size
  BY <1>7, Multiples
<1> QED BY <1>2, <1>3, <1>4, <1>8

\* The regime of a row that closes the window is that of the last closed
\* hour: it is known exactly if its counts are met.
LEMMA RegimeAtEnd ==
  ASSUME NEW rows, Consecutive(rows), NEW counts \in SUBSET Positive, counts # {},
         Closed(rows) % FiveMinutes = 0
  PROVE  Regime(TimeFrames(rows), Closed(rows) \div FiveMinutes - 1, counts) <=>
           \A n \in counts : Run(Frames(rows, Hour), Closed(rows) \div Hour - 1, n)
<1> DEFINE c == Closed(rows)
           k == c \div FiveMinutes - 1
           last == c \div Hour - 1
           hours == Frames(rows, Hour)
           fives == Frames(rows, FiveMinutes)
           tf == TimeFrames(rows)
<1>1. /\ c \in Nat /\ Len(rows) \in Nat
      /\ FiveMinutes \in Nat \ {0} /\ Hour \in Nat \ {0} /\ Hour % FiveMinutes = 0
  BY WindowMinutes, FrameLengths DEF Positive
<1>2. tf.hour = hours /\ tf.five = fives
  BY DEF TimeFrames
<1> HIDE DEF c, hours, fives, tf
<1>3. k \in Int /\ last \in Int /\ c = (k + 1) * FiveMinutes
  <2>1. c \div FiveMinutes \in Nat /\ c \div Hour \in Nat
        /\ c = (c \div FiveMinutes) * FiveMinutes + (c % FiveMinutes)
    BY <1>1, Division
  <2>2. c % FiveMinutes = 0
    BY DEF c
  <2>3. (c \div FiveMinutes) * FiveMinutes \in Nat
    BY <2>1, <1>1, Z3
  <2> DEFINE q == c \div FiveMinutes
  <2>4. c = q * FiveMinutes /\ q = k + 1
    BY <2>1, <2>2, <2>3
  <2> QED BY <2>1, <2>4
<1>4. \A g \in Int : (g + 1) * Hour <= c <=> g <= last
  BY <1>1, LastClosed
<1>5. \A g \in hours : g \in Nat /\ g <= last
  <2> TAKE g \in hours
  <2>1. g \in Nat
    BY DEF hours, Frames
  <2>2. g * Hour + Hour <= c /\ g * Hour \in Nat /\ (g + 1) * Hour = g * Hour + Hour
    <3>1. g * Hour + Hour <= c
      BY <2>1, <1>1, FramesBetweenEnds DEF hours, c
    <3>2. g * Hour \in Nat /\ (g + 1) * Hour = g * Hour + Hour
      BY <2>1, <1>1, Z3
    <3> QED BY <3>1, <3>2
  <2> QED BY <2>1, <2>2, <1>4
<1> HIDE DEF k, last
<1>6. ASSUME NEW h, LatestHour(tf, k, h) PROVE h = last
  <2>1. h \in hours /\ \A g \in hours : (g + 1) * Hour <= c => g <= h
    BY <1>2, <1>3, <1>6 DEF LatestHour
  <2>2. h \in Nat /\ h <= last
    BY <2>1, <1>5
  <2>3. last \in hours
    <3>1. last <= Closed(rows) \div Hour - 1
      BY <1>1, Division DEF last, c
    <3> QED BY <2>1, <2>2, <3>1, <1>1, <1>3, LaterFrameIsWhole DEF hours
  <2>4. last <= h
    BY <2>1, <2>3, <1>3, <1>4
  <2> QED BY <2>2, <2>4, <1>3
<1>7. Regime(tf, k, counts) => \A n \in counts : Run(hours, last, n)
  BY <1>2, <1>6 DEF Regime
<1>8. ASSUME \A n \in counts : Run(hours, last, n) PROVE Regime(tf, k, counts)
  <2>1. last \in hours /\ last \in Nat
    <3>1. PICK n \in counts : Run(hours, last, n)
      BY <1>8
    <3>2. n \in Nat \ {0}
      BY DEF Positive
    <3> QED BY <3>1, <3>2, <1>3, <1>5, Runs
  <2>2. LatestHour(tf, k, last)
    <3>1. (last + 1) * Hour <= c
      BY <1>3, <1>4
    <3> QED BY <2>1, <3>1, <1>2, <1>3, <1>5 DEF LatestHour
  <2>3. ASSUME NEW i \in (((last + 1) * Hour - 1) \div FiveMinutes)..k PROVE i \in fives
    <3> DEFINE e == (last + 1) * Hour
               j == (e - 1) \div FiveMinutes
    <3>1. e \in Nat \ {0} /\ e = last * Hour + Hour /\ last * Hour \in Nat
      BY <2>1, <1>1, Z3
    <3>2. e <= c /\ c - Len(rows) <= last * Hour
      <4>1. c - Len(rows) <= last * Hour
        BY <2>1, <1>1, FramesBetweenEnds DEF hours, c
      <4> QED BY <4>1, <1>3, <1>4
    <3> HIDE DEF e
    <3>4. last * Hour <= j * FiveMinutes /\ j \in Nat
      BY <2>1, <1>1, LastRowWithinFrame DEF e
    <3>5. i \in Nat /\ j <= i /\ i <= k
      BY <2>3, <3>4, <1>3 DEF e
    <3> HIDE DEF j
    <3>6. j * FiveMinutes <= i * FiveMinutes /\ (i + 1) * FiveMinutes <= (k + 1) * FiveMinutes
      <4>1. i \in Int /\ j \in Int /\ i + 1 <= k + 1 /\ i + 1 \in Int /\ k + 1 \in Int
        BY <3>4, <3>5, <1>3
      <4> QED BY <4>1, <3>5, <1>1, Multiples
    <3>7. i * FiveMinutes \in Nat /\ j * FiveMinutes \in Nat
          /\ (i + 1) * FiveMinutes = i * FiveMinutes + FiveMinutes
      BY <3>4, <3>5, <1>1, Z3
    <3>8. c - Len(rows) <= i * FiveMinutes /\ i * FiveMinutes + FiveMinutes <= c
      BY <3>1, <3>2, <3>4, <3>6, <3>7, <1>1, <1>3
    <3>9. i \in 0..(c \div FiveMinutes)
      <4>1. k = c \div FiveMinutes - 1 /\ c \div FiveMinutes \in Nat
        BY <1>1, Division DEF k
      <4> QED BY <3>5, <4>1
    <3> QED BY <3>5, <3>8, <3>9, <1>1, FramesBetweenEnds DEF fives, c
  <2> QED BY <2>1, <2>2, <2>3, <1>2, <1>8 DEF Regime
<1> QED BY <1>7, <1>8 DEF tf, k, c, hours, last

\* The number that names the last closed frame of a length.
LEMMA LastIndex ==
  ASSUME NEW rows, Consecutive(rows), NEW size \in Nat \ {0}
  PROVE  Closed(rows) \div size - 1 \in Int
<1>1. Closed(rows) \in Nat
  BY WindowMinutes
<1> QED BY <1>1, Division

\* A sleeve that decides on five-minute rows, and its requirements.
LEMMA FiveMinuteSleeve ==
  ASSUME NEW s, s.kind \in {"breakout", "pullback", "reversion", "orderflow"},
         NEW rows, Consecutive(rows), NEW obs, Scheduled(RuleOf(s), Closed(rows))
  PROVE  /\ Closed(rows) % FiveMinutes = 0
         /\ Decides(s, rows, obs) <=>
              /\ Closed(rows) \div FiveMinutes - 1 \in Frames(rows, FiveMinutes)
              /\ ReachesRule(s, TimeFrames(rows), obs, Closed(rows) \div FiveMinutes - 1)
<1>1. FrameOf(s) = FiveMinutes
  BY DEF FrameOf
<1>2. RuleOf(s).cycle = FiveMinutes /\ RuleOf(s).offset = 0
  BY <1>1 DEF RuleOf
<1>3. Closed(rows) % FiveMinutes = 0
  BY <1>2 DEF Scheduled
<1> QED BY <1>1, <1>3, Zenon DEF Decides

\* The requirements of a sleeve that does not reset on zero volume.
LEMMA RequirementsMet ==
  ASSUME NEW s, s.kind # "orderflow", RuleOf(s) \in Rule, NEW rows, Consecutive(rows),
         NEW a, NEW A, NEW b, NEW B, FrameRequirements(s) = OfLength(a, A) \union OfLength(b, B)
  PROVE  HistoryReady(RuleOf(s), rows) <=>
           /\ \A n \in A : Run(Frames(rows, a), Closed(rows) \div a - 1, n)
           /\ \A n \in B : Run(Frames(rows, b), Closed(rows) \div b - 1, n)
<1> DEFINE Met(f) == Run(Frames(rows, f.size), Closed(rows) \div f.size - 1, f.count)
<1>1. RuleOf(s).frames = FrameRequirements(s) /\ RuleOf(s).segment = FALSE
  BY DEF RuleOf
<1>2. \A size : Available(RuleOf(s), rows, size) = Frames(rows, size)
  BY <1>1 DEF Available
<1>3. HistoryReady(RuleOf(s), rows) <=> \A f \in FrameRequirements(s) : Met(f)
  BY <1>1, <1>2, ReadyMeansRuns
<1>4. ASSUME NEW size, NEW counts
      PROVE  (\A f \in OfLength(size, counts) : Met(f)) <=>
               \A n \in counts : Run(Frames(rows, size), Closed(rows) \div size - 1, n)
  <2>1. \A n \in counts : [size |-> size, count |-> n] \in OfLength(size, counts)
    BY DEF OfLength
  <2>2. \A f \in OfLength(size, counts) : f.size = size /\ f.count \in counts
    BY DEF OfLength
  <2>3. \A n : LET f == [size |-> size, count |-> n] IN f.size = size /\ f.count = n
    OBVIOUS
  <2>4. ASSUME \A f \in OfLength(size, counts) : Met(f), NEW n \in counts
        PROVE  Run(Frames(rows, size), Closed(rows) \div size - 1, n)
    <3>1. Met([size |-> size, count |-> n])
      BY <2>1, <2>4, Zenon
    <3> QED BY <3>1, <2>3
  <2>5. ASSUME \A n \in counts : Run(Frames(rows, size), Closed(rows) \div size - 1, n),
               NEW f \in OfLength(size, counts)
        PROVE  Met(f)
    BY <2>2, <2>5, Zenon
  <2> QED BY <2>4, <2>5
<1> HIDE DEF Met
<1> QED BY <1>3, <1>4

LEMMA BreakoutReady ==
  ASSUME NEW s \in Breakout, RuleOf(s) \in Rule, NEW rows, Consecutive(rows), NEW obs,
         Scheduled(RuleOf(s), Closed(rows))
  PROVE  Decides(s, rows, obs) <=> HistoryReady(RuleOf(s), rows)
<1> DEFINE five(n) == Run(Frames(rows, FiveMinutes), Closed(rows) \div FiveMinutes - 1, n)
           hour(n) == Run(Frames(rows, Hour), Closed(rows) \div Hour - 1, n)
           k == Closed(rows) \div FiveMinutes - 1
<1>1. /\ s.kind = "breakout" /\ s.donchian \in Nat \ {0} /\ s.atr \in Nat \ {0}
      /\ s.lookback \in Nat \ {0} /\ k \in Int
  BY LastIndex, FrameLengths DEF Breakout, Positive
<1>2. FrameRequirements(s) = OfLength(FiveMinutes, {s.donchian + 1, s.atr})
                               \union OfLength(Hour, {s.lookback + 1})
  BY <1>1 DEF FrameRequirements, Covering
<1>3. HistoryReady(RuleOf(s), rows) <=> five(s.donchian + 1) /\ five(s.atr) /\ hour(s.lookback + 1)
  <2>1. HistoryReady(RuleOf(s), rows) <=>
           (\A n \in {s.donchian + 1, s.atr} : five(n)) /\ \A n \in {s.lookback + 1} : hour(n)
    BY <1>1, <1>2, RequirementsMet
  <2> QED BY <2>1
<1>4. Regime(TimeFrames(rows), k, {s.lookback + 1}) <=> hour(s.lookback + 1)
  <2>1. Closed(rows) % FiveMinutes = 0
    BY <1>1, FiveMinuteSleeve
  <2>2. {s.lookback + 1} \in SUBSET Positive /\ {s.lookback + 1} # {}
    BY <1>1 DEF Positive
  <2> QED BY <2>1, <2>2, RegimeAtEnd
<1>5. ReachesRule(s, TimeFrames(rows), obs, k) <=>
        five(s.donchian + 1) /\ five(s.atr) /\ hour(s.lookback + 1)
  <2>1. ReachesRule(s, TimeFrames(rows), obs, k) <=> BreakoutRow(s, TimeFrames(rows), k)
    BY <1>1 DEF ReachesRule
  <2>2. TimeFrames(rows).five = Frames(rows, FiveMinutes)
    BY DEF TimeFrames
  <2> QED BY <2>1, <2>2, <1>4 DEF BreakoutRow
<1>6. five(s.atr) => k \in Frames(rows, FiveMinutes)
  BY <1>1, Runs
<1> QED BY <1>1, <1>3, <1>5, <1>6, FiveMinuteSleeve

LEMMA PullbackReady ==
  ASSUME NEW s \in Pullback, RuleOf(s) \in Rule, NEW rows, Consecutive(rows), NEW obs,
         Scheduled(RuleOf(s), Closed(rows))
  PROVE  Decides(s, rows, obs) <=> HistoryReady(RuleOf(s), rows)
<1> DEFINE k == Closed(rows) \div FiveMinutes - 1
           fives == Frames(rows, FiveMinutes)
           five(n) == Run(fives, k, n)
           hour(n) == Run(Frames(rows, Hour), Closed(rows) \div Hour - 1, n)
           counts == {s.slow, s.rising + s.fast, s.efficiency + 1}
           hours == \A n \in counts : hour(n)
<1>1. /\ s.kind = "pullback" /\ s.reclaim \in Nat \ {0} /\ s.trend \in Nat \ {0}
      /\ s.atr \in Nat \ {0} /\ s.fast \in Nat \ {0} /\ s.slow \in Nat \ {0}
      /\ s.rising \in Nat \ {0} /\ s.efficiency \in Nat \ {0} /\ k \in Int
  BY LastIndex, FrameLengths DEF Pullback, Positive
<1>2. FrameRequirements(s) = OfLength(FiveMinutes, {s.reclaim + 1, s.trend + 1, s.atr + 1})
                               \union OfLength(Hour, counts)
  <2>1. s.rising + s.fast = s.fast + s.rising
    BY <1>1
  <2> QED BY <1>1, <2>1 DEF FrameRequirements, Covering
<1>3. HistoryReady(RuleOf(s), rows) <=>
        five(s.reclaim + 1) /\ five(s.trend + 1) /\ five(s.atr + 1) /\ hours
  <2>1. HistoryReady(RuleOf(s), rows) <=>
           /\ \A n \in {s.reclaim + 1, s.trend + 1, s.atr + 1} : five(n)
           /\ \A n \in counts : hour(n)
    BY <1>1, <1>2, RequirementsMet
  <2> HIDE DEF counts
  <2> QED BY <2>1
<1>4. Regime(TimeFrames(rows), k, counts) <=> hours
  <2>1. Closed(rows) % FiveMinutes = 0
    BY <1>1, FiveMinuteSleeve
  <2>2. counts \in SUBSET Positive /\ counts # {}
    BY <1>1 DEF Positive
  <2> HIDE DEF counts
  <2> QED BY <2>1, <2>2, RegimeAtEnd
<1> HIDE DEF counts, k, fives
<1>5. ReachesRule(s, TimeFrames(rows), obs, k) <=>
        /\ Run(fives, k, 2) /\ Run(fives, k - 1, s.trend) /\ hours
        /\ \A j \in {k - 1, k} : Run(fives, j, s.reclaim) /\ Run(fives, j, s.atr)
  <2>1. ReachesRule(s, TimeFrames(rows), obs, k) <=> PullbackRow(s, TimeFrames(rows), k)
    BY <1>1 DEF ReachesRule
  <2>2. TimeFrames(rows).five = fives
    BY DEF TimeFrames, fives
  <2>3. PullbackRow(s, TimeFrames(rows), k) <=>
          /\ Run(fives, k, 2) /\ Run(fives, k - 1, s.trend)
          /\ \A j \in {k - 1, k} : Run(fives, j, s.reclaim) /\ Run(fives, j, s.atr)
          /\ Regime(TimeFrames(rows), k, counts)
    BY <2>2, Zenon DEF PullbackRow, counts
  <2> QED BY <2>1, <2>3, <1>4
<1>6. \A n \in Nat \ {0} :
        /\ Run(fives, k, n) => k \in fives
        /\ Run(fives, k, n + 1) <=> k \in fives /\ Run(fives, k - 1, n)
        /\ Run(fives, k, n + 1) => Run(fives, k, n)
        /\ Run(fives, k - 1, n) => k - 1 \in fives
  <2>1. k - 1 \in Int
    BY <1>1
  <2> QED BY <1>1, <2>1, Runs
<1>7. Run(fives, k, 2) <=> k \in fives /\ k - 1 \in fives
  <2>1. \A i \in (k - 2 + 1)..k : i = k - 1 \/ i = k
    BY <1>1
  <2>2. k \in (k - 2 + 1)..k /\ k - 1 \in (k - 2 + 1)..k
    BY <1>1
  <2> QED BY <2>1, <2>2 DEF Run
<1>8. ReachesRule(s, TimeFrames(rows), obs, k) <=> HistoryReady(RuleOf(s), rows)
  <2> HIDE DEF hours
  <2>1. ASSUME ReachesRule(s, TimeFrames(rows), obs, k) PROVE HistoryReady(RuleOf(s), rows)
    BY <2>1, <1>1, <1>3, <1>5, <1>6, <1>7
  <2>2. ASSUME HistoryReady(RuleOf(s), rows) PROVE ReachesRule(s, TimeFrames(rows), obs, k)
    BY <2>2, <1>1, <1>3, <1>5, <1>6, <1>7
  <2> QED BY <2>1, <2>2
<1>9. HistoryReady(RuleOf(s), rows) => k \in fives
  <2> HIDE DEF hours
  <2> QED BY <1>1, <1>3, <1>6
<1> QED BY <1>1, <1>8, <1>9, FiveMinuteSleeve DEF k, fives

LEMMA VolumeIsTraded ==
  ASSUME NEW rows, NEW k, NEW size
  PROVE  HasVolume(TimeFrames(rows), k, size) <=> Traded(rows, k, size)
<1>1. TimeFrames(rows).traded = {rows[i].open : i \in {j \in 1..Len(rows) : rows[j].traded}}
  BY DEF TimeFrames
<1> QED BY <1>1 DEF HasVolume, Traded, InBucket

LEMMA ReversionReady ==
  ASSUME NEW s \in Reversion, RuleOf(s) \in Rule, NEW rows, Consecutive(rows), NEW obs,
         Scheduled(RuleOf(s), Closed(rows))
  PROVE  Decides(s, rows, obs)
           <=> HistoryReady(RuleOf(s), rows) /\ VolumeContextReady(RuleOf(s), rows)
<1> DEFINE q == Closed(rows) \div FiveMinutes
           k == q - 1
           fives == Frames(rows, FiveMinutes)
           five(n) == Run(fives, k, n)
           hour(n) == Run(Frames(rows, Hour), Closed(rows) \div Hour - 1, n)
           Volume(j) == \E i \in (j - s.vwap)..(j - 1) : Traded(rows, i, FiveMinutes)
<1>1. /\ s.kind = "reversion" /\ s.vwap \in Nat \ {0} /\ s.atr \in Nat \ {0}
      /\ s.lookback \in Nat \ {0} /\ q \in Nat
  <2>1. q \in Nat
    BY WindowMinutes, FrameLengths, Division DEF Positive
  <2> QED BY <2>1 DEF Reversion, Positive
<1>2. FrameRequirements(s) = OfLength(FiveMinutes, {(s.vwap + 1) + 1, s.atr + 1, 2})
                               \union OfLength(Hour, {s.lookback + 1})
  BY <1>1 DEF FrameRequirements, Covering
<1>3. HistoryReady(RuleOf(s), rows) <=>
        five((s.vwap + 1) + 1) /\ five(s.atr + 1) /\ five(2) /\ hour(s.lookback + 1)
  <2>1. HistoryReady(RuleOf(s), rows) <=>
           /\ \A n \in {(s.vwap + 1) + 1, s.atr + 1, 2} : five(n)
           /\ \A n \in {s.lookback + 1} : hour(n)
    BY <1>1, <1>2, RequirementsMet
  <2> QED BY <2>1
<1>4. Regime(TimeFrames(rows), k, {s.lookback + 1}) <=> hour(s.lookback + 1)
  <2>1. Closed(rows) % FiveMinutes = 0
    BY <1>1, FiveMinuteSleeve
  <2>2. {s.lookback + 1} \in SUBSET Positive /\ {s.lookback + 1} # {}
    BY <1>1 DEF Positive
  <2> QED BY <2>1, <2>2, RegimeAtEnd
<1> HIDE DEF q, fives
<1>5. ReachesRule(s, TimeFrames(rows), obs, k) <=>
        /\ five(2) /\ hour(s.lookback + 1)
        /\ \A j \in {k - 1, k} : Run(fives, j, s.atr) /\ Run(fives, j, s.vwap + 1) /\ Volume(j)
  <2>1. ReachesRule(s, TimeFrames(rows), obs, k) <=> ReversionRow(s, TimeFrames(rows), k)
    BY <1>1 DEF ReachesRule
  <2>2. TimeFrames(rows).five = fives
    BY DEF TimeFrames, fives
  <2>3. \A i : HasVolume(TimeFrames(rows), i, FiveMinutes) <=> Traded(rows, i, FiveMinutes)
    BY VolumeIsTraded
  <2>4. ReversionRow(s, TimeFrames(rows), k) <=>
          /\ Run(fives, k, 2)
          /\ \A j \in {k - 1, k} : Run(fives, j, s.atr) /\ Run(fives, j, s.vwap + 1) /\ Volume(j)
          /\ Regime(TimeFrames(rows), k, {s.lookback + 1})
    BY <2>2, <2>3, Zenon DEF ReversionRow
  <2> QED BY <2>1, <2>4, <1>4
<1>6. VolumeContextReady(RuleOf(s), rows) <=> Volume(k - 1) /\ Volume(k)
  <2>1. RuleOf(s).prior = s.vwap /\ RuleOf(s).priorSize = FiveMinutes
    BY <1>1 DEF RuleOf
  <2>2. VolumeContextReady(RuleOf(s), rows) <=>
          \A back \in {1, 2} : \E n \in 1..s.vwap : Traded(rows, q - back - n, FiveMinutes)
    BY <1>1, <2>1 DEF VolumeContextReady, q
  <2>3. ASSUME NEW back \in {1, 2}
        PROVE  (\E n \in 1..s.vwap : Traded(rows, q - back - n, FiveMinutes)) <=> Volume(q - back)
    <3>1. ASSUME NEW n \in 1..s.vwap, Traded(rows, q - back - n, FiveMinutes)
          PROVE  Volume(q - back)
      <4>1. q - back - n \in ((q - back) - s.vwap)..((q - back) - 1)
        BY <1>1
      <4> QED BY <3>1, <4>1
    <3>2. ASSUME NEW i \in ((q - back) - s.vwap)..((q - back) - 1), Traded(rows, i, FiveMinutes)
          PROVE  \E n \in 1..s.vwap : Traded(rows, q - back - n, FiveMinutes)
      <4>1. q - back - i \in 1..s.vwap /\ q - back - (q - back - i) = i
        BY <1>1
      <4>2. Traded(rows, q - back - (q - back - i), FiveMinutes)
        BY <3>2, <4>1
      <4> QED BY <4>1, <4>2
    <3> QED BY <3>1, <3>2
  <2>4. q - 1 = k /\ q - 2 = k - 1
    BY <1>1
  <2> HIDE DEF Volume, k
  <2> QED BY <2>2, <2>3, <2>4
<1>7. k \in Int /\ k - 1 \in Int
  BY <1>1
<1> HIDE DEF k, Volume
<1>8. \A n \in Nat \ {0} :
        /\ Run(fives, k, n) => k \in fives
        /\ Run(fives, k, n + 1) <=> k \in fives /\ Run(fives, k - 1, n)
        /\ Run(fives, k, n + 1) => Run(fives, k, n)
  BY <1>7, Runs
<1>9. s.vwap + 1 \in Nat \ {0} /\ 2 \in Nat \ {0}
  BY <1>1
<1>10. ReachesRule(s, TimeFrames(rows), obs, k) <=>
         HistoryReady(RuleOf(s), rows) /\ VolumeContextReady(RuleOf(s), rows)
  <2> HIDE DEF hour
  <2>1. ReachesRule(s, TimeFrames(rows), obs, k) =>
          HistoryReady(RuleOf(s), rows) /\ VolumeContextReady(RuleOf(s), rows)
    BY <1>1, <1>3, <1>5, <1>6, <1>8, <1>9
  <2>2. HistoryReady(RuleOf(s), rows) /\ VolumeContextReady(RuleOf(s), rows) =>
          ReachesRule(s, TimeFrames(rows), obs, k)
    BY <1>1, <1>3, <1>5, <1>6, <1>8, <1>9
  <2> QED BY <2>1, <2>2
<1>11. HistoryReady(RuleOf(s), rows) => k \in fives
  <2> HIDE DEF hour
  <2> QED BY <1>3, <1>8, <1>9
<1> QED BY <1>1, <1>10, <1>11, FiveMinuteSleeve DEF k, q, fives

LEMMA OrderFlowReady ==
  ASSUME NEW s \in OrderFlow, RuleOf(s) \in Rule, NEW rows, Consecutive(rows), NEW obs,
         Scheduled(RuleOf(s), Closed(rows))
  PROVE  Decides(s, rows, obs) <=> HistoryReady(RuleOf(s), rows)
<1> DEFINE q == Closed(rows) \div FiveMinutes
           k == q - 1
           fives == Frames(rows, FiveMinutes)
           counted == Available(RuleOf(s), rows, FiveMinutes)
           positive == {i \in fives : Traded(rows, i, FiveMinutes)}
<1>1. s.kind = "orderflow" /\ q \in Nat /\ FiveMinutes \in Nat \ {0} /\ Closed(rows) \in Nat
  <2>1. Closed(rows) \in Nat /\ FiveMinutes \in Nat \ {0}
    BY WindowMinutes, FrameLengths DEF Positive
  <2> QED BY <2>1, Division DEF OrderFlow
<1>2. Priors(s) \subseteq Nat /\ s.baseline \in Priors(s)
  BY DEF OrderFlow, Priors, Positive
<1>3. HistoryReady(RuleOf(s), rows) <=> \A n \in Priors(s) : Run(counted, k, n + 1)
  <2>1. RuleOf(s).frames = {[size |-> FiveMinutes, count |-> n + 1] : n \in Priors(s)}
    <3>1. RuleOf(s).frames = FrameRequirements(s)
      BY DEF RuleOf
    <3>2. FrameRequirements(s) = OfLength(FiveMinutes, {n + 1 : n \in Priors(s)})
      BY <1>1 DEF FrameRequirements, Covering
    <3> HIDE DEF counted
    <3> QED BY <3>1, <3>2 DEF OfLength
  <2>2. HistoryReady(RuleOf(s), rows) <=>
          \A f \in RuleOf(s).frames :
            Run(Available(RuleOf(s), rows, f.size), Closed(rows) \div f.size - 1, f.count)
    BY ReadyMeansRuns
  <2>3. \A n \in Priors(s) : LET f == [size |-> FiveMinutes, count |-> n + 1]
                             IN  f \in RuleOf(s).frames /\ f.size = FiveMinutes /\ f.count = n + 1
    BY <2>1
  <2>4. \A f \in RuleOf(s).frames :
          \E n \in Priors(s) : f.size = FiveMinutes /\ f.count = n + 1
    BY <2>1
  <2>5. HistoryReady(RuleOf(s), rows) => \A n \in Priors(s) : Run(counted, k, n + 1)
    <3> SUFFICES ASSUME HistoryReady(RuleOf(s), rows), NEW n \in Priors(s)
                 PROVE  Run(counted, k, n + 1)
      OBVIOUS
    <3> DEFINE f == [size |-> FiveMinutes, count |-> n + 1]
    <3>1. f \in RuleOf(s).frames /\ f.size = FiveMinutes /\ f.count = n + 1
      BY <2>3
    <3> HIDE DEF f
    <3>2. Run(Available(RuleOf(s), rows, f.size), Closed(rows) \div f.size - 1, f.count)
      BY <3>1, <2>2
    <3> QED BY <3>1, <3>2
  <2>6. (\A n \in Priors(s) : Run(counted, k, n + 1)) => HistoryReady(RuleOf(s), rows)
    <3> SUFFICES ASSUME \A n \in Priors(s) : Run(counted, k, n + 1), NEW f \in RuleOf(s).frames
                 PROVE  Run(Available(RuleOf(s), rows, f.size), Closed(rows) \div f.size - 1, f.count)
      BY <2>2
    <3>1. PICK n \in Priors(s) : f.size = FiveMinutes /\ f.count = n + 1
      BY <2>4
    <3>2. Run(counted, k, n + 1)
      OBVIOUS
    <3> QED BY <3>1, <3>2
  <2> QED BY <2>5, <2>6
<1>4. ReachesRule(s, TimeFrames(rows), obs, k) <=> \A n \in Priors(s) : Run(positive, k, n + 1)
  <2>1. ReachesRule(s, TimeFrames(rows), obs, k) <=> OrderFlowRow(s, TimeFrames(rows), k)
    BY <1>1 DEF ReachesRule
  <2>2. TimeFrames(rows).five = fives
    BY DEF TimeFrames
  <2>3. {i \in TimeFrames(rows).five : HasVolume(TimeFrames(rows), i, FiveMinutes)} = positive
    BY <2>2, VolumeIsTraded
  <2> QED BY <2>1, <2>3, Zenon DEF OrderFlowRow
<1>5. RuleOf(s).segment = TRUE
  BY <1>1 DEF RuleOf
<1>6. counted \subseteq positive
  <2> SUFFICES ASSUME NEW i \in counted PROVE i \in positive
    OBVIOUS
  <2>1. i \in fives /\ \A j \in fives : j >= i => Traded(rows, j, FiveMinutes)
    <3>1. i \in fives /\ (RuleOf(s).segment => \A j \in fives : j >= i => Traded(rows, j, FiveMinutes))
      BY Zenon DEF Available
    <3> QED BY <3>1, <1>5
  <2>2. i >= i
    BY <2>1 DEF Frames
  <2> QED BY <2>1, <2>2
<1>7. \A j \in fives : j \in Nat /\ j <= k
  <2> TAKE j \in fives
  <2>1. j \in Nat
    BY DEF Frames
  <2>2. j * FiveMinutes + FiveMinutes <= Closed(rows)
    BY <2>1, <1>1, FramesBetweenEnds
  <2>3. (j + 1) * FiveMinutes = j * FiveMinutes + FiveMinutes
    BY <2>1, <1>1, Z3
  <2> QED BY <2>1, <2>2, <2>3, <1>1, LastClosed
<1>8. ASSUME NEW n \in Nat
      PROVE  Run(counted, k, n + 1) <=> Run(positive, k, n + 1)
  <2> HIDE DEF k, fives
  <2>1. Run(counted, k, n + 1) => Run(positive, k, n + 1)
    <3> HIDE DEF counted, positive
    <3> QED BY <1>6 DEF Run
  <2>2. ASSUME Run(positive, k, n + 1), NEW i \in (k - (n + 1) + 1)..k PROVE i \in counted
    <3>1. i \in fives
      BY <2>2 DEF Run
    <3>2. ASSUME NEW j \in fives, j >= i PROVE Traded(rows, j, FiveMinutes)
      <4>1. j \in (k - (n + 1) + 1)..k
        BY <3>2, <1>7, <2>2, <1>1 DEF k
      <4>2. j \in positive
        <5> HIDE DEF positive
        <5> QED BY <4>1, <2>2 DEF Run
      <4> QED BY <4>2
    <3> QED BY <3>1, <3>2 DEF Available, fives
  <2> QED BY <2>1, <2>2 DEF Run
<1> HIDE DEF counted, positive
<1>9. ReachesRule(s, TimeFrames(rows), obs, k) <=> HistoryReady(RuleOf(s), rows)
  BY <1>2, <1>3, <1>4, <1>8
<1>10. HistoryReady(RuleOf(s), rows) => k \in fives
  <2> SUFFICES ASSUME HistoryReady(RuleOf(s), rows) PROVE k \in fives
    OBVIOUS
  <2>1. Run(counted, k, s.baseline + 1) /\ s.baseline + 1 \in Nat \ {0} /\ k \in Int
    BY <1>1, <1>2, <1>3
  <2>2. k \in counted
    BY <2>1, Runs
  <2> QED BY <2>2, <1>6 DEF positive
<1> QED BY <1>1, <1>9, <1>10, FiveMinuteSleeve

\* The daily clock of the right-tail sleeves: the anchor closes an hour, and
\* that hour opens on a multiple of the interval.
LEMMA DecisionHour ==
  ASSUME NEW interval \in Nat \ {0}, NEW c \in Nat \ {0},
         c % (interval * Hour) = Hour % (interval * Hour)
  PROVE  /\ c % Hour = 0
         /\ ((c \div Hour - 1) * Hour) % (interval * Hour) = 0
<1> DEFINE t == interval * Hour
<1>1. Hour \in Nat \ {0}
  BY FrameLengths DEF Positive
<1>2. t \in Nat \ {0}
  BY <1>1, Z3
<1>3. t % Hour = 0
  <2>1. t \div Hour \in Nat /\ t % Hour \in 0..(Hour - 1) /\ t = (t \div Hour) * Hour + (t % Hour)
    BY <1>1, <1>2, Division
  <2>2. interval * Hour + 0 = (t \div Hour) * Hour + (t % Hour) /\ 0 \in 0..(Hour - 1)
    BY <2>1, <1>1, <1>2
  <2> HIDE DEF t
  <2> QED BY <2>1, <2>2, <1>1, UniqueRemainder
<1>4. c % t = Hour % t
  OBVIOUS
<1> HIDE DEF t
<1>5. c % Hour = 0
  <2>1. (c % t) % Hour = c % Hour /\ (Hour % t) % Hour = Hour % Hour
    BY <1>1, <1>2, <1>3, Residue
  <2>2. Hour % Hour = 0
    <3>1. /\ Hour \div Hour \in Nat /\ Hour % Hour \in 0..(Hour - 1)
          /\ Hour = (Hour \div Hour) * Hour + (Hour % Hour)
      BY <1>1, Division
    <3>2. 1 * Hour + 0 = (Hour \div Hour) * Hour + (Hour % Hour) /\ 0 \in 0..(Hour - 1)
      BY <3>1, <1>1
    <3> QED BY <3>1, <3>2, <1>1, UniqueRemainder
  <2> QED BY <2>1, <2>2, <1>4
<1>6. PICK h \in Nat : c \div Hour = h + 1 /\ c = h * Hour + Hour
  <2> DEFINE g == c \div Hour
  <2>1. g \in Nat /\ c = g * Hour + (c % Hour)
    BY <1>1, Division
  <2> HIDE DEF g
  <2>2. c = g * Hour
    <3>1. g * Hour \in Nat
      BY <2>1, <1>1, Z3
    <3> QED BY <2>1, <3>1, <1>5
  <2>3. g # 0
    <3>1. 0 * Hour = 0
      BY <1>1
    <3> QED BY <2>2, <3>1
  <2>4. g - 1 \in Nat /\ g = (g - 1) + 1 /\ (g - 1) * Hour + Hour = g * Hour
    BY <2>1, <2>3, <1>1, Z3
  <2> QED BY <2>2, <2>4 DEF g
<1>7. PICK q \in Nat, p \in Nat, r \in 0..(t - 1) : c = q * t + r /\ Hour = p * t + r
  <2>1. /\ c \div t \in Nat /\ c % t \in 0..(t - 1) /\ c = (c \div t) * t + (c % t)
        /\ Hour \div t \in Nat /\ Hour = (Hour \div t) * t + (Hour % t)
    BY <1>1, <1>2, Division
  <2> QED BY <2>1, <1>4
<1>8. (h * Hour) % t = 0
  <2>1. h * Hour \in Nat
    BY <1>1, Z3
  <2>2. PICK u \in Nat, v \in 0..(t - 1) : h * Hour = u * t + v /\ v = (h * Hour) % t
    BY <2>1, <1>2, Division
  <2>3. q * t = (u + p) * t + v
    <3>1. (u + p) * t = u * t + p * t /\ q * t \in Nat /\ u * t \in Nat /\ p * t \in Nat
      BY <1>2, Z3
    <3> QED BY <3>1, <2>2, <1>2, <1>6, <1>7
  <2>4. q * t + 0 = (u + p) * t + v /\ 0 \in 0..(t - 1) /\ u + p \in Nat
    BY <2>3, <1>2, Z3
  <2>5. v = 0
    BY <2>4, <1>2, UniqueRemainder
  <2> QED BY <2>2, <2>5
<1>9. c \div Hour - 1 = h
  BY <1>6
<1> QED BY <1>5, <1>8, <1>9 DEF t

\* The row of both right-tail sleeves.
LEMMA RightTailAtEnd ==
  ASSUME NEW s, s.interval \in Nat \ {0}, s.lookback \in Nat \ {0}, s.atr \in Nat \ {0},
         NEW rows, Consecutive(rows),
         Closed(rows) % (s.interval * Hour) = Hour % (s.interval * Hour)
  PROVE  /\ Closed(rows) % Hour = 0
         /\ RightTailRow(s, TimeFrames(rows), Closed(rows) \div Hour - 1) <=>
              \A n \in {s.lookback + 1, s.atr} :
                Run(Frames(rows, Hour), Closed(rows) \div Hour - 1, n)
<1>1. Closed(rows) \in Nat \ {0}
  BY WindowMinutes
<1>2. Closed(rows) % Hour = 0
      /\ ((Closed(rows) \div Hour - 1) * Hour) % (s.interval * Hour) = 0
  BY <1>1, DecisionHour
<1>3. TimeFrames(rows).hour = Frames(rows, Hour)
  BY DEF TimeFrames
<1> QED BY <1>2, <1>3 DEF RightTailRow

LEMMA RightTailReady ==
  ASSUME NEW s \in RightTail, RuleOf(s) \in Rule, NEW rows, Consecutive(rows), NEW obs,
         Scheduled(RuleOf(s), Closed(rows))
  PROVE  Decides(s, rows, obs) <=> HistoryReady(RuleOf(s), rows)
<1> DEFINE k == Closed(rows) \div Hour - 1
           hours == Frames(rows, Hour)
           counts == {s.lookback + 1, s.atr}
<1>1. /\ s.kind = "right_tail" /\ s.lookback \in Nat \ {0} /\ s.atr \in Nat \ {0}
      /\ s.interval \in Nat \ {0} /\ k \in Int
  BY LastIndex, FrameLengths DEF RightTail, Positive
<1>2. HistoryReady(RuleOf(s), rows) <=> \A n \in counts : Run(hours, k, n)
  <2>1. FrameRequirements(s) = OfLength(Hour, counts)
    BY <1>1 DEF FrameRequirements
  <2>2. OfLength(Hour, counts) = OfLength(Hour, counts) \union OfLength(Hour, counts)
    OBVIOUS
  <2> HIDE DEF counts
  <2> QED BY <1>1, <2>1, <2>2, RequirementsMet
<1>3. Closed(rows) % (s.interval * Hour) = Hour % (s.interval * Hour) /\ FrameOf(s) = Hour
  BY <1>1 DEF Scheduled, RuleOf, FrameOf
<1>4. /\ Closed(rows) % Hour = 0
      /\ RightTailRow(s, TimeFrames(rows), k) <=> \A n \in counts : Run(hours, k, n)
  BY <1>1, <1>3, RightTailAtEnd
<1>5. ReachesRule(s, TimeFrames(rows), obs, k) <=> RightTailRow(s, TimeFrames(rows), k)
  BY <1>1 DEF ReachesRule
<1>6. (\A n \in counts : Run(hours, k, n)) => k \in hours
  BY <1>1, Runs
<1> HIDE DEF counts
<1> QED BY <1>2, <1>3, <1>4, <1>5, <1>6, Zenon DEF Decides

LEMMA AlignedReady ==
  ASSUME NEW s \in Aligned, RuleOf(s) \in Rule, NEW rows, Consecutive(rows), NEW obs,
         Scheduled(RuleOf(s), Closed(rows))
  PROVE  Decides(s, rows, obs) <=> HistoryReady(RuleOf(s), rows)
<1> DEFINE c == Closed(rows)
           k == c \div Hour - 1
           last == c \div FourHours - 1
           hours == Frames(rows, Hour)
           fours == Frames(rows, FourHours)
           counts == {s.lookback + 1, s.atr}
           decision == (k + 1) * Hour
           states == {g \in fours : Run(fours, g, s.sma) /\ (g + 1) * FourHours <= decision}
<1>1. /\ s.kind = "aligned" /\ s.lookback \in Nat \ {0} /\ s.atr \in Nat \ {0}
      /\ s.interval \in Nat \ {0} /\ s.sma \in Nat \ {0} /\ k \in Int /\ last \in Int
      /\ Hour \in Nat \ {0} /\ FourHours \in Nat \ {0} /\ c \in Nat
  BY LastIndex, FrameLengths, WindowMinutes DEF Aligned, Positive
<1>2. HistoryReady(RuleOf(s), rows) <=>
        (\A n \in counts : Run(hours, k, n)) /\ Run(fours, last, s.sma)
  <2>1. FrameRequirements(s) = OfLength(Hour, counts) \union OfLength(FourHours, {s.sma})
    BY <1>1 DEF FrameRequirements
  <2>2. HistoryReady(RuleOf(s), rows) <=>
          (\A n \in counts : Run(hours, k, n)) /\ \A n \in {s.sma} : Run(fours, last, n)
    <3> HIDE DEF counts
    <3> QED BY <1>1, <2>1, RequirementsMet
  <2> QED BY <2>2
<1>3. c % (s.interval * Hour) = Hour % (s.interval * Hour) /\ FrameOf(s) = Hour
  <2>1. RuleOf(s).interval = s.interval * Hour /\ RuleOf(s).phase = Hour % (s.interval * Hour)
    BY <1>1 DEF RuleOf, Requirements
  <2> QED BY <1>1, <2>1 DEF Scheduled, FrameOf
<1>4. /\ c % Hour = 0
      /\ RightTailRow(s, TimeFrames(rows), k) <=> \A n \in counts : Run(hours, k, n)
  BY <1>1, <1>3, RightTailAtEnd
<1>5. decision = c
  <2> DEFINE g == c \div Hour
  <2>1. g \in Nat /\ c = g * Hour + (c % Hour)
    BY <1>1, Division
  <2>2. k + 1 = g
    BY <2>1
  <2> HIDE DEF g, c, k
  <2>3. g * Hour \in Nat
    BY <2>1, <1>1, Z3
  <2> QED BY <2>1, <2>2, <2>3, <1>4
<1>6. ReachesRule(s, TimeFrames(rows), obs, k) <=>
        /\ RightTailRow(s, TimeFrames(rows), k)
        /\ \E g \in states : (\A o \in states : o <= g) /\ decision - (g + 1) * FourHours < FourHours
  <2>1. ReachesRule(s, TimeFrames(rows), obs, k) <=> AlignedRow(s, TimeFrames(rows), k)
    BY <1>1 DEF ReachesRule
  <2>2. TimeFrames(rows).four = fours
    BY DEF TimeFrames
  <2> QED BY <2>1, <2>2, Zenon DEF AlignedRow
<1> HIDE DEF counts, decision, k, c, last
<1>7. (\E g \in states : (\A o \in states : o <= g) /\ decision - (g + 1) * FourHours < FourHours)
        <=> Run(fours, last, s.sma)
  <2>1. \A g \in Int : /\ (g + 1) * FourHours <= c <=> g <= last
                       /\ (g + 1) * FourHours <= c /\ c - (g + 1) * FourHours < FourHours <=> g = last
    BY <1>1, LastClosed DEF last
  <2>2. fours \subseteq Int
    BY DEF Frames
  <2>3. Run(fours, last, s.sma) => last \in fours
    BY <1>1, Runs
  <2>4. states = {g \in fours : Run(fours, g, s.sma) /\ g <= last}
    BY <2>1, <2>2, <1>5
  <2> HIDE DEF fours
  <2>5. ASSUME NEW g \in states, decision - (g + 1) * FourHours < FourHours
        PROVE  Run(fours, last, s.sma)
    <3>1. g \in Int /\ g \in fours /\ Run(fours, g, s.sma) /\ (g + 1) * FourHours <= c
      BY <2>2, <1>5
    <3> HIDE DEF states
    <3>2. c - (g + 1) * FourHours < FourHours
      BY <2>5, <1>5
    <3> QED BY <3>1, <3>2, <2>1
  <2>6. ASSUME Run(fours, last, s.sma)
        PROVE  /\ last \in states /\ \A o \in states : o <= last
               /\ decision - (last + 1) * FourHours < FourHours
    <3>1. last \in fours /\ last <= last
      BY <2>3, <2>6, <1>1
    <3>2. c - (last + 1) * FourHours < FourHours
      BY <2>1, <1>1
    <3> HIDE DEF states
    <3> QED BY <2>4, <2>6, <3>1, <3>2, <1>5
  <2> QED BY <2>5, <2>6
<1>8. (\A n \in counts : Run(hours, k, n)) => k \in hours
  BY <1>1, Runs DEF counts
<1> HIDE DEF states
<1> QED BY <1>2, <1>3, <1>4, <1>6, <1>7, <1>8, Zenon DEF Decides, c, k

\* At a scheduled bar the generator gets as far as the price rule exactly if
\* the readiness policy finds its inputs.
LEMMA ReadyMeansDecided ==
  ASSUME NEW s \in Sleeve, Registered(s), RuleOf(s) \in Rule, RuleOf(s).reviewed,
         NEW rows, Consecutive(rows), NEW obs, Scheduled(RuleOf(s), Closed(rows))
  PROVE  Decides(s, rows, obs)
           <=> HistoryReady(RuleOf(s), rows) /\ VolumeContextReady(RuleOf(s), rows)
<1>1. s.kind # "reversion" => VolumeContextReady(RuleOf(s), rows)
  <2>1. s.kind # "reversion" => RuleOf(s).prior = 0
    BY DEF RuleOf
  <2> QED BY <2>1 DEF VolumeContextReady
<1>2. CASE s \in Breakout
  <2>1. s.kind # "reversion"
    BY <1>2 DEF Breakout
  <2> QED BY <2>1, <1>1, <1>2, BreakoutReady
<1>3. CASE s \in Pullback
  <2>1. s.kind # "reversion"
    BY <1>3 DEF Pullback
  <2> QED BY <2>1, <1>1, <1>3, PullbackReady
<1>4. CASE s \in Reversion
  BY <1>4, ReversionReady
<1>5. CASE s \in OrderFlow
  <2>1. s.kind # "reversion"
    BY <1>5 DEF OrderFlow
  <2> QED BY <2>1, <1>1, <1>5, OrderFlowReady
<1>6. CASE s \in RightTail
  <2>1. s.kind # "reversion"
    BY <1>6 DEF RightTail
  <2> QED BY <2>1, <1>1, <1>6, RightTailReady
<1>7. CASE s \in Aligned
  <2>1. s.kind # "reversion"
    BY <1>7 DEF Aligned
  <2> QED BY <2>1, <1>1, <1>7, AlignedReady
<1>8. s \notin Boundary
  <2>1. RuleOf(s).reviewed = (s.kind # "boundary")
    BY DEF RuleOf
  <2> QED BY <2>1 DEF Boundary
<1>9. s \notin Crowded /\ s \notin MovingAverage
  BY DEF Registered, Crowded, MovingAverage
<1> QED BY <1>2, <1>3, <1>4, <1>5, <1>6, <1>7, <1>8, <1>9 DEF Sleeve

\* The table of lookbacks in campaign.py and the loops of the generators say
\* the same of every window (VerdictMatchesGenerator).
THEOREM VerdictsMatchGenerators == LiveSpec => []VerdictMatchesGenerator
<1>1. LiveInit => VerdictMatchesGenerator
  BY DEF LiveInit, VerdictMatchesGenerator
<1>2. LiveInv /\ VerdictMatchesGenerator /\ [LiveNext]_liveVars => VerdictMatchesGenerator'
  <2> SUFFICES ASSUME LiveInv, VerdictMatchesGenerator, [LiveNext]_liveVars
               PROVE  VerdictMatchesGenerator'
    OBVIOUS
  <2>1. CASE UNCHANGED liveVars
    BY <2>1 DEF liveVars, live, research, VerdictMatchesGenerator, Decided, Asked
  <2>2. CASE Archive
    <3>1. status' = "NONE"
      BY <2>2 DEF Archive, live, LiveInv
    <3> QED BY <3>1 DEF VerdictMatchesGenerator
  <2>3. CASE Outage \/ Resume
    BY <2>3 DEF Outage, Resume, VerdictMatchesGenerator
  <2>4. CASE Deliver
    <3>1. PICK traded \in BOOLEAN : Tick(Minute(traded)) /\ Observe(Minute(traded))
      BY <2>4 DEF Deliver
    <3>2. UNCHANGED <<rule, sleeve, observed>> /\ Registered(sleeve)
      BY <2>4 DEF Deliver
    <3> DEFINE rows == history'
               result == Conversion(batch', refused')
    <3>3. clock < MaxMinute
      BY <3>1 DEF Tick
    <3>4. rows = Extend(history, Minute(traded)) /\ Consecutive(rows)
      BY <3>1, <3>3, ObserveStep
    <3>5. status' = Verdict(rule, rows, result)
      BY <3>1 DEF Observe, Evaluate
    <3>6. sleeve \in Sleeve /\ rule = RuleOf(sleeve) /\ rule \in Rule
      <4>1. [sleeve |-> sleeve, plan |-> plan, window |-> window]
              \in [sleeve : Sleeve, plan : Plans, window : Windows]
        BY ConfigurationsAssumption DEF LiveInv, SleevesTypeOK
      <4>2. rule = RuleOf(sleeve) /\ rule \in Rule
        BY RulesAssumption DEF LiveInv, SleevesTypeOK, TypeOK
      <4> QED BY <4>1, <4>2
    <3>7. rows # <<>> /\ Len(rows) \in Nat /\ rule.minimum \in Nat
      BY <3>4, <3>6, WindowMinutes DEF Consecutive, Rule
    <3> HIDE DEF rows, result
    <3>8. ASSUME rule.reviewed, Scheduled(rule, Closed(rows))
          PROVE  Decides(sleeve, rows, observed)
                   <=> HistoryReady(rule, rows) /\ VolumeContextReady(rule, rows)
      BY <3>2, <3>4, <3>6, <3>8, ReadyMeansDecided
    <3>9. ASSUME status' = "NO_INTENT" PROVE Decides(sleeve, rows, observed)
      <4>1. /\ Scheduled(rule, Closed(rows)) /\ rule.reviewed
            /\ HistoryReady(rule, rows) /\ VolumeContextReady(rule, rows)
        BY <3>5, <3>9 DEF Verdict, QuietVerdict
      <4> QED BY <4>1, <3>8
    <3>10. ASSUME status' \in {"WARMUP", "UNAVAILABLE"}, rule.reviewed,
                  Asked(rows), Decides(sleeve, rows, observed)
           PROVE  FALSE
      <4>1. ~(Len(rows) < rule.minimum) /\ Scheduled(rule, Closed(rows))
        BY <3>7, <3>10 DEF Asked
      <4>2. HistoryReady(rule, rows) /\ VolumeContextReady(rule, rows)
        BY <4>1, <3>8, <3>10
      <4> QED BY <4>1, <4>2, <3>5, <3>10 DEF Verdict, QuietVerdict
    <3>11. /\ Decided(history)' <=> Decides(sleeve, rows, observed)
           /\ Asked(history)' <=> Asked(rows)
      BY <3>2, <3>7 DEF Decided, Asked, rows
    <3> QED BY <3>2, <3>9, <3>10, <3>11 DEF VerdictMatchesGenerator
  <2> QED BY <2>1, <2>2, <2>3, <2>4 DEF LiveNext
<1>3. LiveInv /\ [LiveNext]_liveVars => LiveInv'
  BY LiveStep
<1> QED BY SleevesStart, <1>1, <1>2, <1>3, PTL DEF LiveSpec

--------------------------------------------------------------------------
(* Decisions of the past are final.                                        *)

\* The archive `all` goes on from `rows` with bars that open after them.
Continues(rows, all) ==
  /\ rows \in Seq(Bar) /\ all \in Seq(Bar) /\ rows # <<>>
  /\ Len(rows) <= Len(all) /\ Closed(rows) <= Closed(all)
  /\ \A i \in 1..Len(rows) : all[i] = rows[i] /\ rows[i].open < Closed(rows)
  /\ \A i \in (Len(rows) + 1)..Len(all) : all[i].open >= Closed(rows)

\* Frames and volume up to minute c are the same.
SameFrames(F, G, size, c) == \A i \in Int : (i + 1) * size <= c => (i \in F <=> i \in G)
SameUpTo(a, b, c) ==
  /\ SameFrames(a.minute, b.minute, 1, c) /\ SameFrames(a.five, b.five, FiveMinutes, c)
  /\ SameFrames(a.quarter, b.quarter, QuarterHour, c) /\ SameFrames(a.hour, b.hour, Hour, c)
  /\ SameFrames(a.four, b.four, FourHours, c)
  /\ \A m \in Nat : m < c => (m \in a.traded <=> m \in b.traded)
  /\ \A F \in {a.five, a.hour, a.four, a.traded, b.five, b.hour, b.four, b.traded} : F \subseteq Nat

\* Order from bar to bar is order throughout.
LEMMA OrderedThroughout ==
  ASSUME NEW all \in Seq(Bar), NEW minute, Ordered(all, minute)
  PROVE  \A i, j \in 1..Len(all) : i < j => all[i].open < all[j].open
<1> DEFINE n == Len(all)
<1>1. n \in Nat
  OBVIOUS
<1>2. \A i \in 1..n : all[i].open \in Nat
  <2> TAKE i \in 1..n
  <2>1. all[i] \in Bar
    OBVIOUS
  <2> QED BY <2>1 DEF Bar
<1>3. \A i \in 1..n : i > 1 => all[i - 1].open < all[i].open
  BY DEF Ordered
<1> SUFFICES ASSUME NEW i \in 1..n
             PROVE  \A j \in 1..n : i < j => all[i].open < all[j].open
  OBVIOUS
<1> DEFINE Bad == {j \in Nat : j \in 1..n /\ i < j /\ ~(all[i].open < all[j].open)}
<1>4. ASSUME Bad # {} PROVE FALSE
  <2>1. PICK j \in Bad : \A e \in Bad : ~ (<<e, j>> \in OpToRel(<, Nat))
    BY <1>4, NatLessThanWellFounded, WFMin
  <2>2. j \in 1..n /\ i < j /\ ~(all[i].open < all[j].open)
    BY <2>1
  <2>3. j - 1 \in 1..n /\ j - 1 < j /\ (j - 1 = i \/ i < j - 1)
    BY <2>2, <1>1
  <2>4. j - 1 \notin Bad
    <3>1. <<j - 1, j>> \in OpToRel(<, Nat)
      BY <2>2, <2>3 DEF OpToRel
    <3> HIDE DEF Bad
    <3> QED BY <2>1, <3>1
  <2>5. all[i].open <= all[j - 1].open
    BY <2>3, <2>4, <1>2
  <2>6. all[j - 1].open < all[j].open
    BY <2>2, <2>3, <1>3
  <2> QED BY <2>2, <2>3, <2>5, <2>6, <1>2
<1> QED BY <1>4

LEMMA ArchiveContinues ==
  ASSUME NEW all \in Seq(Bar), NEW more \in Seq(Bar), NEW minute \in Nat, Ordered(all, minute),
         \A i \in 1..Len(more) : more[i].open = minute + i - 1, all # <<>>
  PROVE  Continues(all, all \o more) /\ Closed(all) <= minute
<1> DEFINE n == Len(all)
           joined == all \o more
<1>1. n \in Nat \ {0} /\ Len(more) \in Nat
  OBVIOUS
<1>2. /\ joined \in Seq(Bar) /\ Len(joined) = n + Len(more)
      /\ \A i \in 1..n : joined[i] = all[i]
      /\ \A i \in (n + 1)..(n + Len(more)) : joined[i] = more[i - n]
  OBVIOUS
<1> HIDE DEF joined
<1>3. \A i \in 1..n : all[i].open \in Nat
  <2> TAKE i \in 1..n
  <2>1. all[i] \in Bar
    OBVIOUS
  <2> QED BY <2>1 DEF Bar
<1>4. Closed(all) = all[n].open + 1 /\ Closed(all) <= minute /\ Closed(all) \in Nat
  BY <1>1, <1>3 DEF Ordered, Closed
<1>5. \A i \in (n + 1)..(n + Len(more)) : joined[i].open >= minute /\ joined[i].open \in Nat
  <2> TAKE i \in (n + 1)..(n + Len(more))
  <2>1. i - n \in 1..Len(more)
    BY <1>1
  <2>2. joined[i].open = minute + (i - n) - 1
    BY <2>1, <1>2
  <2> QED BY <2>1, <2>2
<1>6. \A i \in 1..n : all[i].open < Closed(all)
  <2> TAKE i \in 1..n
  <2>1. n \in 1..n /\ (i < n => all[i].open < all[n].open)
    BY <1>1, OrderedThroughout
  <2> QED BY <2>1, <1>1, <1>3, <1>4
<1>7. Closed(all) <= Closed(joined)
  <2>1. CASE Len(more) = 0
    BY <2>1, <1>1, <1>2, <1>4 DEF Closed
  <2>2. CASE Len(more) # 0
    <3>1. n + Len(more) \in (n + 1)..(n + Len(more))
      BY <2>2, <1>1
    <3>2. joined[Len(joined)].open >= minute /\ joined[Len(joined)].open \in Nat
      BY <3>1, <1>2, <1>5
    <3> QED BY <3>2, <1>4 DEF Closed
  <2> QED BY <2>1, <2>2
<1>8. \A i \in (n + 1)..(n + Len(more)) : joined[i].open >= Closed(all)
  BY <1>4, <1>5
<1> QED BY <1>1, <1>2, <1>4, <1>6, <1>7, <1>8 DEF Continues, joined

\* Such an archive has the same complete frames and the same volume up to
\* the end of the rows.
LEMMA FramesAgree ==
  ASSUME NEW rows, NEW all, Continues(rows, all), NEW size \in Nat \ {0}
  PROVE  /\ SameFrames(Frames(rows, size), Frames(all, size), size, Closed(rows))
         /\ \A k \in Frames(rows, size) : (k + 1) * size <= Closed(rows)
<1> DEFINE c == Closed(rows)
           d == Closed(all)
<1>1. c \in Nat /\ d \in Nat /\ c <= d /\ Len(rows) \in Nat /\ Len(all) \in Nat /\ Len(rows) <= Len(all)
  <2>1. rows[Len(rows)] \in Bar /\ all[Len(all)] \in Bar
    <3>1. Len(rows) \in 1..Len(rows) /\ Len(all) \in 1..Len(all)
      BY DEF Continues
    <3> QED BY <3>1, ElementOfSeq DEF Continues
  <2> QED BY <2>1 DEF Continues, Closed, Bar
<1>2. \A m \in Int : m < c => (m \in Minutes(rows) <=> m \in Minutes(all))
  <2> SUFFICES ASSUME NEW m \in Int, m < c PROVE m \in Minutes(rows) <=> m \in Minutes(all)
    OBVIOUS
  <2>1. ASSUME NEW i \in 1..Len(rows), rows[i].open = m PROVE m \in Minutes(all)
    <3>1. i \in 1..Len(all) /\ all[i].open = m
      BY <1>1, <2>1 DEF Continues
    <3> QED BY <3>1 DEF Minutes
  <2>2. ASSUME NEW i \in 1..Len(all), all[i].open = m PROVE m \in Minutes(rows)
    <3>1. i \in 1..Len(rows)
      <4>1. i \in (Len(rows) + 1)..Len(all) => all[i].open >= c
        BY DEF Continues
      <4> QED BY <4>1, <1>1, <2>2
    <3>2. rows[i].open = m
      BY <3>1, <2>2 DEF Continues
    <3> QED BY <3>1, <3>2 DEF Minutes
  <2> QED BY <2>1, <2>2 DEF Minutes
<1>3. \A m \in Minutes(rows) : m \in Nat /\ m < c
  <2> SUFFICES ASSUME NEW i \in 1..Len(rows) PROVE rows[i].open \in Nat /\ rows[i].open < c
    BY DEF Minutes
  <2>1. rows[i] \in Bar
    BY ElementOfSeq DEF Continues
  <2> QED BY <2>1 DEF Continues, Bar
<1>4. \A k \in Nat : (k + 1) * size = k * size + size /\ k * size \in Nat
  BY Z3
<1>5. ASSUME NEW k \in Frames(rows, size) PROVE (k + 1) * size <= c
  <2>1. k \in Nat /\ (k * size)..(k * size + size - 1) \subseteq Minutes(rows)
    BY <1>5 DEF Frames
  <2>2. k * size + size - 1 \in (k * size)..(k * size + size - 1)
    BY <2>1, <1>4
  <2>3. k * size + size - 1 < c
    BY <2>1, <2>2, <1>3
  <2> QED BY <2>1, <2>3, <1>1, <1>4
<1>6. ASSUME NEW k \in Int, (k + 1) * size <= c
      PROVE  k \in Frames(rows, size) <=> k \in Frames(all, size)
  <2>1. k <= c \div size - 1 /\ k <= d \div size - 1
    <3>1. (k + 1) * size \in Int
      BY Z3
    <3>2. (k + 1) * size <= d
      BY <3>1, <1>1, <1>6
    <3> HIDE DEF c, d
    <3> QED BY <3>2, <1>1, <1>6, LastClosed
  <2>2. c \div size \in Nat /\ d \div size \in Nat
    BY <1>1, Division
  <2>3. CASE k \in Nat
    <3>1. k \in 0..(c \div size) /\ k \in 0..(d \div size)
      <4> HIDE DEF c, d
      <4> QED BY <2>1, <2>2, <2>3
    <3>2. \A m \in (k * size)..(k * size + size - 1) : m \in Minutes(rows) <=> m \in Minutes(all)
      <4> TAKE m \in (k * size)..(k * size + size - 1)
      <4>1. m \in Int /\ m < c
        BY <2>3, <1>1, <1>4, <1>6
      <4> QED BY <4>1, <1>2
    <3> QED BY <3>1, <3>2 DEF Frames
  <2>4. CASE k \notin Nat
    BY <2>4 DEF Frames
  <2> QED BY <2>3, <2>4
<1> QED BY <1>5, <1>6 DEF SameFrames

LEMMA FeaturesAgree ==
  ASSUME NEW rows, NEW all, Continues(rows, all)
  PROVE  SameUpTo(TimeFrames(rows), TimeFrames(all), Closed(rows))
<1> DEFINE a == TimeFrames(rows)
           b == TimeFrames(all)
           c == Closed(rows)
<1>1. \A size \in Nat \ {0} : SameFrames(Frames(rows, size), Frames(all, size), size, c)
  BY FramesAgree
<1>2. /\ SameFrames(a.minute, b.minute, 1, c) /\ SameFrames(a.five, b.five, FiveMinutes, c)
      /\ SameFrames(a.quarter, b.quarter, QuarterHour, c) /\ SameFrames(a.hour, b.hour, Hour, c)
      /\ SameFrames(a.four, b.four, FourHours, c)
  <2> HIDE DEF c
  <2> QED BY <1>1, FrameLengths DEF TimeFrames, Positive
<1>3. c \in Nat
  <2>1. rows[Len(rows)] \in Bar
    <3>1. Len(rows) \in 1..Len(rows)
      BY DEF Continues
    <3> QED BY <3>1, ElementOfSeq DEF Continues
  <2> QED BY <2>1 DEF Closed, Bar
<1>4. ASSUME NEW m \in Nat, m < c PROVE m \in a.traded <=> m \in b.traded
  <2>1. ASSUME NEW i \in 1..Len(rows), rows[i].open = m, rows[i].traded PROVE m \in b.traded
    <3>1. i \in 1..Len(all) /\ all[i].open = m /\ all[i].traded
      BY <2>1 DEF Continues
    <3> QED BY <3>1 DEF TimeFrames
  <2>2. ASSUME NEW i \in 1..Len(all), all[i].open = m, all[i].traded PROVE m \in a.traded
    <3>1. i \in 1..Len(rows)
      <4>1. i \in (Len(rows) + 1)..Len(all) => all[i].open >= c
        BY DEF Continues
      <4>2. Len(rows) \in Nat /\ Len(all) \in Nat
        BY DEF Continues
      <4> QED BY <4>1, <4>2, <1>3, <1>4, <2>2
    <3>2. rows[i].open = m /\ rows[i].traded
      BY <3>1, <2>2 DEF Continues
    <3> QED BY <3>1, <3>2 DEF TimeFrames
  <2> QED BY <2>1, <2>2 DEF TimeFrames
<1>5. a.traded \subseteq Nat /\ b.traded \subseteq Nat
  <2>1. \A i \in 1..Len(rows) : rows[i].open \in Nat
    <3> TAKE i \in 1..Len(rows)
    <3>1. rows[i] \in Bar
      BY ElementOfSeq DEF Continues
    <3> QED BY <3>1 DEF Bar
  <2>2. \A i \in 1..Len(all) : all[i].open \in Nat
    <3> TAKE i \in 1..Len(all)
    <3>1. all[i] \in Bar
      BY ElementOfSeq DEF Continues
    <3> QED BY <3>1 DEF Bar
  <2> QED BY <2>1, <2>2 DEF TimeFrames
<1>6. \A r, size : Frames(r, size) \subseteq Nat
  BY DEF Frames
<1>7. /\ a.five \subseteq Nat /\ a.hour \subseteq Nat /\ a.four \subseteq Nat
      /\ b.five \subseteq Nat /\ b.hour \subseteq Nat /\ b.four \subseteq Nat
  BY <1>6 DEF TimeFrames
<1> HIDE DEF a, b, c
<1> QED BY <1>2, <1>4, <1>5, <1>7 DEF SameUpTo, a, b, c

\* Runs of frames that end by then agree.
LEMMA RunsAgree ==
  ASSUME NEW F, NEW G, NEW size \in Nat \ {0}, NEW c \in Nat, SameFrames(F, G, size, c),
         NEW k \in Int, (k + 1) * size <= c, NEW n \in Int
  PROVE  Run(F, k, n) <=> Run(G, k, n)
<1> SUFFICES ASSUME NEW i \in (k - n + 1)..k PROVE i \in F <=> i \in G
  BY DEF Run
<1>1. i \in Int /\ i + 1 \in Int /\ k + 1 \in Int /\ i + 1 <= k + 1
  OBVIOUS
<1>2. (i + 1) * size <= (k + 1) * size
  BY <1>1, Multiples
<1>3. (i + 1) * size \in Int /\ (k + 1) * size \in Int
  BY <1>1, Z3
<1>4. (i + 1) * size <= c
  BY <1>2, <1>3
<1> QED BY <1>1, <1>4 DEF SameFrames

\* An earlier frame of the same length ends earlier.
LEMMA EarlierFrame ==
  ASSUME NEW size \in Nat \ {0}, NEW c \in Nat, NEW k \in Int, (k + 1) * size <= c,
         NEW i \in Int, i <= k
  PROVE  (i + 1) * size <= c
<1>1. i + 1 \in Int /\ k + 1 \in Int /\ i + 1 <= k + 1
  OBVIOUS
<1>2. (i + 1) * size <= (k + 1) * size
  BY <1>1, Multiples
<1>3. (i + 1) * size \in Int /\ (k + 1) * size \in Int
  BY <1>1, Z3
<1> QED BY <1>2, <1>3

LEMMA VolumeAgrees ==
  ASSUME NEW a, NEW b, NEW c \in Nat, SameUpTo(a, b, c), NEW size \in Nat \ {0},
         NEW i \in Int, (i + 1) * size <= c
  PROVE  HasVolume(a, i, size) <=> HasVolume(b, i, size)
<1>1. a.traded \subseteq Nat /\ b.traded \subseteq Nat
  BY DEF SameUpTo
<1>2. ASSUME NEW m \in Nat, m \div size = i PROVE m < c
  <2>1. i \in Nat /\ m % size \in 0..(size - 1) /\ m = i * size + (m % size)
    BY <1>2, Division
  <2>2. (i + 1) * size = i * size + size /\ i * size \in Nat
    BY <2>1, Z3
  <2> QED BY <2>1, <2>2
<1>3. \A m \in Nat : m \div size = i => (m \in a.traded <=> m \in b.traded)
  BY <1>2 DEF SameUpTo
<1> QED BY <1>1, <1>3 DEF HasVolume

LEMMA SameBothWays ==
  ASSUME NEW a, NEW b, NEW c, SameUpTo(a, b, c)
  PROVE  SameUpTo(b, a, c)
BY Zenon DEF SameUpTo, SameFrames

\* The hourly regime of a row that has closed by then.
LEMMA RegimeGoesOn ==
  ASSUME NEW a, NEW b, NEW c \in Nat, SameUpTo(a, b, c),
         NEW k \in Int, (k + 1) * FiveMinutes <= c, NEW counts \in SUBSET Int, Regime(a, k, counts)
  PROVE  Regime(b, k, counts)
<1> DEFINE close == (k + 1) * FiveMinutes
<1>1. /\ FiveMinutes \in Nat \ {0} /\ Hour \in Nat \ {0}
      /\ a.hour \subseteq Nat /\ b.hour \subseteq Nat
      /\ SameFrames(a.five, b.five, FiveMinutes, c) /\ SameFrames(a.hour, b.hour, Hour, c)
  BY FrameLengths DEF SameUpTo, Positive
<1>2. close \in Int /\ close <= c
  BY <1>1, Z3
<1> HIDE DEF close
<1>3. PICK h \in a.hour : /\ LatestHour(a, k, h)
                          /\ \A i \in (((h + 1) * Hour - 1) \div FiveMinutes)..k : i \in a.five
                          /\ \A n \in counts : Run(a.hour, h, n)
  BY DEF Regime
<1>4. \A g \in Nat : (g + 1) * Hour \in Nat
  BY <1>1, Z3
<1>5. \A g \in Nat : (g + 1) * Hour <= close => (g \in a.hour <=> g \in b.hour)
  <2> SUFFICES ASSUME NEW g \in Nat, (g + 1) * Hour <= close PROVE g \in a.hour <=> g \in b.hour
    OBVIOUS
  <2>1. (g + 1) * Hour <= c
    BY <1>2, <1>4
  <2> QED BY <2>1, <1>1 DEF SameFrames
<1>6. h \in Nat /\ h \in Int /\ (h + 1) * Hour <= close
  BY <1>1, <1>3 DEF LatestHour, close
<1>7. LatestHour(b, k, h)
  BY <1>1, <1>3, <1>5, <1>6 DEF LatestHour, close
<1>8. ASSUME NEW i \in (((h + 1) * Hour - 1) \div FiveMinutes)..k PROVE i \in b.five
  <2>1. i \in Int /\ i <= k
    OBVIOUS
  <2>2. (i + 1) * FiveMinutes <= c
    BY <2>1, <1>1, EarlierFrame
  <2> QED BY <2>1, <2>2, <1>1, <1>3 DEF SameFrames
<1>9. ASSUME NEW n \in counts PROVE Run(b.hour, h, n)
  <2>1. (h + 1) * Hour <= c
    BY <1>2, <1>4, <1>6
  <2> QED BY <2>1, <1>1, <1>3, <1>6, RunsAgree
<1> QED BY <1>5, <1>6, <1>7, <1>8, <1>9 DEF Regime

LEMMA RegimeAgrees ==
  ASSUME NEW a, NEW b, NEW c \in Nat, SameUpTo(a, b, c),
         NEW k \in Int, (k + 1) * FiveMinutes <= c, NEW counts \in SUBSET Int
  PROVE  Regime(a, k, counts) <=> Regime(b, k, counts)
BY RegimeGoesOn, SameBothWays

\* Sleeves on five-minute rows.
LEMMA FiveMinuteRowsAgree ==
  ASSUME NEW a, NEW b, NEW c \in Nat, SameUpTo(a, b, c),
         NEW k \in Int, (k + 1) * FiveMinutes <= c
  PROVE  /\ \A s \in Breakout : BreakoutRow(s, a, k) <=> BreakoutRow(s, b, k)
         /\ \A s \in Pullback : PullbackRow(s, a, k) <=> PullbackRow(s, b, k)
         /\ \A s \in Reversion : ReversionRow(s, a, k) <=> ReversionRow(s, b, k)
         /\ \A s \in OrderFlow : OrderFlowRow(s, a, k) <=> OrderFlowRow(s, b, k)
<1>1. /\ FiveMinutes \in Nat \ {0} /\ a.five \subseteq Nat /\ b.five \subseteq Nat
      /\ SameFrames(a.five, b.five, FiveMinutes, c)
  BY FrameLengths DEF SameUpTo, Positive
<1>2. \A i \in Int : i <= k => (i + 1) * FiveMinutes <= c
  BY <1>1, EarlierFrame
<1>3. \A i \in Int, n \in Int : i <= k => (Run(a.five, i, n) <=> Run(b.five, i, n))
  BY <1>1, <1>2, RunsAgree
<1>4. \A i \in Int : i <= k => (HasVolume(a, i, FiveMinutes) <=> HasVolume(b, i, FiveMinutes))
  BY <1>1, <1>2, VolumeAgrees
<1>5. \A counts \in SUBSET Int : Regime(a, k, counts) <=> Regime(b, k, counts)
  BY RegimeAgrees
<1>6. k - 1 \in Int /\ k - 1 <= k /\ k <= k
  OBVIOUS
<1>7. ASSUME NEW s \in Breakout PROVE BreakoutRow(s, a, k) <=> BreakoutRow(s, b, k)
  <2>1. s.donchian + 1 \in Int /\ s.atr \in Int /\ {s.lookback + 1} \in SUBSET Int
    BY DEF Breakout, Positive
  <2>2. Run(a.five, k, s.donchian + 1) <=> Run(b.five, k, s.donchian + 1)
    BY <1>3, <1>6, <2>1
  <2>3. Run(a.five, k, s.atr) <=> Run(b.five, k, s.atr)
    BY <1>3, <1>6, <2>1
  <2>4. Regime(a, k, {s.lookback + 1}) <=> Regime(b, k, {s.lookback + 1})
    BY <1>5, <2>1
  <2> QED BY <2>2, <2>3, <2>4 DEF BreakoutRow
<1>8. ASSUME NEW s \in Pullback PROVE PullbackRow(s, a, k) <=> PullbackRow(s, b, k)
  <2> DEFINE counts == {s.slow, s.rising + s.fast, s.efficiency + 1}
  <2>1. s.reclaim \in Int /\ s.atr \in Int /\ s.trend \in Int /\ counts \in SUBSET Int
    BY DEF Pullback, Positive
  <2>2. \A j \in {k - 1, k} : /\ Run(a.five, j, s.reclaim) <=> Run(b.five, j, s.reclaim)
                              /\ Run(a.five, j, s.atr) <=> Run(b.five, j, s.atr)
    BY <1>3, <1>6, <2>1
  <2>3. Run(a.five, k, 2) <=> Run(b.five, k, 2)
    BY <1>3, <1>6
  <2>4. Run(a.five, k - 1, s.trend) <=> Run(b.five, k - 1, s.trend)
    BY <1>3, <1>6, <2>1
  <2>5. Regime(a, k, counts) <=> Regime(b, k, counts)
    BY <1>5, <2>1
  <2> QED BY <2>2, <2>3, <2>4, <2>5, Zenon DEF PullbackRow
<1>9. ASSUME NEW s \in Reversion PROVE ReversionRow(s, a, k) <=> ReversionRow(s, b, k)
  <2>1. s.vwap \in Nat /\ s.vwap + 1 \in Int /\ s.atr \in Int /\ {s.lookback + 1} \in SUBSET Int
    BY DEF Reversion, Positive
  <2>2. \A j \in {k - 1, k} : /\ Run(a.five, j, s.atr) <=> Run(b.five, j, s.atr)
                              /\ Run(a.five, j, s.vwap + 1) <=> Run(b.five, j, s.vwap + 1)
    BY <1>3, <1>6, <2>1
  <2>3. \A j \in {k - 1, k} : \A i \in (j - s.vwap)..(j - 1) :
          HasVolume(a, i, FiveMinutes) <=> HasVolume(b, i, FiveMinutes)
    <3> TAKE j \in {k - 1, k}
    <3> TAKE i \in (j - s.vwap)..(j - 1)
    <3>1. i \in Int /\ i <= k
      BY <2>1
    <3> QED BY <3>1, <1>4
  <2>4. Run(a.five, k, 2) <=> Run(b.five, k, 2)
    BY <1>3, <1>6
  <2>5. Regime(a, k, {s.lookback + 1}) <=> Regime(b, k, {s.lookback + 1})
    BY <1>5, <2>1
  <2> QED BY <2>2, <2>3, <2>4, <2>5, Zenon DEF ReversionRow
<1>10. ASSUME NEW s \in OrderFlow PROVE OrderFlowRow(s, a, k) <=> OrderFlowRow(s, b, k)
  <2> DEFINE F == {i \in a.five : HasVolume(a, i, FiveMinutes)}
             G == {i \in b.five : HasVolume(b, i, FiveMinutes)}
  <2>1. \A n \in Priors(s) : n + 1 \in Int
    BY DEF OrderFlow, Positive, Priors
  <2>2. \A i \in Int : i <= k => (i \in F <=> i \in G)
    BY <1>1, <1>2, <1>4 DEF SameFrames
  <2> HIDE DEF F, G
  <2>3. ASSUME NEW n \in Int PROVE Run(F, k, n) <=> Run(G, k, n)
    <3>1. \A i \in (k - n + 1)..k : i \in Int /\ i <= k
      OBVIOUS
    <3> QED BY <3>1, <2>2 DEF Run
  <2>4. (\A n \in Priors(s) : Run(F, k, n + 1)) <=> (\A n \in Priors(s) : Run(G, k, n + 1))
    BY <2>1, <2>3
  <2> QED BY <2>4 DEF OrderFlowRow, F, G
<1> QED BY <1>7, <1>8, <1>9, <1>10

\* Sleeves on hours.
LEMMA HourRowsAgree ==
  ASSUME NEW a, NEW b, NEW c \in Nat, SameUpTo(a, b, c),
         NEW h \in Int, (h + 1) * Hour <= c,
         NEW obs, NEW seen, \A i \in Int : (i + 1) * Hour <= c => (i \in obs <=> i \in seen)
  PROVE  /\ \A s \in RightTail \union Aligned : RightTailRow(s, a, h) <=> RightTailRow(s, b, h)
         /\ \A s \in Aligned : AlignedRow(s, a, h) <=> AlignedRow(s, b, h)
         /\ \A s \in Crowded : CrowdedRow(s, a, obs, h) <=> CrowdedRow(s, b, seen, h)
<1>1. /\ Hour \in Nat \ {0} /\ FourHours \in Nat \ {0} /\ a.four \subseteq Nat /\ b.four \subseteq Nat
      /\ SameFrames(a.hour, b.hour, Hour, c) /\ SameFrames(a.four, b.four, FourHours, c)
  BY FrameLengths DEF SameUpTo, Positive
<1>2. \A n \in Int : Run(a.hour, h, n) <=> Run(b.hour, h, n)
  BY <1>1, RunsAgree
<1>3. ASSUME NEW s \in RightTail \union Aligned
      PROVE  RightTailRow(s, a, h) <=> RightTailRow(s, b, h)
  <2>1. s.lookback + 1 \in Int /\ s.atr \in Int
    BY DEF RightTail, Aligned, Positive
  <2> QED BY <2>1, <1>2 DEF RightTailRow
<1>4. ASSUME NEW s \in Aligned PROVE AlignedRow(s, a, h) <=> AlignedRow(s, b, h)
  <2> DEFINE decision == (h + 1) * Hour
             S == {g \in a.four : Run(a.four, g, s.sma) /\ (g + 1) * FourHours <= decision}
             T == {g \in b.four : Run(b.four, g, s.sma) /\ (g + 1) * FourHours <= decision}
  <2>1. s.sma \in Int
    BY DEF Aligned, Positive
  <2>2. decision \in Int /\ \A g \in Int : (g + 1) * FourHours \in Int
    BY <1>1, Z3
  <2>3. ASSUME NEW g \in Nat, (g + 1) * FourHours <= decision
        PROVE  /\ g \in a.four <=> g \in b.four
               /\ Run(a.four, g, s.sma) <=> Run(b.four, g, s.sma)
    <3>1. (g + 1) * FourHours <= c
      BY <2>2, <2>3
    <3>2. Run(a.four, g, s.sma) <=> Run(b.four, g, s.sma)
      BY <3>1, <2>1, <1>1, RunsAgree
    <3> QED BY <3>1, <3>2, <1>1 DEF SameFrames
  <2>4. S = T
    BY <2>3, <1>1
  <2>5. RightTailRow(s, a, h) <=> RightTailRow(s, b, h)
    BY <1>3
  <2> DEFINE Fresh(X) == \E g \in X : /\ \A o \in X : o <= g
                                     /\ decision - (g + 1) * FourHours < FourHours
  <2>6. AlignedRow(s, a, h) <=> RightTailRow(s, a, h) /\ Fresh(S)
    BY Zenon DEF AlignedRow
  <2>7. AlignedRow(s, b, h) <=> RightTailRow(s, b, h) /\ Fresh(T)
    BY Zenon DEF AlignedRow
  <2> HIDE DEF S, T, decision, Fresh
  <2> QED BY <2>4, <2>5, <2>6, <2>7
<1>5. ASSUME NEW s \in Crowded PROVE CrowdedRow(s, a, obs, h) <=> CrowdedRow(s, b, seen, h)
  <2>1. s.lookback + 1 \in Int /\ s.atr \in Int /\ h - s.lookback \in Int /\ h - s.lookback <= h
    BY DEF Crowded, Positive
  <2>2. PICK g \in Int : g = h - s.lookback /\ g <= h
    BY <2>1
  <2>3. {h, h - s.lookback} \subseteq obs <=> {h, h - s.lookback} \subseteq seen
    <3>1. (g + 1) * Hour <= c
      BY <2>2, <1>1, EarlierFrame
    <3>2. (g \in obs <=> g \in seen) /\ (h \in obs <=> h \in seen)
      BY <3>1
    <3> QED BY <3>2, <2>2
  <2> QED BY <2>1, <2>3, <1>2 DEF CrowdedRow
<1> QED BY <1>3, <1>4, <1>5

\* The quarter-hour sleeve: the row is a minute.
LEMMA BoundaryAgrees ==
  ASSUME NEW a, NEW b, NEW c \in Nat, SameUpTo(a, b, c), NEW s \in Boundary,
         NEW m \in Nat, m + 1 <= c
  PROVE  BoundaryRow(s, a, m) <=> BoundaryRow(s, b, m)
<1>1. /\ QuarterHour \in Nat \ {0} /\ s.lags \in Nat /\ s.atr \in Int
      /\ SameFrames(a.minute, b.minute, 1, c) /\ SameFrames(a.quarter, b.quarter, QuarterHour, c)
      /\ \A n \in Nat : n < c => (n \in a.traded <=> n \in b.traded)
      /\ a.traded \subseteq Nat /\ b.traded \subseteq Nat
  BY FrameLengths DEF SameUpTo, Boundary, Positive
<1>2. s.lags * QuarterHour + 1 \in Int /\ \A lag \in 0..s.lags : lag * QuarterHour \in Nat
  BY <1>1, Z3
<1>3. Run(a.minute, m, s.lags * QuarterHour + 1) <=> Run(b.minute, m, s.lags * QuarterHour + 1)
  <2>1. (m + 1) * 1 <= c
    OBVIOUS
  <2> QED BY <2>1, <1>1, <1>2, RunsAgree
<1>4. ASSUME NEW lag \in 0..s.lags
      PROVE  m - lag * QuarterHour \in a.traded <=> m - lag * QuarterHour \in b.traded
  <2> DEFINE n == m - lag * QuarterHour
  <2>1. n \in Int /\ n < c
    BY <1>2
  <2> HIDE DEF n
  <2>2. n \in a.traded <=> n \in b.traded
    BY <2>1, <1>1
  <2> QED BY <2>2 DEF n
<1>5. Run(a.quarter, m \div QuarterHour - 1, s.atr) <=> Run(b.quarter, m \div QuarterHour - 1, s.atr)
  <2> DEFINE q == m \div QuarterHour
  <2>1. q \in Nat /\ m % QuarterHour \in 0..(QuarterHour - 1) /\ m = q * QuarterHour + (m % QuarterHour)
    BY <1>1, Division
  <2>2. q * QuarterHour \in Nat
    BY <2>1, <1>1, Z3
  <2> HIDE DEF q
  <2>3. q * QuarterHour <= c /\ q - 1 \in Int /\ (q - 1) + 1 = q
    BY <2>1, <2>2, <1>1
  <2>4. Run(a.quarter, q - 1, s.atr) <=> Run(b.quarter, q - 1, s.atr)
    BY <2>3, <1>1, RunsAgree
  <2> QED BY <2>4 DEF q
<1> QED BY <1>3, <1>4, <1>5 DEF BoundaryRow

\* A row that has closed by then reaches its rule in both or in neither.
LEMMA ReachesAgrees ==
  ASSUME NEW a, NEW b, NEW c \in Nat, SameUpTo(a, b, c), NEW s \in Sleeve,
         NEW k \in Nat, (k + 1) * FrameOf(s) <= c,
         NEW obs, NEW seen, \A i \in Int : (i + 1) * Hour <= c => (i \in obs <=> i \in seen)
  PROVE  ReachesRule(s, a, obs, k) <=> ReachesRule(s, b, seen, k)
<1>1. CASE s \in Breakout \union Pullback \union Reversion \union OrderFlow
  <2>1. (k + 1) * FiveMinutes <= c /\ k \in Int
    <3>1. FrameOf(s) = FiveMinutes
      BY <1>1 DEF FrameOf, Breakout, Pullback, Reversion, OrderFlow
    <3> QED BY <3>1
  <2>2. CASE s \in Breakout
    <3>1. s.kind = "breakout"
      BY <2>2 DEF Breakout
    <3>2. BreakoutRow(s, a, k) <=> BreakoutRow(s, b, k)
      BY <2>1, <2>2, FiveMinuteRowsAgree
    <3> QED BY <3>1, <3>2 DEF ReachesRule
  <2>3. CASE s \in Pullback
    <3>1. s.kind = "pullback"
      BY <2>3 DEF Pullback
    <3>2. PullbackRow(s, a, k) <=> PullbackRow(s, b, k)
      BY <2>1, <2>3, FiveMinuteRowsAgree
    <3> QED BY <3>1, <3>2 DEF ReachesRule
  <2>4. CASE s \in Reversion
    <3>1. s.kind = "reversion"
      BY <2>4 DEF Reversion
    <3>2. ReversionRow(s, a, k) <=> ReversionRow(s, b, k)
      BY <2>1, <2>4, FiveMinuteRowsAgree
    <3> QED BY <3>1, <3>2 DEF ReachesRule
  <2>5. CASE s \in OrderFlow
    <3>1. s.kind = "orderflow"
      BY <2>5 DEF OrderFlow
    <3>2. OrderFlowRow(s, a, k) <=> OrderFlowRow(s, b, k)
      BY <2>1, <2>5, FiveMinuteRowsAgree
    <3> QED BY <3>1, <3>2 DEF ReachesRule
  <2> QED BY <1>1, <2>2, <2>3, <2>4, <2>5
<1>2. CASE s \in RightTail \union Aligned \union Crowded
  <2>1. (k + 1) * Hour <= c /\ k \in Int
    <3>1. FrameOf(s) = Hour
      BY <1>2 DEF FrameOf, RightTail, Aligned, Crowded
    <3> QED BY <3>1
  <2>2. CASE s \in RightTail
    <3>1. s.kind = "right_tail"
      BY <2>2 DEF RightTail
    <3>2. RightTailRow(s, a, k) <=> RightTailRow(s, b, k)
      BY <2>1, <2>2, HourRowsAgree
    <3> QED BY <3>1, <3>2 DEF ReachesRule
  <2>3. CASE s \in Aligned
    <3>1. s.kind = "aligned"
      BY <2>3 DEF Aligned
    <3>2. AlignedRow(s, a, k) <=> AlignedRow(s, b, k)
      BY <2>1, <2>3, HourRowsAgree
    <3> QED BY <3>1, <3>2 DEF ReachesRule
  <2>4. CASE s \in Crowded
    <3>1. s.kind = "crowded"
      BY <2>4 DEF Crowded
    <3>2. CrowdedRow(s, a, obs, k) <=> CrowdedRow(s, b, seen, k)
      BY <2>1, <2>4, HourRowsAgree
    <3> QED BY <3>1, <3>2 DEF ReachesRule
  <2> QED BY <1>2, <2>2, <2>3, <2>4
<1>3. CASE s \in Boundary
  <2>1. s.kind = "boundary"
    BY <1>3 DEF Boundary
  <2>2. FrameOf(s) = 1
    BY <2>1 DEF FrameOf
  <2>3. k + 1 <= c
    BY <2>2
  <2>4. BoundaryRow(s, a, k) <=> BoundaryRow(s, b, k)
    BY <2>3, <1>3, BoundaryAgrees
  <2> QED BY <2>1, <2>4 DEF ReachesRule
<1>4. CASE s \in MovingAverage
  <2>1. s.kind = "moving_average" /\ s.sma \in Int /\ FourHours \in Nat \ {0}
    BY <1>4, FrameLengths DEF MovingAverage, Positive
  <2>2. FrameOf(s) = FourHours
    BY <2>1 DEF FrameOf
  <2>3. (k + 1) * FourHours <= c /\ k \in Int
    BY <2>2
  <2>4. SameFrames(a.four, b.four, FourHours, c)
    BY DEF SameUpTo
  <2>5. Run(a.four, k, s.sma) <=> Run(b.four, k, s.sma)
    BY <2>1, <2>3, <2>4, RunsAgree
  <2> QED BY <2>1, <2>5 DEF ReachesRule, MovingAverageRow
<1> QED BY <1>1, <1>2, <1>3, <1>4 DEF Sleeve

\* So the decisions of the past stay what they were.
LEMMA DecisionsAgree ==
  ASSUME NEW rows, NEW all, Continues(rows, all), NEW s \in Sleeve,
         NEW obs, NEW seen,
         \A i \in Int : (i + 1) * Hour <= Closed(rows) => (i \in obs <=> i \in seen)
  PROVE  {m \in Decisions(s, all, seen) : m <= Closed(rows)} = Decisions(s, rows, obs)
<1> DEFINE size == FrameOf(s)
           c == Closed(rows)
           a == TimeFrames(rows)
           b == TimeFrames(all)
<1>1. size \in Nat \ {0}
  BY FrameLength
<1>2. c \in Nat
  <2>1. rows[Len(rows)] \in Bar
    <3>1. Len(rows) \in 1..Len(rows)
      BY DEF Continues
    <3> QED BY <3>1, ElementOfSeq DEF Continues
  <2> QED BY <2>1 DEF Closed, Bar
<1>3. SameUpTo(a, b, c)
  BY FeaturesAgree
<1>4. /\ SameFrames(Frames(rows, size), Frames(all, size), size, c)
      /\ \A k \in Frames(rows, size) : (k + 1) * size <= c
  <2> HIDE DEF size
  <2> QED BY <1>1, FramesAgree
<1>5. Frames(rows, size) \subseteq Nat /\ Frames(all, size) \subseteq Nat
  BY DEF Frames
<1>6. Decisions(s, rows, obs) = {(k + 1) * size : k \in {j \in Frames(rows, size) : ReachesRule(s, a, obs, j)}}
  BY Zenon DEF Decisions
<1>7. Decisions(s, all, seen) = {(k + 1) * size : k \in {j \in Frames(all, size) : ReachesRule(s, b, seen, j)}}
  BY Zenon DEF Decisions
<1> DEFINE F == Frames(rows, size)
           G == Frames(all, size)
           old(j) == ReachesRule(s, a, obs, j)
           new(j) == ReachesRule(s, b, seen, j)
<1>8. ASSUME NEW k \in Nat, (k + 1) * size <= c PROVE old(k) <=> new(k)
  <2> HIDE DEF a, b, c
  <2> QED BY <1>2, <1>3, <1>8, ReachesAgrees DEF c
<1> HIDE DEF size, c, a, b, F, G, old, new
<1>9. \A k \in Nat : (k + 1) * size <= c => (k \in F <=> k \in G) /\ (old(k) <=> new(k))
  BY <1>4, <1>8 DEF SameFrames, F, G
<1>10. F \subseteq Nat /\ G \subseteq Nat /\ \A k \in F : (k + 1) * size <= c
  BY <1>4, <1>5 DEF F, G
<1>11. {m \in {(k + 1) * size : k \in {j \in G : new(j)}} : m <= c}
         = {(k + 1) * size : k \in {j \in F : old(j)}}
  BY <1>9, <1>10
<1> QED BY <1>6, <1>7, <1>11 DEF F, G, old, new, c

LEMMA OneMoreBar ==
  ASSUME LiveInv, tape # <<>>, NEW traded \in BOOLEAN, tape' = Append(tape, Minute(traded))
  PROVE  Continues(tape, tape') /\ Closed(tape) <= clock
<1> DEFINE b == Minute(traded)
           more == <<b>>
<1>1. tape \in Seq(Bar) /\ clock \in Nat /\ Ordered(tape, clock)
  BY DEF LiveInv, SleevesTypeOK, Ordered
<1>2. b \in Bar /\ b.open = clock
  BY <1>1 DEF Minute, Bar
<1> HIDE DEF b
<1>3. more \in Seq(Bar) /\ Len(more) = 1 /\ more[1] = b
  BY <1>2
<1>4. \A i \in 1..Len(more) : more[i].open = clock + i - 1
  BY <1>1, <1>2, <1>3
<1>5. tape' = tape \o more
  BY <1>1, <1>2, AppendIsConcat DEF b
<1> HIDE DEF more
<1> QED BY <1>1, <1>3, <1>4, <1>5, ArchiveContinues

LEMMA ArchiveGoesOn ==
  ASSUME LiveInv, LiveNext, tape # <<>>, tape' # tape
  PROVE  /\ Continues(tape, tape')
         /\ \A i \in Int : (i + 1) * Hour <= Closed(tape) => (i \in observed <=> i \in observed')
<1>1. CASE Deliver
  <2>1. PICK traded \in BOOLEAN : tape' = Append(tape, Minute(traded))
    BY <1>1 DEF Deliver, Tick
  <2>2. observed' = observed
    BY <1>1 DEF Deliver
  <2> QED BY <2>1, <2>2, OneMoreBar
<1>2. CASE Archive
  <2>1. tape' = Append(tape, Minute(TRUE))
    BY <1>2 DEF Archive, Tick
  <2>2. Continues(tape, tape') /\ Closed(tape) <= clock
    BY <2>1, OneMoreBar
  <2>3. ASSUME NEW i \in Int, (i + 1) * Hour <= Closed(tape) PROVE i # clock \div Hour
    <3> DEFINE q == clock \div Hour
               c == Closed(tape)
    <3>1. /\ Hour \in Nat \ {0} /\ clock \in Nat /\ c \in Int
      <4>1. tape[Len(tape)] \in Bar
        <5>1. Len(tape) \in 1..Len(tape)
          BY <2>2 DEF Continues
        <5> QED BY <5>1, <2>2, ElementOfSeq DEF Continues
      <4> QED BY <4>1, FrameLengths DEF LiveInv, SleevesTypeOK, Positive, Closed, Bar
    <3>2. q \in Nat /\ clock = q * Hour + (clock % Hour) /\ clock % Hour \in 0..(Hour - 1)
      BY <3>1, Division
    <3>3. (q + 1) * Hour = q * Hour + Hour /\ q * Hour \in Nat
      BY <3>1, <3>2, Z3
    <3>4. c <= clock /\ (i + 1) * Hour <= c
      BY <2>2, <2>3
    <3> HIDE DEF q, c
    <3>5. (q + 1) * Hour > c
      BY <3>1, <3>2, <3>3, <3>4
    <3>6. i # q
      BY <3>1, <3>4, <3>5, <3>3
    <3> QED BY <3>6 DEF q
  <2>4. observed' = observed \/ observed' = observed \union {clock \div Hour}
    BY <1>2 DEF Archive
  <2> QED BY <2>2, <2>3, <2>4
<1>3. CASE Outage \/ Resume
  <2>1. PICK n \in OutageLengths \union {0} : tape' = tape \o Missed(n)
    BY <1>3 DEF Outage, Resume
  <2>2. observed' = observed
    BY <1>3 DEF Outage, Resume
  <2>3. n \in Nat /\ clock \in Nat /\ tape \in Seq(Bar) /\ Ordered(tape, clock)
    BY TimeAssumption DEF LiveInv, SleevesTypeOK, Ordered
  <2>4. /\ Missed(n) \in Seq(Bar) /\ Len(Missed(n)) = n
        /\ \A i \in 1..n : Missed(n)[i].open = clock + i - 1
    BY <2>3 DEF Missed, Bar
  <2> QED BY <2>1, <2>2, <2>3, <2>4, ArchiveContinues
<1> QED BY <1>1, <1>2, <1>3 DEF LiveNext

\* Nothing looks ahead: the archive that grows, through outages and missing
\* factors, changes no decision of its past, for every sleeve.
THEOREM PastIsFinal == LiveSpec => DecisionsAreFinal
<1> DEFINE Final == tape # <<>> /\ tape' # tape =>
                      {m \in Decisions(sleeve, tape', observed') : m <= Closed(tape)} = Reaching(tape)
<1>1. LiveInv /\ [LiveNext]_liveVars => [Final]_liveVars
  <2> SUFFICES ASSUME LiveInv, LiveNext, tape # <<>>, tape' # tape
               PROVE  {m \in Decisions(sleeve, tape', observed') : m <= Closed(tape)} = Reaching(tape)
    OBVIOUS
  <2>1. sleeve \in Sleeve
    BY ConfigurationsAssumption DEF LiveInv, SleevesTypeOK
  <2> QED BY <2>1, ArchiveGoesOn, DecisionsAgree DEF Reaching
<1>2. LiveInv /\ [LiveNext]_liveVars => LiveInv'
  BY LiveStep
<1>3. LiveInit => LiveInv
  BY SleevesStart
<1> QED BY <1>1, <1>2, <1>3, PTL DEF LiveSpec, DecisionsAreFinal

--------------------------------------------------------------------------
(* What the rolling window decides, the archive decides.                   *)

\* The first minute of rows without a gap.
First(rows) == Closed(rows) - Len(rows)

\* Rows without a gap that the archive ends with.
Ends(rows, all) ==
  /\ Consecutive(rows) /\ all \in Seq(Bar) /\ all # <<>> /\ Closed(all) = Closed(rows)
  /\ \A i \in 1..Len(rows) : \E j \in 1..Len(all) : all[j] = rows[i]
  /\ \A j \in 1..Len(all) :
       \/ all[j].open < First(rows)
       \/ \E i \in 1..Len(rows) : all[j] = rows[i]

LEMMA EndsWithWindow ==
  ASSUME NEW rows, Consecutive(rows), NEW all \in Seq(Bar), NEW minute, Ordered(all, minute),
         EndOf(rows, all)
  PROVE  Ends(rows, all)
<1> DEFINE n == Len(rows)
           d == Len(all) - n
<1>1. rows \in Seq(Bar) /\ n \in Nat \ {0} /\ d \in Nat /\ Len(all) = d + n /\ Len(all) \in Nat
  BY DEF Consecutive, EndOf
<1>2. \A i \in 1..n : rows[i] = all[d + i]
  BY <1>1, EndBarByBar DEF EndOf
<1>3. \A j \in 1..Len(all) : all[j].open \in Nat
  <2> TAKE j \in 1..Len(all)
  <2>1. all[j] \in Bar
    OBVIOUS
  <2> QED BY <2>1 DEF Bar
<1> HIDE DEF d
<1>4. Closed(all) = Closed(rows) /\ all # <<>>
  <2>1. rows[n] = all[Len(all)]
    BY <1>1, <1>2
  <2> QED BY <2>1, <1>1 DEF Closed
<1>5. ASSUME NEW i \in 1..n PROVE d + i \in 1..Len(all) /\ all[d + i] = rows[i]
  BY <1>1, <1>2
<1>6. rows[1].open = First(rows)
  <2>1. 1 \in 1..n /\ Closed(rows) \in Nat
    BY <1>1, WindowMinutes
  <2>2. rows[1].open = Closed(rows) - 1 - (n - 1)
    BY <2>1 DEF Consecutive
  <2> QED BY <2>1, <2>2, <1>1 DEF First
<1>7. ASSUME NEW j \in 1..Len(all)
      PROVE  all[j].open < First(rows) \/ \E i \in 1..n : all[j] = rows[i]
  <2>1. CASE j <= d
    <3>1. d + 1 \in 1..Len(all) /\ j < d + 1 /\ all[d + 1] = rows[1]
      BY <2>1, <1>1, <1>2
    <3>2. all[j].open < all[d + 1].open
      BY <3>1, OrderedThroughout
    <3> QED BY <3>1, <3>2, <1>6
  <2>2. CASE ~(j <= d)
    <3>1. j - d \in 1..n /\ d + (j - d) = j
      BY <2>2, <1>1
    <3>2. rows[j - d] = all[j]
      BY <3>1, <1>2
    <3> QED BY <3>1, <3>2
  <2> QED BY <2>1, <2>2
<1> QED BY <1>4, <1>5, <1>7 DEF Ends

\* The complete frames of such rows are those of the archive that begin with
\* them or later, and so is the volume.
LEMMA FramesAreCut ==
  ASSUME NEW rows, NEW all, Ends(rows, all)
  PROVE  /\ First(rows) \in Nat /\ Closed(rows) \in Nat /\ Closed(rows) = Closed(all)
         /\ \A size \in Nat \ {0} :
              /\ Frames(rows, size) = {k \in Frames(all, size) : First(rows) <= k * size}
              /\ \A k \in Frames(all, size) : k \in Nat /\ (k + 1) * size <= Closed(rows)
         /\ TimeFrames(rows).traded = {m \in TimeFrames(all).traded : First(rows) <= m}
         /\ TimeFrames(all).traded \subseteq Nat
         /\ \A m \in Minutes(all) : m \in Nat /\ m < Closed(rows)
         /\ \A m \in Minutes(rows) : m \in Nat /\ m < Closed(rows)
<1> DEFINE c == Closed(rows)
           f == First(rows)
<1>1. Consecutive(rows) /\ all \in Seq(Bar) /\ Closed(all) = c
  BY DEF Ends
<1>2. /\ c \in Nat /\ Len(rows) \in 1..c
      /\ \A m \in Int : m \in Minutes(rows) <=> f <= m /\ m < c
  BY <1>1, WindowMinutes DEF Minutes, First
<1>3. f \in Nat /\ f = c - Len(rows)
  BY <1>2 DEF First
<1>4. /\ \A i \in 1..Len(rows) : rows[i].open \in Nat
      /\ \A j \in 1..Len(all) : all[j].open \in Nat
  <2>1. \A i \in 1..Len(rows) : rows[i] \in Bar
    BY <1>1, ElementOfSeq DEF Consecutive
  <2>2. \A j \in 1..Len(all) : all[j] \in Bar
    BY <1>1
  <2> QED BY <2>1, <2>2 DEF Bar
<1> HIDE DEF c, f
<1>5. \A m \in Minutes(rows) : m \in Nat /\ m < c /\ m \in Minutes(all)
  <2> SUFFICES ASSUME NEW i \in 1..Len(rows)
               PROVE  rows[i].open \in Nat /\ rows[i].open < c /\ rows[i].open \in Minutes(all)
    BY DEF Minutes
  <2>1. rows[i].open \in Minutes(rows) /\ rows[i].open \in Nat
    BY <1>4 DEF Minutes
  <2>2. PICK j \in 1..Len(all) : all[j] = rows[i]
    BY DEF Ends
  <2>3. rows[i].open \in Minutes(all)
    BY <2>2 DEF Minutes
  <2>4. rows[i].open < c
    BY <2>1, <1>2
  <2> QED BY <2>1, <2>3, <2>4
<1>6. \A m \in Minutes(all) : m \in Nat /\ m < c
  <2> SUFFICES ASSUME NEW j \in 1..Len(all) PROVE all[j].open \in Nat /\ all[j].open < c
    BY DEF Minutes
  <2>1. all[j].open \in Nat
    BY <1>4
  <2>2. CASE all[j].open < f
    BY <2>1, <2>2, <1>2, <1>3
  <2>3. CASE \E i \in 1..Len(rows) : all[j] = rows[i]
    <3>1. all[j].open \in Minutes(rows)
      BY <2>3 DEF Minutes
    <3> QED BY <3>1, <1>5
  <2> QED BY <2>1, <2>2, <2>3 DEF Ends, f
<1>7. ASSUME NEW size \in Nat \ {0}
      PROVE  /\ Frames(rows, size) = {k \in Frames(all, size) : f <= k * size}
             /\ \A k \in Frames(all, size) : k \in Nat /\ (k + 1) * size <= c
  <2>1. \A k \in Nat : k * size \in Nat /\ (k + 1) * size = k * size + size
    BY Z3
  <2>2. ASSUME NEW k \in Frames(all, size) PROVE k \in Nat /\ k * size + size <= c
    <3>1. k \in Nat /\ (k * size)..(k * size + size - 1) \subseteq Minutes(all)
      BY <2>2 DEF Frames
    <3>2. k * size + size - 1 \in (k * size)..(k * size + size - 1)
      BY <2>1, <3>1
    <3>3. k * size + size - 1 < c
      BY <3>1, <3>2, <1>6
    <3> QED BY <3>1, <3>3, <2>1, <1>2
  <2>3. \A k \in Frames(rows, size) : k \in Frames(all, size) /\ f <= k * size
    <3> TAKE k \in Frames(rows, size)
    <3>1. /\ k \in Nat /\ k \in 0..(c \div size)
          /\ (k * size)..(k * size + size - 1) \subseteq Minutes(rows)
      BY DEF Frames, c
    <3>2. f <= k * size
      BY <3>1, <1>1, <1>3, FramesBetweenEnds DEF c
    <3>3. (k * size)..(k * size + size - 1) \subseteq Minutes(all)
      BY <3>1, <1>5
    <3> QED BY <3>1, <3>2, <3>3, <1>1 DEF Frames, c
  <2>4. \A k \in Frames(all, size) : f <= k * size => k \in Frames(rows, size)
    <3> SUFFICES ASSUME NEW k \in Frames(all, size), f <= k * size PROVE k \in Frames(rows, size)
      OBVIOUS
    <3>1. k \in Nat /\ k \in 0..(c \div size) /\ k * size + size <= c
      BY <2>2, <1>1 DEF Frames
    <3> QED BY <3>1, <1>1, <1>3, FramesBetweenEnds DEF c
  <2> QED BY <2>1, <2>2, <2>3, <2>4
<1>8. TimeFrames(all).traded \subseteq Nat
  BY <1>4 DEF TimeFrames
<1>9. ASSUME NEW m \in Nat
      PROVE  m \in TimeFrames(rows).traded <=> m \in TimeFrames(all).traded /\ f <= m
  <2>1. ASSUME NEW i \in 1..Len(rows), rows[i].open = m, rows[i].traded
        PROVE  m \in TimeFrames(all).traded /\ f <= m
    <3>1. PICK j \in 1..Len(all) : all[j] = rows[i]
      BY DEF Ends
    <3>2. m \in Minutes(rows)
      BY <2>1 DEF Minutes
    <3> QED BY <3>1, <3>2, <2>1, <1>2 DEF TimeFrames
  <2>2. ASSUME NEW j \in 1..Len(all), all[j].open = m, all[j].traded, f <= m
        PROVE  m \in TimeFrames(rows).traded
    <3>1. all[j].open < First(rows) \/ \E i \in 1..Len(rows) : all[j] = rows[i]
      BY DEF Ends
    <3>2. ~(all[j].open < First(rows))
      BY <2>2, <1>3 DEF f
    <3>3. PICK i \in 1..Len(rows) : all[j] = rows[i]
      BY <3>1, <3>2
    <3>4. rows[i].open = m /\ rows[i].traded
      BY <3>3, <2>2
    <3> QED BY <3>4 DEF TimeFrames
  <2>3. m \in TimeFrames(rows).traded => \E i \in 1..Len(rows) : rows[i].open = m /\ rows[i].traded
    BY DEF TimeFrames
  <2>4. m \in TimeFrames(all).traded => \E j \in 1..Len(all) : all[j].open = m /\ all[j].traded
    BY DEF TimeFrames
  <2> QED BY <2>1, <2>2, <2>3, <2>4
<1>10. TimeFrames(rows).traded \subseteq Nat
  BY <1>4 DEF TimeFrames
<1>11. TimeFrames(rows).traded = {m \in TimeFrames(all).traded : f <= m}
  BY <1>8, <1>9, <1>10
<1> QED BY <1>1, <1>2, <1>3, <1>5, <1>6, <1>7, <1>8, <1>11 DEF c, f

\* The last hour that has closed with these rows, known and in the segment.
LastHourRegime(rows, counts) ==
  LET last == Closed(rows) \div Hour - 1
  IN  /\ last \in Frames(rows, Hour)
      /\ \A i \in (((last + 1) * Hour - 1) \div FiveMinutes)..(Closed(rows) \div FiveMinutes - 1) :
           i \in Frames(rows, FiveMinutes)
      /\ \A n \in counts : Run(Frames(rows, Hour), last, n)

\* An hour that the five-minute segment covers is complete, so the regime of
\* a last row is never that of an older hour.
LEMMA RegimeIsLastHour ==
  ASSUME NEW rows, Closed(rows) \in Nat, \A m \in Minutes(rows) : m \in Nat /\ m < Closed(rows),
         Closed(rows) % FiveMinutes = 0, NEW counts
  PROVE  Regime(TimeFrames(rows), Closed(rows) \div FiveMinutes - 1, counts)
           <=> LastHourRegime(rows, counts)
<1> DEFINE c == Closed(rows)
           k == c \div FiveMinutes - 1
           last == c \div Hour - 1
           hours == Frames(rows, Hour)
           fives == Frames(rows, FiveMinutes)
           tf == TimeFrames(rows)
<1>1. /\ c \in Nat /\ FiveMinutes \in Nat \ {0} /\ Hour \in Nat \ {0}
      /\ \A m \in Minutes(rows) : m \in Nat /\ m < c
  BY FrameLengths DEF Positive
<1>2. tf.hour = hours /\ tf.five = fives /\ hours \subseteq Nat
  BY DEF TimeFrames, Frames
<1>3. k \in Int /\ last \in Int /\ c = (k + 1) * FiveMinutes /\ c \div Hour \in Nat
  <2> DEFINE q == c \div FiveMinutes
  <2>1. q \in Nat /\ c \div Hour \in Nat /\ c = q * FiveMinutes + (c % FiveMinutes)
    BY <1>1, Division
  <2>2. c % FiveMinutes = 0 /\ q * FiveMinutes \in Nat
    BY <2>1, <1>1, Z3
  <2>3. k = q - 1 /\ last = c \div Hour - 1
    OBVIOUS
  <2> HIDE DEF c, q, k, last
  <2>4. k + 1 = q /\ c = q * FiveMinutes
    BY <2>1, <2>2, <2>3
  <2> QED BY <2>1, <2>3, <2>4
<1>4. \A g \in Int : (g + 1) * Hour <= c <=> g <= last
  <2> HIDE DEF c
  <2> QED BY <1>1, LastClosed
<1>5. \A g \in Nat : (g + 1) * Hour = g * Hour + Hour /\ g * Hour \in Nat
  BY <1>1, Z3
<1>6. \A i \in Nat : (i + 1) * FiveMinutes = i * FiveMinutes + FiveMinutes /\ i * FiveMinutes \in Nat
  BY <1>1, Z3
<1>7. \A i \in fives : i \in Nat /\ (i * FiveMinutes)..(i * FiveMinutes + FiveMinutes - 1) \subseteq Minutes(rows)
  BY DEF Frames
<1>8. \A g \in Nat : /\ g \in 0..(c \div Hour)
                     /\ (g * Hour)..(g * Hour + Hour - 1) \subseteq Minutes(rows)
                     => g \in hours
  BY DEF Frames
<1> HIDE DEF c, k, last, hours, fives, tf
<1>9. ASSUME NEW h \in hours, LatestHour(tf, k, h),
             \A i \in (((h + 1) * Hour - 1) \div FiveMinutes)..k : i \in fives
      PROVE  h = last
  <2> DEFINE e == (h + 1) * Hour
             j == (e - 1) \div FiveMinutes
  <2>1. h \in Nat /\ e <= c /\ \A g \in hours : (g + 1) * Hour <= c => g <= h
    BY <1>2, <1>3, <1>9 DEF LatestHour
  <2>2. h <= last
    BY <2>1, <1>4
  <2>3. e \in Nat /\ e - 1 \in Nat /\ e = (h + 1) * Hour /\ h + 1 \in Nat
    BY <2>1, <1>1, <1>5
  <2>4. \A i \in j..k : i \in fives
    BY <1>9
  <2>5. ASSUME h # last PROVE FALSE
    <3>1. h + 1 <= last /\ h + 1 \in Int
      BY <2>1, <2>2, <2>5, <1>3
    <3>2. ((h + 1) + 1) * Hour <= c
      BY <3>1, <1>4
    <3>3. e + Hour <= c
      BY <3>2, <2>3, <1>5
    <3> HIDE DEF e
    <3>4. j \in Nat /\ j * FiveMinutes <= e - 1
      <4>1. /\ j \in Nat /\ (e - 1) % FiveMinutes \in 0..(FiveMinutes - 1)
            /\ e - 1 = j * FiveMinutes + ((e - 1) % FiveMinutes)
        BY <2>3, <1>1, Division
      <4>2. j * FiveMinutes \in Nat
        BY <4>1, <1>6
      <4> HIDE DEF j
      <4> QED BY <4>1, <4>2, <1>1
    <3> HIDE DEF j
    <3>5. ASSUME NEW m \in e..(e + Hour - 1) PROVE m \in Minutes(rows)
      <4> DEFINE i == m \div FiveMinutes
                 x == m % FiveMinutes
      <4>1. m \in Nat /\ e <= m /\ m < c
        BY <2>3, <3>3, <1>1
      <4>2. i \in Nat /\ x \in 0..(FiveMinutes - 1) /\ m = i * FiveMinutes + x
        BY <4>1, <1>1, Division
      <4> HIDE DEF i, x
      <4>3. i * FiveMinutes \in Nat /\ (i + 1) * FiveMinutes = i * FiveMinutes + FiveMinutes
        BY <4>2, <1>6
      <4>4. ~((i + 1) * FiveMinutes <= j * FiveMinutes)
        <5>1. j * FiveMinutes \in Nat
          BY <3>4, <1>6
        <5> QED BY <5>1, <3>4, <4>1, <4>2, <4>3, <2>3, <1>1
      <4>5. j <= i
        <5>1. i + 1 <= j => (i + 1) * FiveMinutes <= j * FiveMinutes
          BY <4>2, <3>4, <1>1, Multiples
        <5> QED BY <5>1, <4>4, <4>2, <3>4
      <4>6. ~((k + 1) * FiveMinutes <= i * FiveMinutes)
        BY <4>1, <4>2, <4>3, <1>1, <1>3
      <4>7. i <= k
        <5>1. k + 1 <= i => (k + 1) * FiveMinutes <= i * FiveMinutes
          BY <4>2, <1>1, <1>3, Multiples
        <5> QED BY <5>1, <4>6, <4>2, <1>3
      <4>8. i \in fives
        BY <4>2, <4>5, <4>7, <2>4, <3>4, <1>3
      <4>9. m \in (i * FiveMinutes)..(i * FiveMinutes + FiveMinutes - 1)
        BY <4>2, <4>3, <1>1
      <4> QED BY <4>8, <4>9, <1>7
    <3>6. h + 1 \in hours
      <4>1. h + 1 \in 0..(c \div Hour)
        BY <3>1, <2>3, <1>3 DEF last
      <4> QED BY <4>1, <3>5, <2>3, <1>8 DEF e
    <3> QED BY <3>2, <3>6, <2>1
  <2> QED BY <2>5
<1>10. last \in hours => LatestHour(tf, k, last)
  <2>1. /\ (last + 1) * Hour <= c
        /\ \A g \in hours : (g + 1) * Hour <= c => g <= last
    <3>1. last <= last /\ \A g \in hours : g \in Int
      BY <1>2, <1>3
    <3> QED BY <3>1, <1>3, <1>4
  <2> QED BY <2>1, <1>2, <1>3 DEF LatestHour
<1>11. Regime(tf, k, counts) <=>
         /\ last \in hours
         /\ \A i \in (((last + 1) * Hour - 1) \div FiveMinutes)..k : i \in fives
         /\ \A n \in counts : Run(hours, last, n)
  <2>1. Regime(tf, k, counts) <=>
          \E h \in hours : /\ LatestHour(tf, k, h)
                           /\ \A i \in (((h + 1) * Hour - 1) \div FiveMinutes)..k : i \in fives
                           /\ \A n \in counts : Run(hours, h, n)
    BY <1>2 DEF Regime
  <2> QED BY <2>1, <1>9, <1>10
<1> QED BY <1>11 DEF LastHourRegime, c, k, last, hours, fives, tf

\* A 4h state that is not older than one frame is that of the last frame.
LEMMA LatestStateIsLast ==
  ASSUME NEW F, F \subseteq Nat, NEW decision \in Nat, NEW n \in Nat \ {0}
  PROVE  LET states == {g \in F : Run(F, g, n) /\ (g + 1) * FourHours <= decision}
         IN  (\E g \in states : /\ \A o \in states : o <= g
                                /\ decision - (g + 1) * FourHours < FourHours)
               <=> Run(F, decision \div FourHours - 1, n)
<1> DEFINE last == decision \div FourHours - 1
           states == {g \in F : Run(F, g, n) /\ (g + 1) * FourHours <= decision}
<1>1. FourHours \in Nat \ {0} /\ decision \div FourHours \in Nat /\ last \in Int
  BY FrameLengths, Division DEF Positive
<1>2. \A g \in Int : /\ (g + 1) * FourHours <= decision <=> g <= last
                     /\ (g + 1) * FourHours <= decision /\ decision - (g + 1) * FourHours < FourHours
                          <=> g = last
  BY <1>1, LastClosed
<1> HIDE DEF last
<1>3. Run(F, last, n) => last \in F
  BY <1>1, Runs
<1>4. states = {g \in F : Run(F, g, n) /\ g <= last}
  <2>1. \A g \in F : (g + 1) * FourHours <= decision <=> g <= last
    BY <1>2
  <2> QED BY <2>1
<1>5. ASSUME NEW g \in states, decision - (g + 1) * FourHours < FourHours
      PROVE  Run(F, last, n)
  <2>1. g \in Int /\ Run(F, g, n) /\ (g + 1) * FourHours <= decision
    OBVIOUS
  <2> QED BY <2>1, <1>2, <1>5
<1>6. ASSUME Run(F, last, n)
      PROVE  /\ last \in states /\ \A o \in states : o <= last
             /\ decision - (last + 1) * FourHours < FourHours
  <2>1. last \in F /\ last <= last /\ decision - (last + 1) * FourHours < FourHours
    BY <1>1, <1>2, <1>3, <1>6
  <2> HIDE DEF states
  <2> QED BY <2>1, <1>4, <1>6
<1> HIDE DEF states
<1> QED BY <1>5, <1>6 DEF states, last

LEMMA RunsGrow ==
  ASSUME NEW F, NEW G, F \subseteq G, NEW k, NEW n, Run(F, k, n)
  PROVE  Run(G, k, n)
BY DEF Run

\* The minute at which the rows end is that of their last frame.
LEMMA LastFrameEnds ==
  ASSUME NEW size \in Nat \ {0}, NEW c \in Nat, c % size = 0
  PROVE  c \div size - 1 \in Int /\ ((c \div size - 1) + 1) * size = c
<1> DEFINE q == c \div size
<1>1. q \in Nat /\ c = q * size + (c % size) /\ (q - 1) + 1 = q
  BY Division
<1>2. q * size \in Nat
  BY <1>1, Z3
<1> HIDE DEF q
<1>3. c = q * size
  BY <1>1, <1>2
<1> QED BY <1>1, <1>3 DEF q

LEMMA AlignedAtEnd ==
  ASSUME NEW s \in Aligned, NEW rows, Closed(rows) \in Nat, Closed(rows) % Hour = 0
  PROVE  AlignedRow(s, TimeFrames(rows), Closed(rows) \div Hour - 1) <=>
           /\ RightTailRow(s, TimeFrames(rows), Closed(rows) \div Hour - 1)
           /\ Run(Frames(rows, FourHours), Closed(rows) \div FourHours - 1, s.sma)
<1> DEFINE c == Closed(rows)
           k == c \div Hour - 1
           F == Frames(rows, FourHours)
           decision == (k + 1) * Hour
           states == {g \in F : Run(F, g, s.sma) /\ (g + 1) * FourHours <= decision}
<1>1. decision = c
  <2>1. Hour \in Nat \ {0}
    BY FrameLengths DEF Positive
  <2> QED BY <2>1, LastFrameEnds
<1>2. AlignedRow(s, TimeFrames(rows), k) <=>
        /\ RightTailRow(s, TimeFrames(rows), k)
        /\ \E g \in states : (\A o \in states : o <= g) /\ decision - (g + 1) * FourHours < FourHours
  <2>1. TimeFrames(rows).four = F
    BY DEF TimeFrames
  <2> QED BY <2>1, Zenon DEF AlignedRow
<1>3. F \subseteq Nat /\ s.sma \in Nat \ {0}
  BY DEF Frames, Aligned, Positive
<1> HIDE DEF F, k
<1>4. (\E g \in states : (\A o \in states : o <= g) /\ decision - (g + 1) * FourHours < FourHours)
        <=> Run(F, c \div FourHours - 1, s.sma)
  <2> HIDE DEF c, decision
  <2>1. c \in Nat
    BY DEF c
  <2> QED BY <1>1, <1>3, <2>1, LatestStateIsLast
<1> HIDE DEF states, decision, c
<1> QED BY <1>2, <1>4, Zenon DEF c, F, k

\* More rows before them take nothing from what the last rows decide.
LEMMA ArchiveDecidesToo ==
  ASSUME NEW rows, NEW all, Ends(rows, all), NEW s \in Sleeve, NEW obs, Decides(s, rows, obs)
  PROVE  Decides(s, all, obs)
<1> DEFINE c == Closed(rows)
           size == FrameOf(s)
           k == c \div size - 1
           a == TimeFrames(rows)
           b == TimeFrames(all)
<1>1. /\ c \in Nat /\ Closed(all) = c /\ size \in Nat \ {0}
      /\ \A m \in Minutes(all) : m \in Nat /\ m < c
      /\ \A m \in Minutes(rows) : m \in Nat /\ m < c
      /\ \A n \in Nat \ {0} : Frames(rows, n) \subseteq Frames(all, n)
  BY FramesAreCut, FrameLength
<1>2. /\ a.minute \subseteq b.minute /\ a.five \subseteq b.five /\ a.quarter \subseteq b.quarter
      /\ a.hour \subseteq b.hour /\ a.four \subseteq b.four
  <2>1. 1 \in Nat \ {0}
    OBVIOUS
  <2> QED BY <2>1, <1>1, FrameLengths DEF TimeFrames, Positive
<1>3. a.traded \subseteq b.traded
  <2>1. a.traded = {m \in b.traded : First(rows) <= m}
    BY FramesAreCut
  <2> QED BY <2>1
<1>4. c % size = 0 /\ k \in Frames(rows, size) /\ ReachesRule(s, a, obs, k)
  BY DEF Decides
<1>5. \A i, n : HasVolume(a, i, n) => HasVolume(b, i, n)
  BY <1>3 DEF HasVolume
<1>6. ASSUME size = FiveMinutes, NEW counts, Regime(a, k, counts) PROVE Regime(b, k, counts)
  <2>1. LastHourRegime(rows, counts)
    BY <1>1, <1>4, <1>6, RegimeIsLastHour
  <2>2. LastHourRegime(all, counts)
    <3>1. Hour \in Nat \ {0} /\ FiveMinutes \in Nat \ {0}
      BY FrameLengths DEF Positive
    <3>2. Frames(rows, Hour) \subseteq Frames(all, Hour)
          /\ Frames(rows, FiveMinutes) \subseteq Frames(all, FiveMinutes)
      BY <3>1, <1>1
    <3> QED BY <2>1, <3>2, <1>1, RunsGrow DEF LastHourRegime
  <2> QED BY <2>2, <1>1, <1>4, <1>6, RegimeIsLastHour
<1>7. ReachesRule(s, b, obs, k)
  <2> HIDE DEF a, b, k, size, c
  <2>1. CASE s \in Breakout
    <3>1. s.kind = "breakout" /\ size = FiveMinutes
      BY <2>1 DEF Breakout, size, FrameOf
    <3>2. BreakoutRow(s, a, k)
      BY <3>1, <1>4 DEF ReachesRule
    <3>3. BreakoutRow(s, b, k)
      BY <3>1, <3>2, <1>2, <1>6, RunsGrow DEF BreakoutRow
    <3> QED BY <3>1, <3>3 DEF ReachesRule
  <2>2. CASE s \in Pullback
    <3>1. s.kind = "pullback" /\ size = FiveMinutes
      BY <2>2 DEF Pullback, size, FrameOf
    <3>2. PullbackRow(s, a, k)
      BY <3>1, <1>4 DEF ReachesRule
    <3>3. \A j, n : Run(a.five, j, n) => Run(b.five, j, n)
      BY <1>2, RunsGrow
    <3>4. PullbackRow(s, b, k)
      BY <3>1, <3>2, <3>3, <1>6, Zenon DEF PullbackRow
    <3> QED BY <3>1, <3>4 DEF ReachesRule
  <2>3. CASE s \in Reversion
    <3>1. s.kind = "reversion" /\ size = FiveMinutes
      BY <2>3 DEF Reversion, size, FrameOf
    <3>2. ReversionRow(s, a, k)
      BY <3>1, <1>4 DEF ReachesRule
    <3>3. \A j, n : Run(a.five, j, n) => Run(b.five, j, n)
      BY <1>2, RunsGrow
    <3>4. ReversionRow(s, b, k)
      BY <3>1, <3>2, <3>3, <1>5, <1>6, Zenon DEF ReversionRow
    <3> QED BY <3>1, <3>4 DEF ReachesRule
  <2>4. CASE s \in OrderFlow
    <3>1. s.kind = "orderflow"
      BY <2>4 DEF OrderFlow
    <3>2. OrderFlowRow(s, a, k)
      BY <3>1, <1>4 DEF ReachesRule
    <3>3. {i \in a.five : HasVolume(a, i, FiveMinutes)} \subseteq {i \in b.five : HasVolume(b, i, FiveMinutes)}
      BY <1>2, <1>5
    <3>4. OrderFlowRow(s, b, k)
      BY <3>2, <3>3, RunsGrow DEF OrderFlowRow
    <3> QED BY <3>1, <3>4 DEF ReachesRule
  <2>5. CASE s \in RightTail
    <3>1. s.kind = "right_tail"
      BY <2>5 DEF RightTail
    <3>2. RightTailRow(s, a, k)
      BY <3>1, <1>4 DEF ReachesRule
    <3>3. RightTailRow(s, b, k)
      BY <3>2, <1>2, RunsGrow DEF RightTailRow
    <3> QED BY <3>1, <3>3 DEF ReachesRule
  <2>6. CASE s \in Aligned
    <3>1. s.kind = "aligned" /\ size = Hour
      BY <2>6 DEF Aligned, size, FrameOf
    <3>2. AlignedRow(s, a, k)
      BY <3>1, <1>4 DEF ReachesRule
    <3>3. /\ RightTailRow(s, a, k)
          /\ Run(Frames(rows, FourHours), c \div FourHours - 1, s.sma)
      BY <2>6, <3>1, <3>2, <1>1, <1>4, AlignedAtEnd DEF a, k, c
    <3>4. RightTailRow(s, b, k)
      BY <3>3, <1>2, RunsGrow DEF RightTailRow
    <3>5. Run(Frames(all, FourHours), c \div FourHours - 1, s.sma)
      BY <3>3, <1>1, FrameLengths, RunsGrow DEF Positive
    <3>6. AlignedRow(s, b, k)
      BY <2>6, <3>1, <3>4, <3>5, <1>1, <1>4, AlignedAtEnd DEF b, k
    <3> QED BY <3>1, <3>6 DEF ReachesRule
  <2>7. CASE s \in Boundary
    <3>1. s.kind = "boundary"
      BY <2>7 DEF Boundary
    <3>2. BoundaryRow(s, a, k)
      BY <3>1, <1>4 DEF ReachesRule
    <3>3. BoundaryRow(s, b, k)
      BY <3>2, <1>2, <1>3, RunsGrow DEF BoundaryRow
    <3> QED BY <3>1, <3>3 DEF ReachesRule
  <2>8. CASE s \in Crowded
    <3>1. s.kind = "crowded"
      BY <2>8 DEF Crowded
    <3>2. CrowdedRow(s, a, obs, k)
      BY <3>1, <1>4 DEF ReachesRule
    <3>3. CrowdedRow(s, b, obs, k)
      BY <3>2, <1>2, RunsGrow DEF CrowdedRow
    <3> QED BY <3>1, <3>3 DEF ReachesRule
  <2>9. CASE s \in MovingAverage
    <3>1. s.kind = "moving_average"
      BY <2>9 DEF MovingAverage
    <3>2. MovingAverageRow(s, a, k)
      BY <3>1, <1>4 DEF ReachesRule
    <3>3. MovingAverageRow(s, b, k)
      BY <3>2, <1>2, RunsGrow DEF MovingAverageRow
    <3> QED BY <3>1, <3>3 DEF ReachesRule
  <2> QED BY <2>1, <2>2, <2>3, <2>4, <2>5, <2>6, <2>7, <2>8, <2>9 DEF Sleeve
<1>8. k \in Frames(all, size)
  BY <1>1, <1>4
<1> QED BY <1>1, <1>4, <1>7, <1>8 DEF Decides

--------------------------------------------------------------------------
(* Rows that hold all frames that a sleeve reads decide like the archive.  *)

\* Frames that a sleeve reads up to a decision, for all sleeves.
Reads(s) ==
  IF s.kind = "boundary"
  THEN OfLength(1, {s.lags * QuarterHour + 1}) \union OfLength(QuarterHour, {s.atr})
  ELSE IF s.kind = "crowded" THEN OfLength(Hour, {s.lookback + 1, s.atr})
  ELSE IF s.kind = "moving_average" THEN OfLength(FourHours, {s.sma})
  ELSE FrameRequirements(s)

\* The last n frames of a length begin with the rows or later.
Holds(rows, size, n) == First(rows) <= (Closed(rows) \div size - n) * size

LEMMA HeldFrame ==
  ASSUME NEW rows, NEW all, Ends(rows, all), NEW size \in Nat \ {0}, NEW n \in Nat,
         Holds(rows, size, n), NEW i \in Int, Closed(rows) \div size - n <= i
  PROVE  /\ First(rows) <= i * size
         /\ i \in Frames(all, size) => i \in Frames(rows, size)
         /\ HasVolume(TimeFrames(all), i, size) => HasVolume(TimeFrames(rows), i, size)
<1> DEFINE q == Closed(rows) \div size
           f == First(rows)
<1>1. f \in Nat /\ q \in Int /\ q - n \in Int
  BY FramesAreCut, Division
<1>2. f <= (q - n) * size
  BY DEF Holds
<1> HIDE DEF q, f
<1>3. (q - n) * size <= i * size
  BY <1>1, Multiples DEF q
<1>4. (q - n) * size \in Int /\ i * size \in Int
  BY <1>1, Z3
<1>5. f <= i * size
  BY <1>1, <1>2, <1>3, <1>4
<1>6. i \in Frames(all, size) => i \in Frames(rows, size)
  BY <1>5, FramesAreCut DEF f
<1>7. ASSUME NEW m \in TimeFrames(all).traded, m \div size = i
      PROVE  m \in TimeFrames(rows).traded
  <2>1. m \in Nat
    BY FramesAreCut
  <2>2. m % size \in 0..(size - 1) /\ m = i * size + (m % size)
    BY <2>1, <1>7, Division
  <2>3. f <= m
    BY <2>2, <1>1, <1>4, <1>5
  <2> QED BY <2>3, FramesAreCut DEF f
<1> QED BY <1>5, <1>6, <1>7 DEF HasVolume, f

LEMMA HeldRun ==
  ASSUME NEW rows, NEW all, Ends(rows, all), NEW size \in Nat \ {0}, NEW n \in Nat,
         Holds(rows, size, n), NEW k \in Int, NEW m \in Int, Closed(rows) \div size - n <= k - m + 1,
         Run(Frames(all, size), k, m)
  PROVE  Run(Frames(rows, size), k, m)
<1> SUFFICES ASSUME NEW i \in (k - m + 1)..k PROVE i \in Frames(rows, size)
  BY DEF Run
<1>1. Closed(rows) \div size \in Int
  BY FramesAreCut, Division
<1>2. i \in Int /\ Closed(rows) \div size - n <= i
  BY <1>1
<1>3. i \in Frames(all, size)
  BY DEF Run
<1> QED BY <1>2, <1>3, HeldFrame

LEMMA HeldRegime ==
  ASSUME NEW rows, NEW all, Ends(rows, all), Closed(rows) % FiveMinutes = 0,
         NEW counts \in SUBSET Positive, counts # {}, \A n \in counts : Holds(rows, Hour, n),
         Regime(TimeFrames(all), Closed(rows) \div FiveMinutes - 1, counts)
  PROVE  Regime(TimeFrames(rows), Closed(rows) \div FiveMinutes - 1, counts)
<1> DEFINE c == Closed(rows)
           last == c \div Hour - 1
           j == ((last + 1) * Hour - 1) \div FiveMinutes
<1>1. /\ FiveMinutes \in Nat \ {0} /\ Hour \in Nat \ {0} /\ Hour % FiveMinutes = 0
      /\ c \in Nat /\ Closed(all) = c /\ c \div Hour \in Nat /\ c \div FiveMinutes \in Nat
      /\ \A m \in Minutes(all) : m \in Nat /\ m < c
      /\ \A m \in Minutes(rows) : m \in Nat /\ m < c
  BY FrameLengths, FramesAreCut, Division DEF Positive
<1>2. LastHourRegime(all, counts)
  BY <1>1, RegimeIsLastHour
<1>3. /\ last \in Frames(all, Hour)
      /\ \A i \in j..(c \div FiveMinutes - 1) : i \in Frames(all, FiveMinutes)
      /\ \A n \in counts : Run(Frames(all, Hour), last, n)
  BY <1>1, <1>2 DEF LastHourRegime
<1>4. last \in Nat /\ c \div Hour = last + 1
  BY <1>1, <1>3 DEF Frames
<1>5. ASSUME NEW n \in counts
      PROVE  /\ n \in Nat \ {0} /\ Holds(rows, Hour, n)
             /\ c \div Hour - n <= last - n + 1 /\ c \div Hour - n <= last
  BY <1>4 DEF Positive
<1> HIDE DEF last
<1>6. \A n \in counts : Run(Frames(rows, Hour), last, n)
  <2> TAKE n \in counts
  <2> QED BY <1>1, <1>3, <1>4, <1>5, HeldRun
<1>7. First(rows) <= last * Hour /\ last \in Frames(rows, Hour)
  <2>1. PICK n \in counts : TRUE
    OBVIOUS
  <2> QED BY <2>1, <1>1, <1>3, <1>4, <1>5, HeldFrame
<1>8. j \in Nat /\ last * Hour <= j * FiveMinutes
  BY <1>1, <1>4, LastRowWithinFrame
<1> HIDE DEF j
<1>9. ASSUME NEW i \in j..(c \div FiveMinutes - 1) PROVE i \in Frames(rows, FiveMinutes)
  <2>1. i \in Int /\ j <= i
    BY <1>8
  <2>2. j * FiveMinutes <= i * FiveMinutes
    BY <2>1, <1>1, <1>8, Multiples
  <2>3. /\ First(rows) \in Nat /\ last * Hour \in Int
        /\ j * FiveMinutes \in Int /\ i * FiveMinutes \in Int
    <3>1. First(rows) \in Nat
      BY FramesAreCut
    <3>2. last * Hour \in Int /\ j * FiveMinutes \in Int /\ i * FiveMinutes \in Int
      BY <2>1, <1>1, <1>4, <1>8, Z3
    <3> QED BY <3>1, <3>2
  <2>4. First(rows) <= i * FiveMinutes
    BY <2>2, <2>3, <1>7, <1>8
  <2>5. i \in Frames(all, FiveMinutes)
    BY <1>3
  <2> QED BY <2>4, <2>5, <1>1, FramesAreCut
<1>10. LastHourRegime(rows, counts)
  BY <1>6, <1>7, <1>9 DEF LastHourRegime, last, j
<1> QED BY <1>1, <1>10, RegimeIsLastHour

LEMMA HeldLengths ==
  ASSUME NEW rows, NEW reads, \A f \in reads : Holds(rows, f.size, f.count),
         NEW size, NEW counts, OfLength(size, counts) \subseteq reads, NEW n \in counts
  PROVE  Holds(rows, size, n)
<1> DEFINE f == [size |-> size, count |-> n]
<1>1. f \in OfLength(size, counts)
  BY DEF OfLength
<1>2. f.size = size /\ f.count = n
  OBVIOUS
<1> HIDE DEF f
<1> QED BY <1>1, <1>2

LEMMA HeldFiveMinuteSleeves ==
  ASSUME NEW rows, NEW all, Ends(rows, all),
         NEW s \in Breakout \union Pullback \union Reversion \union OrderFlow,
         \A f \in Reads(s) : Holds(rows, f.size, f.count), NEW obs, Decides(s, all, obs)
  PROVE  Decides(s, rows, obs)
<1> DEFINE c == Closed(rows)
           q == c \div FiveMinutes
           k == q - 1
           a == TimeFrames(rows)
           b == TimeFrames(all)
           G == Frames(all, FiveMinutes)
           F == Frames(rows, FiveMinutes)
<1>1. FiveMinutes \in Nat \ {0} /\ c \in Nat /\ Closed(all) = c /\ q \in Nat /\ FrameOf(s) = FiveMinutes
  BY FrameLengths, FramesAreCut, Division
     DEF Positive, FrameOf, Breakout, Pullback, Reversion, OrderFlow
<1>2. c % FiveMinutes = 0 /\ k \in G /\ ReachesRule(s, b, obs, k)
  BY <1>1 DEF Decides
<1>3. a.five = F /\ b.five = G
  BY DEF TimeFrames
<1>4. \A size, counts : OfLength(size, counts) \subseteq Reads(s)
                          => \A n \in counts : Holds(rows, size, n)
  BY HeldLengths
<1>5. \A counts : counts \in SUBSET Positive /\ counts # {} /\ OfLength(Hour, counts) \subseteq Reads(s)
                    /\ Regime(b, k, counts) => Regime(a, k, counts)
  <2> SUFFICES ASSUME NEW counts \in SUBSET Positive, counts # {}, OfLength(Hour, counts) \subseteq Reads(s),
                      Regime(b, k, counts)
               PROVE  Regime(a, k, counts)
    OBVIOUS
  <2>1. \A n \in counts : Holds(rows, Hour, n)
    BY <1>4
  <2> QED BY <2>1, <1>1, <1>2, HeldRegime
<1>6. ASSUME NEW n \in Nat, Holds(rows, FiveMinutes, n), NEW j \in Int, NEW m \in Int, q - n <= j - m + 1,
             Run(b.five, j, m)
      PROVE  Run(a.five, j, m)
  BY <1>1, <1>3, <1>6, HeldRun
<1>7. ASSUME NEW n \in Nat, Holds(rows, FiveMinutes, n), NEW i \in Int, q - n <= i
      PROVE  /\ i \in G => i \in F
             /\ HasVolume(b, i, FiveMinutes) => HasVolume(a, i, FiveMinutes)
  BY <1>1, <1>7, HeldFrame
<1> HIDE DEF a, b, G, F, c
<1>8. CASE s \in Breakout
  <2>1. /\ s.kind = "breakout" /\ s.donchian \in Nat \ {0} /\ s.atr \in Nat \ {0}
        /\ s.lookback + 1 \in Positive
    BY <1>8 DEF Breakout, Positive
  <2>2. Reads(s) = OfLength(FiveMinutes, {s.donchian + 1, s.atr}) \union OfLength(Hour, {s.lookback + 1})
    BY <2>1 DEF Reads, FrameRequirements, Covering
  <2>3. /\ Holds(rows, FiveMinutes, s.donchian + 1) /\ Holds(rows, FiveMinutes, s.atr)
        /\ s.donchian + 1 \in Nat /\ k \in Int
    BY <2>1, <2>2, <1>1, <1>4
  <2>4. BreakoutRow(s, b, k)
    BY <2>1, <1>2 DEF ReachesRule
  <2>5. Run(a.five, k, s.donchian + 1)
    BY <2>1, <2>3, <2>4, <1>1, <1>6 DEF BreakoutRow
  <2>6. Run(a.five, k, s.atr)
    BY <2>1, <2>3, <2>4, <1>1, <1>6 DEF BreakoutRow
  <2>7. Regime(a, k, {s.lookback + 1})
    BY <2>1, <2>2, <2>4, <1>5 DEF BreakoutRow
  <2>8. k \in F
    BY <2>1, <2>3, <1>1, <1>2, <1>7
  <2>9. ReachesRule(s, a, obs, k)
    BY <2>1, <2>5, <2>6, <2>7 DEF ReachesRule, BreakoutRow
  <2> QED BY <2>8, <2>9, <1>1, <1>2 DEF Decides, a, c, F
<1>9. CASE s \in Pullback
  <2> DEFINE counts == {s.slow, s.rising + s.fast, s.efficiency + 1}
  <2>1. /\ s.kind = "pullback" /\ s.reclaim \in Nat \ {0} /\ s.trend \in Nat \ {0} /\ s.atr \in Nat \ {0}
        /\ counts \in SUBSET Positive /\ counts # {}
    BY <1>9 DEF Pullback, Positive
  <2>2. s.fast + s.rising = s.rising + s.fast
    BY <1>9 DEF Pullback, Positive
  <2>3. Reads(s) = OfLength(FiveMinutes, {s.reclaim + 1, s.trend + 1, s.atr + 1}) \union OfLength(Hour, counts)
    <3>1. {Covering(n) : n \in {s.reclaim, s.trend, s.atr}} = {s.reclaim + 1, s.trend + 1, s.atr + 1}
      BY DEF Covering
    <3> QED BY <2>1, <2>2, <3>1 DEF Reads, FrameRequirements
  <2>4. /\ Holds(rows, FiveMinutes, s.reclaim + 1) /\ Holds(rows, FiveMinutes, s.trend + 1)
        /\ Holds(rows, FiveMinutes, s.atr + 1)
        /\ s.reclaim + 1 \in Nat /\ s.trend + 1 \in Nat /\ s.atr + 1 \in Nat /\ k \in Int /\ k - 1 \in Int
    <3> HIDE DEF counts
    <3> QED BY <2>1, <2>3, <1>1, <1>4
  <2>5. PullbackRow(s, b, k)
    BY <2>1, <1>2 DEF ReachesRule
  <2>6. Run(a.five, k, 2)
    <3>1. Run(b.five, k, 2) /\ q - (s.reclaim + 1) <= k - 2 + 1
      BY <2>1, <2>5, <1>1 DEF PullbackRow
    <3> QED BY <3>1, <2>4, <1>6
  <2>7. ASSUME NEW j \in {k - 1, k} PROVE Run(a.five, j, s.reclaim) /\ Run(a.five, j, s.atr)
    <3>1. /\ Run(b.five, j, s.reclaim) /\ Run(b.five, j, s.atr) /\ j \in Int
          /\ q - (s.reclaim + 1) <= j - s.reclaim + 1 /\ q - (s.atr + 1) <= j - s.atr + 1
      BY <2>1, <2>4, <2>5, <1>1 DEF PullbackRow
    <3>2. Run(a.five, j, s.reclaim)
      BY <3>1, <2>1, <2>4, <1>6
    <3>3. Run(a.five, j, s.atr)
      BY <3>1, <2>1, <2>4, <1>6
    <3> QED BY <3>2, <3>3
  <2>8. Run(a.five, k - 1, s.trend)
    <3>1. Run(b.five, k - 1, s.trend) /\ q - (s.trend + 1) <= k - 1 - s.trend + 1
      BY <2>1, <2>5, <1>1 DEF PullbackRow
    <3> QED BY <3>1, <2>1, <2>4, <1>6
  <2>9. Regime(a, k, counts)
    <3>1. Regime(b, k, counts)
      BY <2>5 DEF PullbackRow
    <3>2. OfLength(Hour, counts) \subseteq Reads(s)
      BY <2>3
    <3> HIDE DEF counts
    <3> QED BY <3>1, <3>2, <2>1, <1>5
  <2>10. k \in F
    BY <2>1, <2>4, <1>1, <1>2, <1>7
  <2>11. PullbackRow(s, a, k)
    BY <2>6, <2>7, <2>8, <2>9, Zenon DEF PullbackRow
  <2>12. ReachesRule(s, a, obs, k)
    BY <2>1, <2>11 DEF ReachesRule
  <2> QED BY <2>10, <2>12, <1>1, <1>2 DEF Decides, a, c, F
<1>10. CASE s \in Reversion
  <2>1. /\ s.kind = "reversion" /\ s.vwap \in Nat \ {0} /\ s.atr \in Nat \ {0}
        /\ s.lookback + 1 \in Positive
    BY <1>10 DEF Reversion, Positive
  <2>2. Reads(s) = OfLength(FiveMinutes, {s.vwap + 1 + 1, s.atr + 1, 2}) \union OfLength(Hour, {s.lookback + 1})
    BY <2>1 DEF Reads, FrameRequirements, Covering
  <2>3. /\ Holds(rows, FiveMinutes, s.vwap + 1 + 1) /\ Holds(rows, FiveMinutes, s.atr + 1)
        /\ s.vwap + 1 + 1 \in Nat /\ s.atr + 1 \in Nat /\ k \in Int /\ k - 1 \in Int
    BY <2>1, <2>2, <1>1, <1>4
  <2>4. ReversionRow(s, b, k)
    BY <2>1, <1>2 DEF ReachesRule
  <2>5. Run(a.five, k, 2)
    <3>1. Run(b.five, k, 2) /\ q - (s.atr + 1) <= k - 2 + 1
      BY <2>1, <2>4, <1>1 DEF ReversionRow
    <3> QED BY <3>1, <2>3, <1>6
  <2>6. ASSUME NEW j \in {k - 1, k}
        PROVE  /\ Run(a.five, j, s.atr) /\ Run(a.five, j, s.vwap + 1)
               /\ \E i \in (j - s.vwap)..(j - 1) : HasVolume(a, i, FiveMinutes)
    <3>1. /\ Run(b.five, j, s.atr) /\ Run(b.five, j, s.vwap + 1) /\ j \in Int
          /\ \E i \in (j - s.vwap)..(j - 1) : HasVolume(b, i, FiveMinutes)
      BY <2>3, <2>4 DEF ReversionRow
    <3>2. /\ q - (s.atr + 1) <= j - s.atr + 1 /\ q - (s.vwap + 1 + 1) <= j - (s.vwap + 1) + 1
          /\ s.vwap + 1 \in Int /\ q - (s.vwap + 1 + 1) <= j - s.vwap
      BY <2>1, <1>1
    <3>3. Run(a.five, j, s.atr)
      BY <3>1, <3>2, <2>1, <2>3, <1>6
    <3>4. Run(a.five, j, s.vwap + 1)
      BY <3>1, <3>2, <2>3, <1>6
    <3>5. PICK i \in (j - s.vwap)..(j - 1) : HasVolume(b, i, FiveMinutes)
      BY <3>1
    <3>6. i \in Int /\ q - (s.vwap + 1 + 1) <= i
      BY <3>1, <3>2, <2>1, <1>1
    <3>7. HasVolume(a, i, FiveMinutes)
      BY <3>5, <3>6, <2>3, <1>7
    <3> QED BY <3>3, <3>4, <3>7
  <2>7. Regime(a, k, {s.lookback + 1})
    BY <2>1, <2>2, <2>4, <1>5 DEF ReversionRow
  <2>8. k \in F
    BY <2>1, <2>3, <1>1, <1>2, <1>7
  <2>9. ReversionRow(s, a, k)
    BY <2>5, <2>6, <2>7, Zenon DEF ReversionRow
  <2>10. ReachesRule(s, a, obs, k)
    BY <2>1, <2>9 DEF ReachesRule
  <2> QED BY <2>8, <2>10, <1>1, <1>2 DEF Decides, a, c, F
<1>11. CASE s \in OrderFlow
  <2> DEFINE P == {i \in F : HasVolume(a, i, FiveMinutes)}
             Q == {i \in G : HasVolume(b, i, FiveMinutes)}
  <2>1. /\ s.kind = "orderflow" /\ Priors(s) \subseteq Nat /\ s.baseline \in Priors(s) /\ k \in Int
    BY <1>1, <1>11 DEF OrderFlow, Positive, Priors
  <2>2. Reads(s) = OfLength(FiveMinutes, {n + 1 : n \in Priors(s)})
    <3>1. FrameRequirements(s) = OfLength(FiveMinutes, {Covering(n) : n \in Priors(s)})
      BY <2>1 DEF FrameRequirements
    <3>2. {Covering(n) : n \in Priors(s)} = {n + 1 : n \in Priors(s)}
      BY DEF Covering
    <3> QED BY <2>1, <3>1, <3>2 DEF Reads
  <2>3. ASSUME NEW n \in Priors(s) PROVE Holds(rows, FiveMinutes, n + 1) /\ n + 1 \in Nat
    <3>1. n + 1 \in {i + 1 : i \in Priors(s)} /\ n \in Nat
      BY <2>1
    <3>2. Holds(rows, FiveMinutes, n + 1)
      BY <3>1, <2>2, HeldLengths
    <3> QED BY <3>1, <3>2
  <2>4. \A n \in Priors(s) : Run(Q, k, n + 1)
    BY <2>1, <1>2, <1>3 DEF ReachesRule, OrderFlowRow
  <2> HIDE DEF P, Q, F
  <2>5. ASSUME NEW n \in Priors(s) PROVE Run(P, k, n + 1)
    <3> SUFFICES ASSUME NEW i \in (k - (n + 1) + 1)..k PROVE i \in P
      BY DEF Run
    <3>1. n \in Nat /\ i \in Int /\ q - (n + 1) <= i
      BY <2>1, <1>1
    <3>2. i \in Q
      BY <2>4 DEF Run
    <3>3. i \in G /\ HasVolume(b, i, FiveMinutes)
      BY <3>2 DEF Q
    <3>4. i \in F /\ HasVolume(a, i, FiveMinutes)
      BY <3>1, <3>3, <2>3, <1>7
    <3> QED BY <3>4 DEF P
  <2>6. k \in F
    <3>1. s.baseline \in Nat /\ q - (s.baseline + 1) <= k
      BY <2>1, <1>1
    <3> QED BY <3>1, <2>1, <2>3, <1>2, <1>7
  <2>7. OrderFlowRow(s, a, k)
    BY <2>5, <1>3 DEF OrderFlowRow, P
  <2>8. ReachesRule(s, a, obs, k)
    BY <2>1, <2>7 DEF ReachesRule
  <2> QED BY <2>6, <2>8, <1>1, <1>2 DEF Decides, a, c, F
<1> QED BY <1>8, <1>9, <1>10, <1>11

\* The last n frames themselves.
LEMMA HeldTail ==
  ASSUME NEW rows, NEW all, Ends(rows, all), NEW size \in Nat \ {0}, NEW n \in Nat \ {0},
         Holds(rows, size, n), Run(Frames(all, size), Closed(rows) \div size - 1, n)
  PROVE  Run(Frames(rows, size), Closed(rows) \div size - 1, n)
<1>1. Closed(rows) \div size \in Int
  BY FramesAreCut, Division
<1>2. PICK k \in Int : k = Closed(rows) \div size - 1
  BY <1>1
<1>3. Closed(rows) \div size - n <= k - n + 1
  BY <1>1, <1>2
<1>4. Run(Frames(all, size), k, n)
  BY <1>2
<1>5. Run(Frames(rows, size), k, n)
  BY <1>3, <1>4, HeldRun
<1> QED BY <1>2, <1>5

LEMMA HeldHourSleeves ==
  ASSUME NEW rows, NEW all, Ends(rows, all), NEW s \in RightTail \union Aligned \union Crowded,
         \A f \in Reads(s) : Holds(rows, f.size, f.count), NEW obs, Decides(s, all, obs)
  PROVE  Decides(s, rows, obs)
<1> DEFINE c == Closed(rows)
           q == c \div Hour
           k == q - 1
           last == c \div FourHours - 1
           a == TimeFrames(rows)
           b == TimeFrames(all)
           G == Frames(all, Hour)
           F == Frames(rows, Hour)
<1>1. /\ Hour \in Nat \ {0} /\ FourHours \in Nat \ {0} /\ c \in Nat /\ Closed(all) = c
      /\ q \in Nat /\ c \div FourHours \in Nat /\ FrameOf(s) = Hour
  BY FrameLengths, FramesAreCut, Division DEF Positive, FrameOf, RightTail, Aligned, Crowded
<1>2. c % Hour = 0 /\ k \in G /\ ReachesRule(s, b, obs, k)
  BY <1>1 DEF Decides
<1>3. a.hour = F /\ b.hour = G
  BY DEF TimeFrames
<1>4. /\ s.lookback \in Nat \ {0} /\ s.atr \in Nat \ {0} /\ k \in Int
      /\ s.kind \in {"right_tail", "aligned", "crowded"}
      /\ s.kind = "right_tail" <=> s \in RightTail
      /\ s.kind = "aligned" <=> s \in Aligned
      /\ s.kind = "crowded" <=> s \in Crowded
  BY <1>1 DEF RightTail, Aligned, Crowded, Positive
<1>5. OfLength(Hour, {s.lookback + 1, s.atr}) \subseteq Reads(s)
  BY <1>4 DEF Reads, FrameRequirements
<1>6. Holds(rows, Hour, s.lookback + 1) /\ Holds(rows, Hour, s.atr)
  <2>1. \A n \in {s.lookback + 1, s.atr} : Holds(rows, Hour, n)
    BY <1>5, HeldLengths
  <2> QED BY <2>1
<1>7. Run(b.hour, k, s.lookback + 1) /\ Run(b.hour, k, s.atr)
  BY <1>2, <1>4 DEF ReachesRule, RightTailRow, AlignedRow, CrowdedRow
<1> HIDE DEF a, b, G, F, c
<1>8. Run(a.hour, k, s.lookback + 1) /\ Run(a.hour, k, s.atr)
  <2>1. s.lookback + 1 \in Nat \ {0}
    BY <1>4
  <2>2. Run(F, k, s.lookback + 1)
    BY <2>1, <1>1, <1>3, <1>6, <1>7, HeldTail DEF c, F, G
  <2>3. Run(F, k, s.atr)
    BY <1>1, <1>3, <1>4, <1>6, <1>7, HeldTail DEF c, F, G
  <2> QED BY <2>2, <2>3, <1>3
<1>9. k \in F
  BY <1>3, <1>4, <1>8, Runs
<1>10. RightTailRow(s, b, k) => RightTailRow(s, a, k)
  BY <1>8 DEF RightTailRow
<1>11. CASE s \in RightTail
  <2>1. ReachesRule(s, a, obs, k)
    BY <1>2, <1>4, <1>10, <1>11 DEF ReachesRule
  <2> QED BY <2>1, <1>1, <1>2, <1>9 DEF Decides, a, c, F
<1>12. CASE s \in Aligned
  <2>1. AlignedRow(s, b, k)
    BY <1>2, <1>4, <1>12 DEF ReachesRule
  <2>2. RightTailRow(s, b, k) /\ Run(Frames(all, FourHours), last, s.sma)
    BY <2>1, <1>1, <1>2, <1>12, AlignedAtEnd DEF b, c
  <2>3. Holds(rows, FourHours, s.sma) /\ s.sma \in Nat \ {0}
    <3>1. OfLength(FourHours, {s.sma}) \subseteq Reads(s)
      BY <1>4, <1>12 DEF Reads, FrameRequirements
    <3>2. Holds(rows, FourHours, s.sma)
      BY <3>1, HeldLengths
    <3> QED BY <3>2, <1>12 DEF Aligned, Positive
  <2>4. Run(Frames(rows, FourHours), last, s.sma)
    BY <2>2, <2>3, <1>1, HeldTail DEF c
  <2>5. AlignedRow(s, a, k)
    BY <2>2, <2>4, <1>1, <1>2, <1>10, <1>12, AlignedAtEnd DEF a, c
  <2>6. ReachesRule(s, a, obs, k)
    BY <2>5, <1>4, <1>12 DEF ReachesRule
  <2> QED BY <2>6, <1>1, <1>2, <1>9 DEF Decides, a, c, F
<1>13. CASE s \in Crowded
  <2>1. CrowdedRow(s, b, obs, k)
    BY <1>2, <1>4, <1>13 DEF ReachesRule
  <2>2. CrowdedRow(s, a, obs, k)
    BY <2>1, <1>8 DEF CrowdedRow
  <2>3. ReachesRule(s, a, obs, k)
    BY <2>2, <1>4, <1>13 DEF ReachesRule
  <2> QED BY <2>3, <1>1, <1>2, <1>9 DEF Decides, a, c, F
<1> QED BY <1>11, <1>12, <1>13

LEMMA FirstMinuteOfQuarter ==
  ASSUME NEW m \in Nat, m % QuarterHour = 0
  PROVE  /\ (m + 1) \div QuarterHour = m \div QuarterHour /\ m \div QuarterHour \in Nat
         /\ m = (m \div QuarterHour) * QuarterHour
<1> DEFINE u == m \div QuarterHour
           v == (m + 1) \div QuarterHour
<1>1. QuarterHour \in Nat \ {0, 1}
  BY FrameLengths DEF Positive
<1>2. /\ u \in Nat /\ m = u * QuarterHour + (m % QuarterHour)
      /\ v \in Nat /\ m + 1 = v * QuarterHour + ((m + 1) % QuarterHour)
      /\ (m + 1) % QuarterHour \in 0..(QuarterHour - 1)
  <2>1. PICK c \in Nat : c = m + 1
    OBVIOUS
  <2>2. u \in Nat /\ m = u * QuarterHour + (m % QuarterHour)
    BY <1>1, Division
  <2>3. /\ c \div QuarterHour \in Nat /\ c = (c \div QuarterHour) * QuarterHour + (c % QuarterHour)
        /\ c % QuarterHour \in 0..(QuarterHour - 1)
    BY <1>1, Division
  <2> QED BY <2>1, <2>2, <2>3
<1>3. u * QuarterHour \in Nat /\ 1 \in 0..(QuarterHour - 1)
  <2> HIDE DEF u
  <2>1. u * QuarterHour \in Nat
    BY <1>1, <1>2, Z3
  <2> QED BY <2>1, <1>1
<1> HIDE DEF u, v
<1>4. PICK y \in 0..(QuarterHour - 1) : u * QuarterHour + 1 = v * QuarterHour + y
  BY <1>2, <1>3
<1>5. u = v
  <2>1. QuarterHour \in Nat \ {0} /\ 1 \in 0..(QuarterHour - 1) /\ u \in Nat /\ v \in Nat
    BY <1>1, <1>2, <1>3
  <2> QED BY <2>1, <1>4, UniqueRemainder
<1>6. m = u * QuarterHour
  BY <1>2, <1>3
<1> QED BY <1>2, <1>5, <1>6 DEF u, v

LEMMA HeldBoundarySleeve ==
  ASSUME NEW rows, NEW all, Ends(rows, all), NEW s \in Boundary,
         \A f \in Reads(s) : Holds(rows, f.size, f.count), NEW obs, Decides(s, all, obs)
  PROVE  Decides(s, rows, obs)
<1> DEFINE c == Closed(rows)
           m == c - 1
           u == m \div QuarterHour
           reach == s.lags * QuarterHour + 1
           a == TimeFrames(rows)
           b == TimeFrames(all)
<1>1. /\ QuarterHour \in Nat \ {0, 1} /\ c \in Nat /\ Closed(all) = c /\ First(rows) \in Nat
      /\ s.kind = "boundary" /\ s.lags \in Nat \ {0} /\ s.atr \in Nat \ {0} /\ FrameOf(s) = 1
      /\ 1 \in Nat \ {0}
  BY FrameLengths, FramesAreCut DEF Positive, Boundary, FrameOf
<1>2. c \div 1 = c /\ c % 1 = 0
  BY <1>1
<1>3. /\ Frames(all, 1) \subseteq Nat /\ m \in Frames(all, 1) /\ BoundaryRow(s, b, m)
  BY <1>1, <1>2 DEF Decides, ReachesRule, Frames
<1>4. m \in Nat /\ c = m + 1
  BY <1>1, <1>3
<1>5. /\ reach \in Nat /\ s.lags * QuarterHour \in Nat
      /\ \A lag \in 0..s.lags : lag * QuarterHour \in Nat /\ lag * QuarterHour <= s.lags * QuarterHour
  <2>1. s.lags * QuarterHour \in Nat /\ \A lag \in 0..s.lags : lag * QuarterHour \in Nat
    BY <1>1, Z3
  <2>2. \A lag \in 0..s.lags : lag * QuarterHour <= s.lags * QuarterHour
    BY <1>1, Multiples
  <2> QED BY <2>1, <2>2
<1>6. Holds(rows, 1, reach) /\ Holds(rows, QuarterHour, s.atr)
  <2>1. Reads(s) = OfLength(1, {reach}) \union OfLength(QuarterHour, {s.atr})
    BY <1>1 DEF Reads
  <2> HIDE DEF reach
  <2> QED BY <2>1, HeldLengths
<1>7. a.minute = Frames(rows, 1) /\ b.minute = Frames(all, 1)
      /\ a.quarter = Frames(rows, QuarterHour) /\ b.quarter = Frames(all, QuarterHour)
  BY DEF TimeFrames
<1>8. a.traded = {i \in b.traded : First(rows) <= i}
  BY FramesAreCut
<1>9. /\ m % QuarterHour = 0
      /\ Run(b.minute, m, reach)
      /\ \A lag \in 0..s.lags : m - lag * QuarterHour \in b.traded
      /\ Run(b.quarter, u - 1, s.atr)
  BY <1>3 DEF BoundaryRow
<1>10. c \div QuarterHour = u /\ u \in Nat
  BY <1>4, <1>9, FirstMinuteOfQuarter
<1> HIDE DEF a, b, u
<1>11. Run(a.minute, m, reach)
  <2>1. c \div 1 - reach <= m - reach + 1 /\ m \in Int /\ reach \in Int
    BY <1>2, <1>4, <1>5
  <2> HIDE DEF m, reach
  <2> QED BY <2>1, <1>1, <1>5, <1>6, <1>7, <1>9, HeldRun
<1>12. \A lag \in 0..s.lags : m - lag * QuarterHour \in a.traded
  <2> TAKE lag \in 0..s.lags
  <2>1. First(rows) <= (c - reach) * 1
    BY <1>2, <1>6 DEF Holds
  <2>2. First(rows) <= m - lag * QuarterHour
    BY <2>1, <1>1, <1>4, <1>5
  <2> QED BY <2>2, <1>8, <1>9
<1>13. Run(a.quarter, u - 1, s.atr)
  BY <1>1, <1>6, <1>7, <1>9, <1>10, HeldTail
<1>14. m \in Frames(rows, 1)
  <2>1. c \div 1 - reach <= m /\ m \in Int
    BY <1>2, <1>4, <1>5
  <2> HIDE DEF m, reach
  <2> QED BY <2>1, <1>1, <1>3, <1>5, <1>6, HeldFrame
<1>15. BoundaryRow(s, a, m)
  BY <1>9, <1>11, <1>12, <1>13 DEF BoundaryRow, u
<1> QED BY <1>1, <1>2, <1>14, <1>15 DEF Decides, ReachesRule, a

LEMMA HeldSleeves ==
  ASSUME NEW rows, NEW all, Ends(rows, all), NEW s \in Sleeve,
         \A f \in Reads(s) : Holds(rows, f.size, f.count), NEW obs, Decides(s, all, obs)
  PROVE  Decides(s, rows, obs)
<1>1. CASE s \in MovingAverage
  <2> DEFINE c == Closed(rows)
             k == c \div FourHours - 1
  <2>1. /\ s.kind = "moving_average" /\ s.sma \in Nat \ {0} /\ FrameOf(s) = FourHours
        /\ FourHours \in Nat \ {0} /\ Closed(all) = c /\ c \div FourHours \in Nat
    BY <1>1, FrameLengths, FramesAreCut, Division DEF MovingAverage, Positive, FrameOf
  <2>2. c % FourHours = 0 /\ Run(Frames(all, FourHours), k, s.sma)
    BY <2>1 DEF Decides, ReachesRule, MovingAverageRow, TimeFrames
  <2>3. Holds(rows, FourHours, s.sma)
    <3>1. OfLength(FourHours, {s.sma}) \subseteq Reads(s)
      BY <2>1 DEF Reads
    <3> QED BY <3>1, HeldLengths
  <2>4. k \in Int
    BY <2>1
  <2>5. Run(Frames(rows, FourHours), k, s.sma)
    BY <2>1, <2>2, <2>3, HeldTail
  <2> HIDE DEF k
  <2>6. k \in Frames(rows, FourHours)
    BY <2>1, <2>4, <2>5, Runs
  <2> QED BY <2>1, <2>2, <2>5, <2>6 DEF Decides, ReachesRule, MovingAverageRow, TimeFrames, k
<1> QED BY <1>1, HeldFiveMinuteSleeves, HeldHourSleeves, HeldBoundarySleeve DEF Sleeve

LEMMA ReadsAreFrames ==
  ASSUME NEW s \in Sleeve
  PROVE  Reads(s) \subseteq Frame
<1>1. \A size \in Positive, counts \in SUBSET Positive : OfLength(size, counts) \subseteq Frame
  BY DEF OfLength, Frame, Positive
<1>2. /\ FiveMinutes \in Positive /\ QuarterHour \in Positive /\ Hour \in Positive
      /\ FourHours \in Positive /\ 1 \in Positive
  BY FrameLengths DEF Positive
<1>3. CASE s \in Breakout
  <2>1. /\ s.kind = "breakout"
        /\ {Covering(s.donchian), s.atr} \in SUBSET Positive /\ {s.lookback + 1} \in SUBSET Positive
    BY <1>3 DEF Breakout, Positive, Covering
  <2>2. Reads(s) = OfLength(FiveMinutes, {Covering(s.donchian), s.atr}) \union OfLength(Hour, {s.lookback + 1})
    BY <2>1 DEF Reads, FrameRequirements
  <2> QED BY <2>1, <2>2, <1>1, <1>2
<1>4. CASE s \in Pullback
  <2> DEFINE fives == {Covering(n) : n \in {s.reclaim, s.trend, s.atr}}
             hours == {s.slow, s.fast + s.rising, s.efficiency + 1}
  <2>1. s.kind = "pullback" /\ fives \in SUBSET Positive /\ hours \in SUBSET Positive
    BY <1>4 DEF Pullback, Positive, Covering
  <2>2. Reads(s) = OfLength(FiveMinutes, fives) \union OfLength(Hour, hours)
    BY <2>1 DEF Reads, FrameRequirements
  <2> HIDE DEF fives, hours
  <2> QED BY <2>1, <2>2, <1>1, <1>2
<1>5. CASE s \in Reversion
  <2>1. /\ s.kind = "reversion"
        /\ {Covering(s.vwap + 1), Covering(s.atr), 2} \in SUBSET Positive
        /\ {s.lookback + 1} \in SUBSET Positive
    BY <1>5 DEF Reversion, Positive, Covering
  <2>2. Reads(s) = OfLength(FiveMinutes, {Covering(s.vwap + 1), Covering(s.atr), 2})
                     \union OfLength(Hour, {s.lookback + 1})
    BY <2>1 DEF Reads, FrameRequirements
  <2> QED BY <2>1, <2>2, <1>1, <1>2
<1>6. CASE s \in OrderFlow
  <2> DEFINE fives == {Covering(n) : n \in Priors(s)}
  <2>1. s.kind = "orderflow" /\ fives \in SUBSET Positive
    BY <1>6 DEF OrderFlow, Positive, Covering, Priors
  <2>2. Reads(s) = OfLength(FiveMinutes, fives)
    BY <2>1 DEF Reads, FrameRequirements
  <2> HIDE DEF fives
  <2> QED BY <2>1, <2>2, <1>1, <1>2
<1>7. CASE s \in RightTail
  <2>1. s.kind = "right_tail" /\ {s.lookback + 1, s.atr} \in SUBSET Positive
    BY <1>7 DEF RightTail, Positive
  <2>2. Reads(s) = OfLength(Hour, {s.lookback + 1, s.atr})
    BY <2>1 DEF Reads, FrameRequirements
  <2> QED BY <2>1, <2>2, <1>1, <1>2
<1>8. CASE s \in Aligned
  <2>1. /\ s.kind = "aligned" /\ {s.lookback + 1, s.atr} \in SUBSET Positive
        /\ {s.sma} \in SUBSET Positive
    BY <1>8 DEF Aligned, Positive
  <2>2. Reads(s) = OfLength(Hour, {s.lookback + 1, s.atr}) \union OfLength(FourHours, {s.sma})
    BY <2>1 DEF Reads, FrameRequirements
  <2> QED BY <2>1, <2>2, <1>1, <1>2
<1>9. CASE s \in Boundary
  <2>1. s.kind = "boundary" /\ s.lags * QuarterHour + 1 \in Positive /\ s.atr \in Positive
    <3>1. s.lags \in Nat /\ QuarterHour \in Nat /\ s.kind = "boundary" /\ s.atr \in Positive
      BY <1>2, <1>9 DEF Boundary, Positive
    <3>2. s.lags * QuarterHour \in Nat
      BY <3>1, Z3
    <3> QED BY <3>1, <3>2 DEF Positive
  <2>2. Reads(s) = OfLength(1, {s.lags * QuarterHour + 1}) \union OfLength(QuarterHour, {s.atr})
    BY <2>1 DEF Reads
  <2>3. {s.lags * QuarterHour + 1} \in SUBSET Positive /\ {s.atr} \in SUBSET Positive
    BY <2>1
  <2> QED BY <2>2, <2>3, <1>1, <1>2
<1>10. CASE s \in Crowded
  <2>1. s.kind = "crowded" /\ {s.lookback + 1, s.atr} \in SUBSET Positive
    BY <1>10 DEF Crowded, Positive
  <2>2. Reads(s) = OfLength(Hour, {s.lookback + 1, s.atr})
    BY <2>1 DEF Reads
  <2> QED BY <2>1, <2>2, <1>1, <1>2
<1>11. CASE s \in MovingAverage
  <2>1. s.kind = "moving_average" /\ {s.sma} \in SUBSET Positive
    BY <1>11 DEF MovingAverage, Positive
  <2>2. Reads(s) = OfLength(FourHours, {s.sma})
    BY <2>1 DEF Reads
  <2> QED BY <2>1, <2>2, <1>1, <1>2
<1> QED BY <1>3, <1>4, <1>5, <1>6, <1>7, <1>8, <1>9, <1>10, <1>11 DEF Sleeve

\* A window with the minutes that Needed asks for holds the frames.
LEMMA NeededIsHeld ==
  ASSUME NEW rows, Consecutive(rows), NEW f \in Frame, Len(rows) >= Needed(f, Closed(rows))
  PROVE  Holds(rows, f.size, f.count)
<1> DEFINE c == Closed(rows)
           size == f.size
           n == f.count
           q == c \div size
           x == c % size
<1>1. c \in Nat /\ Len(rows) \in Nat /\ size \in Nat \ {0} /\ n \in Nat
  BY WindowMinutes DEF Frame
<1>2. q \in Nat /\ x \in 0..(size - 1) /\ c = q * size + x
  BY <1>1, Division
<1>3. Len(rows) >= n * size + x
  BY DEF Needed
<1> HIDE DEF c, size, n, q, x
<1>4. (q - n) * size = q * size - n * size /\ q * size \in Nat /\ n * size \in Nat
  BY <1>1, <1>2, Z3
<1>5. c - Len(rows) <= (q - n) * size
  BY <1>1, <1>2, <1>3, <1>4
<1> QED BY <1>5 DEF Holds, First, c, size, n, q

\* What the service decides on its rolling window, research decides on the
\* archive, and the other way round once the window holds what the sleeve
\* reads: after outages, whatever the window and wherever it begins.
THEOREM LiveDecidesLikeResearch == LiveSpec => []LiveIsResearch
<1>1. LiveInv => LiveIsResearch
  <2> SUFFICES ASSUME LiveInv, history # <<>> PROVE LiveIsResearch
    BY DEF LiveIsResearch
  <2>1. Consecutive(history) /\ tape \in Seq(Bar) /\ Ordered(tape, clock) /\ EndOf(history, tape)
    <3>1. history \in Seq(Bar) /\ Len(history) > 0
      BY DEF LiveInv, SleevesTypeOK, TypeOK
    <3> QED BY <3>1 DEF LiveInv, SleevesTypeOK, TypeOK, Consecutive, Ordered, EndOf
  <2>2. Ends(history, tape)
    BY <2>1, EndsWithWindow
  <2>3. tape # <<>>
    BY <2>2 DEF Ends
  <2>4. sleeve \in Sleeve /\ Registered(sleeve)
    BY ConfigurationsAssumption DEF LiveInv, SleevesTypeOK
  <2>5. Reach = Reads(sleeve)
    BY <2>4 DEF Reach, Reads, Registered
  <2>6. Decided(history) => Decided(tape)
    BY <2>2, <2>3, <2>4, ArchiveDecidesToo DEF Decided
  <2>7. ASSUME \A f \in Reach : Len(history) >= Needed(f, Closed(history)), Decided(tape)
        PROVE  Decided(history)
    <3>1. \A f \in Reads(sleeve) : Holds(history, f.size, f.count)
      BY <2>1, <2>4, <2>5, <2>7, ReadsAreFrames, NeededIsHeld
    <3> QED BY <3>1, <2>2, <2>4, <2>7, HeldSleeves DEF Decided
  <2> QED BY <2>6, <2>7 DEF LiveIsResearch
<1>2. LiveInv /\ [LiveNext]_liveVars => LiveInv'
  BY LiveStep
<1>3. LiveInit => LiveInv
  BY SleevesStart
<1> QED BY <1>1, <1>2, <1>3, PTL DEF LiveSpec

--------------------------------------------------------------------------
(* Nothing from before a gap takes part in a decision after it.            *)

\* The number of bars up to the latest gap.
LEMMA LatestGap ==
  ASSUME NEW all \in Seq(Bar), all # <<>>
  PROVE  LET gap(j) == all[j].open # all[j - 1].open + 1
             before == {i \in 1..Len(all) : \E j \in (i + 1)..Len(all) : gap(j)}
         IN  \E p \in 0..(Len(all) - 1) :
               /\ Cardinality(before) = p
               /\ p > 0 => gap(p + 1)
               /\ \A j \in (p + 2)..Len(all) : ~gap(j)
<1> DEFINE n == Len(all)
           gap(j) == all[j].open # all[j - 1].open + 1
           before == {i \in 1..n : \E j \in (i + 1)..n : gap(j)}
           back == {d \in Nat : n - d \in 2..n /\ gap(n - d)}
           Latest(p) == /\ Cardinality(before) = p
                        /\ p > 0 => gap(p + 1)
                        /\ \A j \in (p + 2)..n : ~gap(j)
<1>1. n \in Nat \ {0}
  OBVIOUS
<1> HIDE DEF n, gap
<1>2. ASSUME back = {} PROVE \E p \in 0..(n - 1) : Latest(p)
  <2>1. \A j \in 2..n : ~gap(j)
    <3> TAKE j \in 2..n
    <3>1. n - j \in Nat /\ n - (n - j) = j
      BY <1>1
    <3> QED BY <3>1, <1>2
  <2>2. before = {}
    BY <2>1, <1>1
  <2>3. Cardinality(before) = 0 /\ 0 \in 0..(n - 1) /\ (0 + 2)..n = 2..n
    <3>1. Cardinality(before) = 0
      BY <2>2, FS_EmptySet
    <3>2. 0 \in 0..(n - 1) /\ 0 + 2 = 2
      BY <1>1
    <3> HIDE DEF before
    <3> QED BY <3>1, <3>2
  <2> HIDE DEF before
  <2>4. \A j \in (0 + 2)..n : ~gap(j)
    BY <2>1, <2>3
  <2>5. Latest(0)
    <3>1. ~(0 > 0)
      OBVIOUS
    <3> QED BY <3>1, <2>3, <2>4, Zenon
  <2> HIDE DEF Latest
  <2> QED BY <2>3, <2>5
<1>3. ASSUME back # {} PROVE \E p \in 0..(n - 1) : Latest(p)
  <2>1. PICK d \in back : \A e \in back : ~ (<<e, d>> \in OpToRel(<, Nat))
    BY <1>3, NatLessThanWellFounded, WFMin
  <2> DEFINE p == n - d - 1
  <2>2. /\ d \in Nat /\ n - d \in 2..n /\ gap(n - d)
        /\ p + 1 = n - d /\ p \in 1..(n - 1) /\ p \in Nat
    <3>1. d \in Nat /\ n - d \in 2..n /\ gap(n - d)
      BY <2>1
    <3> QED BY <3>1, <1>1
  <2>3. ASSUME NEW j \in (p + 2)..n PROVE ~gap(j)
    <3>1. n - j \in Nat /\ n - j < d /\ n - (n - j) = j /\ j \in 2..n
      BY <2>2, <1>1
    <3>2. <<n - j, d>> \in OpToRel(<, Nat)
      BY <3>1, <2>2 DEF OpToRel
    <3> HIDE DEF p
    <3> QED BY <3>1, <3>2, <2>1
  <2> HIDE DEF p
  <2>4. gap(p + 1)
    BY <2>2
  <2>5. before = 1..p
    <3>1. ASSUME NEW i \in 1..p PROVE i \in before
      <4>1. i \in 1..n /\ p + 1 \in (i + 1)..n
        BY <2>2, <1>1
      <4> QED BY <4>1, <2>4
    <3>2. ASSUME NEW i \in before PROVE i \in 1..p
      <4>1. PICK j \in (i + 1)..n : gap(j)
        OBVIOUS
      <4>2. i \in 1..n
        OBVIOUS
      <4> HIDE DEF before
      <4>3. ~(j \in (p + 2)..n)
        BY <4>1, <2>3
      <4> QED BY <4>2, <4>3, <2>2, <1>1
    <3> QED BY <3>1, <3>2
  <2>6. Cardinality(before) = p
    <3>1. Cardinality(1..p) = IF 1 > p THEN 0 ELSE p - 1 + 1
      <4>1. 1 \in Int /\ p \in Int
        BY <2>2
      <4> QED BY <4>1, FS_Interval
    <3>2. (IF 1 > p THEN 0 ELSE p - 1 + 1) = p
      BY <2>2
    <3> HIDE DEF before
    <3> QED BY <3>1, <3>2, <2>5
  <2>7. Latest(p) /\ p \in 0..(n - 1)
    <3> HIDE DEF before
    <3> QED BY <2>2, <2>3, <2>4, <2>6, <1>1
  <2> HIDE DEF Latest
  <2> QED BY <2>7
<1>4. \E p \in 0..(n - 1) : Latest(p)
  BY <1>2, <1>3
<1> QED BY <1>4 DEF gap, n

\* The rows since then have no gap, end the archive, and miss the minute
\* before them.
LEMMA SinceGapEnds ==
  ASSUME LiveInv, tape # <<>>
  PROVE  Ends(SinceGap, tape) /\ First(SinceGap) - 1 \notin Minutes(tape)
<1> DEFINE n == Len(tape)
           gap(j) == tape[j].open # tape[j - 1].open + 1
           rows == SinceGap
<1>1. tape \in Seq(Bar) /\ Ordered(tape, clock) /\ n \in Nat \ {0}
  BY DEF LiveInv, SleevesTypeOK, Ordered
<1>2. PICK p \in 0..(n - 1) :
        /\ rows = SubSeq(tape, p + 1, n)
        /\ p > 0 => gap(p + 1)
        /\ \A j \in (p + 2)..n : ~gap(j)
  BY <1>1, LatestGap DEF SinceGap
<1>3. \A i \in 1..n : tape[i].open \in Nat
  <2> TAKE i \in 1..n
  <2>1. tape[i] \in Bar
    BY <1>1
  <2> QED BY <2>1 DEF Bar
<1> DEFINE l == n - p
<1>4. l \in Nat \ {0} /\ p \in Nat /\ l <= n /\ n - l + 1 = p + 1
  BY <1>1, <1>2
<1>5. rows \in Seq(Bar) /\ Len(rows) = l /\ \A i \in 1..l : rows[i] = tape[p + i]
  <2>1. \A i \in (p + 1)..n : tape[i] \in Bar
    BY <1>1, <1>4
  <2>2. p + 1 \in Int /\ n \in Int /\ n - (p + 1) + 1 = l /\ p + 1 <= n
    BY <1>4, <1>1
  <2>3. /\ SubSeq(tape, p + 1, n) \in Seq(Bar)
        /\ Len(SubSeq(tape, p + 1, n)) = IF p + 1 <= n THEN n - (p + 1) + 1 ELSE 0
        /\ \A i \in 1..(n - (p + 1) + 1) : SubSeq(tape, p + 1, n)[i] = tape[(p + 1) + i - 1]
    BY <2>1, <2>2, SubSeqProperties
  <2>4. \A i \in 1..l : (p + 1) + i - 1 = p + i
    BY <1>4
  <2> QED BY <2>2, <2>3, <2>4, <1>2
<1> HIDE DEF rows, n, l, gap
<1>6. EndOf(rows, tape)
  BY <1>2, <1>4, <1>5 DEF EndOf, n
<1>7. \A i \in 1..l : rows[i].open \in Nat /\ (i > 1 => rows[i].open = rows[i - 1].open + 1)
  <2> TAKE i \in 1..l
  <2>1. p + i \in 1..n
    BY <1>1, <1>4 DEF l
  <2>2. ASSUME i > 1 PROVE rows[i].open = rows[i - 1].open + 1
    <3>1. i - 1 \in 1..l /\ p + i \in (p + 2)..n /\ p + (i - 1) = (p + i) - 1
      BY <2>1, <2>2, <1>4
    <3>2. rows[i] = tape[p + i] /\ rows[i - 1] = tape[(p + i) - 1] /\ ~gap(p + i)
      BY <3>1, <1>2, <1>5
    <3> QED BY <3>2 DEF gap
  <2> QED BY <2>1, <2>2, <1>3, <1>5
<1>8. Consecutive(rows)
  <2> DEFINE end == rows[l].open
             Good(d) == rows[l - d].open = end - d
             Bad == {d \in Nat : d < l /\ ~Good(d)}
  <2>1. ASSUME Bad # {} PROVE FALSE
    <3>1. PICK d \in Bad : \A e \in Bad : ~ (<<e, d>> \in OpToRel(<, Nat))
      BY <2>1, NatLessThanWellFounded, WFMin
    <3>2. d \in Nat /\ d < l /\ ~Good(d)
      BY <3>1
    <3>3. end \in Nat /\ l - 0 = l /\ end - 0 = end
      <4>1. l \in 1..l
        BY <1>4
      <4> QED BY <4>1, <1>4, <1>7
    <3>4. d # 0
      BY <3>2, <3>3
    <3>5. d - 1 \in Nat /\ d - 1 < d /\ d - 1 < l
      BY <3>2, <3>4, <1>4
    <3>6. Good(d - 1)
      <4>1. <<d - 1, d>> \in OpToRel(<, Nat)
        BY <3>2, <3>5 DEF OpToRel
      <4> HIDE DEF Good
      <4> QED BY <4>1, <3>1, <3>5
    <3>7. l - (d - 1) \in 1..l /\ l - (d - 1) > 1 /\ (l - (d - 1)) - 1 = l - d /\ l - d \in 1..l
      BY <3>2, <3>4, <1>4
    <3>8. rows[l - (d - 1)].open = rows[l - d].open + 1 /\ rows[l - d].open \in Nat
      BY <3>7, <1>7
    <3> QED BY <3>2, <3>3, <3>6, <3>8
  <2>2. ASSUME NEW i \in 1..l PROVE rows[i].open = end - (l - i)
    <3>1. l - i \in Nat /\ l - i < l /\ l - (l - i) = i
      BY <1>4
    <3>2. Good(l - i)
      BY <3>1, <2>1
    <3> QED BY <3>1, <3>2
  <2>3. end \in Nat /\ Closed(rows) = end + 1 /\ Closed(rows) - 1 = end
    <3>1. l \in 1..l
      BY <1>4
    <3>2. end \in Nat
      BY <3>1, <1>7
    <3> QED BY <3>2, <1>5 DEF Closed
  <2> QED BY <2>2, <2>3, <1>4, <1>5 DEF Consecutive
<1>9. Ends(rows, tape)
  BY <1>1, <1>6, <1>8, EndsWithWindow
<1>10. First(rows) = tape[p + 1].open /\ p + 1 \in 1..n
  <2>1. 1 \in 1..l
    BY <1>4
  <2>2. rows[1].open = Closed(rows) - 1 - (l - 1) /\ Closed(rows) \in Nat
    BY <2>1, <1>5, <1>8, WindowMinutes DEF Consecutive
  <2>3. rows[1] = tape[p + 1]
    BY <2>1, <1>5
  <2> QED BY <2>2, <2>3, <1>2, <1>4, <1>5 DEF First
<1>11. ASSUME NEW j \in 1..n PROVE tape[j].open # First(rows) - 1
  <2>1. \A i, k \in 1..n : i < k => tape[i].open < tape[k].open
    BY <1>1, OrderedThroughout DEF n
  <2>2. CASE j > p
    <3>1. j = p + 1 \/ p + 1 < j
      BY <2>2, <1>4
    <3>2. tape[p + 1].open <= tape[j].open
      BY <3>1, <2>1, <1>3, <1>10
    <3> QED BY <3>2, <1>3, <1>10
  <2>3. CASE ~(j > p)
    <3>1. p > 0 /\ p \in 1..n /\ (j = p \/ j < p) /\ (p + 1) - 1 = p
      BY <2>3, <1>1, <1>2, <1>4
    <3>2. tape[p + 1].open # tape[p].open + 1 /\ tape[p].open < tape[p + 1].open
      BY <3>1, <2>1, <1>2, <1>10, <1>4 DEF gap
    <3>3. tape[j].open <= tape[p].open
      BY <3>1, <2>1, <1>3
    <3> QED BY <3>1, <3>2, <3>3, <1>3, <1>10
  <2> QED BY <2>2, <2>3
<1> QED BY <1>9, <1>11 DEF Minutes, rows, n

\* Rows without a gap that the archive ends with, the minute before them
\* missing.
Since(rows, all) == Ends(rows, all) /\ First(rows) - 1 \notin Minutes(all)

\* A run of frames that ends after such rows began does not reach back over
\* the gap: the missing minute would be in one of its frames.
LEMMA RunSinceGap ==
  ASSUME NEW rows, NEW all, Since(rows, all), NEW size \in Nat \ {0}, NEW k \in Int, NEW n \in Nat,
         Run(Frames(all, size), k, n), First(rows) <= (k + 1) * size
  PROVE  First(rows) <= (k - n + 1) * size
<1> DEFINE start == First(rows)
           x == start - 1
           j == k - n + 1
           i == x \div size
<1>1. start \in Nat /\ \A g \in Frames(all, size) : g \in Nat
  BY FramesAreCut DEF Since
<1>2. j \in Int /\ j * size \in Int /\ (k + 1) * size \in Int
  <2>1. j \in Int /\ k + 1 \in Int
    OBVIOUS
  <2> HIDE DEF j
  <2> QED BY <2>1, Z3
<1> HIDE DEF start
<1>3. ASSUME j * size < start PROVE FALSE
  <2>1. n # 0
    <3> SUFFICES ASSUME n = 0 PROVE FALSE
      OBVIOUS
    <3>1. j = k + 1
      OBVIOUS
    <3> QED BY <3>1, <1>1, <1>2, <1>3 DEF start
  <2>2. j \in j..k
    BY <2>1
  <2>3. j \in Nat
    BY <2>2, <1>1 DEF Run
  <2>4. j * size \in Nat
    BY <2>3, Z3
  <2>5. x \in Nat /\ j * size <= x /\ x < (k + 1) * size
    BY <2>4, <1>1, <1>2, <1>3 DEF start
  <2> HIDE DEF x, j
  <2>6. i \in Nat /\ x % size \in 0..(size - 1) /\ x = i * size + (x % size)
    BY <2>5, Division
  <2> HIDE DEF i
  <2>7. i * size \in Nat /\ (i + 1) * size = i * size + size
    BY <2>6, Z3
  <2>8. j * size < (i + 1) * size /\ i * size < (k + 1) * size
    BY <2>5, <2>6, <2>7, <1>2
  <2>9. j < i + 1 /\ i < k + 1
    <3>1. (i + 1 <= j => (i + 1) * size <= j * size) /\ (k + 1 <= i => (k + 1) * size <= i * size)
      BY <2>3, <2>6, Multiples
    <3> QED BY <3>1, <2>3, <2>6, <2>7, <2>8, <1>2
  <2>10. i \in j..k
    BY <2>3, <2>6, <2>9
  <2>11. i \in Frames(all, size)
    BY <2>10 DEF Run, j
  <2>12. x \in (i * size)..(i * size + size - 1)
    BY <2>5, <2>6, <2>7
  <2>13. x \in Minutes(all)
    BY <2>11, <2>12 DEF Frames
  <2> QED BY <2>13 DEF Since, x, start
<1> QED BY <1>1, <1>2, <1>3 DEF start

\* The rows begin before they end.
LEMMA SinceStarts ==
  ASSUME NEW rows, NEW all, Since(rows, all)
  PROVE  /\ First(rows) \in Nat /\ Closed(rows) \in Nat /\ Closed(all) = Closed(rows)
         /\ First(rows) < Closed(rows)
         /\ \A size \in Nat \ {0} :
              Closed(rows) % size = 0 => First(rows) <= (Closed(rows) \div size) * size
<1>1. Consecutive(rows)
  BY DEF Since, Ends
<1>2. First(rows) \in Nat /\ Closed(rows) \in Nat /\ Closed(all) = Closed(rows)
  BY FramesAreCut DEF Since
<1>3. First(rows) < Closed(rows)
  BY <1>1, WindowMinutes DEF First
<1>4. ASSUME NEW size \in Nat \ {0}, Closed(rows) % size = 0
      PROVE  (Closed(rows) \div size) * size = Closed(rows)
  <2>1. PICK c \in Nat : c = Closed(rows)
    BY <1>2
  <2>2. c = (c \div size) * size + (c % size) /\ c \div size \in Nat
    BY Division
  <2>3. (c \div size) * size \in Nat
    BY <2>2, Z3
  <2> QED BY <2>1, <2>2, <2>3, <1>4
<1> QED BY <1>2, <1>3, <1>4

LEMMA EndRunHolds ==
  ASSUME NEW rows, NEW all, Since(rows, all), NEW size \in Nat \ {0}, NEW n \in Nat,
         First(rows) <= (Closed(rows) \div size) * size,
         Run(Frames(all, size), Closed(rows) \div size - 1, n)
  PROVE  Holds(rows, size, n)
<1>1. Closed(rows) \div size \in Nat
  BY SinceStarts, Division
<1>2. PICK k \in Int : k = Closed(rows) \div size - 1
  BY <1>1
<1>3. k + 1 = Closed(rows) \div size /\ k - n + 1 = Closed(rows) \div size - n
  BY <1>1, <1>2
<1>4. First(rows) <= (k - n + 1) * size
  BY <1>2, <1>3, RunSinceGap
<1> QED BY <1>3, <1>4 DEF Holds

\* The five-minute rows from the close of the last hour on have no gap.
LEMMA RegimeHolds ==
  ASSUME NEW rows, NEW all, Since(rows, all), Closed(rows) % FiveMinutes = 0,
         NEW counts \in SUBSET Positive,
         Regime(TimeFrames(all), Closed(rows) \div FiveMinutes - 1, counts), NEW n \in counts
  PROVE  Holds(rows, Hour, n)
<1> DEFINE c == Closed(rows)
           last == c \div Hour - 1
           close == (last + 1) * Hour
           j == (close - 1) \div FiveMinutes
           k == c \div FiveMinutes - 1
<1>1. /\ FiveMinutes \in Nat \ {0} /\ Hour \in Nat \ {0} /\ Hour % FiveMinutes = 0
      /\ c \in Nat /\ Closed(all) = c /\ c \div Hour \in Nat /\ c \div FiveMinutes \in Nat
      /\ First(rows) \in Nat
      /\ \A m \in Minutes(all) : m \in Nat /\ m < c
  BY FrameLengths, FramesAreCut, Division DEF Positive, Since
<1>2. LastHourRegime(all, counts)
  BY <1>1, RegimeIsLastHour
<1>3. /\ last \in Frames(all, Hour)
      /\ \A i \in j..k : i \in Frames(all, FiveMinutes)
      /\ Run(Frames(all, Hour), last, n)
  BY <1>1, <1>2 DEF LastHourRegime
<1>4. last \in Nat /\ c \div Hour = last + 1
  BY <1>1, <1>3 DEF Frames
<1>5. First(rows) <= (k + 1) * FiveMinutes
  <2>1. k + 1 = c \div FiveMinutes
    BY <1>1
  <2> QED BY <2>1, <1>1, SinceStarts
<1> HIDE DEF last, k
<1>6. close \in Nat /\ close - 1 \in Nat
  <2>1. (last + 1) * Hour = last * Hour + Hour /\ last * Hour \in Nat
    BY <1>1, <1>4, Z3
  <2> QED BY <2>1, <1>1
<1> HIDE DEF close
<1>7. j \in Nat /\ j * FiveMinutes \in Nat /\ j * FiveMinutes <= close - 1
  <2>1. PICK x \in Nat : x = close - 1
    BY <1>6
  <2>2. x \div FiveMinutes \in Nat /\ x % FiveMinutes \in 0..(FiveMinutes - 1)
        /\ x = (x \div FiveMinutes) * FiveMinutes + (x % FiveMinutes)
    BY <1>1, Division
  <2>3. (x \div FiveMinutes) * FiveMinutes \in Nat
    BY <2>2, <1>1, Z3
  <2>4. (x \div FiveMinutes) * FiveMinutes <= x
    BY <2>2, <2>3, <1>1
  <2> QED BY <2>1, <2>2, <2>3, <2>4
<1> HIDE DEF j
<1>8. k \in Int
  BY <1>1 DEF k
<1>9. First(rows) <= close
  <2>1. CASE j <= k
    <3>1. k - j + 1 \in Nat /\ k - (k - j + 1) + 1 = j
      BY <2>1, <1>7, <1>8
    <3>2. PICK r \in Nat : r = k - j + 1
      BY <3>1
    <3>3. Run(Frames(all, FiveMinutes), k, r) /\ k - r + 1 = j
      BY <3>1, <3>2, <1>3 DEF Run
    <3>4. First(rows) <= (k - r + 1) * FiveMinutes
      BY <3>3, <1>1, <1>5, <1>8, RunSinceGap
    <3>5. First(rows) <= j * FiveMinutes
      BY <3>3, <3>4
    <3> QED BY <3>5, <1>1, <1>6, <1>7
  <2>2. CASE ~(j <= k)
    <3>1. k + 1 <= j
      BY <2>2, <1>7, <1>8
    <3>2. (k + 1) * FiveMinutes <= j * FiveMinutes /\ (k + 1) * FiveMinutes \in Int
      <4>1. (k + 1) * FiveMinutes <= j * FiveMinutes
        BY <3>1, <1>1, <1>7, <1>8, Multiples
      <4>2. (k + 1) * FiveMinutes \in Int
        BY <1>1, <1>8, Z3
      <4> QED BY <4>1, <4>2
    <3> QED BY <3>2, <1>1, <1>5, <1>6, <1>7
  <2> QED BY <2>1, <2>2
<1>10. n \in Nat /\ First(rows) <= (c \div Hour) * Hour
  BY <1>4, <1>9 DEF Positive, close
<1> QED BY <1>1, <1>3, <1>10, EndRunHolds DEF last

LEMMA LengthsHold ==
  ASSUME NEW rows, NEW size, NEW counts, \A n \in counts : Holds(rows, size, n),
         NEW f \in OfLength(size, counts)
  PROVE  Holds(rows, f.size, f.count)
<1>1. PICK n \in counts : f = [size |-> size, count |-> n]
  BY DEF OfLength
<1>2. f.size = size /\ f.count = n
  BY <1>1
<1> QED BY <1>1, <1>2

LEMMA FiveMinuteReadsHold ==
  ASSUME NEW rows, NEW all, Since(rows, all),
         NEW s \in Breakout \union Pullback \union Reversion \union OrderFlow,
         NEW obs, Decides(s, all, obs), NEW f \in Reads(s)
  PROVE  Holds(rows, f.size, f.count)
<1> DEFINE c == Closed(rows)
           q == c \div FiveMinutes
           k == q - 1
           b == TimeFrames(all)
           G == Frames(all, FiveMinutes)
<1>1. /\ FiveMinutes \in Nat \ {0} /\ c \in Nat /\ Closed(all) = c /\ q \in Nat
      /\ FrameOf(s) = FiveMinutes
  BY FrameLengths, SinceStarts, Division
     DEF Positive, FrameOf, Breakout, Pullback, Reversion, OrderFlow
<1>2. c % FiveMinutes = 0 /\ k \in G /\ ReachesRule(s, b, obs, k)
  BY <1>1 DEF Decides
<1>3. b.five = G
  BY DEF TimeFrames
<1>4. First(rows) <= q * FiveMinutes /\ k \in Int /\ k + 1 = q
  BY <1>1, <1>2, SinceStarts
<1>5. \A n \in Nat : Run(b.five, k, n) => Holds(rows, FiveMinutes, n)
  BY <1>1, <1>3, <1>4, EndRunHolds
<1>6. ASSUME NEW n \in Nat, Run(b.five, k, 2), Run(b.five, k - 1, n)
      PROVE  Holds(rows, FiveMinutes, n + 1)
  <2>1. First(rows) <= (k - 2 + 1) * FiveMinutes
    BY <1>1, <1>3, <1>4, <1>6, RunSinceGap
  <2>2. PICK j \in Int : j = k - 1
    BY <1>4
  <2>3. k - 2 + 1 = j /\ First(rows) <= j * FiveMinutes
    <3>1. k - 2 + 1 = j
      BY <2>2, <1>4
    <3> QED BY <2>1, <3>1
  <2>4. First(rows) <= (j + 1) * FiveMinutes
    <3>1. (j + 1) * FiveMinutes = j * FiveMinutes + FiveMinutes /\ j * FiveMinutes \in Int
      BY <1>1, Z3
    <3>2. First(rows) \in Nat
      BY SinceStarts
    <3> QED BY <3>1, <3>2, <2>3, <1>1
  <2>5. First(rows) <= (j - n + 1) * FiveMinutes
    BY <2>2, <2>4, <1>1, <1>3, <1>6, RunSinceGap
  <2>6. j - n + 1 = q - (n + 1)
    BY <2>2, <1>1, <1>4
  <2> QED BY <2>5, <2>6 DEF Holds
<1>7. ASSUME NEW counts \in SUBSET Positive, Regime(b, k, counts), NEW n \in counts
      PROVE  Holds(rows, Hour, n)
  BY <1>1, <1>2, <1>7, RegimeHolds
<1> HIDE DEF b, G, c
<1>8. CASE s \in Breakout
  <2>1. /\ s.kind = "breakout" /\ s.donchian \in Nat /\ s.atr \in Nat
        /\ {s.lookback + 1} \in SUBSET Positive
    BY <1>8 DEF Breakout, Positive
  <2>2. Reads(s) = OfLength(FiveMinutes, {s.donchian + 1, s.atr}) \union OfLength(Hour, {s.lookback + 1})
    BY <2>1 DEF Reads, FrameRequirements, Covering
  <2>3. /\ Run(b.five, k, s.donchian + 1) /\ Run(b.five, k, s.atr) /\ Regime(b, k, {s.lookback + 1})
    BY <2>1, <1>2 DEF ReachesRule, BreakoutRow
  <2>4. \A n \in {s.donchian + 1, s.atr} : Holds(rows, FiveMinutes, n)
    <3>1. s.donchian + 1 \in Nat
      BY <2>1
    <3> QED BY <3>1, <2>1, <2>3, <1>5
  <2>5. \A n \in {s.lookback + 1} : Holds(rows, Hour, n)
    BY <2>1, <2>3, <1>7
  <2> QED BY <2>2, <2>4, <2>5, LengthsHold
<1>9. CASE s \in Pullback
  <2> DEFINE hours == {s.slow, s.rising + s.fast, s.efficiency + 1}
             fives == {s.reclaim + 1, s.trend + 1, s.atr + 1}
  <2>1. /\ s.kind = "pullback" /\ s.reclaim \in Nat /\ s.trend \in Nat /\ s.atr \in Nat
        /\ hours \in SUBSET Positive
    BY <1>9 DEF Pullback, Positive
  <2>2. s.fast + s.rising = s.rising + s.fast
    BY <1>9 DEF Pullback, Positive
  <2>3. Reads(s) = OfLength(FiveMinutes, fives) \union OfLength(Hour, hours)
    <3>1. {Covering(n) : n \in {s.reclaim, s.trend, s.atr}} = fives
      BY DEF Covering
    <3> QED BY <2>1, <2>2, <3>1 DEF Reads, FrameRequirements
  <2>4. PullbackRow(s, b, k)
    BY <2>1, <1>2 DEF ReachesRule
  <2>5. /\ Run(b.five, k, 2) /\ Run(b.five, k - 1, s.reclaim) /\ Run(b.five, k - 1, s.atr)
        /\ Run(b.five, k - 1, s.trend) /\ Regime(b, k, hours)
    BY <2>4 DEF PullbackRow
  <2>6. \A n \in fives : Holds(rows, FiveMinutes, n)
    <3>1. /\ Holds(rows, FiveMinutes, s.reclaim + 1) /\ Holds(rows, FiveMinutes, s.trend + 1)
          /\ Holds(rows, FiveMinutes, s.atr + 1)
      <4> HIDE DEF hours, k
      <4> QED BY <2>1, <2>5, <1>6
    <3> QED BY <3>1
  <2> HIDE DEF hours, fives
  <2>7. \A n \in hours : Holds(rows, Hour, n)
    BY <2>1, <2>5, <1>7
  <2> QED BY <2>3, <2>6, <2>7, LengthsHold
<1>10. CASE s \in Reversion
  <2> DEFINE fives == {s.vwap + 1 + 1, s.atr + 1, 2}
  <2>1. /\ s.kind = "reversion" /\ s.vwap + 1 \in Nat /\ s.atr \in Nat
        /\ {s.lookback + 1} \in SUBSET Positive
    BY <1>10 DEF Reversion, Positive
  <2>2. Reads(s) = OfLength(FiveMinutes, fives) \union OfLength(Hour, {s.lookback + 1})
    BY <2>1 DEF Reads, FrameRequirements, Covering
  <2>3. ReversionRow(s, b, k)
    BY <2>1, <1>2 DEF ReachesRule
  <2>4. /\ Run(b.five, k, 2) /\ Run(b.five, k - 1, s.atr) /\ Run(b.five, k - 1, s.vwap + 1)
        /\ Regime(b, k, {s.lookback + 1})
    BY <2>3 DEF ReversionRow
  <2>5. \A n \in fives : Holds(rows, FiveMinutes, n)
    <3>1. /\ Holds(rows, FiveMinutes, s.vwap + 1 + 1) /\ Holds(rows, FiveMinutes, s.atr + 1)
          /\ Holds(rows, FiveMinutes, 2)
      <4> HIDE DEF k
      <4> QED BY <2>1, <2>4, <1>5, <1>6
    <3> QED BY <3>1
  <2>6. \A n \in {s.lookback + 1} : Holds(rows, Hour, n)
    BY <2>1, <2>4, <1>7
  <2> HIDE DEF fives
  <2> QED BY <2>2, <2>5, <2>6, LengthsHold
<1>11. CASE s \in OrderFlow
  <2> DEFINE fives == {n + 1 : n \in Priors(s)}
             P == {i \in G : HasVolume(b, i, FiveMinutes)}
  <2>1. s.kind = "orderflow" /\ Priors(s) \subseteq Nat
    BY <1>11 DEF OrderFlow, Positive, Priors
  <2>2. Reads(s) = OfLength(FiveMinutes, fives)
    <3>1. FrameRequirements(s) = OfLength(FiveMinutes, {Covering(n) : n \in Priors(s)})
      BY <2>1 DEF FrameRequirements
    <3>2. {Covering(n) : n \in Priors(s)} = fives
      BY DEF Covering
    <3> QED BY <2>1, <3>1, <3>2 DEF Reads
  <2>3. \A n \in Priors(s) : Run(P, k, n + 1)
    BY <2>1, <1>2, <1>3 DEF ReachesRule, OrderFlowRow
  <2>4. ASSUME NEW n \in Priors(s) PROVE Holds(rows, FiveMinutes, n + 1)
    <3>1. n + 1 \in Nat
      BY <2>1
    <3>2. Run(b.five, k, n + 1)
      BY <2>3, <1>3 DEF Run
    <3> QED BY <3>1, <3>2, <1>5
  <2>5. \A n \in fives : Holds(rows, FiveMinutes, n)
    BY <2>4
  <2> HIDE DEF fives
  <2> QED BY <2>2, <2>5, LengthsHold
<1> QED BY <1>8, <1>9, <1>10, <1>11

\* A 4h state that is less than a 4h frame old belongs to the rows since the
\* gap if the hours before the decision span a 4h frame.
LEMMA HourReadsHold ==
  ASSUME NEW rows, NEW all, Since(rows, all), NEW s \in RightTail \union Aligned \union Crowded,
         s \in Aligned => (s.lookback + 1) * Hour >= FourHours,
         NEW obs, Decides(s, all, obs), NEW f \in Reads(s)
  PROVE  Holds(rows, f.size, f.count)
<1> DEFINE c == Closed(rows)
           q == c \div Hour
           k == q - 1
           v == c \div FourHours
           b == TimeFrames(all)
<1>1. /\ Hour \in Nat \ {0} /\ FourHours \in Nat \ {0} /\ c \in Nat /\ Closed(all) = c
      /\ q \in Nat /\ v \in Nat /\ FrameOf(s) = Hour
  BY FrameLengths, SinceStarts, Division DEF Positive, FrameOf, RightTail, Aligned, Crowded
<1>2. c % Hour = 0 /\ ReachesRule(s, b, obs, k) /\ b.hour = Frames(all, Hour)
  BY <1>1 DEF Decides, TimeFrames
<1>3. /\ s.lookback + 1 \in Nat /\ s.atr \in Nat
      /\ s.kind \in {"right_tail", "aligned", "crowded"}
      /\ s.kind = "right_tail" <=> s \in RightTail
      /\ s.kind = "aligned" <=> s \in Aligned
      /\ s.kind = "crowded" <=> s \in Crowded
  BY <1>1 DEF RightTail, Aligned, Crowded, Positive
<1>4. Run(b.hour, k, s.lookback + 1) /\ Run(b.hour, k, s.atr)
  BY <1>2, <1>3 DEF ReachesRule, RightTailRow, AlignedRow, CrowdedRow
<1>5. First(rows) <= q * Hour
  BY <1>1, <1>2, SinceStarts
<1>6. Holds(rows, Hour, s.lookback + 1) /\ Holds(rows, Hour, s.atr)
  BY <1>1, <1>2, <1>3, <1>4, <1>5, EndRunHolds
<1>7. \A n \in {s.lookback + 1, s.atr} : Holds(rows, Hour, n)
  BY <1>6
<1>8. CASE s \notin Aligned
  <2>1. Reads(s) = OfLength(Hour, {s.lookback + 1, s.atr})
    BY <1>3, <1>8 DEF Reads, FrameRequirements
  <2> QED BY <2>1, <1>7, LengthsHold
<1>9. CASE s \in Aligned
  <2>1. s.kind = "aligned" /\ s.sma \in Nat
    BY <1>3, <1>9 DEF Aligned, Positive
  <2>2. Run(Frames(all, FourHours), v - 1, s.sma)
    BY <2>1, <1>1, <1>2, <1>9, AlignedAtEnd DEF ReachesRule
  <2>3. First(rows) <= v * FourHours
    <3>1. /\ c = q * Hour + (c % Hour)
          /\ c = v * FourHours + (c % FourHours) /\ c % FourHours \in 0..(FourHours - 1)
      BY <1>1, Division
    <3>2. PICK n \in Nat : n = s.lookback + 1
      BY <1>3
    <3>3. First(rows) <= (q - n) * Hour /\ n * Hour >= FourHours
      BY <3>2, <1>6, <1>9 DEF Holds
    <3> HIDE DEF q, v, c
    <3>4. (q - n) * Hour = q * Hour - n * Hour /\ q * Hour \in Nat /\ n * Hour \in Nat
          /\ v * FourHours \in Nat
      BY <1>1, Z3
    <3>5. First(rows) \in Nat
      BY SinceStarts
    <3> QED BY <3>1, <3>3, <3>4, <3>5, <1>1, <1>2
  <2>4. Holds(rows, FourHours, s.sma)
    BY <2>1, <2>2, <2>3, <1>1, EndRunHolds
  <2>5. Reads(s) = OfLength(Hour, {s.lookback + 1, s.atr}) \union OfLength(FourHours, {s.sma})
    BY <2>1 DEF Reads, FrameRequirements
  <2>6. \A n \in {s.sma} : Holds(rows, FourHours, n)
    BY <2>4
  <2> QED BY <2>5, <2>6, <1>7, LengthsHold
<1> QED BY <1>8, <1>9

LEMMA BoundaryReadsHold ==
  ASSUME NEW rows, NEW all, Since(rows, all), NEW s \in Boundary,
         NEW obs, Decides(s, all, obs), NEW f \in Reads(s)
  PROVE  Holds(rows, f.size, f.count)
<1> DEFINE c == Closed(rows)
           m == c - 1
           u == m \div QuarterHour
           reach == s.lags * QuarterHour + 1
           b == TimeFrames(all)
<1>1. /\ QuarterHour \in Nat \ {0} /\ c \in Nat /\ Closed(all) = c /\ First(rows) \in Nat
      /\ First(rows) < c
      /\ s.kind = "boundary" /\ s.lags \in Nat /\ s.atr \in Nat /\ FrameOf(s) = 1
      /\ 1 \in Nat \ {0}
  BY FrameLengths, SinceStarts DEF Positive, Boundary, FrameOf
<1>2. c \div 1 = c /\ c % 1 = 0 /\ m \in Nat /\ c = m + 1
  BY <1>1
<1>3. BoundaryRow(s, b, m)
  BY <1>1, <1>2 DEF Decides, ReachesRule
<1>4. /\ m % QuarterHour = 0 /\ Run(Frames(all, 1), m, reach)
      /\ Run(Frames(all, QuarterHour), u - 1, s.atr)
  BY <1>3 DEF BoundaryRow, TimeFrames
<1>5. c \div QuarterHour = u /\ m = u * QuarterHour
  BY <1>2, <1>4, FirstMinuteOfQuarter
<1>6. reach \in Nat
  <2>1. s.lags * QuarterHour \in Nat
    BY <1>1, Z3
  <2> QED BY <2>1
<1>7. Reads(s) = OfLength(1, {reach}) \union OfLength(QuarterHour, {s.atr})
  BY <1>1 DEF Reads
<1> HIDE DEF reach, m, c, u
<1>8. Holds(rows, 1, reach)
  <2>1. /\ First(rows) <= (Closed(rows) \div 1) * 1
        /\ Run(Frames(all, 1), Closed(rows) \div 1 - 1, reach)
    BY <1>1, <1>2, <1>4 DEF c, m
  <2> QED BY <2>1, <1>1, <1>6, EndRunHolds
<1>9. Holds(rows, QuarterHour, s.atr)
  <2>1. First(rows) <= u * QuarterHour
    BY <1>1, <1>2, <1>5
  <2>2. /\ First(rows) <= (Closed(rows) \div QuarterHour) * QuarterHour
        /\ Run(Frames(all, QuarterHour), Closed(rows) \div QuarterHour - 1, s.atr)
    BY <2>1, <1>4, <1>5 DEF c
  <2> QED BY <2>2, <1>1, EndRunHolds
<1>10. (\A n \in {reach} : Holds(rows, 1, n)) /\ (\A n \in {s.atr} : Holds(rows, QuarterHour, n))
  BY <1>8, <1>9
<1> QED BY <1>7, <1>10, LengthsHold

LEMMA ReadsHold ==
  ASSUME NEW rows, NEW all, Since(rows, all), NEW s \in Sleeve,
         s \in Aligned => (s.lookback + 1) * Hour >= FourHours,
         NEW obs, Decides(s, all, obs), NEW f \in Reads(s)
  PROVE  Holds(rows, f.size, f.count)
<1>1. CASE s \in MovingAverage
  <2>1. /\ s.kind = "moving_average" /\ s.sma \in Nat /\ FrameOf(s) = FourHours
        /\ FourHours \in Nat \ {0} /\ Closed(all) = Closed(rows)
    BY <1>1, FrameLengths, SinceStarts DEF MovingAverage, Positive, FrameOf
  <2>2. /\ Closed(rows) % FourHours = 0
        /\ Run(Frames(all, FourHours), Closed(rows) \div FourHours - 1, s.sma)
    BY <2>1 DEF Decides, ReachesRule, MovingAverageRow, TimeFrames
  <2>3. Holds(rows, FourHours, s.sma)
    BY <2>1, <2>2, SinceStarts, EndRunHolds
  <2>4. Reads(s) = OfLength(FourHours, {s.sma})
    BY <2>1 DEF Reads
  <2>5. \A n \in {s.sma} : Holds(rows, FourHours, n)
    BY <2>3
  <2> QED BY <2>4, <2>5, LengthsHold
<1> QED BY <1>1, FiveMinuteReadsHold, HourReadsHold, BoundaryReadsHold DEF Sleeve

\* Nothing from before a gap takes part in a decision after it: the rows since
\* the latest gap of the archive decide alone.  Of the aligned sleeve it is
\* true because its hours span a 4h frame.
THEOREM GapsIsolate ==
  ASSUME \A c \in Configurations :
           c.sleeve \in Aligned => (c.sleeve.lookback + 1) * Hour >= FourHours
  PROVE  LiveSpec => []GapIsolation
<1>1. LiveInv => GapIsolation
  <2> SUFFICES ASSUME LiveInv, Decided(tape) PROVE Decided(SinceGap)
    BY DEF GapIsolation
  <2>1. tape # <<>> /\ Decides(sleeve, tape, observed)
    BY DEF Decided
  <2>2. Since(SinceGap, tape)
    BY <2>1, SinceGapEnds DEF Since
  <2>3. sleeve \in Sleeve /\ (sleeve \in Aligned => (sleeve.lookback + 1) * Hour >= FourHours)
    <3>1. PICK c \in Configurations : c.sleeve = sleeve
      BY DEF LiveInv, SleevesTypeOK
    <3> QED BY <3>1, ConfigurationsAssumption
  <2>4. \A f \in Reads(sleeve) : Holds(SinceGap, f.size, f.count)
    BY <2>1, <2>2, <2>3, ReadsHold
  <2>5. Decides(sleeve, SinceGap, observed)
    BY <2>1, <2>2, <2>3, <2>4, HeldSleeves DEF Since
  <2>6. SinceGap # <<>>
    BY <2>2 DEF Since, Ends, Consecutive
  <2> QED BY <2>5, <2>6 DEF Decided
<1>2. LiveInv /\ [LiveNext]_liveVars => LiveInv'
  BY LiveStep
<1>3. LiveInit => LiveInv
  BY SleevesStart
<1> QED BY <1>1, <1>2, <1>3, PTL DEF LiveSpec

=============================================================================
