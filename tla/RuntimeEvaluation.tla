------------------------ MODULE RuntimeEvaluation ------------------------
(***************************************************************************)
(* The receipt of one enabled strategy for one accepted closed bar:        *)
(* evaluate_runtime_bar of kairos_strategy/runtime_evaluation.py on the    *)
(* rolling window that the service keeps, under settings that passed       *)
(* config.py.                                                              *)
(*                                                                         *)
(* Whether a quiet result is an analysis (NO_INTENT) or not (WARMUP,       *)
(* UNAVAILABLE) depends on the complete UTC frames the window holds, so on *)
(* its length, on the phase of the clock and on which minutes traded.  The *)
(* generator itself is an input.  Time is counted in minutes.              *)
(***************************************************************************)
EXTENDS FrameReadiness

CONSTANTS
  Rules,      \* registered requirements and reviewed frames of the strategies
  Windows,    \* values of settings.window_bars
  MaxMinute   \* bound on the minutes a behaviour reaches

\* The volume context is asked only of a frame that readiness covers: the
\* generator reads `prior` frames before each of the last two.
Consistent(r) ==
  /\ r.phase < r.interval /\ r.offset < r.cycle
  /\ r.prior > 0 => \E f \in r.frames : f.size = r.priorSize /\ f.count >= r.prior + 2

ASSUME RulesAssumption == Rules \subseteq Rule /\ \A r \in Rules : Consistent(r)
ASSUME WindowsAssumption == Windows \subseteq Nat \ {0}
ASSUME BoundAssumption == MaxMinute \in Nat

Status == {"NONE", "INTENT", "NO_INTENT", "WARMUP", "NOT_SCHEDULED", "UNAVAILABLE", "ERROR"}

VARIABLES
  rule, window,  \* the settings, fixed at start
  history,       \* the symbol's accepted bars, oldest first
  status         \* status of the latest receipt

vars == <<rule, window, history, status>>

--------------------------------------------------------------------------
(* Settings and the rolling window.                                        *)

\* validate_authority: the window holds the registered minimum.
Accepted(r, w) == w >= r.minimum

\* Slip: a plain list instead of the bounded deque.
ExtendUnbounded(rows, b) == Append(rows, b)

Extend(rows, b) ==
  LET longer == Append(rows, b)
  IN  IF Len(longer) > window THEN Tail(longer) ELSE longer

--------------------------------------------------------------------------
(* The volume a quiet result divides by, _volume_context_ready.            *)

\* The strictly prior volume is positive at both of the last two frames.
VolumeContextReady(r, rows) ==
  r.prior > 0 => \A back \in {1, 2} : \E k \in 1..r.prior :
                   Traded(rows, Closed(rows) \div r.priorSize - back - k, r.priorSize)

--------------------------------------------------------------------------
(* The decision clock and the verdict.                                     *)

Scheduled(r, minute) == minute % r.interval = r.phase /\ minute % r.cycle = r.offset

\* What the generator does with the window: fail, or emit intents for this
\* anchor, or none.
Result == {"failed", "intent", "quiet"}

\* Of a quiet result, what may be claimed.
QuietVerdict(r, rows) ==
  IF ~r.reviewed THEN "UNAVAILABLE"
  ELSE IF ~HistoryReady(r, rows) THEN "WARMUP"
  ELSE IF ~VolumeContextReady(r, rows) THEN "UNAVAILABLE"
  ELSE "NO_INTENT"

Verdict(r, rows, result) ==
  IF Len(rows) < r.minimum THEN "WARMUP"
  ELSE IF ~Scheduled(r, Closed(rows)) THEN "NOT_SCHEDULED"
  ELSE IF result = "failed" THEN "ERROR"
  ELSE IF result = "intent" THEN "INTENT"
  ELSE QuietVerdict(r, rows)

--------------------------------------------------------------------------
Init ==
  /\ rule \in Rules /\ window \in Windows /\ Accepted(rule, window)
  /\ history = <<>> /\ status = "NONE"

Evaluate(b, result) ==
  /\ history' = Extend(history, b)
  /\ status' = Verdict(rule, history', result)
  /\ UNCHANGED <<rule, window>>

\* The first bar may open at any minute.
FirstBar == /\ history = <<>>
            /\ \E open \in 0..(MaxMinute - 1), traded \in BOOLEAN, result \in Result :
                 Evaluate([open |-> open, traded |-> traded], result)

\* Later bars follow without a gap, the service sees to that.
NextBar == /\ history # <<>> /\ Closed(history) < MaxMinute
           /\ \E traded \in BOOLEAN, result \in Result :
                Evaluate([open |-> Closed(history), traded |-> traded], result)

\* A process that starts again has an empty window without a store; with one
\* it has stored bars, no receipt of its own yet, and goes on only if the
\* bars follow each other (the service blocks the symbol otherwise).
Restart == /\ \/ history' = <<>>
              \/ Consecutive(history') /\ Len(history') <= window
           /\ status' = "NONE"
           /\ UNCHANGED <<rule, window>>

Next == FirstBar \/ NextBar \/ Restart

Spec == Init /\ [][Next]_vars

--------------------------------------------------------------------------
(* Types and safety.                                                       *)

\* Every variable has its type, and the window neither outgrows window_bars
\* nor has a gap.
TypeOK ==
  /\ rule \in Rules /\ window \in Windows /\ status \in Status
  /\ history \in Seq(Bar) /\ Len(history) <= window
  /\ \A i \in 1..Len(history) : history[i].open = Closed(history) - 1 - (Len(history) - i)

\* The minute is in the window.
Held(m) == \E i \in 1..Len(history) : history[i].open = m

\* NO_INTENT is a completed analysis: each of the last `count` frames of
\* every length the strategy looks back on is whole in the window, traded
\* if the strategy resets on zero volume, and so is every prior frame whose
\* volume it divides by (docs/RUNTIME-EVALUATIONS.md, NO_INTENT).
QuietIsInformed ==
  status = "NO_INTENT" =>
    /\ \A f \in rule.frames : \A back \in 1..f.count :
         LET k == Closed(history) \div f.size - back
         IN  /\ \A m \in (k * f.size)..(k * f.size + f.size - 1) : Held(m)
             /\ rule.segment => \E i \in 1..Len(history) :
                  history[i].traded /\ InBucket(history, i, k, f.size)
    /\ rule.prior > 0 =>
         \A last \in {1, 2} : \E i \in 1..Len(history) :
           LET frame == Closed(history) \div rule.priorSize - last
           IN  /\ history[i].traded
               /\ history[i].open \in ((frame - rule.prior) * rule.priorSize)..(frame * rule.priorSize - 1)

\* Minutes the window must hold at this minute for all the frames: the
\* frames themselves and the part of a frame that is still open.
Needed(f, minute) == f.count * f.size + (minute % f.size)

\* At a decision a quiet strategy is in WARMUP exactly while the window is
\* shorter than the registered minimum or than some frame needs, however
\* the window and the clock are aligned: a window that is long enough at
\* every decision never falls back, one that is too short flaps or waits
\* for ever.  (Strategies that reset on zero volume can need more.)
WarmupIsExact ==
  (status \in {"WARMUP", "NO_INTENT", "UNAVAILABLE"} /\ rule.reviewed /\ ~rule.segment
     /\ Scheduled(rule, Closed(history))) =>
  (status = "WARMUP" <=>
     \/ Len(history) < rule.minimum
     \/ \E f \in rule.frames : Len(history) < Needed(f, Closed(history)))

\* A registered minimum that covers the frames at the decision phase.
CoversFrames(r) ==
  ~r.segment /\ \A f \in r.frames : /\ r.interval % f.size = 0
                                    /\ r.minimum >= Needed(f, r.phase)

\* For such a strategy the settings check is enough: from its first decision
\* with the registered minimum on it is never in WARMUP (README.md on the
\* 48,060 bars of regime_aligned_right_tail_v1; runtime_requirements.py).
RegisteredMinimumSuffices ==
  (CoversFrames(rule) /\ Len(history) >= rule.minimum) => status # "WARMUP"
=============================================================================
