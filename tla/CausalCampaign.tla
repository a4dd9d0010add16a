-------------------------- MODULE CausalCampaign --------------------------
(***************************************************************************)
(* The research evaluator of kairos_strategy/campaign.py: from a context   *)
(* that was saved before, it reloads the named window through a resolver,  *)
(* runs the registered generator on it and returns a result, or raises.    *)
(*                                                                         *)
(* Calls of evaluate() interleave at the await on the resolver.  While one *)
(* runs without awaiting, nothing else in the process does, but the files  *)
(* on disk, whose digests the evaluator compares, change when they like.   *)
(* Windows stand for their SHA-256, and equal windows for equal digests.   *)
(***************************************************************************)
EXTENDS FrameReadiness

CONSTANTS
  Evaluation,  \* calls of evaluate()
  Rules,       \* registered requirements and reviewed frames
  Minimums,    \* declared values of minimum_window_bars
  Contexts,    \* saved market contexts with their observation windows
  Loads,       \* windows that the resolver returns
  Intents      \* intents that the generator returns

\* The named window, the anchor bar, the clocks of the snapshot and of its
\* source, the cutoff of the observation and its pairing.
Context == [bars : Seq(Bar) \ {<<>>}, anchor : Bar, snapshot : Nat, source : Nat,
            as_of : Nat, paired : Nat]
Intent == [decided : Nat, expires : Nat]

ASSUME RulesAssumption == Rules \subseteq Rule /\ Minimums \subseteq Nat
ASSUME ContextsAssumption == Contexts \subseteq Context
ASSUME LoadsAssumption == Loads \subseteq Seq(Bar) \ {<<>>}
ASSUME IntentsAssumption == Intents \subseteq Intent /\ IsFiniteSet(Intents)

VARIABLES
  rule, minimum,  \* what the evaluator was constructed with
  memory,         \* registry, requirements and config against construction
  disk,           \* source files against construction
  call            \* where each call is

vars == <<rule, minimum, memory, disk, call>>

Version == {"frozen", "changed"}

\* A call before its first check, at the await, with the generator's answer
\* (and the versions that answer was made with), and at its end.
Idle == [phase : {"idle"}]
Loading == [phase : {"loading"}, context : Contexts]
Answer == [context : Contexts, bars : Loads, intents : SUBSET Intents,
           memory : Version, disk : Version]
Generated == [phase : {"generated"}, answer : Answer]
Result == [phase : {"result"}, answer : Answer]
Raised == [phase : {"raised"}]
Call == Idle \union Loading \union Generated \union Result \union Raised

--------------------------------------------------------------------------
(* Checks.                                                                 *)

\* The constructor: a reviewed strategy, and warmup that covers the
\* registered bound and each of the frames by itself.
Constructed(r, m) ==
  r.reviewed /\ m >= r.minimum /\ \A f \in r.frames : m >= f.size * f.count

Frozen == memory = "frozen" /\ disk = "frozen"

ClosedAt(bar) == bar.open + 1

\* Before the await: the clocks of anchor, snapshot and source are in order.
Admissible(c) ==
  /\ ClosedAt(c.anchor) <= c.as_of
  /\ ClosedAt(c.anchor) <= c.snapshot /\ c.snapshot <= c.source
  /\ c.source <= c.as_of

Contiguous(rows) == \A i \in 1..(Len(rows) - 1) : rows[i + 1].open = rows[i].open + 1

\* Slip: a window that ends in the anchor is taken for the named one.
VerifiedByEnd(rows, c) ==
  /\ Contiguous(rows) /\ rows[Len(rows)] = c.anchor
  /\ \A i \in 1..Len(rows) :
       rows[i].open <= c.anchor.open /\ ClosedAt(rows[i]) <= c.as_of

\* After it: canonical, the named window, ending in the anchor, in the past.
Verified(rows, c) ==
  /\ Contiguous(rows)
  /\ rows = c.bars /\ rows[Len(rows)] = c.anchor
  /\ \A i \in 1..Len(rows) :
       rows[i].open <= c.anchor.open /\ ClosedAt(rows[i]) <= c.as_of

\* Slip: the declared number of bars stands for the frames.
ReadyByCount(rows) == Len(rows) >= minimum /\ Closed(rows) % rule.interval = rule.phase

Ready(rows) ==
  /\ Len(rows) >= minimum
  /\ Closed(rows) % rule.interval = rule.phase
  /\ HistoryReady(rule, rows)

\* The intents for the anchor; earlier ones are not reused.
Candidates(answer) == {i \in answer.intents : i.decided = ClosedAt(answer.context.anchor)}

\* Slip: the source that an intent carries the digest of is not compared.
SelectedAnySource(answer) ==
  /\ Cardinality(Candidates(answer)) <= 1
  /\ \A i \in Candidates(answer) : answer.context.paired < i.expires

\* At most one of them, open at the pairing and made by the frozen source.
Selected(answer) ==
  /\ Cardinality(Candidates(answer)) <= 1
  /\ \A i \in Candidates(answer) :
       answer.context.paired < i.expires /\ answer.disk = "frozen"

--------------------------------------------------------------------------
(* Steps.                                                                  *)

Set(e, state) == call' = [call EXCEPT ![e] = state]

\* Slip: there is an await between the generator and the result.
BusyNever == FALSE

\* A call has its answer and no result yet: it runs without awaiting.
Busy == \E e \in Evaluation : call[e].phase = "generated"

Init ==
  /\ rule \in Rules /\ minimum \in Minimums /\ Constructed(rule, minimum)
  /\ memory = "frozen" /\ disk = "frozen"
  /\ call = [e \in Evaluation |-> [phase |-> "idle"]]

Raise(e) == Set(e, [phase |-> "raised"]) /\ UNCHANGED <<rule, minimum, memory, disk>>

\* evaluate() up to the await.
Begin(e, c) ==
  /\ call[e].phase = "idle" /\ ~Busy
  /\ Frozen /\ Admissible(c)
  /\ Set(e, [phase |-> "loading", context |-> c])
  /\ UNCHANGED <<rule, minimum, memory, disk>>

BeginFails(e, c) ==
  call[e].phase = "idle" /\ ~Busy /\ ~(Frozen /\ Admissible(c)) /\ Raise(e)

MayGenerate(e, rows) == Frozen /\ Verified(rows, call[e].context) /\ Ready(rows)

\* The resolver answers: the checks are repeated and the generator runs.  It
\* reads the source after the check, so that may have changed in between.
Resume(e, rows) ==
  /\ call[e].phase = "loading" /\ ~Busy
  /\ MayGenerate(e, rows)
  /\ \E intents \in SUBSET Intents, source \in Version :
       Set(e, [phase |-> "generated",
               answer |-> [context |-> call[e].context, bars |-> rows, intents |-> intents,
                           memory |-> memory, disk |-> source]])
  /\ UNCHANGED <<rule, minimum, memory, disk>>

\* The window is not the named one, is too short, ends at the wrong time of
\* the clock or holds too few frames, or the evaluator changed meanwhile.
ResumeFails(e, rows) ==
  call[e].phase = "loading" /\ ~Busy /\ ~MayGenerate(e, rows) /\ Raise(e)

\* The resolver or the generator raises.
LoadFails(e) == call[e].phase = "loading" /\ ~Busy /\ Raise(e)

\* The last checks and the result.
Conclude(e) ==
  /\ call[e].phase = "generated"
  /\ Frozen /\ Selected(call[e].answer)
  /\ Set(e, [phase |-> "result", answer |-> call[e].answer])
  /\ UNCHANGED <<rule, minimum, memory, disk>>

ConcludeFails(e) ==
  /\ call[e].phase = "generated"
  /\ ~(Frozen /\ Selected(call[e].answer))
  /\ Raise(e)

\* Another task changes the registry or the configuration, or back.
ChangeMemory ==
  /\ ~Busy /\ memory' \in Version \ {memory}
  /\ UNCHANGED <<rule, minimum, disk, call>>

\* Another process changes the source files, or back.
ChangeDisk ==
  /\ disk' \in Version \ {disk}
  /\ UNCHANGED <<rule, minimum, memory, call>>

Evaluate(e) ==
  \/ \E c \in Contexts : Begin(e, c) \/ BeginFails(e, c)
  \/ \E rows \in Loads : Resume(e, rows) \/ ResumeFails(e, rows)
  \/ LoadFails(e) \/ Conclude(e) \/ ConcludeFails(e)

Next == (\E e \in Evaluation : Evaluate(e)) \/ ChangeMemory \/ ChangeDisk

Spec == Init /\ [][Next]_vars

--------------------------------------------------------------------------
(* Types and safety.                                                       *)

\* Every variable has its type, and one call at a time is between generator
\* and result.
TypeOK ==
  /\ rule \in Rules /\ minimum \in Minimums
  /\ memory \in Version /\ disk \in Version
  /\ call \in [Evaluation -> Call]
  /\ \A d, e \in Evaluation :
       call[d].phase = "generated" /\ call[e].phase = "generated" => d = e

Results == {call[e].answer : e \in {d \in Evaluation : call[d].phase = "result"}}

\* However the evaluator was changed, and changed back, around the await: the
\* generator of a result ran as it was constructed, and so did the source
\* that an intent carries the digest of.
ResultsAreFrozen ==
  \A r \in Results :
    /\ r.memory = "frozen"
    /\ Candidates(r) # {} => r.disk = "frozen"

\* A result is of the window its context names and of nothing after its
\* cutoff: whatever the resolver returned, the generator ran on exactly those
\* bars; they run without a gap up to the anchor, which was closed when the
\* snapshot was taken, and the snapshot precedes the cutoff; a single intent
\* was decided at the anchor and is still open when it is paired.
ResultsAreCausal ==
  \A r \in Results : LET c == r.context IN
    /\ r.bars = c.bars
    /\ \A i \in 1..Len(r.bars) : r.bars[i].open = c.anchor.open - (Len(r.bars) - i)
    /\ ClosedAt(c.anchor) <= c.snapshot /\ c.snapshot <= c.as_of
    /\ \A i, j \in Candidates(r) : i = j /\ c.paired < i.expires

\* A result without an intent is an analysis, never missing history: each of
\* the last `count` frames of every length is whole in its window, and
\* traded if the strategy resets on zero volume (campaign.py:401-404).
ResultsAreInformed ==
  \A r \in Results : \A f \in rule.frames : \A back \in 1..f.count :
    LET k == Closed(r.bars) \div f.size - back
    IN  /\ \A m \in (k * f.size)..(k * f.size + f.size - 1) :
             \E i \in 1..Len(r.bars) : r.bars[i].open = m
        /\ rule.segment => Traded(r.bars, k, f.size)
=============================================================================
