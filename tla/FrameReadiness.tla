-------------------------- MODULE FrameReadiness --------------------------
(***************************************************************************)
(* Which complete UTC frames a window of closed one-minute bars holds, and *)
(* whether they cover what a strategy looks back on: aggregate of          *)
(* timeframes.py and the counts of campaign.py, which the live receipts    *)
(* (RuntimeEvaluation) and the research campaign (CausalCampaign) share.   *)
(* Time is counted in minutes.                                             *)
(***************************************************************************)
EXTENDS Integers, Sequences, FiniteSets

\* minimum, interval, phase: get_runtime_requirements.  cycle, offset: the
\* generator's own decision clock.  frames: complete frames it looks back on.
\* segment: zero-volume frames reset it.  prior: prior frames of length
\* priorSize whose volume it divides by, none if 0.
Frame == [size : Nat \ {0}, count : Nat \ {0}]
Rule == [minimum : Nat \ {0}, interval : Nat \ {0}, phase : Nat,
         cycle : Nat \ {0}, offset : Nat, reviewed : BOOLEAN,
         frames : SUBSET Frame, segment : BOOLEAN, prior : Nat, priorSize : Nat \ {0}]

Bar == [open : Nat, traded : BOOLEAN]

--------------------------------------------------------------------------
\* The minute at which the last bar closed.
Closed(rows) == rows[Len(rows)].open + 1

\* Bars of consecutive minutes, at least one.
Consecutive(rows) ==
  /\ rows \in Seq(Bar) /\ Len(rows) > 0
  /\ \A i \in 1..Len(rows) : rows[i].open = Closed(rows) - 1 - (Len(rows) - i)

InBucket(rows, i, k, size) == rows[i].open \div size = k

\* Slip: a bucket counts as soon as it has a bar.
PartialFrames(rows, size) ==
  {k \in 0..(Closed(rows) \div size) : \E i \in 1..Len(rows) : InBucket(rows, i, k, size)}

Minutes(rows) == {rows[i].open : i \in 1..Len(rows)}

\* Only a bucket with all its minutes makes a frame.
Frames(rows, size) ==
  LET minutes == Minutes(rows)
  IN  {k \in 0..(Closed(rows) \div size) : (k * size)..(k * size + size - 1) \subseteq minutes}

Traded(rows, k, size) == \E i \in 1..Len(rows) : InBucket(rows, i, k, size) /\ rows[i].traded

\* Slip: zero-volume frames are skipped over instead of ending the count.
AvailableAnywhere(r, rows, size) ==
  {k \in Frames(rows, size) : r.segment => Traded(rows, k, size)}

\* The frames counted: all, or those after the last zero-volume one.
Available(r, rows, size) ==
  {k \in Frames(rows, size) :
     r.segment => \A j \in Frames(rows, size) : j >= k => Traded(rows, j, size)}

\* Slip: one frame more than the strategy looks back on.
HistoryReadyStrict(r, rows) ==
  \A f \in r.frames : Cardinality(Available(r, rows, f.size)) > f.count

HistoryReady(r, rows) ==
  \A f \in r.frames : Cardinality(Available(r, rows, f.size)) >= f.count
=============================================================================
