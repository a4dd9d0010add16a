-------------------------- MODULE MCSourceLineage --------------------------
(* The one strategy that is cleared beyond research, beside another.       *)
EXTENDS SourceLineage

EnabledStrategies == {"regime_aligned_right_tail_v1", "trend_breakout_v1"}
SomeAnchors == {"anchor1", "anchor2"}
============================================================================
