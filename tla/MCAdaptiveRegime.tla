-------------------------- MODULE MCAdaptiveRegime --------------------------
(* Values of the constants for TLC: hours of three rows, one trend, one range. *)
EXTENDS AdaptiveRegime

TrendAndRange == {"BULL", "RANGE"}
Settled == {[h \in 1..3 |-> regime] : regime \in TrendAndRange}
=============================================================================
