----------------------- MODULE MCStrategyService -----------------------
(* Instances of StrategyService for TLC.                                   *)
EXTENDS StrategyService

CONSTANTS btc, eth, v1, v2

Minutes(s, last) == [symbol : {s}, open : 0..last, version : {v1}]

\* Three minutes of one symbol, and a bar that contradicts the first.
ConflictBars == Minutes(btc, 2) \cup {[symbol |-> btc, open |-> 0, version |-> v2]}

\* Three minutes of one symbol.
ThreeBars == Minutes(btc, 2)

\* Two minutes of one symbol, and a bar that contradicts the first.
TwoAndConflict == Minutes(btc, 1) \cup {[symbol |-> btc, open |-> 0, version |-> v2]}

\* Two symbols that share the one handler.
TwoSymbolBars == Minutes(btc, 1) \cup Minutes(eth, 0)

=============================================================================
