--------------------------- MODULE IntentPlans ---------------------------
(***************************************************************************)
(* The exit plan a price sleeve attaches to an intent, the filter it       *)
(* applies to the plan, and the contract of models.py that the intent must *)
(* meet: a refused intent raises, and the whole batch of the sleeve is     *)
(* lost.  Prices and ATR multiples are integers.                           *)
(***************************************************************************)
EXTENDS Integers

Sides == {"LONG", "SHORT"}

(* Multiples of the ATR, and for the others reward to risk.                *)
(*   breakout   stop and target at multiples, trailing if wanted           *)
(*   pullback   stop beyond the pullback's extreme, risk within bounds     *)
(*   reversion  target at or beyond the VWAP                               *)
(*   plain      the order-flow, boundary, right-tail and crowded sleeves   *)
BreakoutPlans ==
  {p \in [exits : {"breakout"}, stop : Nat \ {0}, target : Nat \ {0}, trailing : BOOLEAN,
          activation : Nat \ {0}, distance : Nat \ {0}] : p.trailing => p.activation < p.target}
PullbackPlans ==
  {p \in [exits : {"pullback"}, buffer : Nat \ {0}, minimum : Nat \ {0}, maximum : Nat \ {0},
          reward : Nat \ {0}] : p.minimum <= p.maximum}
ReversionPlans == [exits : {"reversion"}, stop : Nat \ {0}, extension : Nat]
PlainPlans == [exits : {"plain"}, stop : Nat \ {0}, reward : Nat \ {0}]
Plans == BreakoutPlans \union PullbackPlans \union ReversionPlans \union PlainPlans

(* What the price rule found: the close of the row, its ATR, and `level`,  *)
(* the extreme of the pullback row or the VWAP.  A pullback long closes    *)
(* above the pullback's high, so above its low; a reversion long closes    *)
(* below the VWAP; the shorts mirror both.                                 *)
Market == [side : Sides, close : Nat \ {0}, atr : Nat \ {0}, level : Nat \ {0}]

Found(p, g) ==
  /\ p.exits = "pullback" => IF g.side = "LONG" THEN g.close > g.level ELSE g.close < g.level
  /\ p.exits = "reversion" => IF g.side = "LONG" THEN g.close < g.level ELSE g.close > g.level

--------------------------------------------------------------------------
\* A distance above the price for a long, below it for a short.
Ahead(g, price, distance) == IF g.side = "LONG" THEN price + distance ELSE price - distance

\* Distance from the close to the stop.
Risk(p, g) ==
  IF p.exits = "pullback"
  THEN (IF g.side = "LONG" THEN g.close - g.level ELSE g.level - g.close) + p.buffer * g.atr
  ELSE p.stop * g.atr

Stop(p, g) == Ahead(g, g.close, -Risk(p, g))

Target(p, g) ==
  CASE p.exits = "breakout" -> Ahead(g, g.close, p.target * g.atr)
    [] p.exits = "reversion" -> Ahead(g, g.level, p.extension * g.atr)
    [] OTHER -> Ahead(g, g.close, p.reward * Risk(p, g))

Trails(p) == p.exits = "breakout" /\ p.trailing
Activation(p, g) == Ahead(g, g.close, p.activation * g.atr)
Distance(p, g) == p.distance * g.atr

\* Slip: plans with a barrier at or below zero are not filtered out.
WantedAnyPrice(p, g) ==
  p.exits = "pullback" => p.minimum * g.atr <= Risk(p, g) /\ Risk(p, g) <= p.maximum * g.atr

\* The sleeve skips the row otherwise.  Only the reversion sleeve does not
\* look at the sign of its target.
Wanted(p, g) ==
  /\ p.exits = "pullback" => p.minimum * g.atr <= Risk(p, g) /\ Risk(p, g) <= p.maximum * g.atr
  /\ Stop(p, g) > 0
  /\ IF p.exits = "reversion" THEN Target(p, g) # g.close ELSE Target(p, g) > 0

\* ExitPlan.__post_init__ and SleeveIntent._validate_directional_plan.
Contract(p, g) ==
  /\ Stop(p, g) > 0 /\ Target(p, g) > 0 /\ Stop(p, g) # Target(p, g)
  /\ IF g.side = "LONG" THEN Stop(p, g) < g.close /\ g.close < Target(p, g)
                        ELSE Target(p, g) < g.close /\ g.close < Stop(p, g)
  /\ Trails(p) =>
       /\ Activation(p, g) > 0 /\ Distance(p, g) > 0 /\ Distance(p, g) < Activation(p, g)
       /\ IF g.side = "LONG"
          THEN g.close < Activation(p, g) /\ Activation(p, g) < Target(p, g)
          ELSE Target(p, g) < Activation(p, g) /\ Activation(p, g) < g.close

\* An intent that its own sleeve wanted and the contract refuses.
Refused(p, g) == Found(p, g) /\ Wanted(p, g) /\ ~Contract(p, g)
=============================================================================
