--------------------------- MODULE SlotLedger ---------------------------
(***************************************************************************)
(* What the durable strategy service promises, without its machinery:      *)
(* a ledger of outputs that holds at most one batch per input bar.  A      *)
(* batch enters whole, once, is never replaced, and only then may its      *)
(* input be retired.  Analyses of one symbol enter in market order, so an  *)
(* intent is never issued for a minute that was already passed.            *)
(*                                                                         *)
(* StrategyService with Durable = TRUE implements this specification.      *)
(***************************************************************************)
EXTENDS Naturals

CONSTANTS Bar, Batch, Outputs(_)

VARIABLES announced, \* bars that have ever been input
          due,       \* input bars not retired yet
          ledger     \* visible outputs

vars == <<announced, due, ledger>>

Init == announced = {} /\ due = {} /\ ledger = {}

Recorded(b) == \E o \in ledger : o.batch.bar = b

\* An analysis may only be recorded for a minute after all analysed ones.
InOrder(batch) ==
  batch.kind = "EVALUATED" =>
    \A o \in ledger : (o.batch.kind = "EVALUATED" /\ o.batch.bar.symbol = batch.bar.symbol)
                        => o.batch.bar.open < batch.bar.open

\* A bar becomes due, for the first time or once more.
Announce(b) ==
  /\ b \notin due
  /\ announced' = announced \cup {b} /\ due' = due \cup {b}
  /\ UNCHANGED ledger

\* The one outcome of b, all of it at once; the input may stay due.
Record(b, batch) ==
  /\ b \in due /\ ~Recorded(b)
  /\ batch.bar = b /\ InOrder(batch)
  /\ ledger' = ledger \cup Outputs(batch)
  /\ due' \in {due, due \ {b}}
  /\ UNCHANGED announced

\* An input whose outcome is on record is retired without new outputs.
Retire(b) ==
  /\ b \in due /\ Recorded(b)
  /\ due' = due \ {b}
  /\ UNCHANGED <<announced, ledger>>

Next == \E b \in Bar : \/ Announce(b) \/ Retire(b)
                       \/ \E batch \in Batch : Record(b, batch)

Spec == Init /\ [][Next]_vars
=============================================================================
