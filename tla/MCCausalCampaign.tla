----------------------- MODULE MCCausalCampaign -----------------------
(* A strategy on frames of two and three minutes and one that resets on  *)
(* zero volume, windows of up to eight minutes around an anchor, and one *)
(* intent too early, one that expires with the pairing and two open ones.*)
EXTENDS CausalCampaign

TwoFrames ==
  [minimum |-> 4, interval |-> 2, phase |-> 0, cycle |-> 2, offset |-> 0, reviewed |-> TRUE,
   frames |-> {[size |-> 2, count |-> 2], [size |-> 3, count |-> 1]},
   segment |-> FALSE, prior |-> 0, priorSize |-> 2]

ResetByVolume ==
  [TwoFrames EXCEPT !.frames = {[size |-> 2, count |-> 2]}, !.segment = TRUE,
                    !.minimum = 2, !.interval = 1]

TwoRules == {TwoFrames, ResetByVolume}
TwoMinimums == {4, 5}

WindowFrom(first, last, quiet) ==
  [i \in 1..(last - first + 1) |-> [open |-> first + i - 1, traded |-> first + i - 1 \notin quiet]]

Long == WindowFrom(2, 7, {})
Short == WindowFrom(3, 7, {})
Quiet == WindowFrom(2, 7, {4, 5})
Odd == WindowFrom(4, 7, {})
Gap == WindowFrom(2, 4, {}) \o WindowFrom(6, 7, {})
Later == WindowFrom(2, 8, {})

SavedContexts ==
  {[bars |-> w, anchor |-> [open |-> 7, traded |-> TRUE],
    snapshot |-> snapshot, source |-> 9, as_of |-> as_of, paired |-> 10] :
      w \in {Long, Short, Odd, Quiet, Gap, Later}, snapshot \in {7, 8}, as_of \in {8, 9}}

LoadedWindows == {Long, Short, Odd, Quiet, Gap, Later}

SomeIntents == {[decided |-> 7, expires |-> 12], [decided |-> 8, expires |-> 10],
                [decided |-> 8, expires |-> 11], [decided |-> 8, expires |-> 12]}
=======================================================================
