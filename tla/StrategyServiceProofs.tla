---------------------- MODULE StrategyServiceProofs ----------------------
(* Theorems about StrategyService, for every value of its constants.       *)
EXTENDS StrategyService, SequenceTheorems, TLAPS

--------------------------------------------------------------------------
(* Lemmas about the operators of the model.                                *)

\* An append keeps a window a sequence of bars no longer than Window.
LEMMA ExtendType ==
  ASSUME NEW h \in Seq(Bar), NEW b \in Bar, Len(h) <= Window
  PROVE  Extend(h, b) \in Seq(Bar) /\ Len(Extend(h, b)) <= Window
<1>1. Append(h, b) \in Seq(Bar) /\ Len(Append(h, b)) = Len(h) + 1
  OBVIOUS
<1>2. Append(h, b) # <<>>
  BY <1>1
<1>3. Tail(Append(h, b)) \in Seq(Bar) /\ Len(Tail(Append(h, b))) = Len(h)
  BY <1>1, <1>2
<1>4. QED
  BY <1>1, <1>3, WindowAssumption DEF Extend

\* The rows of a restore are a sequence of bars of the symbol, and the part
\* the service keeps is one too.
LEMMA RetainedType ==
  ASSUME NEW s \in Symbol, NEW rows \in Retained(s), audit \subseteq Bar
  PROVE  /\ rows \in Seq(Bar) /\ Len(rows) <= Window
         /\ \A i \in 1..Len(rows) : rows[i].symbol = s
<1>1. CASE Durable
  <2>1. PICK n \in 0..Window : rows \in [1..n -> AuditOf(s)]
    BY <1>1 DEF Retained
  <2>2. rows \in Seq(AuditOf(s)) /\ Len(rows) = n
    BY <2>1, IsASeq, WindowAssumption
  <2>3. AuditOf(s) \subseteq Bar
    BY DEF AuditOf
  <2>4. QED
    BY <2>1, <2>2, <2>3 DEF AuditOf
<1>2. CASE ~Durable
  BY <1>2, WindowAssumption DEF Retained
<1>3. QED
  BY <1>1, <1>2

LEMMA KeptType ==
  ASSUME NEW s \in Symbol, NEW rows \in Retained(s), audit \subseteq Bar,
         NEW n \in 0..Window, IsCleanPrefix(rows, n)
  PROVE  /\ SubSeq(rows, 1, n) \in Seq(Bar) /\ Len(SubSeq(rows, 1, n)) = n /\ n <= Window
         /\ \A i \in 1..n : i \in 1..Len(rows) /\ SubSeq(rows, 1, n)[i] = rows[i]
<1>1. rows \in Seq(Bar) /\ n \in 0..Len(rows) /\ n <= Window /\ n \in Nat
  BY RetainedType, WindowAssumption DEF IsCleanPrefix
<1>2. QED
  BY <1>1, SubSeqProperties

\* The outputs of a batch are outputs.
LEMMA OutputsType ==
  ASSUME NEW batch \in Batch
  PROVE  Outputs(batch) \subseteq Output
  BY DEF Outputs, Evaluations, Intents, Output, Batch

\* What the parts of a handler do to the variables they write.
LEMMA RaiseType ==
  ASSUME TypeOK, NEW b \in Bar, Raise(b)
  PROVE  pc' = "idle" /\ current' = None /\ sent' = {} /\ publicationPending' \subseteq Symbol
  BY BarAssumption DEF TypeOK, Raise, Return

LEMMA PrepareType ==
  ASSUME TypeOK, NEW b \in Bar, NEW batch \in Batch, Prepare(b, batch)
  PROVE  /\ pc' = "publish" /\ publicationPending' \subseteq Symbol
         /\ prepared' \in [Symbol -> Batch \cup {None}] /\ prepared'[b.symbol] \in Batch
         /\ evaluationPending' \in [Symbol -> Bar \cup {None}]
  BY BarAssumption DEF TypeOK, Prepare

LEMMA UnavailableType ==
  ASSUME TypeOK, NEW b \in Bar, NEW kind \in Kind
  PROVE  Unavailable(b, kind) \in Batch
  BY DEF TypeOK, Unavailable, Batch

--------------------------------------------------------------------------
(* Type correctness.                                                       *)

\* Every step keeps the types.
LEMMA TypeStep == TypeOK /\ [Next]_vars => TypeOK'
<1> SUFFICES ASSUME TypeOK, [Next]_vars PROVE TypeOK'
  OBVIOUS
<1> USE BarAssumption, BoundAssumption DEF TypeOK
<1>1. CASE Start
  <2>1. PICK retained \in [Symbol -> UNION {Retained(s) : s \in Symbol}], kept \in [Symbol -> 0..Window] :
          /\ \A s \in Symbol : retained[s] \in Retained(s) /\ IsCleanPrefix(retained[s], kept[s])
          /\ bars' = [s \in Symbol |-> SubSeq(retained[s], 1, kept[s])]
          /\ blockedSymbols' = {s \in Symbol : kept[s] < Len(retained[s])}
          /\ restoredThrough' = [s \in Symbol |->
               IF kept[s] > 0 /\ kept[s] = Len(retained[s]) THEN Last(retained[s]).open ELSE -1]
    BY <1>1 DEF Start
  <2>2. ASSUME NEW s \in Symbol
        PROVE  /\ retained[s] \in Seq(Bar) /\ Len(retained[s]) <= Window
               /\ kept[s] \in 0..Window /\ kept[s] <= Len(retained[s])
    BY <2>1, RetainedType DEF IsCleanPrefix
  <2>3. bars' \in [Symbol -> Seq(Bar)] /\ \A s \in Symbol : Len(bars'[s]) <= Window
    <3>1. ASSUME NEW s \in Symbol
          PROVE  SubSeq(retained[s], 1, kept[s]) \in Seq(Bar)
                 /\ Len(SubSeq(retained[s], 1, kept[s])) <= Window
      BY <2>1, KeptType
    <3>2. QED
      BY <2>1, <3>1
  <2>4. restoredThrough' \in [Symbol -> Nat \cup {-1}]
    <3>1. ASSUME NEW s \in Symbol, kept[s] > 0, kept[s] = Len(retained[s])
          PROVE  Last(retained[s]).open \in Nat
      <4>1. Len(retained[s]) \in 1..Len(retained[s])
        BY <2>2, <3>1
      <4>2. Last(retained[s]) \in Bar
        BY <2>2, <4>1, ElementOfSeq DEF Last
      <4>3. QED
        BY <4>2
    <3>2. QED
      BY <2>1, <3>1
  <2>5. QED
    BY <1>1, <2>1, <2>3, <2>4 DEF Start, outside, budget
<1>2. CASE Crash
  BY <1>2, WindowAssumption DEF Crash, NoBars, NoTime, Nothing
<1>3. CASE Tick
  BY <1>3 DEF Tick, memory, budget
<1>4. ASSUME NEW b \in Bar, Produce(b) PROVE TypeOK'
  BY <1>4 DEF Produce, memory, budget
<1>5. ASSUME NEW b \in Bar, Replay(b) PROVE TypeOK'
  BY <1>5 DEF Replay, memory
<1>6. ASSUME NEW b \in Bar, Deliver(b) PROVE TypeOK'
  BY <1>6 DEF Deliver, memory, outside, budget
<1>7. ASSUME NEW b \in Bar, Reject(b) PROVE TypeOK'
  BY <1>7, RaiseType DEF Reject, outside, budget
<1>8. ASSUME NEW b \in Bar, ResumePublication(b) PROVE TypeOK'
  BY <1>8 DEF ResumePublication, Admitted, IsPrepared, memory, outside, budget
<1>9. ASSUME NEW b \in Bar, AnswerReplay(b) PROVE TypeOK'
  BY <1>9 DEF AnswerReplay, Admitted, memory, outside, budget
<1>10. ASSUME NEW b \in Bar, RetryEvaluation(b) PROVE TypeOK'
  BY <1>10 DEF RetryEvaluation, Admitted, memory, outside, budget
<1>11. ASSUME NEW b \in Bar, Fetch(b) PROVE TypeOK'
  BY <1>11 DEF Fetch, Examined, Admitted, memory, outside, budget
<1>12. ASSUME NEW b \in Bar, Accept(b) PROVE TypeOK'
  <2>1. Extend(bars[b.symbol], b) \in Seq(Bar) /\ Len(Extend(bars[b.symbol], b)) <= Window
    BY ExtendType
  <2>2. QED
    BY <1>12, <2>1 DEF Accept, outside, budget
<1>13. ASSUME NEW b \in Bar, Evaluate(b) PROVE TypeOK'
  <2>1. PICK intents \in SUBSET Roster :
          Prepare(b, [bar |-> b, kind |-> "EVALUATED", intents |-> intents, observed |-> clock])
    BY <1>13 DEF Evaluate
  <2>2. [bar |-> b, kind |-> "EVALUATED", intents |-> intents, observed |-> clock] \in Batch
    BY DEF Batch, Kind
  <2>3. QED
    BY <1>13, <2>1, <2>2, PrepareType DEF Evaluate, outside, budget
<1>14. ASSUME NEW b \in Bar, EvaluateFails(b) PROVE TypeOK'
  BY <1>14, RaiseType DEF EvaluateFails, Fault
<1>15. ASSUME NEW b \in Bar, Quarantine(b) PROVE TypeOK'
  <2>1. Unavailable(b, "QUARANTINED") \in Batch
    BY UnavailableType DEF Kind
  <2>2. QED
    BY <1>15, <2>1, PrepareType DEF Quarantine, Examined, Admitted, outside, budget
<1>16. ASSUME NEW b \in Bar, QuarantineFails(b) PROVE TypeOK'
  BY <1>16, RaiseType DEF QuarantineFails, Fault
<1>17. ASSUME NEW b \in Bar, FetchFinds(b) PROVE TypeOK'
  <2>1. \A o \in Saved(b) : o.batch \in Batch
    BY DEF Saved, Output
  <2>2. QED
    BY <1>17, <2>1 DEF FetchFinds, outside, budget
<1>18. ASSUME NEW b \in Bar, FetchMisses(b) PROVE TypeOK'
  <2>1. Unavailable(b, "NOT_EVALUATED") \in Batch
    BY UnavailableType DEF Kind
  <2>2. QED
    BY <1>18, <2>1, PrepareType DEF FetchMisses, outside, budget
<1>19. ASSUME NEW b \in Bar, FetchFails(b) PROVE TypeOK'
  BY <1>19, RaiseType DEF FetchFails, Fault
<1>20. ASSUME NEW b \in Bar, Publish(b) PROVE TypeOK'
  <2>1. PICK o \in Outputs(prepared[b.symbol]) \ sent :
          sent' = sent \cup {o} /\ ledger' = IF Durable THEN ledger ELSE ledger \cup {o}
    BY <1>20 DEF Publish
  <2>2. o \in Output
    BY <1>20, <2>1, OutputsType DEF Publish
  <2>3. QED
    BY <1>20, <2>1, <2>2 DEF Publish, memory, budget
<1>21. ASSUME NEW b \in Bar, FinishPublication(b) PROVE TypeOK'
  BY <1>21 DEF FinishPublication, outside, budget
<1>22. ASSUME NEW b \in Bar, PublishFails(b) PROVE TypeOK'
  BY <1>22, RaiseType DEF PublishFails, Fault
<1>23. ASSUME NEW b \in Bar, Acknowledge(b) PROVE TypeOK'
  BY <1>23 DEF Acknowledge, Return, memory, budget
<1>24. ASSUME NEW b \in Bar, AcknowledgeFails(b) PROVE TypeOK'
  BY <1>24, RaiseType DEF AcknowledgeFails, Fault
<1>25. CASE UNCHANGED vars
  BY <1>25 DEF vars, memory, outside, budget
<1>26. QED
  BY <1>1, <1>2, <1>3, <1>4, <1>5, <1>6, <1>7, <1>8, <1>9, <1>10, <1>11, <1>12, <1>13, <1>14, <1>15, <1>16, <1>17, <1>18, <1>19, <1>20, <1>21, <1>22, <1>23, <1>24, <1>25 DEF Next, Environment, Handle

\* The initial state is typed.
LEMMA TypeInit == Init => TypeOK
  BY WindowAssumption, BoundAssumption DEF Init, TypeOK, NoBars, NoTime, Nothing

\* Every variable has its type in every reachable state, and no window
\* grows beyond window_bars.
THEOREM TypeCorrect == Spec => []TypeOK
  BY TypeInit, TypeStep, PTL DEF Spec

--------------------------------------------------------------------------
(* No acknowledged bar is without its outcome, for every universe of bars, *)
(* roster and window, with either bus, whatever fails, crashes, or is      *)
(* reordered and redelivered.                                              *)

Accounting == HandlerInv /\ PreparedInv /\ WindowInv /\ ReceiptForEveryAck

--------------------------------------------------------------------------
(* Lemmas about outcomes.                                                  *)

\* The outcome of a bar stays: nothing removes an output from the ledger.
LEMMA OutcomeStays ==
  ASSUME ledger \subseteq ledger', NEW b, HasOutcome(b)
  PROVE  HasOutcome(b)'
  BY DEF HasOutcome

\* A visible batch is an outcome: a roster is never empty.
LEMMA VisibleIsOutcome ==
  ASSUME NEW batch \in Batch, Outputs(batch) \subseteq ledger
  PROVE  HasOutcome(batch.bar)
<1>1. PICK r \in Roster : TRUE
  BY RosterAssumption
<1>2. [topic |-> "evaluation", strategy |-> r, batch |-> batch] \in Outputs(batch)
  BY DEF Outputs, Evaluations
<1>3. QED
  BY <1>2 DEF HasOutcome

\* Outside the acknowledgement, a prepared batch that is not pending is the
\* visible outcome of its bar.
LEMMA PreparedIsOutcome ==
  ASSUME Accounted, NEW s \in Symbol, prepared[s] # None, s \notin publicationPending,
         pc # "ack"
  PROVE  Outputs(prepared[s]) \subseteq ledger /\ HasOutcome(prepared[s].bar)
<1>1. prepared[s] \in Batch
  BY DEF Accounted, TypeOK
<1>2. Outputs(prepared[s]) \subseteq ledger
  BY DEF Accounted, PreparedInv
<1>3. QED
  BY <1>1, <1>2, VisibleIsOutcome

--------------------------------------------------------------------------
(* Steps that share their effect on the invariant.                         *)

\* A handler that raises makes its own bar's batch pending again, and so
\* needs nothing of what it had sent.
LEMMA RaiseStep ==
  ASSUME Accounted, NEW b \in Bar, current = b, Raise(b), ledger \subseteq ledger',
         blockedSymbols \subseteq blockedSymbols',
         UNCHANGED <<bars, restoredThrough, prepared, evaluationPending, audit, inbox>>
  PROVE  Accounting'
<1> USE DEF Accounted
<1>1. HandlerInv'
  BY DEF HandlerInv, Raise, Return
<1>2. PreparedInv'
  <2>1. ASSUME NEW s \in Symbol, prepared[s] # None
        PROVE  prepared[s].bar.symbol = s
    BY <2>1 DEF PreparedInv
  <2>2. ASSUME NEW s \in Symbol, prepared[s] # None, s \notin publicationPending'
        PROVE  Outputs(prepared[s]) \subseteq ledger'
    <3>1. s \notin publicationPending /\ prepared[s].bar # b
      BY <2>1, <2>2 DEF Raise
    <3>2. QED
      BY <2>2, <3>1 DEF PreparedInv
  <2>3. QED
    BY <2>1, <2>2 DEF PreparedInv, Outputs, Evaluations, Intents
<1>3. WindowInv'
  BY OutcomeStays DEF WindowInv, TypeOK
<1>4. ReceiptForEveryAck'
  BY OutcomeStays DEF ReceiptForEveryAck
<1>5. QED
  BY <1>1, <1>2, <1>3, <1>4 DEF Accounting

\* A new batch for b replaces a batch that is visible already.
LEMMA PrepareStep ==
  ASSUME Accounted, NEW b \in Bar, current = b, NEW batch \in Batch, batch.bar = b,
         Prepare(b, batch), pc \in {"received", "evaluate", "fetch"},
         b.symbol \notin publicationPending,
         \/ evaluationPending[b.symbol] \in {None, b}
         \/ b.symbol \in blockedSymbols',
         blockedSymbols \subseteq blockedSymbols',
         UNCHANGED <<bars, restoredThrough, current, sent, audit, inbox, ledger>>
  PROVE  Accounting'
<1> USE BarAssumption DEF Accounted
<1>0. b.symbol \in Symbol /\ prepared \in [Symbol -> Batch \cup {None}] /\ batch # None
      /\ b # None /\ evaluationPending \in [Symbol -> Bar \cup {None}]
  BY NoneAssumption DEF TypeOK
<1>1. HandlerInv'
  BY <1>0 DEF HandlerInv, Prepare
<1>2. PreparedInv'
  BY <1>0 DEF PreparedInv, Prepare, Outputs, Evaluations, Intents
<1>3. WindowInv'
  <2>1. ASSUME NEW s \in Symbol \ blockedSymbols', NEW i \in 1..Len(bars[s]),
               bars[s][i].open > restoredThrough[s]
        PROVE  \/ HasOutcome(bars[s][i])
               \/ evaluationPending'[s] = bars[s][i]
               \/ prepared'[s] # None /\ prepared'[s].bar = bars[s][i]
    <3>1. CASE s # b.symbol
      BY <1>0, <2>1, <3>1 DEF WindowInv, Prepare
    <3>2. CASE s = b.symbol
      <4>1. bars[s][i] \in Bar
        BY <2>1, ElementOfSeq DEF TypeOK
      <4>2. prepared[s] # None => HasOutcome(prepared[s].bar)
        BY <3>2, <1>0, PreparedIsOutcome
      <4>3. prepared'[s] = batch
        BY <1>0, <3>2 DEF Prepare
      <4>4. QED
        BY <1>0, <2>1, <3>2, <4>1, <4>2, <4>3, NoneAssumption DEF WindowInv
    <3>3. QED
      BY <3>1, <3>2
  <2>2. QED
    BY <2>1, OutcomeStays DEF WindowInv
<1>4. ReceiptForEveryAck'
  BY OutcomeStays DEF ReceiptForEveryAck
<1>5. QED
  BY <1>1, <1>2, <1>3, <1>4 DEF Accounting

\* A step that writes neither the ledger, what was sent, nor the batches
\* keeps every outcome and every batch in hand.
LEMMA SameOutcomes ==
  ASSUME UNCHANGED <<ledger, sent, prepared>>, NEW b
  PROVE  (HasOutcome(b)' <=> HasOutcome(b)) /\ (InHand(b)' <=> InHand(b))
  BY DEF HasOutcome, InHand

\* An extended window holds the new bar and bars it held before.
LEMMA ExtendElements ==
  ASSUME NEW h \in Seq(Bar), NEW b \in Bar, NEW i \in 1..Len(Extend(h, b))
  PROVE  Extend(h, b)[i] = b \/ \E j \in 1..Len(h) : Extend(h, b)[i] = h[j]
<1>1. /\ Append(h, b) \in Seq(Bar) /\ Len(Append(h, b)) = Len(h) + 1
      /\ \A k \in 1..Len(h) : Append(h, b)[k] = h[k]
      /\ Append(h, b)[Len(h) + 1] = b
  BY AppendProperties
<1>2. CASE Extend(h, b) = Append(h, b)
  BY <1>1, <1>2
<1>3. CASE Extend(h, b) = Tail(Append(h, b))
  <2>1. Append(h, b) # <<>>
    BY <1>1
  <2>2. /\ Len(Tail(Append(h, b))) = Len(h)
        /\ \A k \in 1..Len(h) : Tail(Append(h, b))[k] = Append(h, b)[k + 1]
    BY <1>1, <2>1, HeadTailProperties
  <2>3. i \in 1..Len(h) /\ Extend(h, b)[i] = Append(h, b)[i + 1] /\ i + 1 \in 1..(Len(h) + 1)
    BY <1>3, <2>2
  <2>4. QED
    BY <1>1, <2>3
<1>4. QED
  BY <1>2, <1>3 DEF Extend

\* What a restart keeps of a symbol that it does not block is no newer than
\* the last restored bar: none of it waits for an analysis.
LEMMA RestoredWindow ==
  ASSUME Start, TypeOK
  PROVE  \A s \in Symbol \ blockedSymbols' : \A i \in 1..Len(bars'[s]) :
           ~(bars'[s][i].open > restoredThrough'[s])
<1> SUFFICES ASSUME NEW s \in Symbol \ blockedSymbols', NEW i \in 1..Len(bars'[s])
             PROVE  ~(bars'[s][i].open > restoredThrough'[s])
  OBVIOUS
<1>1. PICK retained \in [Symbol -> UNION {Retained(t) : t \in Symbol}], kept \in [Symbol -> 0..Window] :
        /\ \A t \in Symbol : retained[t] \in Retained(t) /\ IsCleanPrefix(retained[t], kept[t])
        /\ bars' = [t \in Symbol |-> SubSeq(retained[t], 1, kept[t])]
        /\ blockedSymbols' = {t \in Symbol : kept[t] < Len(retained[t])}
        /\ restoredThrough' = [t \in Symbol |->
             IF kept[t] > 0 /\ kept[t] = Len(retained[t]) THEN Last(retained[t]).open ELSE -1]
  BY DEF Start
<1> DEFINE rows == retained[s]
<1> DEFINE n == kept[s]
<1>2. rows \in Retained(s) /\ IsCleanPrefix(rows, n) /\ n \in 0..Window
  BY <1>1
<1>3. rows \in Seq(Bar) /\ audit \subseteq Bar
  BY <1>2, RetainedType DEF TypeOK
<1>4. n = Len(rows)
  BY <1>1, <1>2, <1>3, WindowAssumption DEF IsCleanPrefix
<1>5. bars'[s] = SubSeq(rows, 1, n) /\ Len(bars'[s]) = n /\ bars'[s][i] = rows[i]
      /\ i \in 1..n
  <2>1. bars'[s] = SubSeq(rows, 1, n)
    BY <1>1
  <2>2. /\ Len(SubSeq(rows, 1, n)) = n
        /\ \A k \in 1..n : SubSeq(rows, 1, n)[k] = rows[k]
    BY <1>2, <1>3, KeptType
  <2>3. i \in 1..n
    BY <2>1, <2>2
  <2>4. QED
    BY <2>1, <2>2, <2>3
<1>6. restoredThrough'[s] = rows[n].open
  BY <1>1, <1>4, <1>5, WindowAssumption DEF Last
<1>7. Durable
  BY <1>2, <1>4, <1>5 DEF Retained
<1>8. i \in 1..Len(rows) /\ n \in 1..Len(rows)
  BY <1>3, <1>4, <1>5
<1>9. rows[i] \in Bar /\ rows[n] \in Bar
  BY <1>3, <1>8, ElementOfSeq
<1>10. rows[i].open \in Nat /\ rows[n].open \in Nat
  BY <1>9, BarAssumption
<1>11. rows[i].open <= rows[n].open
  <2>1. IsLatest(rows, s)
    BY <1>2, <1>7 DEF Retained
  <2>2. QED
    BY <1>4, <1>5, <1>8, <1>10, <2>1 DEF IsLatest
<1>12. QED
  BY <1>5, <1>6, <1>10, <1>11

--------------------------------------------------------------------------
(* The invariant is inductive.                                             *)

LEMMA AccountedInit == Init => Accounting
<1> SUFFICES ASSUME Init PROVE Accounting
  OBVIOUS
<1>1. HandlerInv
  BY DEF Init, HandlerInv
<1>2. PreparedInv
  BY DEF Init, PreparedInv, Nothing
<1>3. WindowInv
  BY DEF Init, WindowInv, NoBars
<1>4. ReceiptForEveryAck
  BY DEF Init, ReceiptForEveryAck
<1>5. QED
  BY <1>1, <1>2, <1>3, <1>4 DEF Accounting

LEMMA AccountedStep == Accounted /\ [Next]_vars => Accounting'
<1> SUFFICES ASSUME Accounted, [Next]_vars PROVE Accounting'
  OBVIOUS
<1> USE BarAssumption, NoneAssumption
<1>0. /\ TypeOK /\ HandlerInv /\ PreparedInv /\ WindowInv /\ ReceiptForEveryAck
      /\ \A b \in Bar : b.symbol \in Symbol
      /\ TypeOK'
  BY TypeStep DEF Accounted
<1>1. CASE Tick
  <2>1. HandlerInv'
    BY <1>1, <1>0, SameOutcomes DEF Tick, HandlerInv, memory, outside, budget
  <2>2. PreparedInv'
    BY <1>1, <1>0, SameOutcomes DEF Tick, PreparedInv, memory, outside, budget
  <2>3. WindowInv'
    BY <1>1, <1>0, SameOutcomes DEF Tick, WindowInv, memory, outside, budget
  <2>4. ReceiptForEveryAck'
    BY <1>1, <1>0, SameOutcomes DEF Tick, ReceiptForEveryAck, memory, outside, budget
  <2>5. QED
    BY <2>1, <2>2, <2>3, <2>4 DEF Accounting
<1>2. ASSUME NEW b \in Bar, Produce(b) PROVE Accounting'
  <2>1. HandlerInv'
    BY <1>2, <1>0, SameOutcomes DEF Produce, HandlerInv, memory, outside, budget
  <2>2. PreparedInv'
    BY <1>2, <1>0, SameOutcomes DEF Produce, PreparedInv, memory, outside, budget
  <2>3. WindowInv'
    BY <1>2, <1>0, SameOutcomes DEF Produce, WindowInv, memory, outside, budget
  <2>4. ReceiptForEveryAck'
    BY <1>2, <1>0, SameOutcomes DEF Produce, ReceiptForEveryAck, memory, outside, budget
  <2>5. QED
    BY <2>1, <2>2, <2>3, <2>4 DEF Accounting
<1>3. ASSUME NEW b \in Bar, Replay(b) PROVE Accounting'
  <2>1. HandlerInv'
    BY <1>3, <1>0, SameOutcomes DEF Replay, HandlerInv, memory, outside, budget
  <2>2. PreparedInv'
    BY <1>3, <1>0, SameOutcomes DEF Replay, PreparedInv, memory, outside, budget
  <2>3. WindowInv'
    BY <1>3, <1>0, SameOutcomes DEF Replay, WindowInv, memory, outside, budget
  <2>4. ReceiptForEveryAck'
    BY <1>3, <1>0, SameOutcomes DEF Replay, ReceiptForEveryAck, memory, outside, budget
  <2>5. QED
    BY <2>1, <2>2, <2>3, <2>4 DEF Accounting
<1>4. ASSUME NEW b \in Bar, Deliver(b) PROVE Accounting'
  <2>1. HandlerInv'
    BY <1>4, <1>0, SameOutcomes DEF Deliver, HandlerInv, memory, outside, budget
  <2>2. PreparedInv'
    BY <1>4, <1>0, SameOutcomes DEF Deliver, PreparedInv, memory, outside, budget
  <2>3. WindowInv'
    BY <1>4, <1>0, SameOutcomes DEF Deliver, WindowInv, memory, outside, budget
  <2>4. ReceiptForEveryAck'
    BY <1>4, <1>0, SameOutcomes DEF Deliver, ReceiptForEveryAck, memory, outside, budget
  <2>5. QED
    BY <2>1, <2>2, <2>3, <2>4 DEF Accounting
<1>5. ASSUME NEW b \in Bar, ResumePublication(b) PROVE Accounting'
  <2>1. HandlerInv'
    BY <1>5, <1>0, SameOutcomes DEF ResumePublication, HandlerInv, Admitted, IsPrepared, Pending, memory, outside, budget
  <2>2. PreparedInv'
    BY <1>5, <1>0, SameOutcomes DEF ResumePublication, PreparedInv, Admitted, IsPrepared, Pending, memory, outside, budget
  <2>3. WindowInv'
    BY <1>5, <1>0, SameOutcomes DEF ResumePublication, WindowInv, Admitted, IsPrepared, Pending, memory, outside, budget
  <2>4. ReceiptForEveryAck'
    BY <1>5, <1>0, SameOutcomes DEF ResumePublication, ReceiptForEveryAck, Admitted, IsPrepared, Pending, memory, outside, budget
  <2>5. QED
    BY <2>1, <2>2, <2>3, <2>4 DEF Accounting
<1>6. ASSUME NEW b \in Bar, RetryEvaluation(b) PROVE Accounting'
  <2>1. HandlerInv'
    BY <1>6, <1>0, SameOutcomes DEF RetryEvaluation, HandlerInv, Admitted, IsPrepared, Pending, memory, outside, budget
  <2>2. PreparedInv'
    BY <1>6, <1>0, SameOutcomes DEF RetryEvaluation, PreparedInv, Admitted, IsPrepared, Pending, memory, outside, budget
  <2>3. WindowInv'
    BY <1>6, <1>0, SameOutcomes DEF RetryEvaluation, WindowInv, Admitted, IsPrepared, Pending, memory, outside, budget
  <2>4. ReceiptForEveryAck'
    BY <1>6, <1>0, SameOutcomes DEF RetryEvaluation, ReceiptForEveryAck, Admitted, IsPrepared, Pending, memory, outside, budget
  <2>5. QED
    BY <2>1, <2>2, <2>3, <2>4 DEF Accounting
<1>7. ASSUME NEW b \in Bar, Fetch(b) PROVE Accounting'
  <2>1. HandlerInv'
    BY <1>7, <1>0, SameOutcomes DEF Fetch, HandlerInv, Examined, Admitted, IsPrepared, Pending, Unfinished, memory, outside, budget
  <2>2. PreparedInv'
    BY <1>7, <1>0, SameOutcomes DEF Fetch, PreparedInv, Examined, Admitted, IsPrepared, Pending, Unfinished, memory, outside, budget
  <2>3. WindowInv'
    BY <1>7, <1>0, SameOutcomes DEF Fetch, WindowInv, Examined, Admitted, IsPrepared, Pending, Unfinished, memory, outside, budget
  <2>4. ReceiptForEveryAck'
    BY <1>7, <1>0, SameOutcomes DEF Fetch, ReceiptForEveryAck, Examined, Admitted, IsPrepared, Pending, Unfinished, memory, outside, budget
  <2>5. QED
    BY <2>1, <2>2, <2>3, <2>4 DEF Accounting
<1>8. ASSUME NEW b \in Bar, Reject(b) PROVE Accounting'
  BY <1>8, RaiseStep DEF Reject, Fault, outside, budget
<1>9. ASSUME NEW b \in Bar, EvaluateFails(b) PROVE Accounting'
  BY <1>9, RaiseStep DEF EvaluateFails, Fault
<1>10. ASSUME NEW b \in Bar, QuarantineFails(b) PROVE Accounting'
  BY <1>10, RaiseStep DEF QuarantineFails, Fault, Examined, Admitted
<1>11. ASSUME NEW b \in Bar, FetchFails(b) PROVE Accounting'
  BY <1>11, RaiseStep DEF FetchFails, Fault
<1>12. ASSUME NEW b \in Bar, PublishFails(b) PROVE Accounting'
  BY <1>12, RaiseStep DEF PublishFails, Fault
<1>13. ASSUME NEW b \in Bar, AcknowledgeFails(b) PROVE Accounting'
  BY <1>13, RaiseStep DEF AcknowledgeFails, Fault
<1>14. ASSUME NEW b \in Bar, Quarantine(b) PROVE Accounting'
  <2>1. Unavailable(b, "QUARANTINED") \in Batch
    BY <1>0, UnavailableType DEF Kind
  <2>2. QED
    BY <1>14, <1>0, <2>1, PrepareStep
       DEF Quarantine, Unavailable, Examined, Admitted, Pending, outside, budget
<1>15. ASSUME NEW b \in Bar, FetchMisses(b) PROVE Accounting'
  <2>1. Unavailable(b, "NOT_EVALUATED") \in Batch
    BY <1>0, UnavailableType DEF Kind
  <2>2. QED
    BY <1>15, <1>0, <2>1, PrepareStep DEF FetchMisses, HandlerInv, Unavailable, outside, budget
<1>16. ASSUME NEW b \in Bar, Evaluate(b) PROVE Accounting'
  <2>1. PICK intents \in SUBSET Roster :
          Prepare(b, [bar |-> b, kind |-> "EVALUATED", intents |-> intents, observed |-> clock])
    BY <1>16 DEF Evaluate
  <2>2. [bar |-> b, kind |-> "EVALUATED", intents |-> intents, observed |-> clock] \in Batch
    BY <1>0 DEF Batch, Kind, TypeOK
  <2>3. QED
    BY <1>16, <1>0, <2>1, <2>2, PrepareStep DEF Evaluate, HandlerInv, outside, budget
<1>17. ASSUME NEW b \in Bar, AnswerReplay(b) PROVE Accounting'
  <2>1. HandlerInv'
    <3>1. HasOutcome(b) \/ InHand(b)
      <4>1. CASE IsPrepared(b)
        BY <1>17, <4>1, <1>0, PreparedIsOutcome DEF AnswerReplay, Admitted, Pending, IsPrepared
      <4>2. CASE ~IsPrepared(b)
        <5>1. PICK i \in 1..Len(bars[b.symbol]) : bars[b.symbol][i] = b
          BY <1>17, <4>2, <1>0 DEF AnswerReplay, IsReplay, BeforeRestore, InHistory, TypeOK
        <5>2. b.open > restoredThrough[b.symbol] /\ b.symbol \notin blockedSymbols
          BY <1>17, <4>2, <1>0 DEF AnswerReplay, IsReplay, Blocked
        <5>3. QED
          BY <1>17, <4>2, <5>1, <5>2, <1>0 DEF AnswerReplay, Unfinished, IsPrepared, WindowInv
      <4>3. QED
        BY <4>1, <4>2
    <3>2. QED
      BY <1>17, <3>1, <1>0, SameOutcomes DEF AnswerReplay, Admitted, HandlerInv, memory, outside, budget
  <2>2. PreparedInv'
    BY <1>17, <1>0, SameOutcomes DEF AnswerReplay, Admitted, PreparedInv, memory, outside, budget
  <2>3. WindowInv'
    BY <1>17, <1>0, SameOutcomes DEF AnswerReplay, WindowInv, memory, outside, budget
  <2>4. ReceiptForEveryAck'
    BY <1>17, <1>0, SameOutcomes DEF AnswerReplay, ReceiptForEveryAck, memory, outside, budget
  <2>5. QED
    BY <2>1, <2>2, <2>3, <2>4 DEF Accounting
<1>18. ASSUME NEW b \in Bar, Accept(b) PROVE Accounting'
  <2>1. HandlerInv'
    BY <1>18, <1>0 DEF Accept, Examined, Admitted, IsPrepared, Pending, Unfinished, HandlerInv, TypeOK, outside, budget
  <2>2. PreparedInv'
    BY <1>18, <1>0, SameOutcomes DEF Accept, Examined, Admitted, IsPrepared, Pending, Unfinished, PreparedInv, outside, budget
  <2>3. WindowInv'
    <3>1. ASSUME NEW s \in Symbol \ blockedSymbols, NEW i \in 1..Len(bars'[s]),
                 bars'[s][i].open > restoredThrough[s]
          PROVE  \/ HasOutcome(bars'[s][i])
                 \/ evaluationPending'[s] = bars'[s][i]
                 \/ prepared[s] # None /\ prepared[s].bar = bars'[s][i]
      <4>1. CASE s # b.symbol
        BY <1>18, <1>0, <3>1, <4>1 DEF Accept, WindowInv, TypeOK
      <4>2. CASE s = b.symbol
        <5>1. bars'[s] = Extend(bars[s], b) /\ evaluationPending'[s] = b
          BY <1>18, <1>0, <4>2 DEF Accept, TypeOK
        <5>2. bars'[s][i] = b \/ \E j \in 1..Len(bars[s]) : bars'[s][i] = bars[s][j]
          <6>1. bars[s] \in Seq(Bar) /\ i \in 1..Len(Extend(bars[s], b))
            BY <1>0, <3>1, <5>1 DEF TypeOK
          <6>2. QED
            BY <5>1, <6>1, ExtendElements
        <5>3. ASSUME NEW j \in 1..Len(bars[s]), bars'[s][i] = bars[s][j]
              PROVE  HasOutcome(bars[s][j]) \/ (prepared[s] # None /\ prepared[s].bar = bars[s][j])
          <6>1. bars[s] \in Seq(Bar)
            BY <1>0 DEF TypeOK
          <6>2. bars[s][j] \in Bar /\ evaluationPending[s] = None
            BY <1>18, <4>2, <6>1, ElementOfSeq DEF Accept, Examined, Unfinished
          <6>3. QED
            BY <1>0, <3>1, <5>3, <6>2 DEF WindowInv
        <5>4. QED
          BY <5>1, <5>2, <5>3
      <4>3. QED
        BY <4>1, <4>2
    <3>2. QED
      BY <1>18, <3>1, SameOutcomes DEF Accept, WindowInv, outside, budget
  <2>4. ReceiptForEveryAck'
    BY <1>18, <1>0, SameOutcomes DEF Accept, ReceiptForEveryAck, outside, budget
  <2>5. QED
    BY <2>1, <2>2, <2>3, <2>4 DEF Accounting
<1>19. ASSUME NEW b \in Bar, FetchFinds(b) PROVE Accounting'
  <2>1. PICK batch \in {o.batch : o \in Saved(b)} :
          IsWhole(b, batch) /\ prepared' = [prepared EXCEPT ![b.symbol] = batch]
    BY <1>19 DEF FetchFinds
  <2>2. batch \in Batch /\ batch.bar = b /\ Outputs(batch) \subseteq ledger
    BY <1>0, <2>1 DEF Saved, IsWhole, Outputs, Output, TypeOK
  <2>3. HasOutcome(b)
    BY <2>2, VisibleIsOutcome
  <2>4. prepared'[b.symbol] = batch /\ batch # None
        /\ \A s \in Symbol : s # b.symbol => prepared'[s] = prepared[s]
    BY <1>0, <2>1, <2>2 DEF TypeOK
  <2>5. HandlerInv'
    BY <1>19, <1>0, <2>3, <2>4, OutcomeStays DEF FetchFinds, HandlerInv, outside, budget
  <2>6. PreparedInv'
    BY <1>19, <1>0, <2>2, <2>4 DEF FetchFinds, PreparedInv, outside, budget, Outputs, Evaluations, Intents
  <2>7. WindowInv'
    <3>1. ASSUME NEW s \in Symbol \ blockedSymbols, NEW i \in 1..Len(bars[s]),
                 bars[s][i].open > restoredThrough[s]
          PROVE  \/ HasOutcome(bars[s][i])
                 \/ evaluationPending[s] = bars[s][i]
                 \/ prepared'[s] # None /\ prepared'[s].bar = bars[s][i]
      <4>1. CASE s # b.symbol
        BY <1>0, <2>4, <3>1, <4>1 DEF WindowInv
      <4>2. CASE s = b.symbol
        <5>1. prepared[s] # None => HasOutcome(prepared[s].bar)
          BY <1>19, <1>0, <4>2, PreparedIsOutcome DEF FetchFinds, HandlerInv
        <5>2. QED
          BY <1>0, <3>1, <4>2, <5>1 DEF WindowInv
      <4>3. QED
        BY <4>1, <4>2
    <3>2. QED
      BY <1>19, <3>1, OutcomeStays DEF FetchFinds, WindowInv, outside, budget
  <2>8. ReceiptForEveryAck'
    BY <1>19, <1>0, OutcomeStays DEF FetchFinds, ReceiptForEveryAck, outside, budget
  <2>9. QED
    BY <2>5, <2>6, <2>7, <2>8 DEF Accounting
<1>20. ASSUME NEW b \in Bar, Publish(b) PROVE Accounting'
  <2>0. ledger \subseteq ledger'
    BY <1>20 DEF Publish
  <2>1. HandlerInv'
    BY <1>20, <1>0 DEF Publish, HandlerInv, memory, budget
  <2>2. PreparedInv'
    BY <1>20, <1>0 DEF Publish, PreparedInv, Outputs, Evaluations, Intents, memory, budget
  <2>3. WindowInv'
    BY <1>20, <1>0, OutcomeStays DEF Publish, WindowInv, memory, budget
  <2>4. ReceiptForEveryAck'
    BY <1>20, <1>0, OutcomeStays DEF Publish, ReceiptForEveryAck, memory, budget
  <2>5. QED
    BY <2>1, <2>2, <2>3, <2>4 DEF Accounting
<1>21. ASSUME NEW b \in Bar, FinishPublication(b) PROVE Accounting'
  <2>1. HandlerInv'
    <3>1. InHand(b)'
      BY <1>21, <1>0 DEF FinishPublication, InHand, HandlerInv, TypeOK, outside, budget, Outputs, Evaluations, Intents
    <3>2. QED
      BY <1>21, <1>0, <3>1 DEF FinishPublication, HandlerInv
  <2>2. PreparedInv'
    <3>1. InHand(b)'
      BY <1>21, <1>0 DEF FinishPublication, InHand, HandlerInv, TypeOK, outside, budget, Outputs, Evaluations, Intents
    <3>2. QED
      BY <1>21, <1>0, <3>1, SameOutcomes DEF FinishPublication, PreparedInv, HandlerInv, outside, budget
  <2>3. WindowInv'
    BY <1>21, <1>0, SameOutcomes DEF FinishPublication, outside, budget, WindowInv
  <2>4. ReceiptForEveryAck'
    BY <1>21, <1>0, SameOutcomes DEF FinishPublication, outside, budget, ReceiptForEveryAck
  <2>5. QED
    BY <2>1, <2>2, <2>3, <2>4 DEF Accounting
<1>22. ASSUME NEW b \in Bar, Acknowledge(b) PROVE Accounting'
  <2>1. HandlerInv'
    BY <1>22, <1>0 DEF Acknowledge, Return, HandlerInv, memory, budget
  <2>2. PreparedInv'
    BY <1>22, <1>0 DEF Acknowledge, Return, PreparedInv, InHand, Outputs, Evaluations, Intents, memory, budget
  <2>3. WindowInv'
    BY <1>22, <1>0, OutcomeStays DEF Acknowledge, WindowInv, memory, budget
  <2>4. ReceiptForEveryAck'
    <3>1. HasOutcome(b)'
      <4>1. CASE HasOutcome(b)
        BY <1>22, <4>1, OutcomeStays DEF Acknowledge
      <4>2. CASE InHand(b)
        <5>1. prepared[b.symbol] \in Batch /\ prepared[b.symbol].bar = b
              /\ Outputs(prepared[b.symbol]) \subseteq ledger'
          BY <1>22, <1>0, <4>2 DEF Acknowledge, InHand, TypeOK
        <5>2. PICK r \in Roster : TRUE
          BY RosterAssumption
        <5>3. [topic |-> "evaluation", strategy |-> r, batch |-> prepared[b.symbol]]
                \in Outputs(prepared[b.symbol])
          BY DEF Outputs, Evaluations
        <5>4. QED
          BY <5>1, <5>3 DEF HasOutcome, Outputs, Evaluations, Intents
      <4>3. QED
        BY <1>22, <1>0, <4>1, <4>2 DEF Acknowledge, HandlerInv
    <3>2. QED
      BY <1>22, <1>0, <3>1, OutcomeStays DEF Acknowledge, ReceiptForEveryAck, memory, budget
  <2>5. QED
    BY <2>1, <2>2, <2>3, <2>4 DEF Accounting
<1>23. CASE Crash
  <2>1. HandlerInv'
    BY <1>23, <1>0 DEF Crash, HandlerInv, Nothing
  <2>2. PreparedInv'
    BY <1>23, <1>0 DEF Crash, PreparedInv, Nothing
  <2>3. WindowInv'
    BY <1>23, <1>0 DEF Crash, WindowInv, NoBars
  <2>4. ReceiptForEveryAck'
    BY <1>23, <1>0, OutcomeStays DEF Crash, ReceiptForEveryAck
  <2>5. QED
    BY <2>1, <2>2, <2>3, <2>4 DEF Accounting
<1>24. CASE Start
  <2>1. HandlerInv'
    BY <1>24, <1>0, SameOutcomes DEF Start, HandlerInv, outside, budget
  <2>2. PreparedInv'
    BY <1>24, <1>0, SameOutcomes DEF Start, PreparedInv, outside, budget
  <2>3. WindowInv'
    BY <1>24, <1>0, RestoredWindow DEF Start, WindowInv
  <2>4. ReceiptForEveryAck'
    BY <1>24, <1>0, SameOutcomes DEF Start, ReceiptForEveryAck, outside, budget
  <2>5. QED
    BY <2>1, <2>2, <2>3, <2>4 DEF Accounting
<1>25. CASE UNCHANGED vars
  <2>1. HandlerInv'
    BY <1>25, <1>0, SameOutcomes DEF vars, HandlerInv, memory, outside, budget
  <2>2. PreparedInv'
    BY <1>25, <1>0, SameOutcomes DEF vars, PreparedInv, memory, outside, budget
  <2>3. WindowInv'
    BY <1>25, <1>0, SameOutcomes DEF vars, WindowInv, memory, outside, budget
  <2>4. ReceiptForEveryAck'
    BY <1>25, <1>0, SameOutcomes DEF vars, ReceiptForEveryAck, memory, outside, budget
  <2>5. QED
    BY <2>1, <2>2, <2>3, <2>4 DEF Accounting
<1>26. QED
  BY <1>1, <1>2, <1>3, <1>4, <1>5, <1>6, <1>7, <1>8, <1>9, <1>10, <1>11, <1>12, <1>13, <1>14, <1>15, <1>16, <1>17, <1>18, <1>19, <1>20, <1>21, <1>22, <1>23, <1>24, <1>25 DEF Next, Environment, Handle

\* An acknowledged bar has a whole visible outcome (handle_envelope: the ACK
\* is requested only after every required publish).
THEOREM EveryAckHasReceipt == Spec => []ReceiptForEveryAck
<1>1. Init => Accounted
  BY TypeInit, AccountedInit DEF Accounted, Accounting
<1>2. Accounted /\ [Next]_vars => Accounted'
  BY TypeStep, AccountedStep DEF Accounted, Accounting
<1>3. Accounted => ReceiptForEveryAck
  BY DEF Accounted
<1>4. QED
  BY <1>1, <1>2, <1>3, PTL DEF Spec

--------------------------------------------------------------------------
(* The window stays sound, for every universe of bars and window.          *)

\* Neighbours in an extended window were neighbours before, or are the last
\* bar and the new one.
LEMMA ExtendNeighbours ==
  ASSUME NEW h \in Seq(Bar), NEW b \in Bar, NEW i \in 1..(Len(Extend(h, b)) - 1)
  PROVE  \E j \in 1..Len(h) :
           /\ Extend(h, b)[i] = h[j]
           /\ \/ j + 1 \in 1..Len(h) /\ Extend(h, b)[i + 1] = h[j + 1]
              \/ j = Len(h) /\ Extend(h, b)[i + 1] = b
<1>1. /\ Append(h, b) \in Seq(Bar) /\ Len(Append(h, b)) = Len(h) + 1 /\ Len(h) \in Nat
      /\ \A k \in 1..Len(h) : Append(h, b)[k] = h[k]
      /\ Append(h, b)[Len(h) + 1] = b
  BY AppendProperties
<1>2. CASE Extend(h, b) = Append(h, b)
  <2>1. i \in 1..Len(h) /\ (i + 1 \in 1..Len(h) \/ i = Len(h))
    BY <1>1, <1>2
  <2>2. QED
    BY <1>1, <1>2, <2>1
<1>3. CASE Extend(h, b) = Tail(Append(h, b))
  <2>1. Append(h, b) # <<>>
    BY <1>1
  <2>2. /\ Len(Tail(Append(h, b))) = Len(h)
        /\ \A k \in 1..Len(h) : Tail(Append(h, b))[k] = Append(h, b)[k + 1]
    BY <1>1, <2>1, HeadTailProperties
  <2>3. i \in 1..(Len(h) - 1) /\ i + 1 \in 1..Len(h)
    BY <1>1, <1>3, <2>2
  <2>4. Extend(h, b)[i] = h[i + 1] /\ Extend(h, b)[i + 1] = Append(h, b)[i + 2]
    <3>1. Extend(h, b)[i] = Append(h, b)[i + 1]
      BY <1>3, <2>2, <2>3
    <3>2. Extend(h, b)[i + 1] = Append(h, b)[(i + 1) + 1] /\ (i + 1) + 1 = i + 2
      BY <1>3, <2>2, <2>3
    <3>3. QED
      BY <1>1, <2>3, <3>1, <3>2
  <2>5. CASE i + 1 = Len(h)
    BY <1>1, <2>3, <2>4, <2>5
  <2>6. CASE i + 1 # Len(h)
    <3>1. i + 2 \in 1..Len(h) /\ (i + 1) + 1 = i + 2
      BY <1>1, <2>3, <2>6
    <3>2. QED
      BY <1>1, <2>3, <2>4, <3>1
  <2>7. QED
    BY <2>5, <2>6
<1>4. QED
  BY <1>2, <1>3 DEF Extend

\* A step that leaves the windows alone keeps them sound: a symbol may be
\* blocked, and outcomes stay.
LEMMA WindowStays ==
  ASSUME SoundWindow, UNCHANGED <<bars, restoredThrough>>,
         blockedSymbols \subseteq blockedSymbols', ledger \subseteq ledger'
  PROVE  SoundWindow'
  BY OutcomeStays DEF SoundWindow

\* A restart keeps consecutive minutes only, all of them restored.
LEMMA SoundStart ==
  ASSUME TypeOK, Start
  PROVE  SoundWindow'
<1> SUFFICES ASSUME NEW s \in Symbol \ blockedSymbols', NEW i \in 1..(Len(bars'[s]) - 1)
             PROVE  /\ bars'[s][i + 1].open = bars'[s][i].open + 1
                    /\ ~(bars'[s][i].open > restoredThrough'[s])
  BY DEF SoundWindow
<1>1. PICK retained \in [Symbol -> UNION {Retained(r) : r \in Symbol}], kept \in [Symbol -> 0..Window] :
        /\ \A r \in Symbol : retained[r] \in Retained(r) /\ IsCleanPrefix(retained[r], kept[r])
        /\ bars' = [r \in Symbol |-> SubSeq(retained[r], 1, kept[r])]
  BY DEF Start
<1>2. /\ retained[s] \in Retained(s) /\ kept[s] \in 0..Window
      /\ IsCleanPrefix(retained[s], kept[s]) /\ audit \subseteq Bar
  BY <1>1 DEF TypeOK
<1>3. /\ Len(bars'[s]) = kept[s] /\ kept[s] \in Nat
      /\ \A k \in 1..kept[s] : bars'[s][k] = retained[s][k]
  <2>1. bars'[s] = SubSeq(retained[s], 1, kept[s])
    BY <1>1
  <2>2. /\ Len(SubSeq(retained[s], 1, kept[s])) = kept[s]
        /\ \A k \in 1..kept[s] : SubSeq(retained[s], 1, kept[s])[k] = retained[s][k]
    BY <1>2, KeptType
  <2>3. QED
    BY <1>2, <2>1, <2>2, WindowAssumption
<1>4. i \in 1..kept[s] /\ i + 1 \in 1..kept[s] /\ i + 1 > 1 /\ (i + 1) - 1 = i
  BY <1>3
<1>5. Follows(retained[s], i + 1)
  BY <1>2, <1>4 DEF IsCleanPrefix
<1>6. bars'[s][i + 1].open = bars'[s][i].open + 1
  BY <1>3, <1>4, <1>5 DEF Follows
<1>7. i \in 1..Len(bars'[s])
  BY <1>3, <1>4
<1>8. QED
  BY <1>6, <1>7, RestoredWindow

\* An accepted bar follows the last one, whose outcome is visible by now.
LEMMA SoundAccept ==
  ASSUME Accounted, SoundWindow, NEW b \in Bar, Accept(b)
  PROVE  SoundWindow'
<1>0. /\ TypeOK /\ b.symbol \in Symbol /\ pc = "received"
      /\ b.symbol \notin publicationPending /\ evaluationPending[b.symbol] = None
      /\ blockedSymbols' = blockedSymbols /\ restoredThrough' = restoredThrough
      /\ ledger' = ledger
  BY BarAssumption DEF Accounted, Accept, Examined, Admitted, Pending, Unfinished, outside
<1>1. /\ bars'[b.symbol] = Extend(bars[b.symbol], b)
      /\ \A s \in Symbol : s # b.symbol => bars'[s] = bars[s]
  BY <1>0 DEF Accept, TypeOK
<1>2. bars[b.symbol] \in Seq(Bar)
  BY <1>0 DEF TypeOK
<1>3. ASSUME b.symbol \notin blockedSymbols, NEW j \in 1..Len(bars[b.symbol]),
             bars[b.symbol][j].open > restoredThrough[b.symbol]
      PROVE  HasOutcome(bars[b.symbol][j])
  <2>1. bars[b.symbol][j] \in Bar
    BY <1>2, ElementOfSeq
  <2>2. bars[b.symbol][j] # evaluationPending[b.symbol]
    BY <1>0, <2>1, NoneAssumption
  <2>3. prepared[b.symbol] # None => HasOutcome(prepared[b.symbol].bar)
    BY <1>0, PreparedIsOutcome
  <2>4. QED
    BY <1>0, <1>3, <2>2, <2>3 DEF Accounted, WindowInv
<1>4. ASSUME NEW s \in Symbol \ blockedSymbols, NEW i \in 1..(Len(bars'[s]) - 1)
      PROVE  /\ bars'[s][i + 1].open = bars'[s][i].open + 1
             /\ bars'[s][i].open > restoredThrough[s] => HasOutcome(bars'[s][i])
  <2>1. CASE s # b.symbol
    BY <1>1, <1>4, <2>1 DEF SoundWindow
  <2>2. CASE s = b.symbol
    <3>1. i \in 1..(Len(Extend(bars[s], b)) - 1)
      BY <1>1, <1>4, <2>2
    <3>2. PICK j \in 1..Len(bars[s]) :
            /\ Extend(bars[s], b)[i] = bars[s][j]
            /\ \/ j + 1 \in 1..Len(bars[s]) /\ Extend(bars[s], b)[i + 1] = bars[s][j + 1]
               \/ j = Len(bars[s]) /\ Extend(bars[s], b)[i + 1] = b
      <4>1. bars[s] \in Seq(Bar)
        BY <1>2, <2>2
      <4>2. QED
        BY <3>1, <4>1, ExtendNeighbours
    <3>3. bars'[s][i].open > restoredThrough[s] => HasOutcome(bars'[s][i])
      BY <1>1, <1>3, <1>4, <2>2, <3>2
    <3>4. CASE j + 1 \in 1..Len(bars[s]) /\ Extend(bars[s], b)[i + 1] = bars[s][j + 1]
      <4>1. j \in 1..(Len(bars[s]) - 1)
        BY <1>2, <2>2, <3>4
      <4>2. bars[s][j + 1].open = bars[s][j].open + 1
        BY <1>4, <4>1 DEF SoundWindow
      <4>3. QED
        BY <1>1, <2>2, <3>2, <3>3, <3>4, <4>2
    <3>5. CASE j = Len(bars[s]) /\ Extend(bars[s], b)[i + 1] = b
      <4>1. bars[s] # <<>>
        BY <1>2, <2>2, <3>2
      <4>2. b.open = bars[s][j].open + 1
        BY <2>2, <3>5, <4>1 DEF Accept, IsNext, Contiguous, Last
      <4>3. QED
        BY <1>1, <2>2, <3>2, <3>3, <3>5, <4>2
    <3>6. QED
      BY <3>2, <3>4, <3>5
  <2>3. QED
    BY <2>1, <2>2
<1>5. QED
  BY <1>0, <1>4, OutcomeStays DEF SoundWindow

\* Every other step leaves the windows alone, or empties them in a crash.
LEMMA SoundStep == Accounted /\ SoundWindow /\ [Next]_vars => SoundWindow'
<1> SUFFICES ASSUME Accounted, SoundWindow, [Next]_vars PROVE SoundWindow'
  OBVIOUS
<1>1. CASE Start
  BY <1>1, SoundStart DEF Accounted
<1>2. CASE Crash
  BY <1>2 DEF Crash, NoBars, SoundWindow
<1>3. CASE Environment
  BY <1>3, WindowStays DEF Environment, Tick, Produce, Replay, memory
<1>4. ASSUME NEW b \in Bar, Deliver(b) PROVE SoundWindow'
  BY <1>4, WindowStays DEF Deliver, memory, outside
<1>5. ASSUME NEW b \in Bar, Handle(b) PROVE SoundWindow'
  <2>1. CASE Accept(b)
    BY <2>1, SoundAccept
  <2>2. CASE Reject(b) \/ ResumePublication(b) \/ AnswerReplay(b) \/ RetryEvaluation(b) \/ Fetch(b)
    BY <2>2, WindowStays
       DEF Reject, ResumePublication, AnswerReplay, RetryEvaluation, Fetch, memory, outside
  <2>3. CASE Evaluate(b) \/ EvaluateFails(b) \/ Quarantine(b) \/ QuarantineFails(b)
    BY <2>3, WindowStays
       DEF Evaluate, EvaluateFails, Quarantine, QuarantineFails, outside
  <2>4. CASE FetchFinds(b) \/ FetchMisses(b) \/ FetchFails(b)
    BY <2>4, WindowStays DEF FetchFinds, FetchMisses, FetchFails, outside
  <2>5. CASE Publish(b) \/ FinishPublication(b) \/ PublishFails(b)
    BY <2>5, WindowStays DEF Publish, FinishPublication, PublishFails, memory, outside
  <2>6. CASE Acknowledge(b) \/ AcknowledgeFails(b)
    BY <2>6, WindowStays DEF Acknowledge, AcknowledgeFails, memory
  <2>7. QED
    BY <1>5, <2>1, <2>2, <2>3, <2>4, <2>5, <2>6 DEF Handle
<1>6. CASE UNCHANGED vars
  BY <1>6, WindowStays DEF vars, memory, outside
<1>7. QED
  BY <1>1, <1>2, <1>3, <1>4, <1>5, <1>6 DEF Next

\* A symbol that is not blocked has consecutive minutes in its window, and
\* every bar but the last that this process accepted has its whole visible
\* outcome (process_bar: no bar passes an unfinished predecessor).
THEOREM WindowIsSound == Spec => []SoundWindow
<1>1. Init => Accounted /\ SoundWindow
  <2>1. Init => Accounted
    BY TypeInit, AccountedInit DEF Accounted, Accounting
  <2>2. Init => SoundWindow
    BY DEF Init, NoBars, SoundWindow
  <2>3. QED
    BY <2>1, <2>2
<1>2. Accounted /\ SoundWindow /\ [Next]_vars => (Accounted /\ SoundWindow)'
  BY TypeStep, AccountedStep, SoundStep DEF Accounted, Accounting
<1>3. QED
  BY <1>1, <1>2, PTL DEF Spec

--------------------------------------------------------------------------
(* The order of analyses, for every universe of bars, roster and window,   *)
(* with either bus.                                                        *)

\* The envelope in work is not acknowledged; a process that is down has no
\* memory, and with the in-memory bus it has not run yet.
ProcessInv ==
  /\ current # None => current \in inbox
  /\ pc = "down" => /\ prepared = Nothing /\ evaluationPending = Nothing
                    /\ ~Durable => ledger = {}
  /\ \A o \in ledger : o.batch.bar \in audit

\* What the handler sent is of the batch at hand, receipts first, without
\* conflict, and complete before the acknowledgement.
SentInv ==
  sent # {} =>
    LET batch == prepared[current.symbol]
    IN  /\ sent \subseteq Outputs(batch) /\ batch.bar = current
        /\ (\E o \in sent : o.topic = "intent") => Evaluations(batch) \subseteq sent
        /\ pc = "ack" => Outputs(batch) \subseteq sent
        /\ \A o \in sent : ~Conflicts(o)
        /\ ~Durable => sent \subseteq ledger

\* An intent is visible only beside all receipts of its batch.
IntentInv == \A o \in ledger : o.topic = "intent" => Evaluations(o.batch) \subseteq ledger

\* The visible analyses of a symbol.
Analysed(s) == {o \in Analyses : o.batch.bar.symbol = s}

\* b is the newest minute of an unblocked window, after the restored history.
IsHead(s, b) ==
  /\ s \notin blockedSymbols
  /\ bars[s] # <<>> /\ Last(bars[s]) = b
  /\ b.open > restoredThrough[s]

\* One batch for one minute of a symbol.
Apart ==
  \A o, p \in Analyses : o.batch.bar.symbol = p.batch.bar.symbol
    => o.batch = p.batch \/ o.batch.bar.open # p.batch.bar.open

\* No analysis is ahead of the window it came from.
Covered ==
  \A s \in Symbol \ blockedSymbols : pc # "down" => \A o \in Analysed(s) :
    bars[s] # <<>> /\ o.batch.bar.open <= Last(bars[s]).open

\* A bar that waits for its analysis is newer than every analysis so far.
WaitingIsHead ==
  \A s \in Symbol : evaluationPending[s] # None =>
    /\ IsHead(s, evaluationPending[s])
    /\ \A o \in Analysed(s) : o.batch.bar.open < evaluationPending[s].open
    /\ prepared[s] # None => Outputs(prepared[s]) \subseteq ledger

\* So is an analysis that waits for its publication.
PreparedIsHead ==
  \A s \in Symbol : prepared[s] # None /\ prepared[s].kind = "EVALUATED" =>
    \/ Outputs(prepared[s]) \subseteq ledger
    \/ /\ IsHead(s, prepared[s].bar)
       /\ \A o \in Analysed(s) : o.batch.bar.open < prepared[s].bar.open
                                 \/ o.batch = prepared[s]

OrderInv == Apart /\ Covered /\ WaitingIsHead /\ PreparedIsHead

Ordered == Accounted /\ ProcessInv /\ SentInv /\ IntentInv /\ OrderInv

\* The step that makes outputs visible: some outputs of the batch at hand,
\* an intent only with all the receipts.
Records(b) ==
  /\ current = b /\ b \in Bar /\ prepared[b.symbol] \in Batch /\ prepared[b.symbol].bar = b
  /\ ledger \subseteq ledger' /\ ledger' \subseteq ledger \cup Outputs(prepared[b.symbol])
  /\ (\E o \in ledger' \ ledger : o.topic = "intent") => Evaluations(prepared[b.symbol]) \subseteq ledger'
  /\ UNCHANGED <<bars, blockedSymbols, restoredThrough, prepared, evaluationPending, audit>>
  /\ pc # "down" /\ pc' # "down"

\* Outputs become visible by publication or commit only.
LEMMA RecordingSteps ==
  ASSUME Ordered, NEW b \in Bar, Publish(b) \/ Acknowledge(b) \/ AcknowledgeFails(b)
  PROVE  ledger' # ledger => Records(b)
<1> SUFFICES ASSUME ledger' # ledger PROVE Records(b)
  OBVIOUS
<1> USE DEF Ordered
<1>0. b.symbol \in Symbol /\ prepared \in [Symbol -> Batch \cup {None}] /\ b # None
  BY BarAssumption, NoneAssumption DEF Accounted, TypeOK
<1>1. CASE Publish(b)
  <2>1. PICK o \in Outputs(prepared[b.symbol]) \ sent :
          /\ o.topic = "intent" => Evaluations(prepared[b.symbol]) \subseteq sent
          /\ ~Conflicts(o)
          /\ sent' = sent \cup {o}
          /\ ledger' = IF Durable THEN ledger ELSE ledger \cup {o}
    BY <1>1 DEF Publish
  <2>2. ~Durable /\ ledger' = ledger \cup {o} /\ pc = "publish" /\ current = b
    BY <1>1, <2>1 DEF Publish
  <2>3. prepared[b.symbol] \in Batch /\ prepared[b.symbol].bar = b
    BY <2>2 DEF Accounted, TypeOK, HandlerInv
  <2>4. sent \subseteq ledger
    BY <2>2 DEF SentInv
  <2>5. QED
    BY <1>1, <2>1, <2>2, <2>3, <2>4 DEF Publish, Records, memory
<1>2. CASE Acknowledge(b) \/ AcknowledgeFails(b)
  <2>1. /\ pc = "ack" /\ current = b /\ ledger' = ledger \cup sent /\ sent # {}
        /\ pc' = "idle"
        /\ UNCHANGED <<bars, blockedSymbols, restoredThrough, prepared, evaluationPending, audit>>
    BY <1>2 DEF Acknowledge, AcknowledgeFails, Return, Raise, memory
  <2>2. /\ prepared[b.symbol] # None /\ prepared[b.symbol].bar = b
        /\ sent \subseteq Outputs(prepared[b.symbol]) /\ Outputs(prepared[b.symbol]) \subseteq sent
    <3>1. prepared[b.symbol].bar = b /\ sent = Outputs(prepared[b.symbol])
      BY <2>1 DEF SentInv
    <3>2. PICK o \in sent : TRUE
      BY <2>1
    <3>3. o \in Output /\ o.batch = prepared[b.symbol]
      BY <3>1, <3>2 DEF Accounted, TypeOK, Outputs, Evaluations, Intents
    <3>4. prepared[b.symbol] \in Batch
      BY <3>3 DEF Output
    <3>5. QED
      BY <3>1, <3>4, NoneAssumption
  <2>3. Evaluations(prepared[b.symbol]) \subseteq ledger'
    BY <2>1, <2>2 DEF Outputs
  <2>4. QED
    BY <1>0, <2>1, <2>2, <2>3 DEF Records
<1>3. QED
  BY <1>1, <1>2

\* Every other step leaves the visible outputs alone.
LEMMA QuietSteps ==
  ASSUME [Next]_vars, ledger' # ledger
  PROVE  \E b \in Bar : Publish(b) \/ Acknowledge(b) \/ AcknowledgeFails(b)
<1>1. CASE Start \/ Crash \/ UNCHANGED vars
  BY <1>1 DEF Start, Crash, vars, outside
<1>2. CASE Environment
  BY <1>2 DEF Environment, Tick, Produce, Replay
<1>3. ASSUME NEW b \in Bar, Deliver(b) \/ Handle(b)
      PROVE  Publish(b) \/ Acknowledge(b) \/ AcknowledgeFails(b)
  <2>1. ~Deliver(b)
    BY DEF Deliver, outside
  <2>2. ~Reject(b) /\ ~ResumePublication(b) /\ ~AnswerReplay(b) /\ ~Accept(b) /\ ~RetryEvaluation(b)
    BY DEF Reject, ResumePublication, AnswerReplay, Accept, RetryEvaluation, outside
  <2>3. ~Evaluate(b) /\ ~EvaluateFails(b) /\ ~Quarantine(b) /\ ~QuarantineFails(b)
    BY DEF Evaluate, EvaluateFails, Quarantine, QuarantineFails, outside
  <2>4. ~Fetch(b) /\ ~FetchFinds(b) /\ ~FetchMisses(b) /\ ~FetchFails(b)
    BY DEF Fetch, FetchFinds, FetchMisses, FetchFails, outside
  <2>5. ~FinishPublication(b) /\ ~PublishFails(b)
    BY DEF FinishPublication, PublishFails, outside
  <2>6. QED
    BY <1>3, <2>1, <2>2, <2>3, <2>4, <2>5 DEF Handle
<1>4. QED
  BY <1>1, <1>2, <1>3 DEF Next

LEMMA LedgerSteps ==
  ASSUME Ordered, [Next]_vars
  PROVE  ledger' = ledger \/ \E b \in Bar : Records(b)
  BY QuietSteps, RecordingSteps

\* Intents stay beside their receipts.
LEMMA IntentStep ==
  ASSUME Ordered, [Next]_vars
  PROVE  IntentInv'
<1>1. CASE ledger' = ledger
  BY <1>1 DEF Ordered, IntentInv, Evaluations
<1>2. ASSUME NEW b \in Bar, Records(b) PROVE IntentInv'
  <2>1. ASSUME NEW o \in ledger', o.topic = "intent" PROVE Evaluations(o.batch) \subseteq ledger'
    <3>1. CASE o \in ledger
      BY <1>2, <2>1, <3>1 DEF Ordered, IntentInv, Records
    <3>2. CASE o \notin ledger
      <4>1. o \in Outputs(prepared[b.symbol]) /\ Evaluations(prepared[b.symbol]) \subseteq ledger'
        BY <1>2, <2>1, <3>2 DEF Records
      <4>2. o.batch = prepared[b.symbol]
        BY <4>1 DEF Outputs, Evaluations, Intents
      <4>3. QED
        BY <4>1, <4>2
    <3>3. QED
      BY <3>1, <3>2
  <2>2. QED
    BY <2>1 DEF IntentInv, Evaluations
<1>3. QED
  BY <1>1, <1>2, LedgerSteps

\* The envelope in work stays in the inbox until it is acknowledged.
LEMMA ProcessStep ==
  ASSUME Ordered, [Next]_vars
  PROVE  ProcessInv'
<1> USE DEF Ordered
<1>1. (\A o \in ledger : o.batch.bar \in audit)'
  <2>1. audit \subseteq audit'
    <3>1. CASE Start \/ Crash \/ Environment \/ UNCHANGED vars
      BY <3>1 DEF Start, Crash, Environment, Tick, Produce, Replay, vars, outside
    <3>2. ASSUME NEW b \in Bar, Deliver(b) \/ Handle(b) PROVE audit' = audit
      BY <3>2 DEF Deliver, Handle, Reject, ResumePublication, AnswerReplay, Accept,
         RetryEvaluation, Evaluate, EvaluateFails, Quarantine, QuarantineFails, Fetch, FetchFinds,
         FetchMisses, FetchFails, Publish, FinishPublication, PublishFails, Acknowledge,
         AcknowledgeFails, outside
    <3>3. QED
      BY <3>1, <3>2 DEF Next
  <2>2. CASE ledger' = ledger
    BY <2>1, <2>2 DEF ProcessInv
  <2>3. ASSUME NEW b \in Bar, Records(b), NEW o \in ledger' PROVE o.batch.bar \in audit'
    <3>1. b \in audit
      BY <2>3, NoneAssumption DEF Records, ProcessInv, Accounted, TypeOK
    <3>2. o \in ledger \/ o.batch = prepared[b.symbol]
      BY <2>3 DEF Records, Outputs, Evaluations, Intents
    <3>3. QED
      BY <2>1, <2>3, <3>1, <3>2 DEF ProcessInv, Records
  <2>4. QED
    BY <2>2, <2>3, LedgerSteps
<1>2. (current # None => current \in inbox)'
  <2>1. CASE Start \/ Crash \/ Environment \/ UNCHANGED vars
    BY <2>1 DEF ProcessInv, Accounted, HandlerInv, Start, Crash, Environment, Tick, Produce,
       Replay, vars, outside
  <2>2. ASSUME NEW b \in Bar, Deliver(b) PROVE (current # None => current \in inbox)'
    BY <2>2 DEF Deliver, outside
  <2>3. ASSUME NEW b \in Bar, Handle(b) PROVE current' = None \/ (current' = current /\ inbox' = inbox)
    BY <2>3 DEF Handle, Reject, ResumePublication, AnswerReplay, Accept,
       RetryEvaluation, Evaluate, EvaluateFails, Quarantine, QuarantineFails, Fetch, FetchFinds,
       FetchMisses, FetchFails, Publish, FinishPublication, PublishFails, Acknowledge,
       AcknowledgeFails, Raise, Return, outside
  <2>4. QED
    BY <2>1, <2>2, <2>3 DEF Next, ProcessInv
<1>3. (pc = "down" => /\ prepared = Nothing /\ evaluationPending = Nothing
                      /\ ~Durable => ledger = {})'
  <2>1. CASE Start
    BY <2>1 DEF Start
  <2>2. CASE Crash
    BY <2>2 DEF Crash, Nothing
  <2>3. CASE Environment \/ UNCHANGED vars
    BY <2>3 DEF ProcessInv, Environment, Tick, Produce, Replay, vars, memory, outside, Nothing
  <2>4. ASSUME NEW b \in Bar, Deliver(b) \/ Handle(b) PROVE pc' # "down"
    BY <2>4 DEF Deliver, Handle, Reject, ResumePublication, AnswerReplay, Accept,
       RetryEvaluation, Evaluate, EvaluateFails, Quarantine, QuarantineFails, Fetch, FetchFinds,
       FetchMisses, FetchFails, Publish, FinishPublication, PublishFails, Acknowledge,
       AcknowledgeFails, Raise, Return, Prepare
  <2>5. QED
    BY <2>1, <2>2, <2>3, <2>4 DEF Next
<1>4. QED
  BY <1>1, <1>2, <1>3 DEF ProcessInv

\* The handler sends outputs of one batch, receipts before intents.
LEMMA SentStep ==
  ASSUME Ordered, [Next]_vars
  PROVE  SentInv'
<1> USE DEF Ordered, Accounted
<1>1. CASE Start \/ Crash
  BY <1>1 DEF Start, Crash, SentInv, HandlerInv, outside
<1>2. CASE Environment \/ UNCHANGED vars
  BY <1>2 DEF Environment, Tick, Produce, Replay, vars, memory, outside, SentInv, Conflicts,
     Outputs, Evaluations, Intents, SameSlot
<1>3. ASSUME NEW b \in Bar, Deliver(b) PROVE SentInv'
  BY <1>3 DEF Deliver, HandlerInv, SentInv, outside
<1>4. ASSUME NEW b \in Bar,
             \/ Reject(b) \/ EvaluateFails(b) \/ QuarantineFails(b) \/ FetchFails(b)
             \/ PublishFails(b) \/ Acknowledge(b) \/ AcknowledgeFails(b)
      PROVE  SentInv'
  BY <1>4 DEF Reject, EvaluateFails, QuarantineFails, FetchFails, PublishFails, Acknowledge,
     AcknowledgeFails, Raise, Return, SentInv
<1>5. ASSUME NEW b \in Bar,
             \/ ResumePublication(b) \/ AnswerReplay(b) \/ Accept(b) \/ RetryEvaluation(b)
             \/ Evaluate(b) \/ Quarantine(b) \/ Fetch(b) \/ FetchFinds(b) \/ FetchMisses(b)
      PROVE  SentInv'
  <2>1. pc \in {"received", "evaluate", "fetch"} /\ sent' = sent
    BY <1>5 DEF ResumePublication, AnswerReplay, Accept, RetryEvaluation, Evaluate, Quarantine,
       Fetch, FetchFinds, FetchMisses, Examined, Admitted, outside
  <2>2. QED
    BY <2>1 DEF HandlerInv, SentInv
<1>6. ASSUME NEW b \in Bar, Publish(b) PROVE SentInv'
  <2>1. PICK o \in Outputs(prepared[b.symbol]) \ sent :
          /\ o.topic = "intent" => Evaluations(prepared[b.symbol]) \subseteq sent
          /\ ~Conflicts(o)
          /\ sent' = sent \cup {o}
          /\ ledger' = IF Durable THEN ledger ELSE ledger \cup {o}
    BY <1>6 DEF Publish
  <2>2. /\ pc = "publish" /\ pc' = "publish" /\ current = b /\ current' = b
        /\ prepared' = prepared /\ prepared[b.symbol].bar = b
    BY <1>6 DEF Publish, HandlerInv, memory
  <2>3. \A p \in sent' : ~Conflicts(p)'
    BY <2>1, <2>2 DEF SentInv, Conflicts, SameSlot
  <2>4. sent' \subseteq Outputs(prepared[b.symbol])
    BY <2>1, <2>2 DEF SentInv
  <2>5. (\E p \in sent' : p.topic = "intent") => Evaluations(prepared[b.symbol]) \subseteq sent'
    BY <2>1, <2>2 DEF SentInv
  <2>6. ~Durable => sent' \subseteq ledger'
    BY <2>1, <2>2 DEF SentInv
  <2>7. QED
    BY <2>2, <2>3, <2>4, <2>5, <2>6 DEF SentInv, Outputs, Evaluations, Intents
<1>7. ASSUME NEW b \in Bar, FinishPublication(b) PROVE SentInv'
  BY <1>7 DEF FinishPublication, SentInv, HandlerInv, Conflicts, SameSlot, Outputs, Evaluations,
     Intents, outside
<1>8. QED
  BY <1>1, <1>2, <1>3, <1>4, <1>5, <1>6, <1>7 DEF Next, Handle

\* The new bar ends an extended window.
LEMMA ExtendLast ==
  ASSUME NEW h \in Seq(Bar), NEW b \in Bar, Len(h) <= Window
  PROVE  Extend(h, b) # <<>> /\ Last(Extend(h, b)) = b
<1>1. /\ Append(h, b) \in Seq(Bar) /\ Len(Append(h, b)) = Len(h) + 1 /\ Len(h) \in Nat
      /\ Append(h, b)[Len(h) + 1] = b
  BY AppendProperties
<1>2. CASE Extend(h, b) = Append(h, b)
  BY <1>1, <1>2 DEF Last
<1>3. CASE Extend(h, b) = Tail(Append(h, b)) /\ Len(h) > 0
  <2>1. Append(h, b) # <<>>
    BY <1>1
  <2>2. /\ Len(Tail(Append(h, b))) = Len(h)
        /\ \A k \in 1..Len(h) : Tail(Append(h, b))[k] = Append(h, b)[k + 1]
    BY <1>1, <2>1, HeadTailProperties
  <2>3. QED
    BY <1>1, <1>3, <2>2 DEF Last
<1>4. QED
  BY <1>1, <1>2, <1>3, WindowAssumption DEF Extend

\* A step that changes neither memory nor ledger keeps the order, unless it
\* starts the process.
LEMMA OrderStays ==
  ASSUME OrderInv, pc' # "down" => pc # "down",
         UNCHANGED <<bars, blockedSymbols, restoredThrough, prepared, evaluationPending, ledger>>
  PROVE  OrderInv'
  BY DEF OrderInv, Apart, Covered, WaitingIsHead, PreparedIsHead, Analysed, Analyses, IsHead,
     Outputs, Evaluations, Intents

\* What becomes visible is the analysis at hand, the newest of its symbol.
LEMMA RecordedIsHead ==
  ASSUME Ordered, NEW b \in Bar, Records(b), NEW o \in Analyses' \ Analyses
  PROVE  /\ o.batch = prepared[b.symbol] /\ o.batch.bar = b /\ IsHead(b.symbol, b)
         /\ \A p \in Analysed(b.symbol) : p.batch.bar.open < b.open \/ p.batch = o.batch
<1>1. /\ o \in ledger' \ ledger /\ o.batch.kind = "EVALUATED"
  BY DEF Analyses
<1>2. /\ o \in Outputs(prepared[b.symbol]) /\ ~(Outputs(prepared[b.symbol]) \subseteq ledger)
      /\ o.batch = prepared[b.symbol]
  BY <1>1 DEF Records, Outputs, Evaluations, Intents
<1>3. b.symbol \in Symbol /\ prepared[b.symbol] # None /\ prepared[b.symbol].bar = b
  BY BarAssumption, NoneAssumption DEF Records
<1>4. QED
  BY <1>1, <1>2, <1>3 DEF Ordered, OrderInv, PreparedIsHead

LEMMA OrderRecorded ==
  ASSUME Ordered, NEW b \in Bar, Records(b)
  PROVE  OrderInv'
<1> USE DEF Ordered, OrderInv
<1>0. /\ b.symbol \in Symbol /\ ledger \subseteq ledger' /\ b.open \in Nat
      /\ \A s, c : IsHead(s, c)' <=> IsHead(s, c)
      /\ UNCHANGED <<bars, blockedSymbols, restoredThrough, prepared, evaluationPending>>
  BY BarAssumption DEF Records, IsHead
<1>a. \A o \in Analyses' : o \in Analyses \/ o \in Analyses' \ Analyses
  OBVIOUS
<1>1. Apart'
  <2>1. ASSUME NEW o \in Analyses', NEW p \in Analyses', o.batch.bar.symbol = p.batch.bar.symbol
        PROVE  o.batch = p.batch \/ o.batch.bar.open # p.batch.bar.open
    <3>1. CASE o \in Analyses /\ p \in Analyses
      BY <2>1, <3>1 DEF Apart
    <3>2. ASSUME NEW q \in Analyses' \ Analyses, NEW r \in Analyses,
                 q.batch.bar.symbol = r.batch.bar.symbol
          PROVE  q.batch = r.batch \/ r.batch.bar.open < q.batch.bar.open
      <4>1. /\ q.batch.bar = b
            /\ \A x \in Analysed(b.symbol) : x.batch.bar.open < b.open \/ x.batch = q.batch
        BY <3>2, RecordedIsHead
      <4>2. r \in Analysed(b.symbol)
        BY <3>2, <4>1 DEF Analysed
      <4>3. QED
        BY <4>1, <4>2
    <3>3. ASSUME NEW q \in Analyses' \ Analyses PROVE q.batch = prepared[b.symbol] /\ q.batch.bar.open = b.open
      BY <3>3, RecordedIsHead
    <3>4. \A q \in Analyses : q.batch.bar.open \in Nat
      BY BarAssumption DEF Accounted, TypeOK, Analyses, Output, Batch
    <3>5. QED
      BY <2>1, <3>1, <3>2, <3>3, <3>4, <1>0
  <2>2. QED
    BY <2>1 DEF Apart
<1>2. Covered'
  <2>1. ASSUME NEW s \in Symbol \ blockedSymbols, NEW o \in Analysed(s)'
        PROVE  bars[s] # <<>> /\ o.batch.bar.open <= Last(bars[s]).open
    <3>1. CASE o \in Analyses
      BY <2>1, <3>1 DEF Covered, Analysed, Records
    <3>2. CASE o \notin Analyses
      <4>1. o.batch.bar = b /\ IsHead(b.symbol, b)
        BY <2>1, <3>2, RecordedIsHead DEF Analysed
      <4>2. s = b.symbol
        BY <2>1, <4>1 DEF Analysed
      <4>3. QED
        BY <1>0, <4>1, <4>2 DEF IsHead
    <3>3. QED
      BY <3>1, <3>2
  <2>2. QED
    BY <1>0, <2>1 DEF Covered
<1>3. WaitingIsHead'
  <2>1. ASSUME NEW s \in Symbol, evaluationPending[s] # None, NEW o \in Analysed(s)'
        PROVE  o.batch.bar.open < evaluationPending[s].open
    <3>1. CASE o \in Analyses
      BY <2>1, <3>1 DEF WaitingIsHead, Analysed
    <3>2. CASE o \notin Analyses
      <4>1. o.batch.bar = b /\ o.batch = prepared[b.symbol] /\ s = b.symbol
        BY <2>1, <3>2, RecordedIsHead DEF Analysed
      <4>2. Outputs(prepared[b.symbol]) \subseteq ledger
        BY <2>1, <4>1, NoneAssumption DEF WaitingIsHead, Records
      <4>3. QED
        BY <2>1, <3>2, <4>2 DEF Records, Analysed, Analyses
    <3>3. QED
      BY <3>1, <3>2
  <2>2. QED
    BY <1>0, <2>1 DEF WaitingIsHead, Outputs, Evaluations, Intents
<1>4. PreparedIsHead'
  <2>1. ASSUME NEW s \in Symbol, prepared[s] # None, prepared[s].kind = "EVALUATED",
               ~(Outputs(prepared[s]) \subseteq ledger), NEW o \in Analysed(s)'
        PROVE  o.batch.bar.open < prepared[s].bar.open \/ o.batch = prepared[s]
    <3>1. CASE o \in Analyses
      BY <2>1, <3>1 DEF PreparedIsHead, Analysed
    <3>2. CASE o \notin Analyses
      BY <2>1, <3>2, RecordedIsHead DEF Analysed
    <3>3. QED
      BY <3>1, <3>2
  <2>2. QED
    BY <1>0, <2>1 DEF PreparedIsHead, Outputs, Evaluations, Intents
<1>5. QED
  BY <1>1, <1>2, <1>3, <1>4

\* The restored history covers every analysis that was committed: each is of
\* an audited bar, and the newest audited bar is restored.
LEMMA OrderStart ==
  ASSUME Ordered, Start
  PROVE  OrderInv'
<1> USE DEF Ordered, OrderInv
<1>0. /\ pc = "down" /\ prepared = Nothing /\ evaluationPending = Nothing
      /\ UNCHANGED <<prepared, evaluationPending, ledger, audit>> /\ TypeOK
      /\ ~Durable => ledger = {}
  BY DEF Start, outside, ProcessInv, Accounted
<1>1. Apart'
  BY <1>0 DEF Apart, Analyses
<1>2. WaitingIsHead' /\ PreparedIsHead'
  BY <1>0 DEF WaitingIsHead, PreparedIsHead, Nothing
<1>3. PICK retained \in [Symbol -> UNION {Retained(t) : t \in Symbol}], kept \in [Symbol -> 0..Window] :
        /\ \A t \in Symbol : retained[t] \in Retained(t) /\ IsCleanPrefix(retained[t], kept[t])
        /\ bars' = [t \in Symbol |-> SubSeq(retained[t], 1, kept[t])]
        /\ blockedSymbols' = {t \in Symbol : kept[t] < Len(retained[t])}
  BY DEF Start
<1>4. ASSUME NEW s \in Symbol \ blockedSymbols', NEW o \in Analysed(s)
      PROVE  bars'[s] # <<>> /\ o.batch.bar.open <= Last(bars'[s]).open
  <2> DEFINE rows == retained[s]
  <2>1. /\ rows \in Retained(s) /\ kept[s] \in 0..Window /\ IsCleanPrefix(rows, kept[s])
        /\ audit \subseteq Bar
    BY <1>0, <1>3 DEF TypeOK
  <2>2. rows \in Seq(Bar) /\ Len(rows) <= Window /\ Len(rows) \in Nat
    BY <2>1, RetainedType
  <2>3. kept[s] = Len(rows)
    BY <1>3, <1>4, <2>1, <2>2, WindowAssumption DEF IsCleanPrefix
  <2>4. bars'[s] = SubSeq(rows, 1, kept[s])
    BY <1>3
  <2>5. Len(bars'[s]) = Len(rows) /\ \A i \in 1..Len(rows) : bars'[s][i] = rows[i]
    BY <2>1, <2>3, <2>4, KeptType
  <2>6. o.batch.bar \in AuditOf(s) /\ Durable
    BY <1>0, <1>4 DEF ProcessInv, Analysed, Analyses, AuditOf
  <2>7. IsLatest(rows, s)
    BY <2>1, <2>6 DEF Retained
  <2>8. rows # <<>> /\ o.batch.bar.open <= rows[Len(rows)].open
    <3>0. \A i, j \in 1..Len(rows) : i < j => rows[i].open <= rows[j].open
      BY <2>7 DEF IsLatest
    <3>1. ASSUME NEW i \in 1..Len(rows) PROVE rows[i] \in Bar /\ rows[i].open \in Nat
      <4>1. rows[i] \in Bar
        BY <2>2, ElementOfSeq
      <4>2. QED
        BY <4>1, BarAssumption
    <3>2. CASE \E i \in 1..Len(rows) : rows[i] = o.batch.bar
      <4>1. PICK i \in 1..Len(rows) : rows[i] = o.batch.bar
        BY <3>2
      <4>2. i = Len(rows) \/ rows[i].open <= rows[Len(rows)].open
        BY <2>2, <3>0, <4>1
      <4>3. QED
        BY <2>2, <3>1, <4>1, <4>2
    <3>3. CASE Len(rows) = Window /\ o.batch.bar.open <= rows[1].open
      <4>1. 1 \in 1..Len(rows) /\ Len(rows) \in 1..Len(rows)
        BY <2>2, <3>3, WindowAssumption
      <4>2. ASSUME 1 # Len(rows) PROVE rows[1].open <= rows[Len(rows)].open
        <5>1. \A n \in Nat \ {0} : 1 # n => 1 < n
          OBVIOUS
        <5>2. Len(rows) \in Nat \ {0}
          BY <3>3, WindowAssumption
        <5>3. 1 < Len(rows)
          BY <4>2, <5>1, <5>2
        <5>4. QED
          BY <3>0, <4>1, <5>3
      <4>3. o.batch.bar.open \in Nat
        BY <2>1, <2>6, BarAssumption DEF AuditOf
      <4>4. QED
        BY <2>2, <3>1, <3>3, <4>1, <4>2, <4>3
    <3>4. QED
      BY <2>6, <2>7, <3>2, <3>3 DEF IsLatest
  <2>9. QED
    BY <2>2, <2>5, <2>8 DEF Last
<1>5. Covered'
  BY <1>0, <1>4 DEF Covered, Analysed, Analyses
<1>6. QED
  BY <1>1, <1>2, <1>5

\* The accepted bar is one minute after the last, and every batch before it
\* is visible.
LEMMA OrderAccept ==
  ASSUME Ordered, NEW b \in Bar, Accept(b)
  PROVE  OrderInv'
<1> USE DEF Ordered, OrderInv
<1>0. /\ TypeOK /\ b.symbol \in Symbol /\ b.open \in Nat /\ pc = "received"
      /\ b.symbol \notin publicationPending /\ b.symbol \notin blockedSymbols
      /\ UNCHANGED <<blockedSymbols, restoredThrough, prepared, ledger>>
  BY BarAssumption DEF Accounted, Accept, Examined, Admitted, Pending, IsNext, Blocked, outside
<1>1. /\ bars'[b.symbol] = Extend(bars[b.symbol], b) /\ evaluationPending'[b.symbol] = b
      /\ \A s \in Symbol : s # b.symbol => bars'[s] = bars[s] /\ evaluationPending'[s] = evaluationPending[s]
  BY <1>0 DEF Accept, TypeOK
<1>2. bars'[b.symbol] # <<>> /\ Last(bars'[b.symbol]) = b
  BY <1>0, <1>1, ExtendLast DEF TypeOK
<1>3. b.open > restoredThrough[b.symbol]
  <2>1. ~(b.open <= restoredThrough[b.symbol])
    BY DEF Accept, Examined, IsNext, BeforeRestore
  <2>2. restoredThrough[b.symbol] \in Int
    BY <1>0 DEF TypeOK
  <2>3. QED
    BY <1>0, <2>1, <2>2
<1>4. \A o \in Analysed(b.symbol) : o.batch.bar.open < b.open
  <2>1. ASSUME NEW o \in Analysed(b.symbol) PROVE o.batch.bar.open < b.open
    <3>1. bars[b.symbol] # <<>> /\ o.batch.bar.open <= Last(bars[b.symbol]).open
      BY <1>0, <2>1 DEF Covered
    <3>2. b.open = Last(bars[b.symbol]).open + 1
      BY <3>1 DEF Accept, IsNext, Contiguous
    <3>3. bars[b.symbol] \in Seq(Bar) /\ Len(bars[b.symbol]) \in 1..Len(bars[b.symbol])
      BY <1>0, <3>1 DEF TypeOK
    <3>4. Last(bars[b.symbol]).open \in Nat
      BY <3>3, ElementOfSeq, BarAssumption DEF Last
    <3>5. o.batch.bar.open \in Nat
      BY <1>0, <2>1, BarAssumption DEF TypeOK, Analysed, Analyses, Output, Batch
    <3>6. QED
      BY <3>1, <3>2, <3>4, <3>5
  <2>2. QED
    BY <2>1
<1>5. prepared[b.symbol] # None => Outputs(prepared[b.symbol]) \subseteq ledger
  BY <1>0, PreparedIsOutcome
<1>6. Apart'
  BY <1>0 DEF Apart, Analyses
<1>7. Covered'
  <2>1. ASSUME NEW s \in Symbol \ blockedSymbols, NEW o \in Analysed(s)
        PROVE  bars'[s] # <<>> /\ o.batch.bar.open <= Last(bars'[s]).open
    <3>1. CASE s = b.symbol
      <4>1. o.batch.bar.open \in Nat /\ o.batch.bar.open < b.open
        BY <1>0, <1>4, <2>1, <3>1, BarAssumption DEF TypeOK, Analysed, Analyses, Output, Batch
      <4>2. QED
        BY <1>0, <1>2, <3>1, <4>1
    <3>2. CASE s # b.symbol
      BY <1>0, <1>1, <2>1, <3>2 DEF Covered
    <3>3. QED
      BY <3>1, <3>2
  <2>2. QED
    BY <1>0, <2>1 DEF Covered, Analysed, Analyses
<1>8. WaitingIsHead'
  <2>1. ASSUME NEW s \in Symbol, evaluationPending'[s] # None
        PROVE  /\ IsHead(s, evaluationPending[s])' /\ evaluationPending'[s] = evaluationPending[s]'
               /\ \A o \in Analysed(s) : o.batch.bar.open < evaluationPending'[s].open
               /\ prepared[s] # None => Outputs(prepared[s]) \subseteq ledger
    <3>1. CASE s = b.symbol
      BY <1>0, <1>1, <1>2, <1>3, <1>4, <1>5, <3>1 DEF IsHead
    <3>2. CASE s # b.symbol
      BY <1>0, <1>1, <2>1, <3>2 DEF WaitingIsHead, IsHead
    <3>3. QED
      BY <3>1, <3>2
  <2>2. QED
    BY <1>0, <2>1 DEF WaitingIsHead, Analysed, Analyses, Outputs, Evaluations, Intents
<1>9. PreparedIsHead'
  BY <1>0, <1>1, <1>5 DEF PreparedIsHead, IsHead, Analysed, Analyses, Outputs, Evaluations, Intents
<1>10. QED
  BY <1>6, <1>7, <1>8, <1>9

\* A new batch for b: an analysis of the bar that waits for it, or none.
LEMMA OrderPrepared ==
  ASSUME Ordered, NEW b \in Bar, NEW batch \in Batch, batch.bar = b, Prepare(b, batch),
         pc # "down", b.symbol \notin publicationPending,
         batch.kind = "EVALUATED" => evaluationPending[b.symbol] = b /\ blockedSymbols' = blockedSymbols,
         blockedSymbols' \in {blockedSymbols, blockedSymbols \union {b.symbol}},
         UNCHANGED <<bars, restoredThrough, ledger>>
  PROVE  OrderInv'
<1> USE DEF Ordered, OrderInv
<1>0. b.symbol \in Symbol /\ batch # None /\ b # None
  BY BarAssumption, NoneAssumption
<1>1. /\ prepared'[b.symbol] = batch /\ evaluationPending'[b.symbol] = None
      /\ \A s \in Symbol : s # b.symbol =>
           prepared'[s] = prepared[s] /\ evaluationPending'[s] = evaluationPending[s]
  BY <1>0 DEF Prepare, Accounted, TypeOK
<1>2. Apart'
  BY DEF Apart, Analyses
<1>3. Covered'
  BY DEF Covered, Analysed, Analyses
<1>4. WaitingIsHead'
  BY <1>0, <1>1 DEF WaitingIsHead, IsHead, Analysed, Analyses, Outputs, Evaluations, Intents
<1>5. PreparedIsHead'
  <2>1. ASSUME NEW s \in Symbol, s # b.symbol, prepared[s] # None, prepared[s].kind = "EVALUATED",
               ~(Outputs(prepared[s]) \subseteq ledger)
        PROVE  /\ IsHead(s, prepared[s].bar)'
               /\ \A o \in Analysed(s) : o.batch.bar.open < prepared[s].bar.open \/ o.batch = prepared[s]
    BY <1>1, <2>1 DEF PreparedIsHead, IsHead
  <2>2. ASSUME batch.kind = "EVALUATED"
        PROVE  /\ IsHead(b.symbol, b)'
               /\ \A o \in Analysed(b.symbol) : o.batch.bar.open < b.open
    BY <1>0, <2>2 DEF WaitingIsHead, IsHead
  <2>3. QED
    BY <1>0, <1>1, <2>1, <2>2 DEF PreparedIsHead, IsHead, Analysed, Analyses, Outputs, Evaluations, Intents
<1>6. QED
  BY <1>2, <1>3, <1>4, <1>5

\* Every step keeps the order of analyses.
LEMMA OrderStep ==
  ASSUME Ordered, [Next]_vars
  PROVE  OrderInv'
<1> USE DEF Ordered
<1>0. TypeOK /\ HandlerInv /\ OrderInv
  BY DEF Accounted
<1>1. CASE Start
  BY <1>1, OrderStart
<1>2. CASE Crash
  <2>1. Apart'
    BY <1>0, <1>2 DEF Crash, OrderInv, Apart, Analyses
  <2>2. Covered' /\ WaitingIsHead' /\ PreparedIsHead'
    BY <1>2 DEF Crash, Covered, WaitingIsHead, PreparedIsHead, Nothing
  <2>3. QED
    BY <2>1, <2>2 DEF OrderInv
<1>3. CASE Environment \/ UNCHANGED vars
  BY <1>0, <1>3, OrderStays DEF Environment, Tick, Produce, Replay, vars, memory, outside
<1>4. ASSUME NEW b \in Bar, Deliver(b) PROVE OrderInv'
  BY <1>0, <1>4, OrderStays DEF Deliver, memory, outside
<1>5. ASSUME NEW b \in Bar, Reject(b) \/ ResumePublication(b) \/ AnswerReplay(b)
                            \/ RetryEvaluation(b) \/ Fetch(b)
      PROVE  OrderInv'
  BY <1>0, <1>5, OrderStays DEF Reject, ResumePublication, AnswerReplay, RetryEvaluation, Fetch,
     Examined, Admitted, memory, outside
<1>6. ASSUME NEW b \in Bar, EvaluateFails(b) \/ FetchFails(b) \/ FinishPublication(b) \/ PublishFails(b)
      PROVE  OrderInv'
  BY <1>0, <1>6, OrderStays DEF EvaluateFails, FetchFails, FinishPublication, PublishFails, outside
<1>7. ASSUME NEW b \in Bar, Publish(b) \/ Acknowledge(b) \/ AcknowledgeFails(b) PROVE OrderInv'
  <2>1. CASE ledger' = ledger
    BY <1>0, <1>7, <2>1, OrderStays DEF Publish, Acknowledge, AcknowledgeFails, memory
  <2>2. CASE ledger' # ledger
    BY <1>7, <2>2, RecordingSteps, OrderRecorded
  <2>3. QED
    BY <2>1, <2>2
<1>8. ASSUME NEW b \in Bar, Accept(b) PROVE OrderInv'
  BY <1>8, OrderAccept
<1>9. ASSUME NEW b \in Bar, Evaluate(b) PROVE OrderInv'
  <2>1. PICK intents \in SUBSET Roster :
          Prepare(b, [bar |-> b, kind |-> "EVALUATED", intents |-> intents, observed |-> clock])
    BY <1>9 DEF Evaluate
  <2>2. [bar |-> b, kind |-> "EVALUATED", intents |-> intents, observed |-> clock] \in Batch
    BY <1>0 DEF Batch, Kind, TypeOK
  <2>3. /\ pc # "down" /\ b.symbol \notin publicationPending /\ evaluationPending[b.symbol] = b
        /\ UNCHANGED <<bars, blockedSymbols, restoredThrough, ledger>>
    BY <1>0, <1>9 DEF Evaluate, HandlerInv, outside
  <2>4. QED
    BY <2>1, <2>2, <2>3, OrderPrepared
<1>10. ASSUME NEW b \in Bar, Quarantine(b) \/ FetchMisses(b) PROVE OrderInv'
  <2>1. ASSUME NEW kind \in {"QUARANTINED", "NOT_EVALUATED"}
        PROVE  /\ Unavailable(b, kind) \in Batch /\ Unavailable(b, kind).bar = b
               /\ Unavailable(b, kind).kind # "EVALUATED"
    <3>1. Unavailable(b, kind) \in Batch
      BY <1>0, UnavailableType DEF Kind
    <3>2. QED
      BY <3>1 DEF Unavailable
  <2>2. PICK kind \in {"QUARANTINED", "NOT_EVALUATED"} : Prepare(b, Unavailable(b, kind))
    BY <1>10 DEF Quarantine, FetchMisses
  <2>3. /\ pc # "down" /\ b.symbol \notin publicationPending
        /\ blockedSymbols' \in {blockedSymbols, blockedSymbols \union {b.symbol}}
        /\ UNCHANGED <<bars, restoredThrough, ledger>>
    BY <1>0, <1>10 DEF Quarantine, FetchMisses, Examined, Admitted, Pending, HandlerInv, outside
  <2>4. QED
    BY <2>1, <2>2, <2>3, OrderPrepared
<1>11. ASSUME NEW b \in Bar, QuarantineFails(b) PROVE OrderInv'
  <2>1. /\ evaluationPending[b.symbol] = None
        /\ prepared[b.symbol] # None => Outputs(prepared[b.symbol]) \subseteq ledger
        /\ pc # "down" /\ blockedSymbols' = blockedSymbols \union {b.symbol}
        /\ UNCHANGED <<bars, restoredThrough, prepared, evaluationPending, ledger>>
    BY <1>0, <1>11, PreparedIsOutcome, BarAssumption
       DEF QuarantineFails, Examined, Admitted, Pending, Unfinished
  <2>2. Apart' /\ Covered'
    BY <1>0, <2>1 DEF OrderInv, Apart, Covered, Analysed, Analyses
  <2>3. WaitingIsHead'
    BY <1>0, <2>1 DEF OrderInv, WaitingIsHead, IsHead, Analysed, Analyses, Outputs, Evaluations, Intents
  <2>4. PreparedIsHead'
    <3>1. ASSUME NEW s \in Symbol, prepared[s] # None, prepared[s].kind = "EVALUATED",
                 ~(Outputs(prepared[s]) \subseteq ledger)
          PROVE  /\ IsHead(s, prepared[s].bar)'
                 /\ \A o \in Analysed(s) : o.batch.bar.open < prepared[s].bar.open \/ o.batch = prepared[s]
      BY <1>0, <2>1, <3>1 DEF OrderInv, PreparedIsHead, IsHead
    <3>2. QED
      BY <2>1, <3>1 DEF PreparedIsHead, IsHead, Analysed, Analyses, Outputs, Evaluations, Intents
  <2>5. QED
    BY <2>2, <2>3, <2>4 DEF OrderInv
<1>12. ASSUME NEW b \in Bar, FetchFinds(b) PROVE OrderInv'
  <2>1. PICK batch \in {o.batch : o \in Saved(b)} :
          IsWhole(b, batch) /\ prepared' = [prepared EXCEPT ![b.symbol] = batch]
    BY <1>12 DEF FetchFinds
  <2>2. Outputs(batch) \subseteq ledger /\ b.symbol \in Symbol
    BY <2>1, BarAssumption DEF Saved, IsWhole, Outputs
  <2>3. /\ prepared'[b.symbol] = batch /\ evaluationPending[b.symbol] = None
        /\ \A s \in Symbol : s # b.symbol => prepared'[s] = prepared[s]
        /\ UNCHANGED <<bars, blockedSymbols, restoredThrough, evaluationPending, ledger>>
        /\ pc # "down"
    BY <1>0, <1>12, <2>1, <2>2 DEF FetchFinds, HandlerInv, TypeOK, outside
  <2>4. Apart' /\ Covered'
    BY <1>0, <2>3 DEF OrderInv, Apart, Covered, Analysed, Analyses
  <2>5. WaitingIsHead'
    BY <1>0, <2>2, <2>3 DEF OrderInv, WaitingIsHead, IsHead, Analysed, Analyses, Outputs, Evaluations, Intents
  <2>6. PreparedIsHead'
    BY <1>0, <2>2, <2>3 DEF OrderInv, PreparedIsHead, IsHead, Analysed, Analyses, Outputs, Evaluations, Intents
  <2>7. QED
    BY <2>4, <2>5, <2>6 DEF OrderInv
<1>13. QED
  BY <1>1, <1>2, <1>3, <1>4, <1>5, <1>6, <1>7, <1>8, <1>9, <1>10, <1>11, <1>12 DEF Next, Handle

LEMMA OrderedInit == Init => Ordered
<1> SUFFICES ASSUME Init PROVE Ordered
  OBVIOUS
<1>1. Accounted
  BY TypeInit, AccountedInit DEF Accounted, Accounting
<1>2. ProcessInv /\ SentInv /\ IntentInv
  BY DEF Init, ProcessInv, SentInv, IntentInv
<1>3. OrderInv
  BY DEF Init, OrderInv, Apart, Covered, WaitingIsHead, PreparedIsHead, Analysed, Analyses, Nothing
<1>4. QED
  BY <1>1, <1>2, <1>3 DEF Ordered

LEMMA OrderedStep == Ordered /\ [Next]_vars => Ordered'
<1> SUFFICES ASSUME Ordered, [Next]_vars PROVE Ordered'
  OBVIOUS
<1>1. Accounted'
  BY TypeStep, AccountedStep DEF Ordered, Accounted, Accounting
<1>2. QED
  BY <1>1, ProcessStep, SentStep, IntentStep, OrderStep DEF Ordered

\* Retries repeat bytes and never evaluate twice: a bar has one visible
\* analysis, and an intent is visible only beside all receipts of its batch.
THEOREM AnalysisIsCoherent == Spec => []CoherentAnalysis
<1>1. Ordered => CoherentAnalysis
  BY DEF Ordered, IntentInv, OrderInv, Apart, CoherentAnalysis
<1>2. QED
  BY OrderedInit, OrderedStep, <1>1, PTL DEF Spec

\* Analyses become visible in market order, for unblocked symbols and after
\* the restored history only, across crashes, redelivery and failures.
THEOREM AnalysesMoveForward == Spec => AnalysisMovesForward
<1> DEFINE Forward == \A o \in Analyses' \ Analyses :
       /\ o.batch.bar.symbol \notin blockedSymbols
       /\ o.batch.bar.open > restoredThrough[o.batch.bar.symbol]
       /\ \A p \in Analyses : p.batch.bar.symbol = o.batch.bar.symbol
                             => p.batch.bar.open < o.batch.bar.open \/ p.batch = o.batch
<1>1. Ordered /\ [Next]_vars => [Forward]_vars
  <2> SUFFICES ASSUME Ordered, [Next]_vars, NEW o \in Analyses' \ Analyses
               PROVE  /\ o.batch.bar.symbol \notin blockedSymbols
                      /\ o.batch.bar.open > restoredThrough[o.batch.bar.symbol]
                      /\ \A p \in Analyses : p.batch.bar.symbol = o.batch.bar.symbol
                             => p.batch.bar.open < o.batch.bar.open \/ p.batch = o.batch
    OBVIOUS
  <2>1. PICK b \in Bar : Records(b)
    BY LedgerSteps DEF Analyses
  <2>2. /\ o.batch.bar = b /\ IsHead(b.symbol, b)
        /\ \A p \in Analysed(b.symbol) : p.batch.bar.open < b.open \/ p.batch = o.batch
    BY <2>1, RecordedIsHead
  <2>3. QED
    BY <2>2 DEF IsHead, Analysed
<1>2. QED
  BY OrderedInit, OrderedStep, <1>1, PTL DEF Spec, AnalysisMovesForward

--------------------------------------------------------------------------
(* With the durable bus the service implements SlotLedger.                 *)

\* A bar has one batch, and all of it.
WholeInv ==
  \A o \in ledger : /\ Outputs(o.batch) \subseteq ledger
                    /\ \A p \in ledger : o.batch.bar = p.batch.bar => o.batch = p.batch

\* A commit that shows anything shows a whole batch, the first of its bar:
\* a second one contradicts a stored receipt and is refused.
LEMMA CommitIsWhole ==
  ASSUME Durable, Ordered, WholeInv, ledger' # ledger,
         NEW b \in Bar, Publish(b) \/ Acknowledge(b) \/ AcknowledgeFails(b)
  PROVE  /\ Acknowledge(b) \/ AcknowledgeFails(b)
         /\ prepared[b.symbol] \in Batch /\ prepared[b.symbol].bar = b
         /\ ledger' = ledger \union Outputs(prepared[b.symbol])
         /\ \A o \in ledger : o.batch.bar # b
<1> DEFINE batch == prepared[b.symbol]
<1>1. Acknowledge(b) \/ AcknowledgeFails(b)
  BY DEF Publish
<1>2. pc = "ack" /\ current = b /\ ledger' = ledger \union sent /\ sent # {}
  BY <1>1 DEF Acknowledge, AcknowledgeFails
<1>3. batch.bar = b /\ sent = Outputs(batch) /\ \A o \in sent : ~Conflicts(o)
  BY <1>2 DEF Ordered, SentInv
<1>4. batch \in Batch
  BY RecordingSteps DEF Records
<1>5. ASSUME NEW o \in ledger, o.batch.bar = b PROVE FALSE
  <2>1. PICK r \in Roster : TRUE
    BY RosterAssumption
  <2>2. o.batch \in Batch
    BY DEF Ordered, Accounted, TypeOK, Output
  <2>3. [topic |-> "evaluation", strategy |-> r, batch |-> o.batch] \in ledger
    BY DEF WholeInv, Outputs, Evaluations
  <2>4. [topic |-> "evaluation", strategy |-> r, batch |-> batch] \in sent
    BY <1>3 DEF Outputs, Evaluations
  <2>5. o.batch = batch
    BY <1>3, <1>5, <2>3, <2>4 DEF Conflicts, SameSlot
  <2>6. Outputs(batch) \subseteq ledger
    BY <2>5 DEF WholeInv
  <2>7. QED
    BY <1>2, <1>3, <2>6
<1>6. QED
  BY <1>1, <1>2, <1>3, <1>4, <1>5

LEMMA WholeStep ==
  ASSUME Durable, Ordered, WholeInv, [Next]_vars
  PROVE  WholeInv'
<1>1. CASE ledger' = ledger
  BY <1>1 DEF WholeInv, Outputs, Evaluations, Intents
<1>2. CASE ledger' # ledger
  <2>1. PICK b \in Bar : Publish(b) \/ Acknowledge(b) \/ AcknowledgeFails(b)
    BY <1>2, QuietSteps
  <2>2. /\ prepared[b.symbol].bar = b
        /\ ledger' = ledger \union Outputs(prepared[b.symbol])
        /\ \A o \in ledger : o.batch.bar # b
    BY <1>2, <2>1, CommitIsWhole
  <2>3. \A o \in Outputs(prepared[b.symbol]) : o.batch = prepared[b.symbol]
    BY DEF Outputs, Evaluations, Intents
  <2>4. ASSUME NEW o \in ledger'
        PROVE  /\ Outputs(o.batch) \subseteq ledger'
               /\ \A p \in ledger' : o.batch.bar = p.batch.bar => o.batch = p.batch
    BY <2>2, <2>3 DEF WholeInv
  <2>5. QED
    BY <2>4 DEF WholeInv, Outputs, Evaluations, Intents
<1>3. QED
  BY <1>1, <1>2

\* A commit is the one record of its bar, in market order.
LEMMA CommitRefines ==
  ASSUME Durable, Ordered, WholeInv, ledger' # ledger,
         NEW b \in Bar, Publish(b) \/ Acknowledge(b) \/ AcknowledgeFails(b)
  PROVE  SlotLedgerOf!Next
<1> DEFINE batch == prepared[b.symbol]
<1>1. /\ Acknowledge(b) \/ AcknowledgeFails(b)
      /\ batch \in Batch /\ batch.bar = b /\ ledger' = ledger \union Outputs(batch)
      /\ \A o \in ledger : o.batch.bar # b
  BY CommitIsWhole
<1>2. b \in inbox /\ inbox' \in {inbox, inbox \ {b}} /\ audit' = audit
  BY <1>1, NoneAssumption DEF Ordered, ProcessInv, Acknowledge, AcknowledgeFails
<1>3. SlotLedgerOf!InOrder(batch)
  <2>1. ASSUME batch.kind = "EVALUATED", NEW o \in ledger, o.batch.kind = "EVALUATED",
               o.batch.bar.symbol = batch.bar.symbol
        PROVE  o.batch.bar.open < batch.bar.open
    <3>1. ~(Outputs(batch) \subseteq ledger) /\ batch # None /\ b.symbol \in Symbol
      BY <1>1, NoneAssumption, BarAssumption
    <3>2. o \in Analysed(b.symbol) /\ o.batch # batch
      BY <1>1, <2>1 DEF Analysed, Analyses
    <3>3. QED
      BY <1>1, <2>1, <3>1, <3>2 DEF Ordered, OrderInv, PreparedIsHead
  <2>2. QED
    BY <2>1 DEF SlotLedgerOf!InOrder
<1>4. SlotLedgerOf!Record(b, batch)
  BY <1>1, <1>2, <1>3 DEF SlotLedgerOf!Record, SlotLedgerOf!Recorded
<1>5. QED
  BY <1>1, <1>4 DEF SlotLedgerOf!Next

\* An acknowledgement without new outputs retires a bar on record.
LEMMA QuietAckRefines ==
  ASSUME Ordered, NEW b \in Bar, Acknowledge(b), ledger' = ledger
  PROVE  SlotLedgerOf!Next
<1>1. pc = "ack" /\ current = b /\ sent \subseteq ledger /\ inbox' = inbox \ {b} /\ audit' = audit
  BY DEF Acknowledge
<1>2. b \in inbox
  BY <1>1, NoneAssumption DEF Ordered, ProcessInv
<1>3. HasOutcome(b)
  <2>1. CASE InHand(b)
    <3>1. /\ prepared[b.symbol] \in Batch /\ prepared[b.symbol].bar = b
          /\ Outputs(prepared[b.symbol]) \subseteq ledger
      BY <1>1, <2>1, BarAssumption DEF InHand, Ordered, Accounted, TypeOK
    <3>2. QED
      BY <3>1, VisibleIsOutcome
  <2>2. QED
    BY <1>1, <2>1 DEF Ordered, Accounted, HandlerInv
<1>4. SlotLedgerOf!Retire(b)
  BY <1>1, <1>2, <1>3 DEF SlotLedgerOf!Retire, SlotLedgerOf!Recorded, HasOutcome
<1>5. QED
  BY <1>4 DEF SlotLedgerOf!Next

\* Every step is a step of the ledger or invisible to it.
LEMMA LedgerRefines ==
  ASSUME Durable, Ordered, WholeInv, [Next]_vars
  PROVE  SlotLedgerOf!Next \/ UNCHANGED SlotLedgerOf!vars
<1>1. CASE ledger' # ledger
  BY <1>1, QuietSteps, CommitRefines
<1>2. CASE ledger' = ledger
  <2>1. CASE Start \/ Crash \/ Tick \/ UNCHANGED vars
    BY <2>1 DEF Start, Crash, Tick, vars, outside, SlotLedgerOf!vars
  <2>2. ASSUME NEW b \in Bar, Produce(b) PROVE SlotLedgerOf!Next
    <3>1. SlotLedgerOf!Announce(b)
      BY <1>2, <2>2 DEF Produce, Ordered, Accounted, TypeOK, SlotLedgerOf!Announce
    <3>2. QED
      BY <3>1 DEF SlotLedgerOf!Next
  <2>3. ASSUME NEW b \in Bar, Replay(b) PROVE SlotLedgerOf!Next
    <3>1. SlotLedgerOf!Announce(b)
      BY <1>2, <2>3 DEF Replay, SlotLedgerOf!Announce
    <3>2. QED
      BY <3>1 DEF SlotLedgerOf!Next
  <2>4. ASSUME NEW b \in Bar, Acknowledge(b) PROVE SlotLedgerOf!Next
    BY <1>2, <2>4, QuietAckRefines DEF Ordered
  <2>5. ASSUME NEW b \in Bar, Deliver(b) \/ Handle(b), ~Acknowledge(b)
        PROVE  UNCHANGED SlotLedgerOf!vars
    BY <1>2, <2>5 DEF Deliver, Handle, Reject, ResumePublication, AnswerReplay, Accept,
       RetryEvaluation, Evaluate, EvaluateFails, Quarantine, QuarantineFails, Fetch, FetchFinds,
       FetchMisses, FetchFails, Publish, FinishPublication, PublishFails,
       AcknowledgeFails, outside, SlotLedgerOf!vars
  <2>6. QED
    BY <2>1, <2>2, <2>3, <2>4, <2>5 DEF Next, Environment
<1>3. QED
  BY <1>1, <1>2

\* With the durable bus, publishing in parts, rollback, crash, retry and the
\* lookup after a restart amount to a ledger that records at most one whole
\* batch per bar, in market order, before the bar is acknowledged.
THEOREM ImplementsSlotLedger ==
  ASSUME Durable
  PROVE  Spec => OneOutcomePerBar
<1>1. Init => WholeInv /\ SlotLedgerOf!Init
  BY DEF Init, WholeInv, SlotLedgerOf!Init
<1>2. Ordered /\ WholeInv /\ [Next]_vars => WholeInv'
  BY WholeStep
<1>3. Ordered /\ WholeInv /\ [Next]_vars => [SlotLedgerOf!Next]_SlotLedgerOf!vars
  BY LedgerRefines
<1>4. QED
  BY OrderedInit, OrderedStep, <1>1, <1>2, <1>3, PTL DEF Spec, OneOutcomePerBar, SlotLedgerOf!Spec

--------------------------------------------------------------------------
(* The answer of a bar is final, with either bus.                          *)

LEMMA MemoryInit == Init => MemoryInv
  BY DEF Init, MemoryInv, NoTime, Nothing

\* The start of the in-memory service restores nothing, and nothing was
\* prepared or published before it.
LEMMA MemoryStart ==
  ASSUME Ordered, MemoryInv, Start
  PROVE  MemoryInv'
<1> SUFFICES ASSUME ~Durable PROVE MemoryInv'
  BY DEF MemoryInv
<1>1. ledger = {} /\ ledger' = {} /\ prepared' = Nothing /\ pc' = "idle"
  BY DEF Start, Ordered, ProcessInv, outside
<1>2. \A s \in Symbol : Retained(s) = {<<>>}
  BY DEF Retained
<1>3. restoredThrough' = NoTime
  <2>1. PICK retained \in [Symbol -> UNION {Retained(s) : s \in Symbol}], kept \in [Symbol -> 0..Window] :
          /\ \A s \in Symbol : retained[s] \in Retained(s) /\ IsCleanPrefix(retained[s], kept[s])
          /\ restoredThrough' = [s \in Symbol |->
               IF kept[s] > 0 /\ kept[s] = Len(retained[s]) THEN Last(retained[s]).open ELSE -1]
    BY DEF Start
  <2>2. ASSUME NEW s \in Symbol PROVE ~(kept[s] > 0 /\ kept[s] = Len(retained[s]))
    BY <1>2, <2>1
  <2>3. QED
    BY <2>1, <2>2 DEF NoTime
<1>4. QED
  BY <1>1, <1>3 DEF MemoryInv, Nothing

\* A block is never lifted, and only Evaluate and Quarantine prepare a batch.
LEMMA MemoryStep ==
  ASSUME Ordered, MemoryInv, [Next]_vars
  PROVE  MemoryInv'
<1> SUFFICES ASSUME ~Durable PROVE MemoryInv'
  BY DEF MemoryInv
<1> USE DEF Ordered, Accounted
<1>1. CASE Start
  BY <1>1, MemoryStart
<1>2. CASE Environment \/ UNCHANGED vars
  BY <1>2 DEF Environment, Tick, Produce, Replay, memory, outside, budget, vars, MemoryInv, Unavailing
<1>3. ASSUME NEW b \in Bar, Evaluate(b) \/ Quarantine(b) PROVE MemoryInv'
  <2>1. b.symbol \in Symbol /\ b.symbol \in DOMAIN prepared
    BY BarAssumption DEF TypeOK
  <2>2. PICK batch : /\ batch.bar = b
                     /\ \/ batch.kind = "EVALUATED"
                        \/ batch.kind = "QUARANTINED" /\ b.symbol \in blockedSymbols'
                     /\ prepared' = [prepared EXCEPT ![b.symbol] = batch]
    <3>1. CASE Evaluate(b)
      <4>1. PICK intents \in SUBSET Roster :
              Prepare(b, [bar |-> b, kind |-> "EVALUATED", intents |-> intents, observed |-> clock])
        BY <3>1 DEF Evaluate
      <4>2. QED
        BY <4>1 DEF Prepare
    <3>2. CASE Quarantine(b)
      BY <3>2 DEF Quarantine, Prepare, Unavailable
    <3>3. QED
      BY <1>3, <3>1, <3>2
  <2>3. /\ blockedSymbols \subseteq blockedSymbols' /\ pc' = "publish"
        /\ UNCHANGED <<restoredThrough, ledger>>
    BY <1>3 DEF Evaluate, Quarantine, Prepare, outside
  <2>4. ASSUME NEW s \in Symbol, prepared'[s] # None PROVE Unavailing(prepared[s])'
    BY <2>1, <2>2, <2>3, <2>4 DEF MemoryInv, Unavailing
  <2>5. QED
    BY <2>3, <2>4 DEF MemoryInv, Unavailing
<1>4. ASSUME NEW b \in Bar, Publish(b) \/ Acknowledge(b) \/ AcknowledgeFails(b), ledger' # ledger
      PROVE  MemoryInv'
  <2>1. Records(b)
    BY <1>4, RecordingSteps
  <2>2. /\ b.symbol \in Symbol /\ prepared[b.symbol] # None /\ pc' # "fetch"
        /\ ledger' \subseteq ledger \cup Outputs(prepared[b.symbol])
        /\ UNCHANGED <<blockedSymbols, restoredThrough, prepared>>
    BY <1>4, <2>1, BarAssumption, NoneAssumption
    DEF Records, Publish, Acknowledge, AcknowledgeFails, Return, Raise
  <2>3. \A o \in Outputs(prepared[b.symbol]) : o.batch = prepared[b.symbol]
    BY DEF Outputs, Evaluations, Intents
  <2>4. QED
    BY <2>2, <2>3 DEF MemoryInv, Unavailing
<1>5. ASSUME NEW b \in Bar, Deliver(b) \/ Handle(b), ~Evaluate(b), ~Quarantine(b), ledger' = ledger
      PROVE  MemoryInv'
  <2>1. b.symbol \in Symbol
    BY BarAssumption
  <2>2. ~Fetch(b) /\ ~FetchFinds(b) /\ ~FetchMisses(b) /\ ~FetchFails(b)
    BY <2>1 DEF Fetch, FetchFinds, FetchMisses, FetchFails, MemoryInv, NoTime
  <2>3. /\ blockedSymbols \subseteq blockedSymbols' /\ pc' # "fetch"
        /\ UNCHANGED <<restoredThrough, prepared>>
    BY <1>5, <2>2 DEF Deliver, Handle, Reject, ResumePublication, AnswerReplay, Accept, MemoryInv,
       RetryEvaluation, EvaluateFails, QuarantineFails, Publish, FinishPublication, PublishFails,
       Acknowledge, AcknowledgeFails, Raise, Return, memory, outside
  <2>4. QED
    BY <1>5, <2>3 DEF MemoryInv, Unavailing
<1>6. ~Crash
  BY DEF Crash
<1>7. QED
  BY <1>1, <1>2, <1>3, <1>4, <1>5, <1>6, QuietSteps DEF Next

\* After its whole outcome nothing but the same bytes is shown for a bar.
\* With the durable bus a commit is the first of its bar; in memory a second
\* batch is no analysis, since analyses move forward, and so a quarantine.
THEOREM AnswersStay == Spec => AnswersAreFinal
<1> DEFINE Inv == Ordered /\ MemoryInv /\ (Durable => WholeInv)
<1> DEFINE Final == \A o \in ledger' \ ledger : HasOutcome(o.batch.bar) =>
       \/ \E p \in ledger : p.batch = o.batch
       \/ /\ ~Durable /\ o.batch.kind = "QUARANTINED"
          /\ o.batch.bar.symbol \in blockedSymbols
<1>1. Init => Inv
  BY OrderedInit, MemoryInit DEF Init, WholeInv
<1>2. Inv /\ [Next]_vars => Inv'
  BY OrderedStep, MemoryStep, WholeStep
<1>3. Inv /\ [Next]_vars => [Final]_vars
  <2> SUFFICES ASSUME Inv, [Next]_vars, NEW o \in ledger' \ ledger, NEW q \in ledger,
                      q.batch.bar = o.batch.bar
               PROVE  \/ \E p \in ledger : p.batch = o.batch
                      \/ /\ ~Durable /\ o.batch.kind = "QUARANTINED"
                         /\ o.batch.bar.symbol \in blockedSymbols
    BY DEF HasOutcome
  <2>1. PICK b \in Bar : Publish(b) \/ Acknowledge(b) \/ AcknowledgeFails(b)
    BY QuietSteps
  <2>2. Records(b)
    BY <2>1, RecordingSteps
  <2>3. /\ o.batch = prepared[b.symbol] /\ o.batch.bar = b /\ prepared[b.symbol] # None
        /\ b.symbol \in Symbol
    BY <2>2, BarAssumption, NoneAssumption DEF Records, Outputs, Evaluations, Intents
  <2>4. CASE Durable
    BY <2>1, <2>3, <2>4, CommitIsWhole
  <2>5. CASE ~Durable /\ o.batch.kind = "EVALUATED" /\ q.batch.kind = "EVALUATED"
    <3>1. o \in Analyses' \ Analyses /\ q \in Analysed(b.symbol)
      BY <2>3, <2>5 DEF Analyses, Analysed
    <3>2. q.batch.bar.open < b.open \/ q.batch = o.batch
      BY <2>2, <3>1, RecordedIsHead
    <3>3. b.open \in Nat
      BY BarAssumption
    <3>4. QED
      BY <2>3, <3>2, <3>3
  <2>6. CASE ~Durable /\ o.batch.kind = "EVALUATED" /\ q.batch.kind # "EVALUATED"
    <3>1. o \in Analyses' \ Analyses
      BY <2>6 DEF Analyses
    <3>2. b.symbol \notin blockedSymbols
      BY <2>2, <3>1, RecordedIsHead DEF IsHead
    <3>3. QED
      BY <2>3, <2>6, <3>2 DEF MemoryInv, Unavailing
  <2>7. CASE ~Durable /\ o.batch.kind # "EVALUATED"
    BY <2>3, <2>7 DEF MemoryInv, Unavailing
  <2>8. QED
    BY <2>4, <2>5, <2>6, <2>7
<1>4. QED
  BY <1>1, <1>2, <1>3, PTL DEF Spec, AnswersAreFinal

=============================================================================
