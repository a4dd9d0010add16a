------------------------- MODULE StrategyService -------------------------
(***************************************************************************)
(* The closed-bar consumer of kairos_strategy/service.py.                  *)
(*                                                                         *)
(* One consumer loop takes envelopes from an at-least-once transport, one  *)
(* at a time.  Each envelope carries one closed bar; the handler decides   *)
(* whether the bar extends the symbol's history, evaluates it, publishes   *)
(* every receipt and then every intent, and acknowledges the envelope.     *)
(* The handler is suspended at each await (database read, publish, ack):   *)
(* there it may fail, or the process may crash, so every await is a step.  *)
(* A failed handler leaves its envelope in the inbox for redelivery.       *)
(*                                                                         *)
(* Time is counted in minutes.  A bar opened at minute t closes at t+1.    *)
(* bar_sha256 is the identity of the whole bar: two bars of one symbol     *)
(* and one minute with different versions conflict.                        *)
(***************************************************************************)
EXTENDS Integers, Sequences

CONSTANTS
  Symbol, Version, \* universe of symbols; versions tell conflicting bars apart
  Bar,             \* the bars the producer may ever send
  Roster,          \* enabled_strategy_ids, {engine} when the list is empty
  Window,          \* settings.window_bars
  Durable,         \* TRUE: DurableMessageBus, FALSE: the in-memory bus
  None,
  MaxClock, MaxFailures, MaxCrashes, MaxReplays   \* bounds on the environment

Kind == {"EVALUATED", "QUARANTINED", "NOT_EVALUATED"}

\* A RuntimeEvaluationBatch: one receipt per strategy, and an intent for
\* each strategy of `intents`.  `observed` is the receipts' observed_at_ms.
Batch == [bar : Bar, kind : Kind, intents : SUBSET Roster, observed : 0..MaxClock]

Output == [topic : {"evaluation", "intent"}, strategy : Roster, batch : Batch]

ASSUME BarAssumption == Bar \subseteq [symbol : Symbol, open : Nat, version : Version]
ASSUME RosterAssumption == Roster # {}
ASSUME WindowAssumption == Window \in Nat \ {0}
ASSUME DurableAssumption == Durable \in BOOLEAN
ASSUME NoneAssumption == None \notin Bar /\ None \notin Batch
ASSUME BoundAssumption == MaxClock \in Nat /\ MaxFailures \in Nat
                          /\ MaxCrashes \in Nat /\ MaxReplays \in Nat

VARIABLES
  \* memory of the service object, lost in a crash
  bars,                \* symbol -> accepted bars, oldest first (_bars)
  blockedSymbols,      \* symbols quarantined after an integrity violation
  restoredThrough,     \* symbol -> open time of the last restored bar, or -1
  prepared,            \* symbol -> last prepared batch or None
  publicationPending,  \* symbols whose prepared batch must be published again
  evaluationPending,   \* symbol -> appended bar without a batch, or None
  \* the handler in progress
  pc,                  \* where the consumer is suspended
  current,             \* the bar of the envelope it handles, or None
  sent,                \* outputs published by this handler so far
  \* the outside
  audit,               \* every bar the producer sent (event_audit, CLOSED_BAR)
  inbox,               \* bars whose envelope is not acknowledged
  ledger,              \* outputs a reader of the output topics can see
  clock, failures, crashes, replays

memory == <<bars, blockedSymbols, restoredThrough, prepared,
            publicationPending, evaluationPending>>
budget == <<failures, crashes, replays>>
outside == <<audit, inbox, ledger, clock, budget>>
vars == <<memory, pc, current, sent, outside>>

--------------------------------------------------------------------------
(* Batches and the outputs they stand for.                                 *)

Evaluations(batch) == [topic : {"evaluation"}, strategy : Roster, batch : {batch}]
Intents(batch) == [topic : {"intent"}, strategy : batch.intents, batch : {batch}]
Outputs(batch) == Evaluations(batch) \cup Intents(batch)

Unavailable(b, kind) ==
  [bar |-> b, kind |-> kind, intents |-> {}, observed |-> clock]

\* Receipts of one logical slot (bar, strategy) with different bytes.
SameSlot(o, p) == o.topic = "evaluation" /\ p.topic = "evaluation"
                  /\ o.strategy = p.strategy /\ o.batch.bar = p.batch.bar
Conflicts(o) == Durable /\ \E p \in ledger : SameSlot(o, p) /\ p # o

--------------------------------------------------------------------------
(* The sequence guard, _append_or_replay.                                  *)

Last(history) == history[Len(history)]

InHistory(b) == \E i \in 1..Len(bars[b.symbol]) : bars[b.symbol][i] = b

Contradicts(b) == \E i \in 1..Len(bars[b.symbol]) :
                    bars[b.symbol][i].open = b.open /\ bars[b.symbol][i] # b

BeforeRestore(b) == b.open <= restoredThrough[b.symbol]

Contiguous(b) == bars[b.symbol] # <<>> => b.open = Last(bars[b.symbol]).open + 1

Blocked(b) == b.symbol \in blockedSymbols

\* Slip: the block is noted but not looked at.
IsNextThoughBlocked(b) == ~Contradicts(b) /\ ~InHistory(b) /\ ~BeforeRestore(b) /\ Contiguous(b)

\* The three verdicts on a bar: replay (False), append (True), raise.
IsReplay(b) == ~Blocked(b) /\ ~Contradicts(b) /\ (InHistory(b) \/ BeforeRestore(b))
IsNext(b) == /\ ~Blocked(b) /\ ~Contradicts(b) /\ ~InHistory(b)
             /\ ~BeforeRestore(b) /\ Contiguous(b)
IsViolation(b) == ~IsReplay(b) /\ ~IsNext(b)

\* Slip: a plain list instead of the bounded deque.
ExtendUnbounded(history, b) == Append(history, b)
\* deque(maxlen=window_bars): an append to a full window drops the oldest.
Extend(history, b) ==
  LET longer == Append(history, b)
  IN  IF Len(longer) > Window THEN Tail(longer) ELSE longer

--------------------------------------------------------------------------
(* Initial state and restart.                                              *)

NoBars == [s \in Symbol |-> <<>>]
NoTime == [s \in Symbol |-> -1]
Nothing == [s \in Symbol |-> None]

Init ==
  /\ bars = NoBars /\ blockedSymbols = {} /\ restoredThrough = NoTime
  /\ prepared = Nothing /\ publicationPending = {} /\ evaluationPending = Nothing
  /\ pc = "down" /\ current = None /\ sent = {}
  /\ audit = {} /\ inbox = {} /\ ledger = {}
  /\ clock = 0 /\ failures = 0 /\ crashes = 0 /\ replays = 0

\* The rows the restore query may return for a symbol: the Window latest
\* audited bars in order of open time; ties come in any order.
AuditOf(s) == {b \in audit : b.symbol = s}
IsLatest(rows, s) ==
  /\ \A i, j \in 1..Len(rows) : i < j => rows[i].open <= rows[j].open /\ rows[i] # rows[j]
  /\ \A b \in AuditOf(s) : \/ \E i \in 1..Len(rows) : rows[i] = b
                           \/ Len(rows) = Window /\ b.open <= rows[1].open
Retained(s) ==
  IF Durable THEN {rows \in UNION {[1..n -> AuditOf(s)] : n \in 0..Window} : IsLatest(rows, s)}
             ELSE {<<>>}

\* Slip: the restored rows are trusted.
FollowsAlways(rows, i) == TRUE

\* Restoring appends the rows one by one and blocks the symbol at the
\* first that does not follow its predecessor; later rows are skipped.
Follows(rows, i) == i > 1 => rows[i].open = rows[i - 1].open + 1
IsCleanPrefix(rows, n) == /\ n <= Len(rows)
                          /\ \A i \in 1..n : Follows(rows, i)
                          /\ n < Len(rows) => ~Follows(rows, n + 1)

\* A new service object, _restore_history, then the subscription.
Start ==
  /\ pc = "down"
  /\ \E retained \in [Symbol -> UNION {Retained(s) : s \in Symbol}], kept \in [Symbol -> 0..Window] :
       /\ \A s \in Symbol : retained[s] \in Retained(s) /\ IsCleanPrefix(retained[s], kept[s])
       /\ bars' = [s \in Symbol |-> SubSeq(retained[s], 1, kept[s])]
       /\ blockedSymbols' = {s \in Symbol : kept[s] < Len(retained[s])}
       /\ restoredThrough' = [s \in Symbol |->
            IF kept[s] > 0 /\ kept[s] = Len(retained[s]) THEN Last(retained[s]).open ELSE -1]
  /\ pc' = "idle"
  /\ UNCHANGED <<prepared, publicationPending, evaluationPending, current, sent, outside>>

--------------------------------------------------------------------------
(* The handler, handle_envelope and process_bar.                           *)

\* The handler returns to the loop; in a durable bus a failed handler's
\* outputs roll back with its transaction, in memory they were seen at once.
Return == pc' = "idle" /\ current' = None /\ sent' = {}

\* Slip: a failed handler keeps no note of its batch.
RaiseForgetting(b) == Return /\ UNCHANGED publicationPending

\* `except BaseException`: the bar's own prepared batch is to be published
\* again, with the same bytes, at the next delivery.
Raise(b) ==
  /\ Return
  /\ publicationPending' =
       IF prepared[b.symbol] # None /\ prepared[b.symbol].bar = b
         THEN publicationPending \cup {b.symbol} ELSE publicationPending

\* A failure the environment may inject, at most MaxFailures times.
Fault == failures < MaxFailures /\ failures' = failures + 1

\* Slip: the bar stays in evaluationPending.
PrepareWithoutPop(b, batch) ==
  /\ prepared' = [prepared EXCEPT ![b.symbol] = batch]
  /\ publicationPending' = publicationPending \cup {b.symbol}
  /\ pc' = "publish" /\ UNCHANGED evaluationPending

Prepare(b, batch) ==
  /\ prepared' = [prepared EXCEPT ![b.symbol] = batch]
  /\ evaluationPending' = [evaluationPending EXCEPT ![b.symbol] = None]
  /\ publicationPending' = publicationPending \cup {b.symbol}
  /\ pc' = "publish"

Pending(b) == b.symbol \in publicationPending
IsPrepared(b) == prepared[b.symbol] # None /\ prepared[b.symbol].bar = b
Unfinished(b) == evaluationPending[b.symbol] # None

\* The subscription yields an unacknowledged envelope, in any order.
Deliver(b) ==
  /\ pc = "idle" /\ b \in inbox
  /\ pc' = "received" /\ current' = b
  /\ UNCHANGED <<memory, sent, outside>>

\* A bar from the future, or one that would pass an unfinished
\* predecessor of its symbol, raises before any change.
Reject(b) ==
  /\ pc = "received" /\ current = b
  /\ \/ clock < b.open + 1
     \/ Pending(b) /\ ~IsPrepared(b)
     \/ ~Pending(b) /\ ~IsPrepared(b) /\ Unfinished(b) /\ evaluationPending[b.symbol] # b
  /\ Raise(b)
  /\ UNCHANGED <<bars, blockedSymbols, restoredThrough, prepared, evaluationPending, outside>>

\* The bars that pass those checks.
Admitted(b) == pc = "received" /\ current = b /\ clock >= b.open + 1

\* Slip: a retry evaluates the bar again.
ResumeByEvaluating(b) ==
  /\ Admitted(b) /\ Pending(b) /\ IsPrepared(b)
  /\ pc' = "evaluate"
  /\ UNCHANGED <<memory, current, sent, outside>>

\* Redelivery after a failed publish or ack: the whole batch again.
ResumePublication(b) ==
  /\ Admitted(b) /\ Pending(b) /\ IsPrepared(b)
  /\ pc' = "publish"
  /\ UNCHANGED <<memory, current, sent, outside>>

\* The last bar again, or a bar of the window accepted by this process.
AnswerReplay(b) ==
  /\ Admitted(b) /\ ~Pending(b)
  /\ \/ IsPrepared(b)
     \/ ~Unfinished(b) /\ IsReplay(b) /\ restoredThrough[b.symbol] = -1
  /\ pc' = "ack"
  /\ UNCHANGED <<memory, current, sent, outside>>

\* Bars that reach the sequence guard.
Examined(b) == Admitted(b) /\ ~Pending(b) /\ ~IsPrepared(b) /\ ~Unfinished(b)

Accept(b) ==
  /\ Examined(b) /\ IsNext(b)
  /\ bars' = [bars EXCEPT ![b.symbol] = Extend(@, b)]
  /\ evaluationPending' = [evaluationPending EXCEPT ![b.symbol] = b]
  /\ pc' = "evaluate"
  /\ UNCHANGED <<blockedSymbols, restoredThrough, prepared, publicationPending,
                 current, sent, outside>>

\* Redelivery after a failed evaluation: evaluate, do not append again.
RetryEvaluation(b) ==
  /\ Admitted(b) /\ ~Pending(b) /\ ~IsPrepared(b) /\ evaluationPending[b.symbol] = b
  /\ pc' = "evaluate"
  /\ UNCHANGED <<memory, current, sent, outside>>

Evaluate(b) ==
  /\ pc = "evaluate" /\ current = b
  /\ \E intents \in SUBSET Roster :
       Prepare(b, [bar |-> b, kind |-> "EVALUATED", intents |-> intents, observed |-> clock])
  /\ UNCHANGED <<bars, blockedSymbols, restoredThrough, current, sent, outside>>

EvaluateFails(b) ==
  /\ pc = "evaluate" /\ current = b
  /\ Fault /\ Raise(b)
  /\ UNCHANGED <<bars, blockedSymbols, restoredThrough, prepared, evaluationPending,
                 audit, inbox, ledger, clock, crashes, replays>>

\* Slip: the offending bar is quarantined, its symbol goes on.
QuarantineBarOnly(b) ==
  /\ Examined(b) /\ IsViolation(b)
  /\ Prepare(b, Unavailable(b, "QUARANTINED"))
  /\ UNCHANGED <<bars, blockedSymbols, restoredThrough, current, sent, outside>>

\* ClosedBarSequenceError: block the symbol, publish QUARANTINED receipts.
Quarantine(b) ==
  /\ Examined(b) /\ IsViolation(b)
  /\ blockedSymbols' = blockedSymbols \cup {b.symbol}
  /\ Prepare(b, Unavailable(b, "QUARANTINED"))
  /\ UNCHANGED <<bars, restoredThrough, current, sent, outside>>

\* The symbol is blocked, then making the receipts fails.
QuarantineFails(b) ==
  /\ Examined(b) /\ IsViolation(b)
  /\ blockedSymbols' = blockedSymbols \cup {b.symbol}
  /\ Fault /\ Raise(b)
  /\ UNCHANGED <<bars, restoredThrough, prepared, evaluationPending,
                 audit, inbox, ledger, clock, crashes, replays>>

\* A replay of a restored symbol asks the database for its committed batch.
Fetch(b) ==
  /\ Examined(b) /\ IsReplay(b) /\ restoredThrough[b.symbol] # -1
  /\ pc' = "fetch"
  /\ UNCHANGED <<memory, current, sent, outside>>

\* _saved_batch: the committed receipts of b, and whether they are one
\* batch with the complete roster and every intent they refer to.
Saved(b) == {o \in ledger : o.topic = "evaluation" /\ o.batch.bar = b}
IsWhole(b, batch) == Saved(b) = Evaluations(batch) /\ Intents(batch) \subseteq ledger

FetchFinds(b) ==
  /\ pc = "fetch" /\ current = b
  /\ \E batch \in {o.batch : o \in Saved(b)} :
       IsWhole(b, batch) /\ prepared' = [prepared EXCEPT ![b.symbol] = batch]
  /\ pc' = "ack"
  /\ UNCHANGED <<bars, blockedSymbols, restoredThrough, publicationPending,
                 evaluationPending, current, sent, outside>>

FetchMisses(b) ==
  /\ pc = "fetch" /\ current = b
  /\ Saved(b) = {}
  /\ Prepare(b, Unavailable(b, "NOT_EVALUATED"))
  /\ UNCHANGED <<bars, blockedSymbols, restoredThrough, current, sent, outside>>

\* The query or the receipts fail, or the stored roster is not whole.
FetchFails(b) ==
  /\ pc = "fetch" /\ current = b
  /\ \/ Fault
     \/ /\ Saved(b) # {} /\ \A o \in Saved(b) : ~IsWhole(b, o.batch)
        /\ UNCHANGED failures
  /\ Raise(b)
  /\ UNCHANGED <<bars, blockedSymbols, restoredThrough, prepared, evaluationPending,
                 audit, inbox, ledger, clock, crashes, replays>>

--------------------------------------------------------------------------
(* Publication and acknowledgement.                                        *)

\* One publish of _publish_prepared: every receipt before any intent.  A
\* durable bus keeps the output in the handler's transaction until the ack.
Publish(b) ==
  /\ pc = "publish" /\ current = b
  /\ \E o \in Outputs(prepared[b.symbol]) \ sent :
       /\ o.topic = "intent" => Evaluations(prepared[b.symbol]) \subseteq sent
       /\ ~Conflicts(o)
       /\ sent' = sent \cup {o}
       /\ ledger' = IF Durable THEN ledger ELSE ledger \cup {o}
  /\ UNCHANGED <<memory, pc, current, audit, inbox, clock, budget>>

\* Slip: the batch stays pending after it was published.
FinishWithoutDiscard(b) ==
  /\ pc = "publish" /\ current = b
  /\ Outputs(prepared[b.symbol]) \subseteq sent
  /\ pc' = "ack" /\ UNCHANGED <<memory, current, sent, outside>>

\* Slip: the acknowledgement does not wait for the intents.
FinishAfterReceipts(b) ==
  /\ pc = "publish" /\ current = b
  /\ Evaluations(prepared[b.symbol]) \subseteq sent
  /\ publicationPending' = publicationPending \ {b.symbol}
  /\ pc' = "ack"
  /\ UNCHANGED <<bars, blockedSymbols, restoredThrough, prepared, evaluationPending,
                 current, sent, outside>>

FinishPublication(b) ==
  /\ pc = "publish" /\ current = b
  /\ Outputs(prepared[b.symbol]) \subseteq sent
  /\ publicationPending' = publicationPending \ {b.symbol}
  /\ pc' = "ack"
  /\ UNCHANGED <<bars, blockedSymbols, restoredThrough, prepared, evaluationPending,
                 current, sent, outside>>

\* The transport fails, or refuses a receipt that contradicts a stored one.
PublishFails(b) ==
  /\ pc = "publish" /\ current = b
  /\ \/ Fault
     \/ (\E o \in Outputs(prepared[b.symbol]) : Conflicts(o)) /\ UNCHANGED failures
  /\ Raise(b)
  /\ UNCHANGED <<bars, blockedSymbols, restoredThrough, prepared, evaluationPending,
                 audit, inbox, ledger, clock, crashes, replays>>

\* bus.ack commits the outputs with the inbox completion.
Acknowledge(b) ==
  /\ pc = "ack" /\ current = b
  /\ ledger' = ledger \cup sent
  /\ inbox' = inbox \ {b}
  /\ Return
  /\ UNCHANGED <<memory, audit, clock, budget>>

\* The commit fails, or it succeeds and the transport's ack after it fails.
AcknowledgeFails(b) ==
  /\ pc = "ack" /\ current = b
  /\ Fault /\ Raise(b)
  /\ ledger' \in {ledger, ledger \cup sent}
  /\ UNCHANGED <<bars, blockedSymbols, restoredThrough, prepared, evaluationPending,
                 audit, inbox, clock, crashes, replays>>

--------------------------------------------------------------------------
(* The environment.                                                        *)

\* The producer sends a bar: in order, late, skipping or conflicting.
Produce(b) ==
  /\ b \notin audit
  /\ audit' = audit \cup {b} /\ inbox' = inbox \cup {b}
  /\ UNCHANGED <<memory, pc, current, sent, ledger, clock, budget>>

\* The transport delivers an acknowledged bar once more.
Replay(b) ==
  /\ replays < MaxReplays /\ replays' = replays + 1
  /\ b \in audit \ inbox
  /\ inbox' = inbox \cup {b}
  /\ UNCHANGED <<memory, pc, current, sent, audit, ledger, clock, failures, crashes>>

Tick ==
  /\ clock < MaxClock /\ clock' = clock + 1
  /\ UNCHANGED <<memory, pc, current, sent, audit, inbox, ledger, budget>>

\* Only the durable deployment outlives its process.
Crash ==
  /\ Durable /\ pc # "down" /\ crashes < MaxCrashes
  /\ crashes' = crashes + 1
  /\ bars' = NoBars /\ blockedSymbols' = {} /\ restoredThrough' = NoTime
  /\ prepared' = Nothing /\ publicationPending' = {} /\ evaluationPending' = Nothing
  /\ pc' = "down" /\ current' = None /\ sent' = {}
  /\ UNCHANGED <<audit, inbox, ledger, clock, failures, replays>>

--------------------------------------------------------------------------
Handle(b) ==
  \/ Reject(b) \/ ResumePublication(b) \/ AnswerReplay(b) \/ Accept(b)
  \/ RetryEvaluation(b) \/ Evaluate(b) \/ EvaluateFails(b)
  \/ Quarantine(b) \/ QuarantineFails(b)
  \/ Fetch(b) \/ FetchFinds(b) \/ FetchMisses(b) \/ FetchFails(b)
  \/ Publish(b) \/ FinishPublication(b) \/ PublishFails(b)
  \/ Acknowledge(b) \/ AcknowledgeFails(b)

Environment == Tick \/ \E b \in Bar : Produce(b) \/ Replay(b)

Next == Start \/ Crash \/ Environment \/ \E b \in Bar : Deliver(b) \/ Handle(b)

Spec == Init /\ [][Next]_vars

--------------------------------------------------------------------------
(* Types and safety.                                                       *)

\* Every variable has its type, no window outgrows window_bars, and a handler
\* that publishes has a batch to publish.
TypeOK ==
  /\ bars \in [Symbol -> Seq(Bar)]
  /\ \A s \in Symbol : Len(bars[s]) <= Window
  /\ blockedSymbols \subseteq Symbol
  /\ restoredThrough \in [Symbol -> Nat \cup {-1}]
  /\ prepared \in [Symbol -> Batch \cup {None}]
  /\ publicationPending \subseteq Symbol
  /\ evaluationPending \in [Symbol -> Bar \cup {None}]
  /\ pc \in {"down", "idle", "received", "evaluate", "fetch", "publish", "ack"}
  /\ current \in Bar \cup {None}
  /\ pc = "publish" => current \in Bar /\ prepared[current.symbol] \in Batch
  /\ sent \subseteq Output /\ ledger \subseteq Output
  /\ audit \subseteq Bar /\ inbox \subseteq audit
  /\ clock \in 0..MaxClock /\ failures \in Nat /\ crashes \in Nat /\ replays \in Nat

Analyses == {o \in ledger : o.batch.kind = "EVALUATED"}

\* A whole batch for b is visible: every receipt and every intent it names.
HasOutcome(b) == \E o \in ledger : o.batch.bar = b /\ Outputs(o.batch) \subseteq ledger

\* An acknowledged bar has a whole visible outcome, whatever failed, crashed
\* or was redelivered on the way: no input is lost behind the replay checks
\* (handle_envelope, "Request ACK only after every required observation").
ReceiptForEveryAck == \A b \in audit \ inbox : HasOutcome(b)

\* Retries repeat bytes and never evaluate twice, and a bar that contradicts
\* an analysed one is never analysed: all visible analyses of one minute are
\* outputs of one batch, and an intent is visible only beside all the receipts
\* of its batch (_append_or_replay, _publish_prepared, handle_envelope).
CoherentAnalysis ==
  /\ \A o, p \in Analyses :
       o.batch.bar.symbol = p.batch.bar.symbol /\ o.batch.bar.open = p.batch.bar.open
         => o.batch = p.batch
  /\ \A o \in ledger : o.topic = "intent" => Evaluations(o.batch) \subseteq ledger

\* A symbol that is not blocked has a window of consecutive minutes, and no
\* bar was accepted past an unfinished predecessor: all but the last of the
\* bars accepted by this process have a visible outcome (process_bar).
SoundWindow ==
  \A s \in Symbol \ blockedSymbols : \A i \in 1..(Len(bars[s]) - 1) :
    /\ bars[s][i + 1].open = bars[s][i].open + 1
    /\ bars[s][i].open > restoredThrough[s] => HasOutcome(bars[s][i])

\* Analyses become visible in market order: never for a blocked symbol, for
\* a minute at or before the restored history, or for a minute not later
\* than those already analysed (_append_or_replay, process_bar).
AnalysisMovesForward ==
  [][\A o \in Analyses' \ Analyses :
       /\ o.batch.bar.symbol \notin blockedSymbols
       /\ o.batch.bar.open > restoredThrough[o.batch.bar.symbol]
       /\ \A p \in Analyses : p.batch.bar.symbol = o.batch.bar.symbol
                             => p.batch.bar.open < o.batch.bar.open
                                \/ p.batch = o.batch]_vars

\* The answer of a bar is final: once its whole outcome is visible, nothing
\* but the same bytes becomes visible for it, except that the in-memory bus
\* shows a new quarantine receipt at each delivery to a blocked symbol
\* (process_bar, handle_envelope).
AnswersAreFinal ==
  [][\A o \in ledger' \ ledger : HasOutcome(o.batch.bar) =>
       \/ \E p \in ledger : p.batch = o.batch
       \/ /\ ~Durable /\ o.batch.kind = "QUARANTINED"
          /\ o.batch.bar.symbol \in blockedSymbols]_vars

\* With the durable bus the outputs form a SlotLedger: at most one batch per
\* bar, whole, write-once and in market order, and only then is the bar
\* acknowledged.  Publishing in parts, rollback, crash, retry and the
\* restart's database lookup are invisible at that level.
SlotLedgerOf == INSTANCE SlotLedger WITH announced <- audit, due <- inbox
OneOutcomePerBar == SlotLedgerOf!Spec

--------------------------------------------------------------------------
(* The inductive strengthening of ReceiptForEveryAck.                      *)

\* The batch that answers b is at hand: what it lacks is in this handler's
\* transaction.
InHand(b) == /\ prepared[b.symbol] # None /\ prepared[b.symbol].bar = b
             /\ Outputs(prepared[b.symbol]) \subseteq ledger \cup sent

HandlerInv ==
  /\ pc \in {"down", "idle"} <=> current = None
  /\ pc \notin {"publish", "ack"} => sent = {}
  /\ pc = "evaluate" => /\ evaluationPending[current.symbol] = current
                        /\ current.symbol \notin publicationPending
  /\ pc = "fetch" => /\ evaluationPending[current.symbol] = None
                     /\ current.symbol \notin publicationPending
  /\ pc = "publish" => /\ prepared[current.symbol].bar = current
                       /\ current.symbol \in publicationPending
  /\ pc = "ack" => /\ sent # {} => prepared[current.symbol].bar = current
                   /\ HasOutcome(current) \/ InHand(current)

\* A prepared batch that need not be published again is visible, or is the
\* one this handler is about to commit.
PreparedInv ==
  \A s \in Symbol : prepared[s] # None =>
    /\ prepared[s].bar.symbol = s
    /\ s \notin publicationPending =>
         \/ Outputs(prepared[s]) \subseteq ledger
         \/ pc = "ack" /\ current = prepared[s].bar /\ InHand(current)

\* A bar this process accepted is answered, or is the one it still works on.
WindowInv ==
  \A s \in Symbol \ blockedSymbols : \A i \in 1..Len(bars[s]) :
    bars[s][i].open > restoredThrough[s] =>
      \/ HasOutcome(bars[s][i])
      \/ evaluationPending[s] = bars[s][i]
      \/ prepared[s] # None /\ prepared[s].bar = bars[s][i]

Accounted == TypeOK /\ HandlerInv /\ PreparedInv /\ WindowInv /\ ReceiptForEveryAck

--------------------------------------------------------------------------
(* The inductive strengthening of AnswersAreFinal.                         *)

\* The in-memory service has nothing restored, so a receipt without analysis
\* is a quarantine, and a quarantined symbol stays blocked.
Unavailing(batch) ==
  batch.kind # "EVALUATED" => batch.kind = "QUARANTINED" /\ batch.bar.symbol \in blockedSymbols
MemoryInv ==
  ~Durable =>
    /\ restoredThrough = NoTime /\ pc # "fetch"
    /\ \A s \in Symbol : prepared[s] # None => Unavailing(prepared[s])
    /\ \A o \in ledger : Unavailing(o.batch)

--------------------------------------------------------------------------
(* Liveness.                                                               *)

\* The service object and its loop run; the clock moves; the transport
\* redelivers every unacknowledged envelope again and again.
FairSpec ==
  /\ Spec
  /\ WF_vars(Start) /\ WF_vars(Tick)
  /\ \A b \in Bar : SF_vars(Deliver(b)) /\ WF_vars(Handle(b))

\* A batch the durable bus will never take: it contradicts stored receipts.
Contradicted(s) == prepared[s] # None /\ \E o \in Outputs(prepared[s]) : Conflicts(o)

\* Every bar is acknowledged in the end: no wait of a bar for an unfinished
\* predecessor, and no failure, restart or early clock, holds it for ever.
\* The exception is a symbol whose quarantine receipt contradicts a stored
\* outcome; its envelopes wait for an operator (process_bar).
EveryBarAnswered ==
  \A b \in Bar : b \in inbox ~> (b \notin inbox \/ Contradicted(b.symbol))

--------------------------------------------------------------------------
\* docs/RUNTIME-EVALUATIONS.md: "A successful exact replay produces no new
\* outputs."  Once a bar has its whole outcome, nothing else is published
\* for it but the same bytes.
ExactReplayIsSilent ==
  [][\A o \in ledger' \ ledger : HasOutcome(o.batch.bar) =>
       \E p \in ledger : p.batch = o.batch]_vars

=============================================================================
