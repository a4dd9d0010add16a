----------------------- MODULE CausalCampaignProofs -----------------------
(* Theorems about CausalCampaign, for every value of its constants.        *)
EXTENDS CausalCampaign, FrameReadinessProofs, WellFoundedInduction

--------------------------------------------------------------------------
(* Windows and candidates.                                                 *)

\* In a window without gaps every bar stands at its distance from the last.
LEMMA ContiguousPositions ==
  ASSUME NEW rows \in Seq(Bar), rows # <<>>, Contiguous(rows), NEW p \in 1..Len(rows)
  PROVE  rows[p].open = rows[Len(rows)].open - (Len(rows) - p)
<1> DEFINE n == Len(rows)
           Good(d) == rows[n - d].open = rows[n].open - d
           Bad == {d \in Nat : d < n /\ ~Good(d)}
<1>1. n \in Nat /\ n >= 1 /\ \A q \in 1..n : rows[q].open \in Nat
  <2>1. \A q \in 1..n : rows[q] \in Bar
    OBVIOUS
  <2>2. QED
    BY <2>1 DEF Bar
<1>2. ASSUME Bad # {} PROVE FALSE
  <2>1. PICK d \in Bad : \A e \in Bad : ~ (<<e, d>> \in OpToRel(<, Nat))
    BY <1>2, NatLessThanWellFounded, WFMin
  <2>2. d \in Nat /\ d < n /\ ~Good(d)
    BY <2>1
  <2>3. ASSUME NEW e \in Nat, e < d PROVE Good(e)
    <3>1. e \in Bad => <<e, d>> \notin OpToRel(<, Nat)
      BY <2>1
    <3>2. <<e, d>> \in OpToRel(<, Nat)
      BY <2>2, <2>3 DEF OpToRel
    <3>3. e < n
      BY <1>1, <2>2, <2>3
    <3>4. QED
      BY <3>1, <3>2, <3>3, <2>3
  <2>4. d # 0
    <3>1. n - 0 = n /\ rows[n].open - 0 = rows[n].open
      BY <1>1
    <3>2. Good(0)
      BY <3>1
    <3>3. QED
      BY <2>2, <3>2
  <2>5. Good(d - 1)
    BY <2>2, <2>3, <2>4
  <2>6. n - d \in 1..(n - 1) /\ n - (d - 1) = (n - d) + 1
    BY <1>1, <2>2, <2>4
  <2>7. rows[(n - d) + 1].open = rows[n - d].open + 1
    BY <2>6 DEF Contiguous
  <2>8. rows[n - d].open \in Nat /\ rows[n].open \in Nat
    BY <1>1, <2>6
  <2>9. rows[(n - d) + 1].open = rows[n].open - (d - 1)
    BY <2>5, <2>6
  <2>10. rows[n - d].open = rows[n].open - d
    BY <2>2, <2>7, <2>8, <2>9
  <2>11. QED
    BY <2>2, <2>10
<1>3. n - p \in Nat /\ n - p < n /\ n - (n - p) = p
  BY <1>1
<1>4. Good(n - p)
  BY <1>2, <1>3
<1>5. QED
  BY <1>3, <1>4

\* A finite set of at most one element has no two.
LEMMA AtMostOne ==
  ASSUME NEW S, IsFiniteSet(S), Cardinality(S) <= 1, NEW i \in S, NEW j \in S
  PROVE  i = j
<1>1. SUFFICES ASSUME i # j PROVE FALSE
  OBVIOUS
<1>2. IsFiniteSet({i}) /\ Cardinality({i}) = 1
  BY FS_Singleton
<1>3. Cardinality({i} \union {j}) = 2
  BY <1>1, <1>2, FS_AddElement
<1>4. Cardinality({i} \union {j}) <= Cardinality(S)
  BY FS_Subset
<1>5. Cardinality(S) \in Nat
  BY FS_CardinalityType
<1>6. QED
  BY <1>3, <1>4, <1>5

--------------------------------------------------------------------------
(* The invariant.                                                          *)

\* What has been checked of an answer before its generator ran.
Examined(answer) ==
  /\ answer.memory = "frozen"
  /\ Admissible(answer.context)
  /\ Verified(answer.bars, answer.context)

\* What is known of a call in each phase.
Known(state) ==
  /\ state.phase = "loading" => state.context \in Contexts /\ Admissible(state.context)
  /\ state.phase \in {"generated", "result"} =>
       state.answer \in Answer /\ Examined(state.answer)
  /\ state.phase = "result" => Selected(state.answer)

\* The inductive invariant: the checks a call has passed still hold of it.
CampaignInv == TypeOK /\ \A e \in Evaluation : Known(call[e])

LEMMA InitCampaign == Init => CampaignInv
<1> SUFFICES ASSUME Init PROVE CampaignInv
  OBVIOUS
<1>1. call = [e \in Evaluation |-> [phase |-> "idle"]]
  BY DEF Init
<1>2. [phase |-> "idle"] \in Call
  BY DEF Call, Idle
<1>3. \A e \in Evaluation : call[e].phase = "idle"
  BY <1>1
<1>4. call \in [Evaluation -> Call]
  BY <1>1, <1>2
<1>5. QED
  BY <1>3, <1>4 DEF Init, CampaignInv, TypeOK, Version, Known

\* A step that gives one call a new state about which all is known, while no
\* other call is running, preserves the invariant.
LEMMA SetKeeps ==
  ASSUME CampaignInv, NEW e \in Evaluation, NEW state \in Call, Set(e, state),
         Known(state),
         state.phase = "generated" => \A d \in Evaluation \ {e} : call[d].phase # "generated",
         UNCHANGED <<rule, minimum, memory, disk>>
  PROVE  CampaignInv'
<1>1. call \in [Evaluation -> Call]
  BY DEF CampaignInv, TypeOK
<1>2. call' = [call EXCEPT ![e] = state]
  BY DEF Set
<1>3. call'[e] = state /\ \A d \in Evaluation \ {e} : call'[d] = call[d]
  BY <1>1, <1>2
<1>4. call' \in [Evaluation -> Call]
  BY <1>1, <1>2
<1>5. \A d \in Evaluation : Known(call'[d])
  BY <1>3 DEF CampaignInv
<1>6. \A c, d \in Evaluation :
        call'[c].phase = "generated" /\ call'[d].phase = "generated" => c = d
  BY <1>3 DEF CampaignInv, TypeOK
<1>7. QED
  BY <1>4, <1>5, <1>6 DEF CampaignInv, TypeOK

LEMMA RaiseKeeps ==
  ASSUME CampaignInv, NEW e \in Evaluation, Raise(e)
  PROVE  CampaignInv'
<1>1. [phase |-> "raised"] \in Call /\ Known([phase |-> "raised"])
  BY DEF Call, Raised, Known
<1>2. QED
  BY <1>1, SetKeeps DEF Raise

LEMMA BeginKeeps ==
  ASSUME CampaignInv, NEW e \in Evaluation, NEW c \in Contexts, Begin(e, c)
  PROVE  CampaignInv'
<1> DEFINE state == [phase |-> "loading", context |-> c]
<1>1. state \in Call
  BY DEF Call, Loading
<1>2. Known(state)
  BY DEF Begin, Known
<1>3. QED
  BY <1>1, <1>2, SetKeeps DEF Begin

LEMMA ResumeKeeps ==
  ASSUME CampaignInv, NEW e \in Evaluation, NEW rows \in Loads, Resume(e, rows)
  PROVE  CampaignInv'
<1>1. PICK intents \in SUBSET Intents, source \in Version :
        Set(e, [phase |-> "generated",
                answer |-> [context |-> call[e].context, bars |-> rows, intents |-> intents,
                            memory |-> memory, disk |-> source]])
  BY DEF Resume
<1> DEFINE answer == [context |-> call[e].context, bars |-> rows, intents |-> intents,
                      memory |-> memory, disk |-> source]
           state == [phase |-> "generated", answer |-> answer]
<1>2. call[e].context \in Contexts /\ Admissible(call[e].context)
  BY DEF Resume, CampaignInv, Known
<1>3. memory = "frozen" /\ Verified(rows, call[e].context)
  BY DEF Resume, MayGenerate, Frozen
<1>4. answer \in Answer
  BY <1>2, <1>3 DEF Answer, Version
<1>5. state \in Call
  BY <1>4 DEF Call, Generated
<1>6. Known(state)
  BY <1>2, <1>3, <1>4 DEF Known, Examined
<1>7. \A d \in Evaluation \ {e} : call[d].phase # "generated"
  BY DEF Resume, Busy
<1>8. UNCHANGED <<rule, minimum, memory, disk>>
  BY DEF Resume
<1> HIDE DEF answer
<1>9. Set(e, state)
  BY <1>1 DEF answer
<1> HIDE DEF state
<1>10. QED
  BY <1>5, <1>6, <1>7, <1>8, <1>9, SetKeeps

LEMMA ConcludeKeeps ==
  ASSUME CampaignInv, NEW e \in Evaluation, Conclude(e)
  PROVE  CampaignInv'
<1> DEFINE answer == call[e].answer
           state == [phase |-> "result", answer |-> answer]
<1>1. answer \in Answer /\ Examined(answer)
  BY DEF Conclude, CampaignInv, Known
<1>2. state \in Call
  BY <1>1 DEF Call, Result
<1>3. Known(state)
  BY <1>1 DEF Conclude, Known
<1>4. Set(e, state) /\ UNCHANGED <<rule, minimum, memory, disk>>
  BY DEF Conclude
<1>5. state.phase # "generated"
  OBVIOUS
<1> HIDE DEF state
<1>6. QED
  BY <1>2, <1>3, <1>4, <1>5, SetKeeps

\* Every step preserves the invariant.
LEMMA NextCampaign == CampaignInv /\ [Next]_vars => CampaignInv'
<1> SUFFICES ASSUME CampaignInv, [Next]_vars PROVE CampaignInv'
  OBVIOUS
<1>1. ASSUME NEW e \in Evaluation, NEW c \in Contexts, Begin(e, c) \/ BeginFails(e, c)
      PROVE  CampaignInv'
  BY <1>1, BeginKeeps, RaiseKeeps DEF BeginFails
<1>2. ASSUME NEW e \in Evaluation, NEW rows \in Loads, Resume(e, rows) \/ ResumeFails(e, rows)
      PROVE  CampaignInv'
  BY <1>2, ResumeKeeps, RaiseKeeps DEF ResumeFails
<1>3. ASSUME NEW e \in Evaluation, LoadFails(e) \/ Conclude(e) \/ ConcludeFails(e)
      PROVE  CampaignInv'
  BY <1>3, ConcludeKeeps, RaiseKeeps DEF LoadFails, ConcludeFails
<1>4. CASE ChangeMemory \/ ChangeDisk
  BY <1>4 DEF ChangeMemory, ChangeDisk, CampaignInv, TypeOK
<1>5. CASE UNCHANGED vars
  BY <1>5 DEF vars, CampaignInv, TypeOK
<1>6. QED
  BY <1>1, <1>2, <1>3, <1>4, <1>5 DEF Next, Evaluate

LEMMA CampaignInvariant == Spec => []CampaignInv
BY InitCampaign, NextCampaign, PTL DEF Spec

\* Of a result everything was checked that a call checks.
LEMMA ResultsAreExamined ==
  ASSUME CampaignInv, NEW r \in Results
  PROVE  r \in Answer /\ Examined(r) /\ Selected(r)
BY DEF CampaignInv, Results, Known

--------------------------------------------------------------------------
\* Types, and no two calls between generator and result.
THEOREM TypeCorrect == Spec => []TypeOK
<1>1. CampaignInv => TypeOK
  BY DEF CampaignInv
<1>2. QED
  BY CampaignInvariant, <1>1, PTL

\* No result of an evaluator that differs from the one constructed, whatever
\* changes, and changes back, while its window is loaded.
THEOREM OnlyFrozenResults == Spec => []ResultsAreFrozen
<1>1. CampaignInv => ResultsAreFrozen
  BY ResultsAreExamined DEF Examined, Selected, ResultsAreFrozen
<1>2. QED
  BY CampaignInvariant, <1>1, PTL

\* No result from other bars than the named window or from data after its
\* cutoff, whatever the resolver returns.
THEOREM OnlyCausalResults == Spec => []ResultsAreCausal
<1>1. ASSUME CampaignInv, NEW r \in Results
      PROVE  LET c == r.context IN
               /\ r.bars = c.bars
               /\ \A i \in 1..Len(r.bars) : r.bars[i].open = c.anchor.open - (Len(r.bars) - i)
               /\ ClosedAt(c.anchor) <= c.snapshot /\ c.snapshot <= c.as_of
               /\ \A i, j \in Candidates(r) : i = j /\ c.paired < i.expires
  <2> DEFINE c == r.context
  <2>1. r \in Answer /\ Examined(r) /\ Selected(r)
    BY <1>1, ResultsAreExamined
  <2>2. r.bars \in Seq(Bar) /\ r.bars # <<>> /\ c \in Context
    BY <2>1, LoadsAssumption, ContextsAssumption DEF Answer
  <2>3. Contiguous(r.bars) /\ r.bars = c.bars /\ r.bars[Len(r.bars)] = c.anchor
    BY <2>1 DEF Examined, Verified
  <2>4. \A i \in 1..Len(r.bars) : r.bars[i].open = c.anchor.open - (Len(r.bars) - i)
    BY <2>2, <2>3, ContiguousPositions
  <2>5. ClosedAt(c.anchor) <= c.snapshot /\ c.snapshot <= c.as_of
    <3>1. c.snapshot \in Nat /\ c.source \in Nat /\ c.as_of \in Nat
      BY <2>2 DEF Context
    <3>2. Admissible(c)
      BY <2>1 DEF Examined
    <3>3. QED
      BY <3>1, <3>2 DEF Admissible
  <2>6. \A i, j \in Candidates(r) : i = j /\ c.paired < i.expires
    <3>1. Candidates(r) \subseteq Intents
      BY <2>1 DEF Candidates, Answer
    <3>2. IsFiniteSet(Candidates(r))
      BY <3>1, IntentsAssumption, FS_Subset
    <3>3. Cardinality(Candidates(r)) <= 1 /\ \A i \in Candidates(r) : c.paired < i.expires
      BY <2>1 DEF Selected
    <3>4. QED
      BY <3>2, <3>3, AtMostOne
  <2>7. QED
    BY <2>3, <2>4, <2>5, <2>6
<1>2. CampaignInv => ResultsAreCausal
  BY <1>1 DEF ResultsAreCausal
<1>3. QED
  BY CampaignInvariant, <1>2, PTL

--------------------------------------------------------------------------
(* Results are informed.                                                   *)

\* The generator ran on a window that holds the frames it looks back on.
InformedInv ==
  \A e \in Evaluation :
    call[e].phase \in {"generated", "result"} => HistoryReady(rule, call[e].answer.bars)

LEMMA SetInforms ==
  ASSUME CampaignInv, InformedInv, NEW e \in Evaluation, NEW state, Set(e, state), rule' = rule,
         state.phase \in {"generated", "result"} => HistoryReady(rule, state.answer.bars)
  PROVE  InformedInv'
<1>1. call'[e] = state /\ \A d \in Evaluation \ {e} : call'[d] = call[d]
  BY DEF Set, CampaignInv, TypeOK
<1>2. ASSUME NEW d \in Evaluation, call'[d].phase \in {"generated", "result"}
      PROVE  HistoryReady(rule, call'[d].answer.bars)
  BY <1>1, <1>2 DEF InformedInv
<1>3. QED
  BY <1>2 DEF InformedInv

LEMMA RaiseInforms ==
  ASSUME CampaignInv, InformedInv, NEW e \in Evaluation, Raise(e)
  PROVE  InformedInv'
<1> DEFINE state == [phase |-> "raised"]
<1>1. Set(e, state) /\ rule' = rule /\ state.phase \notin {"generated", "result"}
  BY DEF Raise
<1>2. QED
  BY <1>1, SetInforms

LEMMA NextInforms == CampaignInv /\ InformedInv /\ [Next]_vars => InformedInv'
<1> SUFFICES ASSUME CampaignInv, InformedInv, [Next]_vars PROVE InformedInv'
  OBVIOUS
<1>1. ASSUME NEW e \in Evaluation, NEW c \in Contexts, Begin(e, c) \/ BeginFails(e, c)
      PROVE  InformedInv'
  <2> DEFINE state == [phase |-> "loading", context |-> c]
  <2>1. CASE Begin(e, c)
    <3>1. Set(e, state) /\ rule' = rule /\ state.phase \notin {"generated", "result"}
      BY <2>1 DEF Begin
    <3>2. QED
      BY <3>1, SetInforms
  <2>2. CASE BeginFails(e, c)
    BY <2>2, RaiseInforms DEF BeginFails
  <2>3. QED
    BY <1>1, <2>1, <2>2
<1>2. ASSUME NEW e \in Evaluation, NEW rows \in Loads, Resume(e, rows) \/ ResumeFails(e, rows)
      PROVE  InformedInv'
  <2>1. CASE Resume(e, rows)
    <3>1. PICK answer : Set(e, [phase |-> "generated", answer |-> answer]) /\ answer.bars = rows
      BY <2>1 DEF Resume
    <3>2. HistoryReady(rule, rows) /\ rule' = rule
      BY <2>1 DEF Resume, MayGenerate, Ready
    <3> DEFINE state == [phase |-> "generated", answer |-> answer]
    <3>3. Set(e, state) /\ HistoryReady(rule, state.answer.bars)
      BY <3>1, <3>2
    <3> HIDE DEF state
    <3>4. QED
      BY <3>2, <3>3, SetInforms
  <2>2. CASE ResumeFails(e, rows)
    BY <2>2, RaiseInforms DEF ResumeFails
  <2>3. QED
    BY <1>2, <2>1, <2>2
<1>3. ASSUME NEW e \in Evaluation, LoadFails(e) \/ Conclude(e) \/ ConcludeFails(e)
      PROVE  InformedInv'
  <2>1. CASE Conclude(e)
    <3> DEFINE state == [phase |-> "result", answer |-> call[e].answer]
    <3>1. Set(e, state) /\ rule' = rule /\ HistoryReady(rule, state.answer.bars)
      BY <2>1 DEF Conclude, InformedInv
    <3> HIDE DEF state
    <3>2. QED
      BY <3>1, SetInforms
  <2>2. CASE LoadFails(e) \/ ConcludeFails(e)
    BY <2>2, RaiseInforms DEF LoadFails, ConcludeFails
  <2>3. QED
    BY <1>3, <2>1, <2>2
<1>4. CASE (ChangeMemory \/ ChangeDisk) \/ UNCHANGED vars
  <2>1. rule' = rule /\ call' = call
    BY <1>4 DEF ChangeMemory, ChangeDisk, vars
  <2>2. QED
    BY <2>1 DEF InformedInv
<1>5. QED
  BY <1>1, <1>2, <1>3, <1>4 DEF Next, Evaluate

\* No result on missing history: every frame that the strategy looks back on
\* is whole in the window of a result, and traded if zero volume resets it.
THEOREM OnlyInformedResults == Spec => []ResultsAreInformed
<1>1. Init => InformedInv
  BY DEF Init, InformedInv
<1>2. CampaignInv /\ InformedInv => ResultsAreInformed
  <2> SUFFICES ASSUME CampaignInv, InformedInv, NEW r \in Results,
                      NEW f \in rule.frames, NEW back \in 1..f.count
               PROVE  LET k == Closed(r.bars) \div f.size - back
                      IN  /\ \A m \in (k * f.size)..(k * f.size + f.size - 1) :
                               \E i \in 1..Len(r.bars) : r.bars[i].open = m
                          /\ rule.segment => Traded(r.bars, k, f.size)
    BY DEF ResultsAreInformed
  <2>1. r \in Answer /\ Examined(r) /\ HistoryReady(rule, r.bars)
    BY ResultsAreExamined DEF Results, InformedInv
  <2>2. r.bars \in Seq(Bar) /\ r.bars # <<>> /\ Contiguous(r.bars)
    BY <2>1, LoadsAssumption DEF Answer, Examined, Verified
  <2>3. Consecutive(r.bars)
    <3>1. \A i \in 1..Len(r.bars) :
            r.bars[i].open = r.bars[Len(r.bars)].open - (Len(r.bars) - i)
      BY <2>2, ContiguousPositions
    <3>2. Len(r.bars) \in 1..Len(r.bars) /\ r.bars[Len(r.bars)] \in Bar
      BY <2>2
    <3>3. r.bars[Len(r.bars)].open \in Nat
      BY <3>2 DEF Bar
    <3>4. \A i \in 1..Len(r.bars) :
            r.bars[i].open = Closed(r.bars) - 1 - (Len(r.bars) - i)
      BY <2>2, <3>1, <3>2, <3>3 DEF Closed
    <3>5. QED
      BY <2>2, <3>2, <3>4 DEF Consecutive
  <2>4. rule \in Rule
    BY RulesAssumption DEF CampaignInv, TypeOK
  <2>5. Closed(r.bars) \div f.size - back \in Available(rule, r.bars, f.size)
    BY <2>1, <2>3, <2>4, LatestFramesAvailable
  <2>6. f.size \in Nat
    BY <2>4 DEF Rule, Frame
  <2>7. QED
    BY <2>5, <2>6, CountedFrameIsWhole
<1>3. QED
  BY CampaignInvariant, NextInforms, <1>1, <1>2, PTL DEF Spec
===========================================================================
