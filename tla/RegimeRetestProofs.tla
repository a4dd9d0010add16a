------------------------ MODULE RegimeRetestProofs ------------------------
(* Theorems about RegimeRetest, for every value of its constants.          *)
EXTENDS RegimeRetest, FiniteSetTheorems, TLAPS

--------------------------------------------------------------------------
(* The kinds of step.  What an armed setup turns into, and what a          *)
(* candidate turns into, is the same step up to the event's type.          *)

Resolve(k) == Fail(k, "boundary_failure") \/ Fail(k, "overextension") \/ Expiry(k)
Reclaim(k) == FlowMismatch(k) \/ RiskGeometryReject(k) \/ EmitIntent(k)
Refuse(k) == \E s \in Side : RegimeReject(k, s) \/ ExpansionReject(k, s)
Idle(k) == Wait(k) \/ NoCandidate(k)

\* A row that continues the segment adds itself and nothing else.
LEMMA ContinueFacts ==
  ASSUME TypeOK, NEW k \in 0..MaxBucket, Continues(k)
  PROVE  /\ segment # None /\ segment \in Nat /\ segment <= last
         /\ last \in Nat /\ k = last + 1 /\ last' = k
         /\ rows' = rows \cup {k} /\ invalid' = invalid /\ segment' = segment
         /\ done' = done
  BY BucketAssumption, NoneAssumption DEF TypeOK, Continues, NextBucket, See

\* The parts of a step.
LEMMA StepCases ==
  ASSUME [Next]_vars
  PROVE  \/ UNCHANGED vars \/ Finish
         \/ \E k \in 0..MaxBucket :
              \/ ZeroRow(k) \/ FirstRow(k) \/ Resolve(k) \/ Reclaim(k)
              \/ Idle(k) \/ Refuse(k) \/ \E s \in Side : Arm(k, s)
  BY DEF Next, Row, Watch, Search, BoundaryFailure, Overextension, Resolve, Reclaim, Refuse, Idle

LEMMA AppendFacts ==
  ASSUME NEW S, NEW s \in Seq(S), NEW e \in S
  PROVE  /\ Append(s, e) \in Seq(S) /\ Len(Append(s, e)) = Len(s) + 1
         /\ Append(s, e) # <<>> /\ Append(s, e)[Len(s) + 1] = e
         /\ \A i \in 1..Len(s) : Append(s, e)[i] = s[i]
  OBVIOUS

\* The event a step appends is an event.
LEMMA NoteType ==
  ASSUME NEW type \in EventType, NEW setup, setup.side \in Side, setup.trigger \in Nat,
         NEW decision \in Nat, NEW elapsed \in Nat, NEW reason \in Reason
  PROVE  /\ Note(type, setup, decision, elapsed, reason) \in Event
         /\ Note(type, setup, decision, elapsed, reason).type = type
         /\ Note(type, setup, decision, elapsed, reason).side = setup.side
         /\ Note(type, setup, decision, elapsed, reason).trigger = setup.trigger
         /\ Note(type, setup, decision, elapsed, reason).decision = decision
         /\ Note(type, setup, decision, elapsed, reason).elapsed = elapsed
  BY DEF Note, Event

LEMMA RowsFinite ==
  ASSUME TypeOK
  PROVE  IsFiniteSet(rows) /\ Cardinality(rows) \in Nat
<1>1. IsFiniteSet(0..MaxBucket)
  BY BucketAssumption, FS_Interval
<1>2. IsFiniteSet(rows)
  BY <1>1, FS_Subset DEF TypeOK
<1>3. QED
  BY <1>2, FS_CardinalityType

\* Two names for a row position: the count of rows and the distance in buckets.
LEMMA ElapsedFacts ==
  ASSUME TypeOK, SetupInv, NEW k \in 0..MaxBucket, Continues(k), active # None
  PROVE  /\ Elapsed = k - active.bucket /\ Elapsed \in 1..SetupWindow
         /\ active \in Setup /\ Close(k) = active.trigger + BucketTime * Elapsed
<1>1. active \in Setup
  BY DEF TypeOK
<1>2. active.index \in Nat /\ active.bucket \in Nat
  BY <1>1 DEF Setup
<1>3. Cardinality(rows) - active.index = last - active.bucket + 1
  BY DEF SetupInv
<1>4. Cardinality(rows) \in Nat
  BY RowsFinite
<1>5. QED
  BY <1>1, <1>2, <1>3, <1>4, ContinueFacts, WindowAssumption
     DEF SetupInv, Elapsed, Index, Close, BucketTime

--------------------------------------------------------------------------
(* Type correctness.                                                       *)

LEMMA RowsType ==
  ASSUME TypeOK, NEW k \in 0..MaxBucket, NextBucket(k), See(k)
  PROVE  /\ rows' \subseteq 0..MaxBucket /\ k \in rows' /\ rows \subseteq rows'
         /\ last' = k /\ k \in Nat /\ \A j \in rows' : j <= last'
  BY BucketAssumption DEF TypeOK, NextBucket, See

\* Every step keeps the types; SetupInv bounds the elapsed count.
LEMMA TypeStep ==
  ASSUME TypeOK, SetupInv, [Next]_vars
  PROVE  TypeOK'
<1>a. ASSUME NEW decision \in Nat, NEW reason \in Reason, ResetAt(decision, reason)
      PROVE  events' \in Seq(Event) /\ active' = None
  <2>1. CASE active = None
    BY <1>a, <2>1 DEF ResetAt, TypeOK
  <2>2. CASE active # None
    <3>1. Note("state_reset", active, decision, 0, reason) \in Event
      BY <2>2, NoteType DEF TypeOK, Setup, EventType, ArmedTerminals
    <3>2. QED
      BY <1>a, <2>2, <3>1 DEF ResetAt, TypeOK
  <2>3. QED
    BY <2>1, <2>2
<1>b. ASSUME NEW k \in 0..MaxBucket, Continues(k), events' \in Seq(Event),
             active' \in Setup \cup {None}, intents' \in Seq(Intent)
      PROVE  TypeOK'
  <2>1. /\ segment' = segment /\ segment # None /\ segment \in Nat /\ segment <= last
        /\ last' = last + 1 /\ last \in Nat /\ invalid' = invalid /\ done' = done /\ last' = k
    BY <1>b, ContinueFacts
  <2>2. NextBucket(k) /\ See(k)
    BY <1>b DEF Continues
  <2>3. QED
    BY <1>b, <2>1, <2>2, RowsType DEF TypeOK
<1>1. CASE UNCHANGED vars
  BY <1>1 DEF TypeOK, vars
<1>2. CASE Finish
  <2>1. CASE active = None
    BY <1>2, <2>1 DEF TypeOK, Finish
  <2>2. CASE active # None
    <3>1. last \in Nat
      BY <2>2, NoneAssumption DEF TypeOK
    <3>2. Note("pending_setup", active, Close(last), 0, "source_ended") \in Event
      <4>1. active.side \in Side /\ active.trigger \in Nat /\ Close(last) \in Nat
        BY <2>2, <3>1 DEF TypeOK, Setup, Close
      <4>2. "pending_setup" \in EventType /\ "source_ended" \in Reason /\ 0 \in Nat
        BY DEF EventType, ArmedTerminals, Reason
      <4>3. QED
        BY <4>1, <4>2, NoteType
    <3>3. QED
      BY <1>2, <2>2, <3>2 DEF TypeOK, Finish
  <2>3. QED
    BY <2>1, <2>2
<1>3. ASSUME NEW k \in 0..MaxBucket, ZeroRow(k) PROVE TypeOK'
  <2>1. events' \in Seq(Event) /\ active' = None
    BY <1>3, <1>a, BucketAssumption DEF ZeroRow, Close, Reason
  <2>2. QED
    BY <1>3, <2>1, RowsType DEF TypeOK, ZeroRow
<1>4. ASSUME NEW k \in 0..MaxBucket, FirstRow(k) PROVE TypeOK'
  <2>1. events' \in Seq(Event) /\ active' = None
    BY <1>4, <1>a, BucketAssumption DEF FirstRow, Open, Reason
  <2>2. QED
    BY <1>4, <2>1, RowsType DEF TypeOK, FirstRow
<1>5. ASSUME NEW k \in 0..MaxBucket, Resolve(k) PROVE TypeOK'
  <2>1. PICK type \in Failures : Fail(k, type)
    BY <1>5 DEF Resolve, Failures, Expiry
  <2>2. Continues(k) /\ active # None /\ active' = None /\ intents' = intents
    BY <2>1 DEF Fail
  <2>3. Note(type, active, Close(k), Elapsed, "none") \in Event
    <3>1. active \in Setup /\ Elapsed \in Nat /\ Close(k) \in Nat
      BY <2>2, ElapsedFacts, BucketAssumption, WindowAssumption DEF Close
    <3>2. QED
      BY <3>1, NoteType DEF Setup, EventType, ArmedTerminals, Reason
  <2>4. QED
    BY <1>b, <2>1, <2>2, <2>3, AppendFacts DEF Fail, TypeOK
<1>6. ASSUME NEW k \in 0..MaxBucket, Reclaim(k) PROVE TypeOK'
  <2>1. PICK type \in Admissions : ReclaimAs(k, type)
    BY <1>6 DEF Reclaim, Admissions, FlowMismatch, RiskGeometryReject, EmitIntent
  <2>2. Continues(k) /\ active # None /\ active' = None
    BY <2>1 DEF ReclaimAs
  <2>3. active \in Setup /\ Elapsed \in Nat /\ Close(k) \in Nat
    BY <2>2, ElapsedFacts, BucketAssumption, WindowAssumption DEF Close
  <2>4. /\ Note("structural_reclaim", active, Close(k), Elapsed, "none") \in Event
        /\ Note(type, active, Close(k), Elapsed, "none") \in Event
    BY <2>3, NoteType DEF Setup, EventType, Reason
  <2>5. events' \in Seq(Event)
    BY <2>1, <2>4, AppendFacts DEF ReclaimAs, TypeOK
  <2>6. intents' \in Seq(Intent)
    <3>1. [side |-> active.side, trigger |-> active.trigger, decision |-> Close(k)] \in Intent
      BY <2>3 DEF Intent, Setup
    <3>2. QED
      BY <1>6, <3>1 DEF Reclaim, FlowMismatch, RiskGeometryReject, EmitIntent, TypeOK
  <2>7. QED
    BY <1>b, <2>2, <2>5, <2>6
<1>7. ASSUME NEW k \in 0..MaxBucket, Idle(k) PROVE TypeOK'
  <2>1. Continues(k) /\ events' = events /\ active' = active /\ intents' = intents
    BY <1>7 DEF Idle, Wait, NoCandidate
  <2>2. QED
    BY <1>b, <2>1 DEF TypeOK
<1>c. ASSUME NEW k \in 0..MaxBucket, NEW s \in Side, NEW type \in Rejects \cup {"armed_setup"},
             NEW reason \in Reason, Settle(k, s, type, reason)
      PROVE  events' \in Seq(Event) /\ intents' = intents
  <2>1. Candidate(k, s).side \in Side /\ Candidate(k, s).trigger \in Nat /\ Close(k) \in Nat
    BY BucketAssumption DEF Candidate, Close
  <2>2. /\ Note("candidate", Candidate(k, s), Close(k), 0, "none") \in Event
        /\ Note(type, Candidate(k, s), Close(k), 0, reason) \in Event
    BY <2>1, NoteType DEF EventType, Reason
  <2>3. QED
    BY <1>c, <2>2, AppendFacts DEF Settle, TypeOK
<1>8. ASSUME NEW k \in 0..MaxBucket, Refuse(k) PROVE TypeOK'
  <2>1. PICK s \in Side : RegimeReject(k, s) \/ ExpansionReject(k, s)
    BY <1>8 DEF Refuse
  <2>2. Continues(k) /\ active' = active
    BY <2>1 DEF RegimeReject, ExpansionReject, Breakout
  <2>3. \E type \in Rejects, reason \in Reason : Settle(k, s, type, reason)
    BY <2>1 DEF RegimeReject, ExpansionReject, Rejects, Reason
  <2>4. QED
    BY <1>b, <1>c, <2>2, <2>3 DEF TypeOK
<1>9. ASSUME NEW k \in 0..MaxBucket, NEW s \in Side, Arm(k, s) PROVE TypeOK'
  <2>1. Continues(k) /\ Settle(k, s, "armed_setup", "none")
    BY <1>9 DEF Arm, Breakout
  <2>2. events' \in Seq(Event) /\ intents' = intents
    BY <1>c, <2>1 DEF Reason
  <2>3. Index \in Nat
    BY RowsFinite DEF Index
  <2>4. active' \in Setup
    BY <1>9, <2>3, BucketAssumption DEF Arm, Setup, Close, PriorHours, Hours
  <2>5. QED
    BY <1>b, <2>1, <2>2, <2>4 DEF TypeOK
<1>10. QED
  BY <1>1, <1>2, <1>3, <1>4, <1>5, <1>6, <1>7, <1>8, <1>9, StepCases

\* The initial state has the types and every part of the invariant.
LEMMA RetestInit == Init => RetestInv
<1> SUFFICES ASSUME Init PROVE RetestInv
  OBVIOUS
<1>1. <<>> \in Seq(Event) /\ <<>> \in Seq(Intent) /\ Len(<<>>) = 0
  OBVIOUS
<1>2. TypeOK
  BY <1>1, NoneAssumption DEF Init, TypeOK
<1>3. SegmentInv /\ SetupInv /\ HourIsFresh
  BY DEF Init, SegmentInv, SetupInv, HourIsFresh
<1>4. TipInv /\ OneLifecycleAtATime /\ ResolvedInTime
  <2>1. events = <<>> /\ active = None /\ 1..Len(events) = {} /\ 1..(Len(events) - 1) = {}
    BY <1>1 DEF Init
  <2>2. QED
    BY <2>1 DEF TipInv, OneLifecycleAtATime, ResolvedInTime
<1>5. QED
  BY <1>2, <1>3, <1>4 DEF RetestInv

--------------------------------------------------------------------------
(* The segment and the setup in it.                                        *)

LEMMA SegmentStep ==
  ASSUME TypeOK, SegmentInv, [Next]_vars
  PROVE  SegmentInv'
<1>a. ASSUME NEW k \in 0..MaxBucket, Continues(k) PROVE SegmentInv'
  <2>1. segment..k = (segment..last) \cup {k} /\ k \notin invalid /\ segment - 1 # k
    BY <1>a, ContinueFacts DEF TypeOK
  <2>2. QED
    BY <1>a, <2>1, ContinueFacts DEF SegmentInv
<1>1. CASE UNCHANGED vars
  BY <1>1 DEF vars, SegmentInv
<1>2. CASE Finish
  BY <1>2 DEF Finish, SegmentInv
<1>3. ASSUME NEW k \in 0..MaxBucket, ZeroRow(k) PROVE SegmentInv'
  BY <1>3 DEF ZeroRow, SegmentInv, See
<1>4. ASSUME NEW k \in 0..MaxBucket, FirstRow(k) PROVE SegmentInv'
  <2>1. /\ rows' = rows \cup {k} /\ last' = k /\ segment' = k /\ invalid' = invalid
        /\ k > last /\ (segment = None \/ k # last + 1) /\ k \in Nat
    BY <1>4, BucketAssumption DEF FirstRow, See, NextBucket
  <2>2. k \notin invalid /\ k - 1 # k /\ k # None
    BY <2>1, NoneAssumption DEF TypeOK
  <2>3. k - 1 \notin rows \ invalid
    BY <2>1 DEF SegmentInv, TypeOK
  <2>4. k..k = {k}
    BY <2>1
  <2>5. QED
    BY <2>1, <2>2, <2>3, <2>4 DEF SegmentInv
<1>5. QED
  BY <1>1, <1>2, <1>3, <1>4, <1>a, StepCases
     DEF Resolve, Reclaim, Idle, Refuse, Fail, Expiry, FlowMismatch, RiskGeometryReject,
         EmitIntent, ReclaimAs, Wait, NoCandidate, RegimeReject, ExpansionReject, Arm, Breakout

LEMMA SetupStep ==
  ASSUME TypeOK, SetupInv, [Next]_vars
  PROVE  SetupInv'
<1>1. CASE UNCHANGED vars
  BY <1>1 DEF vars, SetupInv
<1>2. CASE active' = None
  BY <1>2 DEF SetupInv
<1>b. ASSUME NEW k \in 0..MaxBucket, Continues(k)
      PROVE  Cardinality(rows') = Cardinality(rows) + 1 /\ Cardinality(rows) \in Nat
  <2>1. k \notin rows
    BY <1>b, ContinueFacts DEF TypeOK
  <2>2. QED
    BY <1>b, <2>1, ContinueFacts, RowsFinite, FS_AddElement
<1>3. ASSUME NEW k \in 0..MaxBucket, Idle(k) PROVE SetupInv'
  <2>1. Continues(k) /\ active' = active
    BY <1>3 DEF Idle, Wait, NoCandidate
  <2>2. CASE active = None
    BY <2>1, <2>2 DEF SetupInv
  <2>3. CASE active # None
    <3>1. ~Expired
      BY <1>3, <2>3 DEF Idle, Wait, NoCandidate
    <3>2. Elapsed = k - active.bucket /\ active \in Setup
      BY <2>1, <2>3, ElapsedFacts
    <3>3. k - active.bucket < SetupWindow
      BY <3>1, <3>2, WindowAssumption DEF Expired, Setup
    <3>4. active.bucket \in Nat /\ active.index \in Nat
      BY <3>2 DEF Setup
    <3>5. QED
      BY <2>1, <2>3, <3>3, <3>4, <1>b, ContinueFacts DEF SetupInv
  <2>4. QED
    BY <2>2, <2>3
<1>4. ASSUME NEW k \in 0..MaxBucket, NEW s \in Side, Arm(k, s) PROVE SetupInv'
  <2>1. Continues(k)
    BY <1>4 DEF Arm, Breakout
  <2>2. /\ active'.trigger = Close(k) /\ active'.bucket = k
        /\ active'.index = Cardinality(rows)
    BY <1>4 DEF Arm, Index
  <2>3. QED
    BY <2>1, <2>2, <1>b, ContinueFacts, WindowAssumption DEF SetupInv, Close
<1>5. QED
  BY <1>1, <1>2, <1>3, <1>4, StepCases
     DEF Finish, ZeroRow, FirstRow, ResetAt, Resolve, Reclaim, Refuse, Fail, Expiry, FlowMismatch,
         RiskGeometryReject, EmitIntent, ReclaimAs, RegimeReject, ExpansionReject, Breakout

--------------------------------------------------------------------------
(* The inventory.                                                          *)

WellChained(s) ==
  /\ \A i \in 1..(Len(s) - 1) : MayFollow(s[i], s[i + 1])
  /\ s # <<>> => s[1].type = "candidate"

TimelyEvent(e) ==
  e.type \in Failures \cup Admissions \cup {"structural_reclaim"} =>
    e.elapsed \in 1..SetupWindow /\ e.decision = e.trigger + BucketTime * e.elapsed

Timely(s) == \A i \in 1..Len(s) : TimelyEvent(s[i])

\* An event that may follow the last one keeps the inventory in order.
LEMMA ChainAppend ==
  ASSUME NEW s \in Seq(Event), WellChained(s), Timely(s), NEW e \in Event, TimelyEvent(e),
         s # <<>> => MayFollow(s[Len(s)], e),
         s = <<>> => e.type = "candidate"
  PROVE  WellChained(Append(s, e)) /\ Timely(Append(s, e))
<1>1. /\ Len(Append(s, e)) = Len(s) + 1 /\ Append(s, e)[Len(s) + 1] = e
      /\ \A i \in 1..Len(s) : Append(s, e)[i] = s[i]
      /\ Len(s) \in Nat
  BY AppendFacts
<1>2. Timely(Append(s, e))
  BY <1>1 DEF Timely
<1>3. ASSUME NEW i \in 1..Len(s) PROVE MayFollow(Append(s, e)[i], Append(s, e)[i + 1])
  <2>1. CASE i = Len(s)
    BY <1>1, <2>1
  <2>2. CASE i # Len(s)
    BY <1>1, <2>2 DEF WellChained
  <2>3. QED
    BY <2>1, <2>2
<1>4. Append(s, e)[1].type = "candidate"
  <2>1. CASE s = <<>>
    BY <1>1, <2>1
  <2>2. CASE s # <<>>
    BY <1>1, <2>2 DEF WellChained
  <2>3. QED
    BY <2>1, <2>2
<1>5. QED
  BY <1>1, <1>2, <1>3, <1>4 DEF WellChained

\* What the inventory is while a setup is armed, and while none is.
Inventory == WellChained(events) /\ Timely(events) /\ TipInv
Tip == events[Len(events)]
Armed == events # <<>> /\ Tip.type = "armed_setup" /\ SameSetup(Tip, active)
Settled == events # <<>> => Tip.type \in Closing

LEMMA InventoryIs ==
  OneLifecycleAtATime /\ ResolvedInTime /\ TipInv
    <=> Inventory /\ (active # None => Armed) /\ (active = None => Settled)
  BY DEF OneLifecycleAtATime, ResolvedInTime, Inventory, WellChained, Timely, TimelyEvent,
         Tip, Armed, Settled

\* The event that settles the armed setup may follow its last event.
LEMMA SettleAppend ==
  ASSUME TypeOK, Inventory, Armed, active # None, NEW e \in Event, TimelyEvent(e),
         e.type \in ArmedTerminals \cup {"structural_reclaim"}, SameSetup(e, active),
         e.decision > active.trigger \/ e.type = "pending_setup"
  PROVE  WellChained(Append(events, e)) /\ Timely(Append(events, e))
<1>1. Tip.decision = active.trigger /\ Tip.type = "armed_setup" /\ SameSetup(Tip, e)
  BY DEF Inventory, TipInv, Armed, Tip, SameSetup
<1>2. MayFollow(Tip, e)
  BY <1>1 DEF MayFollow
<1>3. QED
  BY <1>2, ChainAppend DEF Armed, Inventory, Tip, TypeOK

\* A setup reset or left pending: the inventory is settled again.
LEMMA ResetStep ==
  ASSUME TypeOK, Inventory, active # None => Armed, active = None => Settled,
         NEW type \in {"state_reset", "pending_setup"}, NEW decision \in Nat, NEW reason \in Reason,
         active # None => decision > active.trigger \/ type = "pending_setup",
         active # None => decision <= Close(last'),
         Close(last) <= Close(last') \/ events = <<>>,
         active' = None, Close(last') \in Int, Close(last) \in Int,
         events' = IF active = None THEN events
                   ELSE Append(events, Note(type, active, decision, 0, reason))
  PROVE  Inventory' /\ Settled'
<1>1. CASE active = None
  <2>1. events' = events /\ Len(events) \in Nat
    BY <1>1 DEF TypeOK
  <2>2. events # <<>> => events[Len(events)] \in Event
    BY DEF TypeOK
  <2>3. events # <<>> => events[Len(events)].decision \in Int
    BY <2>2 DEF Event
  <2>4. WellChained(events') /\ Timely(events') /\ Settled'
    BY <1>1, <2>1 DEF Inventory, Settled, Tip
  <2>5. TipInv'
    BY <2>1, <2>3 DEF Inventory, TipInv
  <2>6. QED
    BY <2>4, <2>5 DEF Inventory
<1>2. CASE active # None
  <2> DEFINE e == Note(type, active, decision, 0, reason)
  <2>1. active \in Setup /\ active.side \in Side /\ active.trigger \in Nat
    BY <1>2 DEF TypeOK, Setup
  <2>2. type \in ArmedTerminals /\ type \in EventType /\ type \in Closing
        /\ type \notin Failures \cup Admissions \cup {"structural_reclaim"}
    BY DEF ArmedTerminals, EventType, Closing, Failures, Admissions
  <2>3. /\ e \in Event /\ e.type = type /\ e.side = active.side /\ e.trigger = active.trigger
        /\ e.decision = decision
    BY <2>1, <2>2, NoteType
  <2>4. TimelyEvent(e) /\ SameSetup(e, active)
    BY <2>2, <2>3 DEF TimelyEvent, SameSetup
  <2>5. WellChained(events') /\ Timely(events')
    BY <1>2, <2>2, <2>3, <2>4, SettleAppend
  <2>6. events' # <<>> /\ events'[Len(events')] = e
    BY <1>2, <2>3, AppendFacts DEF TypeOK
  <2>7. QED
    BY <1>2, <2>2, <2>3, <2>5, <2>6 DEF Inventory, TipInv, Settled, Tip
<1>3. QED
  BY <1>1, <1>2

\* The row that settles the armed setup.
LEMMA ResolveStep ==
  ASSUME TypeOK, SetupInv, Inventory, active # None => Armed,
         NEW k \in 0..MaxBucket, NEW type \in Failures, Fail(k, type)
  PROVE  Inventory' /\ Settled' /\ active' = None
<1> DEFINE e == Note(type, active, Close(k), Elapsed, "none")
<1>1. /\ active # None /\ active \in Setup /\ active' = None /\ Continues(k)
      /\ Elapsed \in 1..SetupWindow /\ Close(k) = active.trigger + BucketTime * Elapsed
      /\ events' = Append(events, e)
  BY ElapsedFacts DEF Fail
<1>2. /\ active.side \in Side /\ active.trigger \in Nat /\ Close(k) \in Nat
      /\ Elapsed \in Nat /\ Close(k) > active.trigger
  BY <1>1, WindowAssumption, BucketAssumption DEF Setup, Close, BucketTime
<1>3. type \in EventType /\ type \in ArmedTerminals /\ type \in Closing /\ "none" \in Reason
  BY DEF ArmedTerminals, EventType, Closing, Failures, Reason
<1>4. /\ e \in Event /\ e.type = type /\ e.side = active.side /\ e.trigger = active.trigger
      /\ e.decision = Close(k) /\ e.elapsed = Elapsed
  BY <1>2, <1>3, NoteType
<1>5. TimelyEvent(e) /\ SameSetup(e, active)
  BY <1>1, <1>4 DEF TimelyEvent, SameSetup
<1>6. WellChained(events') /\ Timely(events')
  BY <1>1, <1>2, <1>3, <1>4, <1>5, SettleAppend
<1>7. events' # <<>> /\ events'[Len(events')] = e /\ last' = k
  BY <1>1, <1>4, AppendFacts, ContinueFacts DEF TypeOK
<1>8. QED
  BY <1>1, <1>2, <1>3, <1>4, <1>6, <1>7 DEF Inventory, TipInv, Settled, Tip

\* The row that reclaims the armed setup: two events of one decision.
LEMMA ReclaimStep ==
  ASSUME TypeOK, SetupInv, Inventory, active # None => Armed,
         NEW k \in 0..MaxBucket, NEW type \in Admissions, ReclaimAs(k, type)
  PROVE  Inventory' /\ Settled' /\ active' = None
<1> DEFINE e == Note("structural_reclaim", active, Close(k), Elapsed, "none")
           f == Note(type, active, Close(k), Elapsed, "none")
<1>1. /\ active # None /\ active \in Setup /\ active' = None /\ Continues(k)
      /\ Elapsed \in 1..SetupWindow /\ Close(k) = active.trigger + BucketTime * Elapsed
      /\ events' = Append(Append(events, e), f)
  BY ElapsedFacts DEF ReclaimAs
<1>2. /\ active.side \in Side /\ active.trigger \in Nat /\ Close(k) \in Nat
      /\ Elapsed \in Nat /\ Close(k) > active.trigger
  BY <1>1, WindowAssumption, BucketAssumption DEF Setup, Close, BucketTime
<1>3. /\ type \in EventType /\ type \in Closing /\ "none" \in Reason
      /\ "structural_reclaim" \in EventType
  BY DEF EventType, Closing, Reason
<1>4. /\ e \in Event /\ e.type = "structural_reclaim" /\ e.side = active.side
      /\ e.trigger = active.trigger /\ e.decision = Close(k) /\ e.elapsed = Elapsed
  <2>1. e \in Event
    BY <1>2, <1>3, NoteType
  <2>2. QED
    BY <2>1 DEF Note
<1>5. /\ f \in Event /\ f.type = type /\ f.side = active.side
      /\ f.trigger = active.trigger /\ f.decision = Close(k) /\ f.elapsed = Elapsed
  BY <1>2, <1>3, NoteType
<1>6. TimelyEvent(e) /\ SameSetup(e, active) /\ TimelyEvent(f)
  BY <1>1, <1>4, <1>5 DEF TimelyEvent, SameSetup
<1> DEFINE s == Append(events, e)
<1>7. WellChained(s) /\ Timely(s)
  BY <1>1, <1>2, <1>4, <1>6, SettleAppend
<1>8. s \in Seq(Event) /\ s # <<>> /\ s[Len(s)] = e
  BY <1>4, AppendFacts DEF TypeOK
<1>9. MayFollow(e, f)
  BY <1>4, <1>5 DEF MayFollow, SameSetup
<1> HIDE DEF e, f, s
<1>10. WellChained(Append(s, f)) /\ Timely(Append(s, f))
  BY <1>5, <1>6, <1>7, <1>8, <1>9, ChainAppend
<1>11. events' = Append(s, f)
  BY <1>1 DEF s, e, f
<1>12. events' # <<>> /\ events'[Len(events')] = f /\ last' = k
  BY <1>1, <1>5, <1>8, <1>11, AppendFacts, ContinueFacts
<1>13. QED
  BY <1>1, <1>2, <1>3, <1>5, <1>10, <1>11, <1>12 DEF Inventory, TipInv, Settled, Tip

\* The row that settles a candidate at once, or arms it.
LEMMA CandidateStep ==
  ASSUME TypeOK, Inventory, Settled, NEW k \in 0..MaxBucket, NEW s \in Side,
         NEW type \in Rejects \cup {"armed_setup"}, NEW reason \in Reason,
         Breakout(k), Settle(k, s, type, reason)
  PROVE  /\ WellChained(events') /\ Timely(events')
         /\ events' # <<>> /\ Tip'.type = type /\ Tip'.side = s /\ Tip'.trigger = Close(k)
         /\ Tip'.decision = Close(k) /\ last' = k /\ Close(k) \in Nat
<1> DEFINE c == Candidate(k, s)
           e == Note("candidate", c, Close(k), 0, "none")
           f == Note(type, c, Close(k), 0, reason)
           h == Append(events, e)
<1>1. events' = Append(Append(events, e), f) /\ Continues(k)
  BY DEF Settle, Breakout
<1>2. c.side = s /\ c.trigger = Close(k) /\ Close(k) \in Nat
  BY BucketAssumption DEF Candidate, Close
<1>3. /\ type \in EventType /\ "candidate" \in EventType /\ "none" \in Reason
      /\ type \notin Failures \cup Admissions \cup {"structural_reclaim"}
  BY DEF EventType, Reason, Rejects, Failures, Admissions
<1> HIDE DEF c
<1>4. /\ e \in Event /\ e.type = "candidate" /\ e.side = s
      /\ e.trigger = Close(k) /\ e.decision = Close(k)
  BY <1>2, <1>3, NoteType
<1>5. /\ f \in Event /\ f.type = type /\ f.side = s
      /\ f.trigger = Close(k) /\ f.decision = Close(k)
  BY <1>2, <1>3, NoteType
<1> HIDE DEF e, f
<1>6. TimelyEvent(e) /\ TimelyEvent(f)
  BY <1>3, <1>4, <1>5 DEF TimelyEvent, Failures, Admissions
<1>7. last' = k /\ last \in Nat /\ k = last + 1
  BY <1>1, ContinueFacts
<1>8. events # <<>> => MayFollow(Tip, e)
  <2>1. ASSUME events # <<>> PROVE Tip.decision \in Nat /\ Tip.decision <= Close(last)
    <3>1. Tip \in Event
      BY <2>1 DEF Tip, TypeOK
    <3>2. QED
      BY <2>1, <3>1 DEF Inventory, TipInv, Tip, Event
  <2>2. Close(last) < Close(k) /\ Close(last) \in Nat
    BY <1>7 DEF Close
  <2>3. QED
    BY <1>2, <1>4, <2>1, <2>2 DEF MayFollow, Settled
<1>9. WellChained(h) /\ Timely(h)
  BY <1>4, <1>6, <1>8, ChainAppend DEF Inventory, Tip, TypeOK
<1>10. h \in Seq(Event) /\ h # <<>> /\ h[Len(h)] = e
  BY <1>4, AppendFacts DEF TypeOK
<1>11. MayFollow(e, f)
  BY <1>4, <1>5 DEF MayFollow, SameSetup
<1>12. events' = Append(h, f)
  BY <1>1
<1> HIDE DEF h
<1>13. WellChained(Append(h, f)) /\ Timely(Append(h, f))
  BY <1>5, <1>6, <1>9, <1>10, <1>11, ChainAppend
<1>14. events' # <<>> /\ events'[Len(events')] = f
  BY <1>5, <1>10, <1>12, AppendFacts
<1>15. QED
  BY <1>2, <1>5, <1>7, <1>12, <1>13, <1>14 DEF Tip

\* Every step keeps the inventory ordered, timely and open for the armed
\* setup only.
LEMMA InventoryStep ==
  ASSUME TypeOK, TypeOK', SetupInv, SetupInv', Inventory,
         active # None => Armed, active = None => Settled, [Next]_vars
  PROVE  Inventory' /\ (active' # None => Armed') /\ (active' = None => Settled')
<1>a. active # None => /\ active \in Setup /\ active.bucket \in Nat /\ last \in Nat
                       /\ active.bucket <= last /\ active.trigger = Close(active.bucket)
  <2>1. active # None => active \in Setup /\ last \in Nat
    BY NoneAssumption DEF TypeOK
  <2>2. QED
    BY <2>1 DEF SetupInv, Setup
<1>b. Close(last) \in Int /\ Close(last') \in Int
  BY DEF TypeOK, Close
<1>1. CASE UNCHANGED vars
  BY <1>1 DEF vars, Inventory, TipInv, Armed, Settled, Tip
<1>2. CASE Finish
  <2>1. Close(last) \in Nat \/ active = None
    BY <1>a DEF Close
  <2>2. CASE active = None
    BY <1>2, <2>2 DEF Finish, Inventory, TipInv, Settled, Tip
  <2>3. CASE active # None
    <3>1. last' = last /\ active' = None /\ "source_ended" \in Reason
      BY <1>2 DEF Finish, Reason
    <3>2. events' = Append(events, Note("pending_setup", active, Close(last), 0, "source_ended"))
      BY <1>2, <2>3 DEF Finish
    <3>3. QED
      BY <1>b, <2>1, <2>3, <3>1, <3>2, ResetStep
  <2>4. QED
    BY <2>2, <2>3
<1>3. ASSUME NEW k \in 0..MaxBucket, ZeroRow(k)
      PROVE  Inventory' /\ Settled' /\ active' = None
  <2>1. last' = k /\ k > last /\ k \in Nat /\ active' = None
    BY <1>3, BucketAssumption DEF ZeroRow, NextBucket, See, ResetAt
  <2>2. /\ Close(k) \in Nat /\ Close(last) <= Close(last') /\ Close(k) <= Close(last')
        /\ active # None => Close(k) > active.trigger
        /\ "zero_volume" \in Reason
    BY <1>a, <2>1 DEF Close, Reason, TypeOK
  <2>3. events' = IF active = None THEN events
                  ELSE Append(events, Note("state_reset", active, Close(k), 0, "zero_volume"))
    BY <1>3 DEF ZeroRow, ResetAt
  <2>4. QED
    BY <1>b, <2>1, <2>2, <2>3, ResetStep
<1>4. ASSUME NEW k \in 0..MaxBucket, FirstRow(k)
      PROVE  Inventory' /\ Settled' /\ active' = None
  <2>1. last' = k /\ k > last /\ k \in Nat /\ active' = None
    BY <1>4, BucketAssumption DEF FirstRow, NextBucket, See, ResetAt
  <2>2. /\ Open(k) \in Nat /\ Close(last) <= Close(last') /\ Open(k) <= Close(last')
        /\ active # None => Open(k) > active.trigger
        /\ "gap" \in Reason
    BY <1>a, <2>1 DEF Close, Open, Reason, TypeOK
  <2>3. events' = IF active = None THEN events
                  ELSE Append(events, Note("state_reset", active, Open(k), 0, "gap"))
    BY <1>4 DEF FirstRow, ResetAt
  <2>4. QED
    BY <1>b, <2>1, <2>2, <2>3, ResetStep
<1>5. ASSUME NEW k \in 0..MaxBucket, Resolve(k)
      PROVE  Inventory' /\ Settled' /\ active' = None
  <2>1. \E type \in Failures : Fail(k, type)
    BY <1>5 DEF Resolve, Failures, Expiry
  <2>2. QED
    BY <2>1, ResolveStep
<1>6. ASSUME NEW k \in 0..MaxBucket, Reclaim(k)
      PROVE  Inventory' /\ Settled' /\ active' = None
  <2>1. \E type \in Admissions : ReclaimAs(k, type)
    BY <1>6 DEF Reclaim, Admissions, FlowMismatch, RiskGeometryReject, EmitIntent
  <2>2. QED
    BY <2>1, ReclaimStep
<1>7. ASSUME NEW k \in 0..MaxBucket, Idle(k)
      PROVE  Inventory' /\ (active' # None => Armed') /\ (active' = None => Settled')
  <2>1. Continues(k) /\ events' = events /\ active' = active
    BY <1>7 DEF Idle, Wait, NoCandidate
  <2>2. Close(last) <= Close(last') /\ Close(last) \in Nat /\ Close(last') \in Nat
    BY <2>1, ContinueFacts DEF Close
  <2>3. events # <<>> => Tip \in Event
    BY DEF Tip, TypeOK
  <2>4. events # <<>> => Tip.decision \in Nat
    BY <2>3 DEF Event
  <2>5. TipInv'
    BY <2>1, <2>2, <2>4 DEF Inventory, TipInv, Tip
  <2>6. QED
    BY <2>1, <2>5 DEF Inventory, Armed, Settled, Tip
<1>8. ASSUME NEW k \in 0..MaxBucket, Refuse(k)
      PROVE  Inventory' /\ Settled' /\ active' = None
  <2>1. PICK s \in Side : RegimeReject(k, s) \/ ExpansionReject(k, s)
    BY <1>8 DEF Refuse
  <2>2. Breakout(k) /\ active = None /\ active' = None
    BY <2>1 DEF RegimeReject, ExpansionReject, Breakout
  <2>3. PICK type \in Rejects, reason \in Reason : Settle(k, s, type, reason)
    BY <2>1 DEF RegimeReject, ExpansionReject, Rejects, Reason
  <2>4. /\ WellChained(events') /\ Timely(events') /\ Tip'.type = type
        /\ Tip'.decision = Close(k) /\ last' = k /\ Close(k) \in Nat
    BY <2>2, <2>3, CandidateStep
  <2>5. QED
    BY <2>2, <2>4 DEF Inventory, TipInv, Settled, Tip, Closing
<1>9. ASSUME NEW k \in 0..MaxBucket, NEW s \in Side, Arm(k, s)
      PROVE  Inventory' /\ Armed' /\ active' # None
  <2>1. Breakout(k) /\ active = None /\ Settle(k, s, "armed_setup", "none") /\ "none" \in Reason
    BY <1>9 DEF Arm, Breakout, Reason
  <2>2. /\ WellChained(events') /\ Timely(events') /\ events' # <<>> /\ Tip'.type = "armed_setup"
        /\ Tip'.side = s /\ Tip'.trigger = Close(k) /\ Tip'.decision = Close(k)
        /\ last' = k /\ Close(k) \in Nat
    BY <2>1, CandidateStep
  <2>3. /\ active'.side = s /\ active'.trigger = Close(k)
    BY <1>9 DEF Arm
  <2>4. active' # None
    <3>1. Index \in Nat
      BY RowsFinite DEF Index
    <3>2. active' \in Setup
      BY <1>9, <3>1, BucketAssumption DEF Arm, Setup, Close, PriorHours, Hours
    <3>3. QED
      BY <3>2, NoneAssumption
  <2>5. QED
    BY <2>2, <2>3, <2>4 DEF Inventory, TipInv, Armed, Tip, SameSetup
<1>10. QED
  BY <1>1, <1>2, <1>3, <1>4, <1>5, <1>6, <1>7, <1>8, <1>9, StepCases

--------------------------------------------------------------------------
(* The hour.                                                               *)

LEMMA DivFacts ==
  ASSUME NEW n \in Nat, NEW c \in Nat \ {0}
  PROVE  /\ n \div c \in Nat
         /\ (n \div c) * c <= n /\ n < (n \div c) * c + c
  BY Z3

LEMMA TimesMonotone ==
  ASSUME NEW a \in Int, NEW b \in Int, NEW c \in Nat \ {0}
  PROVE  /\ a <= b => a * c <= b * c
         /\ a * c \in Int
         /\ (a + 1) * c = a * c + c
         /\ a * c < b * c => a < b
         /\ a \in Nat => a <= a * c
<1>1. a * c \in Int /\ b * c \in Int /\ (a + 1) * c = a * c + c
  OBVIOUS
<1>2. a <= b => a * c <= b * c
  <2>1. ASSUME a <= b PROVE (b - a) * c \in Nat
    <3>1. b - a \in Nat
      BY <2>1
    <3>2. QED
      BY <3>1
  <2>2. (b - a) * c = b * c - a * c
    OBVIOUS
  <2>3. QED
    BY <1>1, <2>1, <2>2
<1>3. a * c < b * c => a < b
  <2>1. ASSUME b <= a PROVE (a - b) * c \in Nat
    <3>1. a - b \in Nat
      BY <2>1
    <3>2. QED
      BY <3>1
  <2>2. (a - b) * c = a * c - b * c
    OBVIOUS
  <2>3. QED
    BY <1>1, <2>1, <2>2
<1>4. a \in Nat => a <= a * c
  <2>1. ASSUME a \in Nat PROVE a * (c - 1) \in Nat
    <3>1. c - 1 \in Nat
      OBVIOUS
    <3>2. QED
      BY <2>1, <3>1
  <2>2. a * (c - 1) = a * c - a
    OBVIOUS
  <2>3. QED
    BY <1>1, <2>1, <2>2
<1>5. QED
  BY <1>1, <1>2, <1>3, <1>4

\* Every hour of a context that ends in the segment lies in the segment: the
\* two independent segmentations, of hours and of buckets, agree.
LEMMA LookbackInSegment ==
  ASSUME TypeOK, SegmentInv, segment # None, NEW h \in Hours, HasContext(h), ~PreSegment(h),
         NEW g \in (h - HourLookback)..h
  PROVE  segment <= g * HourBuckets
<1> SUFFICES ASSUME g * HourBuckets < segment PROVE FALSE
  <2>1. segment \in Nat /\ g \in Int
    BY HourAssumption DEF TypeOK, Hours
  <2>2. g * HourBuckets \in Int
    BY <2>1, HourAssumption, TimesMonotone
  <2>3. QED
    BY <2>1, <2>2
<1> DEFINE j == (segment - 1) \div HourBuckets
<1>1. segment \in Nat /\ h \in Nat /\ g \in Nat /\ g * HourBuckets \in Nat /\ h * HourBuckets \in Nat
      /\ g <= h
  <2>1. segment \in Nat /\ h \in Nat
    BY BucketAssumption DEF TypeOK, Hours
  <2>2. g \in Nat /\ g <= h
    BY <2>1, BucketAssumption, HourAssumption DEF HasContext, Hours
  <2>3. QED
    BY <2>1, <2>2, HourAssumption, TimesMonotone
<1>2. segment <= h * HourBuckets
  BY <1>1 DEF PreSegment, HourOpen, Open
<1>3. segment - 1 \in Nat
  BY <1>1
<1>4. /\ j \in Nat /\ j * HourBuckets \in Nat /\ j * HourBuckets <= segment - 1
      /\ segment - 1 < j * HourBuckets + HourBuckets
  <2>1. /\ j \in Nat /\ j * HourBuckets <= segment - 1
        /\ segment - 1 < j * HourBuckets + HourBuckets
    BY <1>3, HourAssumption, DivFacts
  <2> HIDE DEF j
  <2>2. j * HourBuckets \in Nat
    BY <2>1, HourAssumption
  <2>3. QED
    BY <2>1, <2>2
<1>5. j < h
  BY <1>1, <1>2, <1>4, HourAssumption, TimesMonotone
<1>6. g <= j
  <2>1. g * HourBuckets < (j + 1) * HourBuckets
    BY <1>1, <1>4, HourAssumption, TimesMonotone
  <2>2. QED
    BY <1>1, <1>4, <2>1, HourAssumption, TimesMonotone
<1>7. j \in (h - HourLookback)..h
  BY <1>1, <1>4, <1>5, <1>6, HourAssumption
<1>8. HourOf(j) \subseteq rows /\ HourOf(j) \cap invalid = {}
  BY <1>7 DEF HasContext, Hours
<1>9. segment - 1 \in HourOf(j)
  BY <1>3, <1>4, HourAssumption DEF HourOf
<1>10. QED
  BY <1>8, <1>9 DEF SegmentInv

\* The last complete hour, when it lies in the segment, is the clock hour
\* right before the trigger's.
LEMMA LastHourIsPrevious ==
  ASSUME TypeOK, SegmentInv, NEW k \in 0..MaxBucket, Continues(k),
         NEW h \in PriorHours(k), IsLastHour(h, k), ~PreSegment(h)
  PROVE  h + 1 = k \div HourBuckets /\ h * HourBuckets + HourBuckets <= k
<1> DEFINE q == k \div HourBuckets
<1>1. /\ segment # None /\ segment \in Nat /\ segment <= last /\ last \in Nat /\ k = last + 1
      /\ segment..last \subseteq rows
  BY ContinueFacts DEF SegmentInv
<1>2. h \in Nat /\ h * HourBuckets \in Nat /\ k \in Nat /\ HourBuckets \in Nat \ {0}
  BY BucketAssumption, HourAssumption, TimesMonotone DEF PriorHours, Hours
<1>3. h * HourBuckets + HourBuckets <= k
  BY <1>2 DEF PriorHours, HourClose, Open, Close
<1>4. segment <= h * HourBuckets
  BY <1>1, <1>2 DEF PreSegment, HourOpen, Open
<1>5. q \in Nat /\ q * HourBuckets \in Nat /\ q * HourBuckets <= k /\ k < q * HourBuckets + HourBuckets
  BY <1>2, DivFacts, TimesMonotone
<1>6. h + 1 <= q
  <2>1. (h + 1) * HourBuckets < (q + 1) * HourBuckets
    BY <1>2, <1>3, <1>5, TimesMonotone
  <2>2. h + 1 < q + 1
    BY <1>2, <1>5, <2>1, TimesMonotone
  <2>3. QED
    BY <1>2, <1>5, <2>2
<1>7. ASSUME h + 1 < q PROVE FALSE
  <2> DEFINE p == q - 1
  <2>1. p \in Nat /\ h < p /\ p + 1 = q
    BY <1>2, <1>5, <1>7
  <2>2. p * HourBuckets + HourBuckets = q * HourBuckets /\ p * HourBuckets \in Nat
        /\ h * HourBuckets <= p * HourBuckets /\ p <= p * HourBuckets
    <3> HIDE DEF p, q
    <3>1. (p + 1) * HourBuckets = p * HourBuckets + HourBuckets
      BY <1>2, <2>1, TimesMonotone
    <3>2. QED
      BY <1>2, <2>1, <3>1, TimesMonotone
  <2>3. HourOf(p) \subseteq segment..last
    BY <1>1, <1>2, <1>4, <1>5, <2>2 DEF HourOf
  <2>4. p \in 0..MaxBucket
    BY <1>2, <1>5, <2>1, <2>2, BucketAssumption
  <2>5. HourClose(p) < Open(k)
    BY <1>2, <1>5, <2>2 DEF HourClose, Open, Close
  <2>6. p \in PriorHours(k)
    BY <1>1, <2>3, <2>4, <2>5 DEF PriorHours, Hours
  <2>7. QED
    BY <1>2, <2>1, <2>6 DEF IsLastHour
<1>8. QED
  BY <1>2, <1>3, <1>5, <1>6, <1>7

LEMMA HourStep ==
  ASSUME TypeOK, SegmentInv, SetupInv, HourIsFresh, [Next]_vars
  PROVE  HourIsFresh'
<1>1. CASE UNCHANGED vars
  BY <1>1 DEF vars, HourIsFresh
<1>2. CASE active' = None
  BY <1>2 DEF HourIsFresh
<1>3. ASSUME NEW k \in 0..MaxBucket, Idle(k) PROVE HourIsFresh'
  <2>1. active' = active /\ segment' = segment
    BY <1>3 DEF Idle, Wait, NoCandidate, Continues
  <2>2. QED
    BY <2>1 DEF HourIsFresh
<1>4. ASSUME NEW k \in 0..MaxBucket, NEW s \in Side, Arm(k, s) PROVE HourIsFresh'
  <2>1. PICK h \in PriorHours(k) : MayJudge(h, k) /\ active'.bucket = k /\ active'.hour = h
    BY <1>4 DEF Arm
  <2>2. Continues(k)
    BY <1>4 DEF Arm, Breakout
  <2>3. /\ segment # None /\ segment \in Nat /\ segment' = segment /\ k \in Nat
    BY <2>2, ContinueFacts, BucketAssumption
  <2>4. h + 1 = k \div HourBuckets /\ h * HourBuckets + HourBuckets <= k
    BY <2>1, <2>2, LastHourIsPrevious DEF MayJudge
  <2>5. h \in Hours /\ h \in Nat
    BY <2>1, BucketAssumption DEF PriorHours, Hours
  <2>6. ASSUME NEW g \in (h - HourLookback)..h PROVE HourOf(g) \subseteq segment..(k - 1)
    <3>1. segment <= g * HourBuckets
      BY <2>1, <2>3, <2>5, LookbackInSegment DEF MayJudge
    <3>2. /\ g \in Int /\ g <= h /\ g * HourBuckets \in Int /\ h * HourBuckets \in Int
          /\ g * HourBuckets <= h * HourBuckets
      BY <2>5, HourAssumption, TimesMonotone
    <3>3. QED
      BY <2>3, <2>4, <3>1, <3>2, HourAssumption DEF HourOf
  <2>7. QED
    BY <2>1, <2>3, <2>4, <2>6 DEF HourIsFresh, HourOf
<1>5. QED
  BY <1>1, <1>2, <1>3, <1>4, StepCases
     DEF Finish, ZeroRow, FirstRow, ResetAt, Resolve, Reclaim, Refuse, Fail, Expiry, FlowMismatch,
         RiskGeometryReject, EmitIntent, ReclaimAs, RegimeReject, ExpansionReject, Breakout

--------------------------------------------------------------------------
(* The theorems.                                                           *)

\* RetestInv is inductive.
LEMMA RetestStep == RetestInv /\ [Next]_vars => RetestInv'
<1> SUFFICES ASSUME RetestInv, [Next]_vars PROVE RetestInv'
  OBVIOUS
<1>1. TypeOK /\ SegmentInv /\ SetupInv /\ HourIsFresh
  BY DEF RetestInv
<1>2. TypeOK' /\ SegmentInv' /\ SetupInv' /\ HourIsFresh'
  BY <1>1, TypeStep, SegmentStep, SetupStep, HourStep
<1>3. Inventory /\ (active # None => Armed) /\ (active = None => Settled)
  BY InventoryIs DEF RetestInv
<1>4. Inventory' /\ (active' # None => Armed') /\ (active' = None => Settled')
  BY <1>1, <1>2, <1>3, InventoryStep
<1>5. OneLifecycleAtATime' /\ ResolvedInTime' /\ TipInv'
  BY <1>4 DEF OneLifecycleAtATime, ResolvedInTime, Inventory, WellChained, Timely, TimelyEvent,
              Tip, Armed, Settled
<1>6. QED
  BY <1>2, <1>5 DEF RetestInv

LEMMA RetestInvariant == Spec => []RetestInv
<1>1. Init => RetestInv
  BY RetestInit
<1>2. RetestInv /\ [Next]_vars => RetestInv'
  BY RetestStep
<1>3. QED
  BY <1>1, <1>2, PTL DEF Spec

\* Rows, setup and inventory keep their types; a setup is armed only inside a
\* segment.
THEOREM TypeCorrect == Spec => []TypeOK
<1>1. RetestInv => TypeOK
  BY DEF RetestInv
<1>2. QED
  BY <1>1, RetestInvariant, PTL

\* In every run of the generator, for every row sequence and every window,
\* the lifecycles of the inventory are complete, single and in order.
THEOREM LifecyclesAreSequential == Spec => []OneLifecycleAtATime
<1>1. RetestInv => OneLifecycleAtATime
  BY DEF RetestInv
<1>2. QED
  BY <1>1, RetestInvariant, PTL

\* Row-driven outcomes fall within the setup window, with no row skipped.
THEOREM OutcomesAreTimely == Spec => []ResolvedInTime
<1>1. RetestInv => ResolvedInTime
  BY DEF RetestInv
<1>2. QED
  BY <1>1, RetestInvariant, PTL

\* No setup is judged by an open hour, an older hour, or an hour whose
\* lookback reaches past a gap or a zero minute.
THEOREM HoursAreFresh == Spec => []HourIsFresh
<1>1. RetestInv => HourIsFresh
  BY DEF RetestInv
<1>2. QED
  BY <1>1, RetestInvariant, PTL

--------------------------------------------------------------------------
(* The evidence.  The inventory is acceptable up to its last lifecycle; the *)
(* parts of that fact are kept by every event that may follow the last one. *)

LEMMA Parity ==
  ASSUME NEW k \in Nat
  PROVE  /\ Close(k) \in Nat /\ Close(k) % BucketTime = BucketTime - 1
         /\ Open(k) \in Nat /\ Open(k) % BucketTime = 0
  BY Z3 DEF Close, Open, BucketTime

Sequenced(s) ==
  \A i, j \in 1..Len(s) : i < j =>
    /\ s[i].decision <= s[j].decision
    /\ s[i].type \in Closing => s[i].decision < s[j].trigger

AllWellTimed(s) == \A i \in 1..Len(s) : WellTimed(s[i])

\* An event in its place is no earlier than the one before it.
LEMMA FollowsInTime ==
  ASSUME NEW e \in Event, NEW f \in Event, WellTimed(e), WellTimed(f), MayFollow(e, f)
  PROVE  /\ e.decision <= f.decision
         /\ e.type \in Closing => e.decision < f.trigger
         /\ e.type \notin Closing => f.trigger = e.trigger
<1>1. /\ e.decision \in Nat /\ f.decision \in Nat /\ e.trigger \in Nat /\ f.trigger \in Nat
  BY DEF Event
<1>2. f.trigger <= f.decision
  BY DEF WellTimed
<1>3. CASE e.type \in Closing /\ f.type = "candidate" /\ f.trigger > e.decision
  BY <1>1, <1>2, <1>3
<1>4. CASE e.type = "candidate" /\ SameSetup(e, f) /\ f.decision = e.decision
  <2>1. e.type \notin Closing
    BY <1>4 DEF Closing, Rejects, ArmedTerminals, Failures, Admissions
  <2>2. QED
    BY <1>1, <1>4, <2>1 DEF SameSetup
<1>5. CASE e.type = "structural_reclaim" /\ SameSetup(e, f) /\ f.decision = e.decision
  <2>1. e.type \notin Closing
    BY <1>5 DEF Closing, Rejects, ArmedTerminals, Failures, Admissions
  <2>2. QED
    BY <1>1, <1>5, <2>1 DEF SameSetup
<1>6. CASE e.type = "armed_setup" /\ SameSetup(e, f)
            /\ (f.decision > e.decision \/ f.type = "pending_setup")
  <2>1. e.type \notin Closing
    BY <1>6 DEF Closing, Rejects, ArmedTerminals, Failures, Admissions
  <2>2. e.decision = e.trigger
    BY <1>6 DEF WellTimed
  <2>3. QED
    BY <1>1, <1>2, <1>6, <2>1, <2>2 DEF SameSetup
<1>7. QED
  BY <1>3, <1>4, <1>5, <1>6 DEF MayFollow

LEMMA SequencedAppend ==
  ASSUME NEW s \in Seq(Event), NEW e \in Event, AllWellTimed(s), WellTimed(e), Sequenced(s),
         s # <<>> => MayFollow(s[Len(s)], e)
  PROVE  AllWellTimed(Append(s, e)) /\ Sequenced(Append(s, e))
<1> DEFINE n == Len(s)
           t == Append(s, e)
<1>1. /\ n \in Nat /\ Len(t) = n + 1 /\ t[n + 1] = e /\ \A i \in 1..n : t[i] = s[i]
  BY AppendFacts
<1>2. \A i \in 1..n : s[i] \in Event /\ s[i].decision \in Nat /\ s[i].trigger \in Nat
  <2>1. \A i \in 1..n : s[i] \in Event
    OBVIOUS
  <2>2. QED
    BY <2>1 DEF Event
<1>3. e.decision \in Nat /\ e.trigger \in Nat
  BY DEF Event
<1>4. ASSUME NEW i \in 1..n
      PROVE  /\ s[i].decision <= e.decision
             /\ s[i].type \in Closing => s[i].decision < e.trigger
  <2>1. n \in 1..n /\ s # <<>>
    BY <1>1, <1>4
  <2>2. /\ s[n].decision <= e.decision
        /\ s[n].type \in Closing => s[n].decision < e.trigger
        /\ s[n].type \notin Closing => e.trigger = s[n].trigger
    BY <1>2, <2>1, FollowsInTime DEF AllWellTimed
  <2>3. CASE i = n
    BY <2>2, <2>3
  <2>4. CASE i # n
    <3>1. i < n
      BY <1>1, <2>4
    <3>2. /\ s[i].decision <= s[n].decision
          /\ s[i].type \in Closing => s[i].decision < s[n].trigger
      BY <2>1, <3>1 DEF Sequenced
    <3>3. s[n].trigger <= s[n].decision
      BY <2>1 DEF AllWellTimed, WellTimed
    <3>4. QED
      BY <1>2, <1>3, <2>1, <2>2, <3>2, <3>3
  <2>5. QED
    BY <2>3, <2>4
<1> HIDE DEF t, n
<1>5. ASSUME NEW i \in 1..Len(t), NEW j \in 1..Len(t), i < j
      PROVE  /\ t[i].decision <= t[j].decision
             /\ t[i].type \in Closing => t[i].decision < t[j].trigger
  <2>1. i \in 1..n
    BY <1>1, <1>5
  <2>2. CASE j = n + 1
    BY <1>1, <1>4, <2>1, <2>2
  <2>3. CASE j # n + 1
    BY <1>1, <1>5, <2>1, <2>3 DEF Sequenced, n
  <2>4. QED
    BY <2>2, <2>3
<1>6. AllWellTimed(t)
  <2>1. ASSUME NEW i \in 1..Len(t) PROVE WellTimed(t[i])
    <3>1. CASE i = n + 1
      BY <1>1, <3>1
    <3>2. CASE i # n + 1
      <4>1. i \in 1..Len(s)
        BY <1>1, <3>2 DEF n
      <4>2. QED
        BY <1>1, <4>1 DEF AllWellTimed, n
    <3>3. QED
      BY <3>1, <3>2
  <2>2. QED
    BY <2>1 DEF AllWellTimed
<1>7. Sequenced(t)
  BY <1>5 DEF Sequenced
<1>8. QED
  BY <1>6, <1>7 DEF t

--------------------------------------------------------------------------
(* The counters.                                                           *)

CountIn(s, side, types) == Cardinality({i \in 1..Len(s) : s[i].side = side /\ s[i].type \in types})
UnmatchedIn(s, side, type) ==
  IF s # <<>> /\ s[Len(s)].side = side /\ s[Len(s)].type = type THEN 1 ELSE 0
TalliedIn(s, side) ==
  /\ CountIn(s, side, {"candidate"}) =
       CountIn(s, side, Rejects \cup {"armed_setup"}) + UnmatchedIn(s, side, "candidate")
  /\ CountIn(s, side, {"armed_setup"}) =
       CountIn(s, side, ArmedTerminals \cup {"structural_reclaim"})
         + UnmatchedIn(s, side, "armed_setup")
  /\ CountIn(s, side, {"structural_reclaim"}) =
       CountIn(s, side, Admissions) + UnmatchedIn(s, side, "structural_reclaim")

Counts(e, side, types) == IF e.side = side /\ e.type \in types THEN 1 ELSE 0

\* An event adds to the counters of its side and type, and to no other.
LEMMA CountAppend ==
  ASSUME NEW s \in Seq(Event), NEW e \in Event, NEW side, NEW types
  PROVE  /\ CountIn(s, side, types) \in Nat
         /\ CountIn(Append(s, e), side, types) = CountIn(s, side, types) + Counts(e, side, types)
<1> DEFINE n == Len(s)
           t == Append(s, e)
           P == {i \in 1..n : s[i].side = side /\ s[i].type \in types}
           Q == {i \in 1..Len(t) : t[i].side = side /\ t[i].type \in types}
<1>1. /\ n \in Nat /\ Len(t) = n + 1 /\ t[n + 1] = e /\ \A i \in 1..n : t[i] = s[i]
      /\ 1..(n + 1) = (1..n) \cup {n + 1} /\ n + 1 \notin 1..n
  BY AppendFacts
<1>2. IsFiniteSet(P) /\ Cardinality(P) \in Nat /\ n + 1 \notin P
  <2>1. IsFiniteSet(1..n)
    BY <1>1, FS_Interval
  <2>2. IsFiniteSet(P)
    BY <2>1, FS_Subset
  <2>3. QED
    BY <1>1, <2>2, FS_CardinalityType
<1>a. CountIn(s, side, types) = Cardinality(P) /\ CountIn(t, side, types) = Cardinality(Q)
  BY DEF CountIn
<1> HIDE DEF t
<1>3. CASE e.side = side /\ e.type \in types
  <2>1. Q = P \cup {n + 1}
    BY <1>1, <1>3
  <2>2. Cardinality(Q) = Cardinality(P) + 1
    <3> HIDE DEF P, Q
    <3>1. QED
      BY <1>2, <2>1, FS_AddElement
  <2>3. QED
    BY <1>2, <1>3, <1>a, <2>2 DEF Counts, t
<1>4. CASE ~(e.side = side /\ e.type \in types)
  <2>1. Q = P
    BY <1>1, <1>4
  <2> HIDE DEF P, Q
  <2>2. QED
    BY <1>2, <1>4, <1>a, <2>1 DEF Counts, t
<1>5. QED
  BY <1>3, <1>4

\* The last event is all that can be unmatched.
LEMMA TallyAppend ==
  ASSUME NEW s \in Seq(Event), NEW e \in Event, NEW side, TalliedIn(s, side),
         s # <<>> => MayFollow(s[Len(s)], e),
         s = <<>> => e.type = "candidate"
  PROVE  TalliedIn(Append(s, e), side)
<1> DEFINE t == Append(s, e)
           tip == s[Len(s)]
<1>1. t # <<>> /\ t[Len(t)] = e /\ Len(s) \in Nat
  BY AppendFacts
<1>2. \A type : UnmatchedIn(t, side, type) = Counts(e, side, {type})
  BY <1>1 DEF UnmatchedIn, Counts
<1>3. \A type : UnmatchedIn(s, side, type) \in Nat
  BY DEF UnmatchedIn
<1>4. \A types : Counts(e, side, types) \in Nat
  BY DEF Counts
<1> HIDE DEF t
<1>5. /\ Counts(e, side, {"candidate"}) = UnmatchedIn(t, side, "candidate")
      /\ Counts(e, side, {"armed_setup"}) = UnmatchedIn(t, side, "armed_setup")
      /\ Counts(e, side, {"structural_reclaim"}) = UnmatchedIn(t, side, "structural_reclaim")
  BY <1>2
<1>6. /\ UnmatchedIn(s, side, "candidate") = Counts(e, side, Rejects \cup {"armed_setup"})
      /\ UnmatchedIn(s, side, "armed_setup")
           = Counts(e, side, ArmedTerminals \cup {"structural_reclaim"})
      /\ UnmatchedIn(s, side, "structural_reclaim") = Counts(e, side, Admissions)
  <2>1. CASE s = <<>>
    <3>1. /\ e.type \notin Rejects \cup {"armed_setup"} /\ e.type \notin Admissions
          /\ e.type \notin ArmedTerminals \cup {"structural_reclaim"}
      BY <2>1 DEF Rejects, ArmedTerminals, Failures, Admissions
    <3>2. QED
      BY <2>1, <3>1 DEF UnmatchedIn, Counts
  <2>2. CASE s # <<>>
    <3>1. \A type : UnmatchedIn(s, side, type) =
                      IF tip.side = side /\ tip.type = type THEN 1 ELSE 0
      BY <2>2 DEF UnmatchedIn
    <3> HIDE DEF tip
    <3>2. MayFollow(tip, e)
      BY <2>2 DEF tip
    <3>3. CASE tip.type = "candidate"
      <4>1. tip.side = e.side /\ e.type \in Rejects \cup {"armed_setup"}
        BY <3>2, <3>3
           DEF MayFollow, SameSetup, Closing, Rejects, ArmedTerminals, Failures, Admissions
      <4>2. e.type \notin ArmedTerminals \cup {"structural_reclaim"} /\ e.type \notin Admissions
        BY <4>1 DEF Rejects, ArmedTerminals, Failures, Admissions
      <4>3. QED
        BY <3>1, <3>3, <4>1, <4>2 DEF Counts
    <3>4. CASE tip.type = "armed_setup"
      <4>1. tip.side = e.side /\ e.type \in ArmedTerminals \cup {"structural_reclaim"}
        BY <3>2, <3>4
           DEF MayFollow, SameSetup, Closing, Rejects, ArmedTerminals, Failures, Admissions
      <4>2. e.type \notin Rejects \cup {"armed_setup"} /\ e.type \notin Admissions
        BY <4>1 DEF Rejects, ArmedTerminals, Failures, Admissions
      <4>3. QED
        BY <3>1, <3>4, <4>1, <4>2 DEF Counts
    <3>5. CASE tip.type = "structural_reclaim"
      <4>1. tip.side = e.side /\ e.type \in Admissions
        BY <3>2, <3>5
           DEF MayFollow, SameSetup, Closing, Rejects, ArmedTerminals, Failures, Admissions
      <4>2. /\ e.type \notin Rejects \cup {"armed_setup"}
            /\ e.type \notin ArmedTerminals \cup {"structural_reclaim"}
        BY <4>1 DEF Rejects, ArmedTerminals, Failures, Admissions
      <4>3. QED
        BY <3>1, <3>5, <4>1, <4>2 DEF Counts
    <3>6. CASE tip.type \notin {"candidate", "armed_setup", "structural_reclaim"}
      <4>1. e.type = "candidate"
        BY <3>2, <3>6 DEF MayFollow
      <4>2. /\ e.type \notin Rejects \cup {"armed_setup"} /\ e.type \notin Admissions
            /\ e.type \notin ArmedTerminals \cup {"structural_reclaim"}
        BY <4>1 DEF Rejects, ArmedTerminals, Failures, Admissions
      <4>3. QED
        BY <3>1, <3>6, <4>2 DEF Counts
    <3>7. QED
      BY <3>3, <3>4, <3>5, <3>6
  <2>3. QED
    BY <2>1, <2>2
<1>7. \A types : /\ CountIn(s, side, types) \in Nat
                 /\ CountIn(t, side, types) = CountIn(s, side, types) + Counts(e, side, types)
  BY CountAppend DEF t
<1>8. TalliedIn(t, side)
  <2>1. CountIn(t, side, {"candidate"}) =
          CountIn(t, side, Rejects \cup {"armed_setup"}) + UnmatchedIn(t, side, "candidate")
    BY <1>3, <1>4, <1>5, <1>6, <1>7 DEF TalliedIn
  <2>2. CountIn(t, side, {"armed_setup"}) =
          CountIn(t, side, ArmedTerminals \cup {"structural_reclaim"})
            + UnmatchedIn(t, side, "armed_setup")
    BY <1>3, <1>4, <1>5, <1>6, <1>7 DEF TalliedIn
  <2>3. CountIn(t, side, {"structural_reclaim"}) =
          CountIn(t, side, Admissions) + UnmatchedIn(t, side, "structural_reclaim")
    BY <1>3, <1>4, <1>5, <1>6, <1>7 DEF TalliedIn
  <2>4. QED
    BY <2>1, <2>2, <2>3 DEF TalliedIn
<1>9. QED
  BY <1>8 DEF t

--------------------------------------------------------------------------
(* Positions in order.                                                     *)

Rank(P, i) == Cardinality({j \in P : j <= i})
The(S) == CHOOSE i \in S : TRUE

AtRank(P, m) == {k \in P : Rank(P, k) = m}

LEMMA NthIs == \A P, m : Nth(P, m) = The(AtRank(P, m))
  BY DEF Nth, Rank, The, AtRank

LEMMA TheOne == \A i : The({i}) = i
  BY DEF The

LEMMA RankFacts ==
  ASSUME NEW n \in Nat, NEW P \in SUBSET (1..n)
  PROVE  /\ IsFiniteSet(P) /\ Cardinality(P) \in Nat
         /\ \A i : Rank(P, i) \in Nat /\ Rank(P, i) <= Cardinality(P)
<1>1. IsFiniteSet(P) /\ Cardinality(P) \in Nat
  <2>1. IsFiniteSet(1..n)
    BY FS_Interval
  <2>2. IsFiniteSet(P)
    BY <2>1, FS_Subset
  <2>3. QED
    BY <2>2, FS_CardinalityType
<1>2. ASSUME NEW i PROVE Rank(P, i) \in Nat /\ Rank(P, i) <= Cardinality(P)
  <2>1. {j \in P : j <= i} \in SUBSET P
    OBVIOUS
  <2>2. IsFiniteSet({j \in P : j <= i}) /\ Cardinality({j \in P : j <= i}) <= Cardinality(P)
    BY <1>1, <2>1, FS_Subset
  <2>3. QED
    BY <2>2, FS_CardinalityType DEF Rank
<1>3. QED
  BY <1>1, <1>2

\* A position after all the others is the last in order and moves no other.
LEMMA NthAppend ==
  ASSUME NEW n \in Nat, NEW P \in SUBSET (1..n)
  PROVE  LET Q == P \cup {n + 1} IN
         /\ Cardinality(Q) = Cardinality(P) + 1
         /\ Nth(Q, Cardinality(P) + 1) = n + 1
         /\ \A m \in 1..Cardinality(P) : Nth(Q, m) = Nth(P, m)
<1> DEFINE Q == P \cup {n + 1}
           c == Cardinality(P)
<1>1. IsFiniteSet(P) /\ c \in Nat /\ n + 1 \notin P
  BY RankFacts
<1>2. Cardinality(Q) = c + 1
  BY <1>1, FS_AddElement
<1>3. ASSUME NEW i \in P PROVE {j \in Q : j <= i} = {j \in P : j <= i}
  <2>1. i \in 1..n
    OBVIOUS
  <2>2. ~(n + 1 <= i)
    BY <2>1
  <2>3. QED
    BY <2>2
<1>4. {j \in Q : j <= n + 1} = Q
  <2>1. \A j \in Q : j <= n + 1
    OBVIOUS
  <2>2. QED
    BY <2>1
<1>5. \A i \in P : Rank(Q, i) = Rank(P, i) /\ Rank(P, i) \in Nat /\ Rank(P, i) <= c
  BY <1>3, RankFacts DEF Rank
<1>6. Rank(Q, n + 1) = c + 1
  BY <1>2, <1>4 DEF Rank
<1>7. \A i : i \in Q <=> i \in P \/ i = n + 1
  OBVIOUS
<1> HIDE DEF Q, c
<1>8. Nth(Q, c + 1) = n + 1
  <2>1. \A i \in P : Rank(Q, i) # c + 1
    BY <1>1, <1>5
  <2>2. AtRank(Q, c + 1) = {n + 1}
    BY <1>6, <1>7, <2>1 DEF AtRank
  <2>3. QED
    BY <2>2, NthIs, TheOne
<1>9. ASSUME NEW m \in 1..c PROVE Nth(Q, m) = Nth(P, m)
  <2>1. Rank(Q, n + 1) # m
    BY <1>1, <1>6
  <2>2. AtRank(Q, m) = AtRank(P, m)
    BY <1>5, <1>7, <2>1 DEF AtRank
  <2>3. QED
    BY <2>2, NthIs
<1>10. QED
  BY <1>2, <1>8, <1>9 DEF Q, c

\* The positions of an interval are in order as they are.
LEMMA NthInterval ==
  ASSUME NEW a \in Nat, NEW b \in Nat, a <= b
  PROVE  /\ Cardinality(a..b) = b - a + 1
         /\ \A m \in 1..(b - a + 1) : Nth(a..b, m) = a + m - 1
<1>1. Cardinality(a..b) = b - a + 1
  BY FS_Interval
<1>2. ASSUME NEW k \in a..b PROVE Rank(a..b, k) = k - a + 1
  <2>1. {j \in a..b : j <= k} = a..k
    OBVIOUS
  <2>2. Cardinality(a..k) = k - a + 1
    BY FS_Interval
  <2>3. QED
    BY <2>1, <2>2 DEF Rank
<1>3. ASSUME NEW m \in 1..(b - a + 1) PROVE Nth(a..b, m) = a + m - 1
  <2>1. AtRank(a..b, m) = {a + m - 1}
    BY <1>2 DEF AtRank
  <2>2. QED
    BY <2>1, NthIs, TheOne
<1>4. QED
  BY <1>1, <1>3

--------------------------------------------------------------------------
(* The emitted events and the intents.                                     *)

EmittedIn(s) == {i \in 1..Len(s) : s[i].type = "emitted_intent"}
IntentOf(e) == [side |-> e.side, trigger |-> e.trigger, decision |-> e.decision]

LinkedTo(s, x) ==
  /\ Cardinality(EmittedIn(s)) = Len(x)
  /\ \A n \in 1..Len(x) : /\ Nth(EmittedIn(s), n) \in EmittedIn(s)
                          /\ x[n] = IntentOf(s[Nth(EmittedIn(s), n)])
  /\ \A i, j \in 1..Len(x) : x[i] = x[j] => i = j

LEMMA EmittedInType ==
  ASSUME NEW s \in Seq(Event)
  PROVE  /\ EmittedIn(s) \in SUBSET (1..Len(s)) /\ Len(s) \in Nat
         /\ Cardinality(EmittedIn(s)) \in Nat
<1>1. EmittedIn(s) \in SUBSET (1..Len(s)) /\ Len(s) \in Nat
  BY DEF EmittedIn
<1>2. QED
  BY <1>1, RankFacts

LEMMA LinkedIs ==
  ASSUME TypeOK
  PROVE  EmittedInv <=> LinkedTo(events, intents)
<1>1. EmittedAt = EmittedIn(events)
  BY DEF EmittedAt, EmittedIn
<1>2. Cardinality(EmittedAt) \in Nat
  BY <1>1, EmittedInType DEF TypeOK
<1>3. /\ Len(Emitted) = Cardinality(EmittedAt)
      /\ \A n \in 1..Cardinality(EmittedAt) : Emitted[n] = events[Nth(EmittedAt, n)]
  BY <1>2 DEF Emitted, InOrder
<1>4. EmittedInv => LinkedTo(events, intents)
  BY <1>1, <1>3 DEF EmittedInv, Linked, LinkedTo, IntentOf
<1>5. LinkedTo(events, intents) => EmittedInv
  BY <1>1, <1>3 DEF EmittedInv, Linked, LinkedTo, IntentOf
<1>6. QED
  BY <1>4, <1>5

\* An event that emits nothing leaves the linkage as it was.
LEMMA LinkQuiet ==
  ASSUME NEW s \in Seq(Event), NEW e \in Event, e.type # "emitted_intent",
         NEW x, LinkedTo(s, x)
  PROVE  LinkedTo(Append(s, e), x)
<1> DEFINE t == Append(s, e)
<1>1. /\ Len(s) \in Nat /\ Len(t) = Len(s) + 1 /\ t[Len(s) + 1] = e
      /\ \A i \in 1..Len(s) : t[i] = s[i]
  BY AppendFacts
<1> HIDE DEF t
<1>2. EmittedIn(t) = EmittedIn(s)
  BY <1>1 DEF EmittedIn
<1>3. \A i \in EmittedIn(s) : t[i] = s[i]
  BY <1>1 DEF EmittedIn
<1>4. LinkedTo(t, x)
  BY <1>2, <1>3 DEF LinkedTo
<1>5. QED
  BY <1>4 DEF t

\* An emitted event and its intent extend both inventories by one, and the
\* intent is new: the setup of every earlier one was settled before the
\* trigger of this one.
LEMMA LinkEmit ==
  ASSUME NEW s \in Seq(Event), NEW e \in Event, e.type = "emitted_intent",
         NEW x \in Seq(Intent), LinkedTo(s, x),
         AllWellTimed(s), Sequenced(Append(s, e))
  PROVE  LinkedTo(Append(s, e), Append(x, IntentOf(e)))
<1> DEFINE t == Append(s, e)
           y == Append(x, IntentOf(e))
           P == EmittedIn(s)
           n == Len(s)
           c == Len(x)
<1>1. /\ n \in Nat /\ Len(t) = n + 1 /\ t[n + 1] = e
      /\ \A i \in 1..n : t[i] = s[i]
  BY AppendFacts
<1>2. IntentOf(e) \in Intent
  BY DEF IntentOf, Intent, Event
<1>3. c \in Nat /\ Len(y) = c + 1 /\ y[c + 1] = IntentOf(e) /\ \A i \in 1..c : y[i] = x[i]
  BY <1>2, AppendFacts
<1> HIDE DEF t, y
<1>4. P \in SUBSET (1..n) /\ Cardinality(P) = c
  BY EmittedInType DEF LinkedTo
<1>5. EmittedIn(t) = P \cup {n + 1}
  BY <1>1 DEF EmittedIn
<1>6. /\ Cardinality(EmittedIn(t)) = c + 1 /\ Nth(EmittedIn(t), c + 1) = n + 1
      /\ \A m \in 1..c : Nth(EmittedIn(t), m) = Nth(P, m)
  <2> HIDE DEF P, n, c
  <2>1. QED
    BY <1>1, <1>4, <1>5, NthAppend DEF n
<1>7. \A m \in 1..c : Nth(P, m) \in P /\ x[m] = IntentOf(s[Nth(P, m)])
  BY DEF LinkedTo
<1>8. ASSUME NEW i \in P PROVE IntentOf(s[i]) # IntentOf(e)
  <2>1. i \in 1..n /\ s[i].type \in Closing /\ i < n + 1 /\ t[i] = s[i]
    BY <1>1, <1>8 DEF EmittedIn, Closing, Admissions
  <2>2. s[i].decision < e.trigger
    BY <1>1, <2>1 DEF Sequenced, t
  <2>3. s[i].trigger <= s[i].decision /\ s[i] \in Event
    BY <2>1 DEF AllWellTimed, WellTimed
  <2>4. s[i].trigger # e.trigger
    BY <2>2, <2>3 DEF Event
  <2>5. QED
    BY <2>4 DEF IntentOf
<1>9. ASSUME NEW m \in 1..(c + 1)
      PROVE  /\ Nth(EmittedIn(t), m) \in EmittedIn(t)
             /\ y[m] = IntentOf(t[Nth(EmittedIn(t), m)])
  <2>1. CASE m = c + 1
    BY <1>1, <1>3, <1>5, <1>6, <2>1
  <2>2. CASE m # c + 1
    <3>1. m \in 1..c
      BY <1>3, <1>9, <2>2
    <3>2. Nth(P, m) \in P /\ Nth(P, m) \in 1..n
      BY <1>4, <1>7, <3>1
    <3>3. QED
      BY <1>1, <1>3, <1>5, <1>6, <1>7, <3>1, <3>2
  <2>3. QED
    BY <2>1, <2>2
<1>10. ASSUME NEW i \in 1..(c + 1), NEW j \in 1..(c + 1), y[i] = y[j] PROVE i = j
  <2>1. \A m \in 1..c : y[m] # y[c + 1]
    BY <1>3, <1>7, <1>8
  <2>2. CASE i = c + 1 \/ j = c + 1
    BY <1>3, <1>10, <2>1, <2>2
  <2>3. CASE i # c + 1 /\ j # c + 1
    <3>1. i \in 1..c /\ j \in 1..c
      BY <1>3, <1>10, <2>3
    <3>2. x[i] = x[j]
      BY <1>3, <1>10, <3>1
    <3>3. QED
      BY <3>1, <3>2 DEF LinkedTo
  <2>4. QED
    BY <2>2, <2>3
<1>11. LinkedTo(t, y)
  BY <1>3, <1>6, <1>9, <1>10 DEF LinkedTo
<1>12. QED
  BY <1>11 DEF t, y

--------------------------------------------------------------------------
(* What a step appends.                                                    *)

NoteEvent(e) == e \in Event /\ WellTimed(e)

AppendsNothing == events' = events /\ intents' = intents
AppendsOne ==
  \E e : /\ NoteEvent(e) /\ e.type # "emitted_intent"
         /\ events' = Append(events, e) /\ intents' = intents
AppendsTwo ==
  \E e, f : /\ NoteEvent(e) /\ NoteEvent(f) /\ e.type # "emitted_intent"
            /\ events' = Append(Append(events, e), f)
            /\ intents' = IF f.type = "emitted_intent" THEN Append(intents, IntentOf(f))
                          ELSE intents

\* The armed setup was triggered at the close of a row already seen.
LEMMA ActiveFacts ==
  ASSUME TypeOK, SetupInv, active # None
  PROVE  /\ active.side \in Side /\ active.trigger \in Nat /\ last \in Nat
         /\ active.trigger % BucketTime = BucketTime - 1
         /\ active.trigger <= Close(last)
<1>1. active \in Setup /\ last \in Nat
  BY NoneAssumption DEF TypeOK
<1>2. active.side \in Side /\ active.trigger \in Nat /\ active.bucket \in Nat
  BY <1>1 DEF Setup
<1>3. active.trigger = Close(active.bucket) /\ active.bucket <= last
  BY DEF SetupInv
<1>4. active.trigger % BucketTime = BucketTime - 1
  BY <1>2, <1>3, Parity
<1>5. active.trigger <= Close(last)
  BY <1>1, <1>2, <1>3 DEF Close
<1>6. QED
  BY <1>1, <1>2, <1>4, <1>5

LEMMA ResetAppends ==
  ASSUME TypeOK, SetupInv, NEW k \in Nat, k > last, intents' = intents,
         \/ ResetAt(Close(k), "zero_volume")
         \/ ResetAt(Open(k), "gap")
  PROVE  AppendsNothing \/ AppendsOne
<1>1. CASE active = None
  BY <1>1 DEF ResetAt, AppendsNothing
<1>2. CASE active # None
  <2>1. PICK d \in {Close(k), Open(k)}, reason \in {"zero_volume", "gap"} :
          /\ ResetAt(d, reason)
          /\ reason = "zero_volume" => d = Close(k)
          /\ reason = "gap" => d = Open(k)
    OBVIOUS
  <2> DEFINE e == Note("state_reset", active, d, 0, reason)
  <2>2. /\ active.side \in Side /\ active.trigger \in Nat /\ last \in Nat
        /\ active.trigger % BucketTime = BucketTime - 1 /\ active.trigger <= Close(last)
    BY <1>2, ActiveFacts
  <2>3. d \in Nat /\ reason \in Reason /\ "state_reset" \in EventType /\ d > Close(last)
    <3>1. Close(k) \in Nat /\ Open(k) \in Nat
      BY Parity
    <3>2. Close(k) > Close(last) /\ Open(k) > Close(last)
      BY <2>2 DEF Close, Open
    <3>3. QED
      BY <3>1, <3>2 DEF Reason, EventType, ArmedTerminals
  <2>4. Close(last) \in Nat
    BY <2>2, Parity
  <2>5. d > active.trigger
    BY <2>2, <2>3, <2>4
  <2>6. /\ reason = "gap" => d % BucketTime = 0
        /\ reason = "zero_volume" => d % BucketTime = BucketTime - 1
    BY <2>1, Parity
  <2>7. /\ e \in Event /\ e.type = "state_reset" /\ e.trigger = active.trigger /\ e.decision = d
        /\ e.reason = reason
    <3>1. e \in Event /\ e.type = "state_reset" /\ e.trigger = active.trigger /\ e.decision = d
      BY <2>2, <2>3, NoteType
    <3>2. QED
      BY <3>1 DEF Note
  <2>8. events' = Append(events, e)
    BY <1>2, <2>1 DEF ResetAt
  <2> HIDE DEF e
  <2>9. ValidReset(e)
    BY <2>1, <2>5, <2>6, <2>7 DEF ValidReset
  <2>10. WellTimed(e)
    <3>1. e.type \notin {"candidate", "armed_setup"} \cup Rejects /\ e.type # "pending_setup"
      BY <2>7 DEF Rejects
    <3>2. QED
      BY <2>2, <2>3, <2>5, <2>7, <2>9, <3>1 DEF WellTimed
  <2>11. QED
    BY <2>7, <2>8, <2>10 DEF AppendsOne, NoteEvent
<1>3. QED
  BY <1>1, <1>2

\* An event of the row that fails or reclaims the armed setup.
LEMMA OutcomeTimed ==
  ASSUME TypeOK, SetupInv, active # None, NEW k \in 0..MaxBucket, Continues(k),
         NEW type \in Failures \cup Admissions \cup {"structural_reclaim"}
  PROVE  LET e == Note(type, active, Close(k), Elapsed, "none") IN
         /\ NoteEvent(e) /\ e.type = type
         /\ IntentOf(e) = [side |-> active.side, trigger |-> active.trigger, decision |-> Close(k)]
<1> DEFINE e == Note(type, active, Close(k), Elapsed, "none")
<1>1. /\ active.side \in Side /\ active.trigger \in Nat /\ last \in Nat
      /\ active.trigger % BucketTime = BucketTime - 1 /\ active.trigger <= Close(last)
  BY ActiveFacts
<1>2. k \in Nat /\ k = last + 1 /\ Close(k) \in Nat /\ Close(last) < Close(k)
  BY ContinueFacts, BucketAssumption DEF Close
<1>3. type \in EventType /\ "none" \in Reason /\ Elapsed \in Nat
  BY ElapsedFacts, WindowAssumption DEF EventType, ArmedTerminals, Reason
<1>4. /\ e \in Event /\ e.type = type /\ e.side = active.side /\ e.trigger = active.trigger
      /\ e.decision = Close(k)
  BY <1>1, <1>2, <1>3, NoteType
<1> HIDE DEF e
<1>5. /\ e.type \notin {"candidate", "armed_setup"} \cup Rejects /\ e.type # "pending_setup"
      /\ e.type # "state_reset"
  BY <1>4 DEF Rejects, Failures, Admissions
<1>6. e.trigger <= e.decision
  <2>1. Close(last) \in Nat
    BY <1>1, Parity
  <2>2. QED
    BY <1>1, <1>2, <1>4, <2>1
<1>7. WellTimed(e)
  BY <1>1, <1>4, <1>5, <1>6 DEF WellTimed
<1>8. IntentOf(e) = [side |-> active.side, trigger |-> active.trigger, decision |-> Close(k)]
  BY <1>4 DEF IntentOf
<1>9. QED
  BY <1>4, <1>7, <1>8 DEF NoteEvent, e

\* The two events of a candidate's row.
LEMMA CandidateTimed ==
  ASSUME NEW k \in 0..MaxBucket, NEW s \in Side, NEW reason \in Reason,
         NEW type \in {"candidate", "armed_setup"} \cup Rejects
  PROVE  LET e == Note(type, Candidate(k, s), Close(k), 0, reason) IN
         NoteEvent(e) /\ e.type = type
<1> DEFINE e == Note(type, Candidate(k, s), Close(k), 0, reason)
<1>1. k \in Nat /\ Close(k) \in Nat /\ Close(k) % BucketTime = BucketTime - 1
  BY BucketAssumption, Parity
<1>2. Candidate(k, s).side = s /\ Candidate(k, s).trigger = Close(k)
  BY DEF Candidate
<1>3. type \in EventType
  BY DEF EventType
<1>4. /\ e \in Event /\ e.type = type /\ e.trigger = Close(k) /\ e.decision = Close(k)
  BY <1>1, <1>2, <1>3, NoteType
<1> HIDE DEF e
<1>5. e.type # "pending_setup" /\ e.type # "state_reset"
  BY <1>4 DEF Rejects
<1>6. WellTimed(e)
  BY <1>1, <1>4, <1>5 DEF WellTimed
<1>7. QED
  BY <1>4, <1>6 DEF NoteEvent, e

LEMMA PendingTimed ==
  ASSUME TypeOK, SetupInv, active # None
  PROVE  LET e == Note("pending_setup", active, Close(last), 0, "source_ended") IN
         NoteEvent(e) /\ e.type = "pending_setup"
<1> DEFINE e == Note("pending_setup", active, Close(last), 0, "source_ended")
<1>1. /\ active.side \in Side /\ active.trigger \in Nat /\ last \in Nat
      /\ active.trigger % BucketTime = BucketTime - 1 /\ active.trigger <= Close(last)
  BY ActiveFacts
<1>2. Close(last) \in Nat /\ Close(last) % BucketTime = BucketTime - 1
  BY <1>1, Parity
<1>3. "pending_setup" \in EventType /\ "source_ended" \in Reason
  BY DEF EventType, ArmedTerminals, Reason
<1>4. e \in Event
  <2>1. 0 \in Nat
    OBVIOUS
  <2>2. QED
    BY <1>1, <1>2, <1>3, <2>1, NoteType
<1>5. /\ e.type = "pending_setup" /\ e.trigger = active.trigger /\ e.decision = Close(last)
      /\ e.reason = "source_ended"
  BY DEF Note
<1> HIDE DEF e
<1>6. e.type \notin {"candidate", "armed_setup"} \cup Rejects /\ e.type # "state_reset"
  BY <1>5 DEF Rejects
<1>7. WellTimed(e)
  BY <1>1, <1>2, <1>5, <1>6 DEF WellTimed
<1>8. QED
  BY <1>4, <1>5, <1>7 DEF NoteEvent, e

LEMMA StepAppends ==
  ASSUME TypeOK, SetupInv, [Next]_vars
  PROVE  AppendsNothing \/ AppendsOne \/ AppendsTwo
<1>1. CASE UNCHANGED vars
  BY <1>1 DEF vars, AppendsNothing
<1>2. CASE Finish
  <2>1. CASE active = None
    BY <1>2, <2>1 DEF Finish, AppendsNothing
  <2>2. CASE active # None
    BY <1>2, <2>2, PendingTimed DEF Finish, AppendsOne
  <2>3. QED
    BY <2>1, <2>2
<1>3. ASSUME NEW k \in 0..MaxBucket, ZeroRow(k) PROVE AppendsNothing \/ AppendsOne
  BY <1>3, ResetAppends, BucketAssumption DEF ZeroRow, NextBucket
<1>4. ASSUME NEW k \in 0..MaxBucket, FirstRow(k) PROVE AppendsNothing \/ AppendsOne
  BY <1>4, ResetAppends, BucketAssumption DEF FirstRow, NextBucket
<1>5. ASSUME NEW k \in 0..MaxBucket, Resolve(k) PROVE AppendsOne
  <2>1. PICK type \in Failures : Fail(k, type)
    BY <1>5 DEF Resolve, Failures, Expiry
  <2>2. type # "emitted_intent"
    BY DEF Failures
  <2>3. QED
    BY <2>1, <2>2, OutcomeTimed DEF Fail, AppendsOne
<1>6. ASSUME NEW k \in 0..MaxBucket, Reclaim(k) PROVE AppendsTwo
  <2>1. PICK type \in Admissions :
          /\ ReclaimAs(k, type)
          /\ intents' = IF type = "emitted_intent"
                        THEN Append(intents, [side |-> active.side, trigger |-> active.trigger,
                                              decision |-> Close(k)])
                        ELSE intents
    BY <1>6 DEF Reclaim, Admissions, FlowMismatch, RiskGeometryReject, EmitIntent
  <2> DEFINE e == Note("structural_reclaim", active, Close(k), Elapsed, "none")
             f == Note(type, active, Close(k), Elapsed, "none")
  <2>2. Continues(k) /\ active # None /\ events' = Append(Append(events, e), f)
    BY <2>1 DEF ReclaimAs
  <2>3. NoteEvent(e) /\ e.type = "structural_reclaim"
    BY <2>2, OutcomeTimed
  <2>4. /\ NoteEvent(f) /\ f.type = type
        /\ IntentOf(f) = [side |-> active.side, trigger |-> active.trigger, decision |-> Close(k)]
    BY <2>2, OutcomeTimed
  <2> HIDE DEF e, f
  <2>5. QED
    BY <2>1, <2>2, <2>3, <2>4 DEF AppendsTwo
<1>7. ASSUME NEW k \in 0..MaxBucket, Idle(k) PROVE AppendsNothing
  BY <1>7 DEF Idle, Wait, NoCandidate, AppendsNothing
<1>c. ASSUME NEW k \in 0..MaxBucket, NEW s \in Side, NEW type \in Rejects \cup {"armed_setup"},
             NEW reason \in Reason, Settle(k, s, type, reason)
      PROVE  AppendsTwo
  <2> DEFINE e == Note("candidate", Candidate(k, s), Close(k), 0, "none")
             f == Note(type, Candidate(k, s), Close(k), 0, reason)
  <2>1. "none" \in Reason
    BY DEF Reason
  <2>2. NoteEvent(e) /\ e.type = "candidate"
    BY <2>1, CandidateTimed
  <2>3. NoteEvent(f) /\ f.type = type
    <3>1. type \in {"candidate", "armed_setup"} \cup Rejects
      OBVIOUS
    <3>2. QED
      BY <3>1, CandidateTimed
  <2>4. type # "emitted_intent"
    BY DEF Rejects
  <2>5. events' = Append(Append(events, e), f) /\ intents' = intents
    BY <1>c DEF Settle
  <2> HIDE DEF e, f
  <2>6. QED
    BY <2>2, <2>3, <2>4, <2>5 DEF AppendsTwo
<1>8. ASSUME NEW k \in 0..MaxBucket, Refuse(k) PROVE AppendsTwo
  <2>1. PICK s \in Side : RegimeReject(k, s) \/ ExpansionReject(k, s)
    BY <1>8 DEF Refuse
  <2>2. \E type \in Rejects, reason \in Reason : Settle(k, s, type, reason)
    BY <2>1 DEF RegimeReject, ExpansionReject, Rejects, Reason
  <2>3. QED
    BY <1>c, <2>2
<1>9. ASSUME NEW k \in 0..MaxBucket, NEW s \in Side, Arm(k, s) PROVE AppendsTwo
  <2>1. Settle(k, s, "armed_setup", "none") /\ "none" \in Reason
    BY <1>9 DEF Arm, Reason
  <2>2. QED
    BY <1>c, <2>1
<1>10. QED
  BY <1>1, <1>2, <1>3, <1>4, <1>5, <1>6, <1>7, <1>8, <1>9, StepCases

--------------------------------------------------------------------------
(* The evidence invariant is inductive.                                    *)

Lawful(s, x) ==
  /\ s \in Seq(Event) /\ x \in Seq(Intent) /\ WellChained(s)
  /\ AllWellTimed(s) /\ Sequenced(s) /\ \A side \in Side : TalliedIn(s, side)
  /\ LinkedTo(s, x)

LEMMA EvidenceIs ==
  TypeOK => (EvidenceInv <=> /\ RetestInv /\ (done => active = None)
                             /\ Lawful(events, intents))
<1> SUFFICES ASSUME TypeOK
             PROVE  EvidenceInv <=> /\ RetestInv /\ (done => active = None)
                                    /\ Lawful(events, intents)
  OBVIOUS
<1>1. EmittedInv <=> LinkedTo(events, intents)
  BY LinkedIs
<1>2. InSequence <=> Sequenced(events)
  BY DEF InSequence, Sequenced
<1>3. (\A i \in 1..Len(events) : WellTimed(events[i])) <=> AllWellTimed(events)
  BY DEF AllWellTimed
<1>4. \A side : Tallied(side) <=> TalliedIn(events, side)
  BY DEF Tallied, TalliedIn, Count, CountIn, Unmatched, UnmatchedIn
<1>5. events \in Seq(Event) /\ intents \in Seq(Intent)
  BY DEF TypeOK
<1>6. RetestInv => WellChained(events)
  BY InventoryIs DEF RetestInv, Inventory
<1>7. QED
  BY <1>1, <1>2, <1>3, <1>4, <1>5, <1>6 DEF EvidenceInv, Lawful

LEMMA ChainPrefix ==
  ASSUME NEW s \in Seq(Event), NEW e \in Event, WellChained(Append(s, e))
  PROVE  /\ WellChained(s)
         /\ s # <<>> => MayFollow(s[Len(s)], e)
         /\ s = <<>> => e.type = "candidate"
<1> DEFINE t == Append(s, e)
           n == Len(s)
<1>1. /\ n \in Nat /\ Len(t) = n + 1 /\ t[n + 1] = e /\ t # <<>>
      /\ \A i \in 1..n : t[i] = s[i]
  BY AppendFacts
<1> HIDE DEF t
<1>2. /\ \A i \in 1..n : MayFollow(t[i], t[i + 1])
      /\ t[1].type = "candidate"
  BY <1>1 DEF WellChained, t
<1>3. s # <<>> => n \in 1..n /\ 1 \in 1..n
  BY <1>1
<1>4. s = <<>> => n = 0
  OBVIOUS
<1>5. \A i \in 1..(n - 1) : i \in 1..n /\ i + 1 \in 1..n
  BY <1>1
<1>6. \A i \in 1..(n - 1) : MayFollow(s[i], s[i + 1])
  BY <1>1, <1>2, <1>5
<1>7. s # <<>> => MayFollow(s[n], e) /\ s[1].type = "candidate"
  BY <1>1, <1>2, <1>3
<1>8. s = <<>> => e.type = "candidate"
  BY <1>1, <1>2, <1>4
<1>9. QED
  BY <1>6, <1>7, <1>8 DEF WellChained

\* A timed event in its place keeps the inventory lawful, with its intent if
\* it emits one.
LEMMA LawfulAppend ==
  ASSUME NEW s, NEW x, Lawful(s, x), NEW e, NoteEvent(e), WellChained(Append(s, e))
  PROVE  Lawful(Append(s, e), IF e.type = "emitted_intent" THEN Append(x, IntentOf(e)) ELSE x)
<1>1. s \in Seq(Event) /\ x \in Seq(Intent) /\ e \in Event /\ WellTimed(e)
  BY DEF Lawful, NoteEvent
<1>2. /\ s # <<>> => MayFollow(s[Len(s)], e)
      /\ s = <<>> => e.type = "candidate"
  BY <1>1, ChainPrefix
<1>3. AllWellTimed(Append(s, e)) /\ Sequenced(Append(s, e))
  BY <1>1, <1>2, SequencedAppend DEF Lawful
<1>4. \A side \in Side : TalliedIn(Append(s, e), side)
  BY <1>1, <1>2, TallyAppend DEF Lawful
<1>5. Append(s, e) \in Seq(Event)
  BY <1>1
<1>6. CASE e.type = "emitted_intent"
  <2>1. IntentOf(e) \in Intent
    BY <1>1 DEF IntentOf, Intent, Event
  <2>2. Append(x, IntentOf(e)) \in Seq(Intent)
    BY <1>1, <2>1
  <2>3. LinkedTo(Append(s, e), Append(x, IntentOf(e)))
    BY <1>1, <1>3, <1>6, LinkEmit DEF Lawful
  <2>4. QED
    BY <1>3, <1>4, <1>5, <1>6, <2>2, <2>3 DEF Lawful
<1>7. CASE e.type # "emitted_intent"
  <2>1. LinkedTo(Append(s, e), x)
    BY <1>1, <1>7, LinkQuiet DEF Lawful
  <2>2. QED
    BY <1>1, <1>3, <1>4, <1>5, <1>7, <2>1 DEF Lawful
<1>8. QED
  BY <1>6, <1>7

LEMMA LawfulStep ==
  ASSUME TypeOK, SetupInv, Lawful(events, intents), WellChained(events'), [Next]_vars
  PROVE  Lawful(events', intents')
<1>1. CASE AppendsNothing
  BY <1>1 DEF AppendsNothing
<1>2. CASE AppendsOne
  <2>1. PICK e : /\ NoteEvent(e) /\ e.type # "emitted_intent"
                 /\ events' = Append(events, e) /\ intents' = intents
    BY <1>2 DEF AppendsOne
  <2>2. QED
    BY <2>1, LawfulAppend
<1>3. CASE AppendsTwo
  <2>1. PICK e, f : /\ NoteEvent(e) /\ NoteEvent(f) /\ e.type # "emitted_intent"
                    /\ events' = Append(Append(events, e), f)
                    /\ intents' = IF f.type = "emitted_intent"
                                  THEN Append(intents, IntentOf(f)) ELSE intents
    BY <1>3 DEF AppendsTwo
  <2> DEFINE s == Append(events, e)
  <2>2. events \in Seq(Event) /\ e \in Event /\ f \in Event /\ s \in Seq(Event)
    BY <2>1 DEF NoteEvent, TypeOK
  <2>3. WellChained(s)
    BY <2>1, <2>2, ChainPrefix
  <2>4. Lawful(s, intents)
    BY <2>1, <2>3, LawfulAppend
  <2> HIDE DEF s
  <2>5. WellChained(Append(s, f))
    BY <2>1 DEF s
  <2>6. Lawful(Append(s, f), IF f.type = "emitted_intent"
                             THEN Append(intents, IntentOf(f)) ELSE intents)
    BY <2>1, <2>4, <2>5, LawfulAppend
  <2>7. QED
    BY <2>1, <2>6 DEF s
<1>4. QED
  BY <1>1, <1>2, <1>3, StepAppends

LEMMA LawfulInit == Init => Lawful(events, intents)
<1> SUFFICES ASSUME Init PROVE Lawful(<<>>, <<>>)
  BY DEF Init
<1>1. Len(<<>>) = 0 /\ 1..0 = {} /\ <<>> \in Seq(Event) /\ <<>> \in Seq(Intent)
  OBVIOUS
<1>2. WellChained(<<>>) /\ AllWellTimed(<<>>) /\ Sequenced(<<>>)
  BY <1>1 DEF WellChained, AllWellTimed, Sequenced
<1>3. \A side, types : CountIn(<<>>, side, types) = 0
  <2>1. \A side, types : {i \in 1..Len(<<>>) : <<>>[i].side = side /\ <<>>[i].type \in types} = {}
    BY <1>1
  <2>2. QED
    BY <2>1, FS_EmptySet DEF CountIn
<1>4. \A side : TalliedIn(<<>>, side)
  BY <1>3 DEF TalliedIn, UnmatchedIn
<1>5. LinkedTo(<<>>, <<>>)
  <2>1. EmittedIn(<<>>) = {}
    BY <1>1 DEF EmittedIn
  <2>2. QED
    BY <1>1, <2>1, FS_EmptySet DEF LinkedTo
<1>6. QED
  BY <1>1, <1>2, <1>4, <1>5 DEF Lawful

\* Nothing is armed once the pass is over.
LEMMA DoneStep ==
  ASSUME done \in BOOLEAN, done => active = None, [Next]_vars
  PROVE  done' => active' = None
<1>1. CASE UNCHANGED vars
  BY <1>1 DEF vars
<1>2. CASE Finish
  BY <1>2 DEF Finish
<1>3. ASSUME NEW k \in 0..MaxBucket, ZeroRow(k) \/ FirstRow(k) PROVE ~done'
  BY <1>3 DEF ZeroRow, FirstRow, NextBucket
<1>4. ASSUME NEW k \in 0..MaxBucket, Continues(k) PROVE ~done'
  BY <1>4 DEF Continues, NextBucket
<1>5. QED
  BY <1>1, <1>2, <1>3, <1>4, StepCases
     DEF Resolve, Reclaim, Idle, Refuse, Fail, Expiry, FlowMismatch, RiskGeometryReject,
         EmitIntent, ReclaimAs, Wait, NoCandidate, RegimeReject, ExpansionReject, Arm, Breakout

EvidenceLaw == RetestInv /\ (done => active = None) /\ Lawful(events, intents)

\* EvidenceInv, and so what the validator asks of a finished inventory.
LEMMA EvidenceInvariant == Spec => []EvidenceInv
<1>1. Init => EvidenceLaw
  BY RetestInit, LawfulInit DEF Init, EvidenceLaw
<1>2. EvidenceLaw /\ [Next]_vars => EvidenceLaw'
  <2> SUFFICES ASSUME EvidenceLaw, [Next]_vars PROVE EvidenceLaw'
    OBVIOUS
  <2>1. /\ RetestInv /\ (done => active = None) /\ TypeOK /\ SetupInv
        /\ Lawful(events, intents)
    BY DEF EvidenceLaw, RetestInv
  <2>2. RetestInv'
    BY <2>1, RetestStep
  <2>3. TypeOK' /\ WellChained(events')
    BY <2>2 DEF RetestInv, OneLifecycleAtATime, WellChained
  <2>4. Lawful(events', intents')
    BY <2>1, <2>3, LawfulStep
  <2>5. done' => active' = None
    BY <2>1, DoneStep DEF TypeOK
  <2>6. QED
    BY <2>2, <2>4, <2>5 DEF EvidenceLaw
<1>3. EvidenceLaw => EvidenceInv
  BY EvidenceIs DEF EvidenceLaw, RetestInv
<1>4. QED
  BY <1>1, <1>2, <1>3, PTL DEF Spec

--------------------------------------------------------------------------
(* A finished inventory is accepted.  The lifecycle of a setup is the       *)
(* stretch of events from its candidate to the event that closes it.       *)

\* An event is preceded by the events its kind comes after.
LEMMA Precursor ==
  ASSUME NEW s \in Seq(Event), WellChained(s), NEW i \in 1..Len(s)
  PROVE  /\ s[i].type \in Rejects \cup {"armed_setup"} =>
              i - 1 \in 1..Len(s) /\ s[i - 1].type = "candidate" /\ SameSetup(s[i - 1], s[i])
         /\ s[i].type \in ArmedTerminals \cup {"structural_reclaim"} =>
              i - 1 \in 1..Len(s) /\ s[i - 1].type = "armed_setup" /\ SameSetup(s[i - 1], s[i])
         /\ s[i].type \in Admissions =>
              /\ i - 1 \in 1..Len(s) /\ s[i - 1].type = "structural_reclaim"
              /\ SameSetup(s[i - 1], s[i])
         /\ s[i].type = "candidate" /\ i # 1 =>
              i - 1 \in 1..Len(s) /\ s[i - 1].type \in Closing
<1>1. Len(s) \in Nat /\ i \in Nat
  OBVIOUS
<1>2. CASE i = 1
  <2>1. s[i].type = "candidate"
    BY <1>1, <1>2 DEF WellChained
  <2>2. QED
    BY <1>2, <2>1 DEF Rejects, ArmedTerminals, Failures, Admissions
<1>3. CASE i # 1
  <2>1. i - 1 \in 1..(Len(s) - 1) /\ i - 1 \in 1..Len(s) /\ (i - 1) + 1 = i
    BY <1>1, <1>3
  <2>2. MayFollow(s[i - 1], s[i])
    BY <2>1 DEF WellChained
  <2> DEFINE e == s[i - 1]
             f == s[i]
  <2> HIDE DEF e, f
  <2>3. MayFollow(e, f)
    BY <2>2 DEF e, f
  <2>4. f.type \in Rejects \cup {"armed_setup"} => e.type = "candidate" /\ SameSetup(e, f)
    BY <2>3 DEF MayFollow, Rejects, ArmedTerminals, Failures, Admissions
  <2>5. f.type \in ArmedTerminals \cup {"structural_reclaim"} =>
          e.type = "armed_setup" /\ SameSetup(e, f)
    BY <2>3 DEF MayFollow, Rejects, ArmedTerminals, Failures, Admissions
  <2>6. f.type \in Admissions => e.type = "structural_reclaim" /\ SameSetup(e, f)
    BY <2>3 DEF MayFollow, Rejects, ArmedTerminals, Failures, Admissions
  <2>7. f.type = "candidate" => e.type \in Closing
    BY <2>3 DEF MayFollow, Rejects, ArmedTerminals, Failures, Admissions
  <2>8. QED
    BY <2>1, <2>4, <2>5, <2>6, <2>7 DEF e, f
<1>4. QED
  BY <1>2, <1>3

\* The stretch a..b of s is one whole lifecycle.
Stretch(s, a, b) ==
  /\ a \in 1..Len(s) /\ b \in 1..Len(s) /\ s[a].type = "candidate" /\ s[b].type \in Closing
  /\ \A j \in a..b : SameSetup(s[j], s[a])
  /\ \/ b = a + 1 /\ s[b].type \in Rejects
     \/ b = a + 2 /\ s[a + 1].type = "armed_setup" /\ s[b].type \in ArmedTerminals
     \/ /\ b = a + 3 /\ s[a + 1].type = "armed_setup"
        /\ s[a + 2].type = "structural_reclaim" /\ s[b].type \in Admissions

\* From a candidate, the lifecycle runs to its close.
LEMMA StretchFrom ==
  ASSUME NEW s \in Seq(Event), WellChained(s), s[Len(s)].type \in Closing,
         NEW a \in 1..Len(s), s[a].type = "candidate"
  PROVE  \E b \in {a + 1, a + 2, a + 3} : Stretch(s, a, b)
<1>1. Len(s) \in Nat /\ a \in Nat
  OBVIOUS
<1>2. \A i \in 1..Len(s) : s[i].type \notin Closing => i + 1 \in 1..Len(s) /\ MayFollow(s[i], s[i + 1])
  BY <1>1 DEF WellChained
<1>3. ASSUME NEW t \in {"candidate", "armed_setup", "structural_reclaim"} PROVE t \notin Closing
  BY DEF Closing, Rejects, ArmedTerminals, Failures, Admissions
<1>4. /\ a + 1 \in 1..Len(s) /\ SameSetup(s[a], s[a + 1])
      /\ s[a + 1].type \in Rejects \cup {"armed_setup"}
  <2>1. a + 1 \in 1..Len(s) /\ MayFollow(s[a], s[a + 1])
    BY <1>2, <1>3
  <2>2. QED
    BY <2>1 DEF MayFollow, Closing, Rejects, ArmedTerminals, Failures, Admissions
<1>5. SameSetup(s[a], s[a])
  BY DEF SameSetup
<1>6. CASE s[a + 1].type \in Rejects
  <2>1. s[a + 1].type \in Closing /\ a..(a + 1) = {a, a + 1}
    BY <1>1, <1>6 DEF Closing
  <2>2. Stretch(s, a, a + 1)
    BY <1>4, <1>5, <1>6, <2>1 DEF Stretch, SameSetup
  <2>3. QED
    BY <2>2
<1>7. CASE s[a + 1].type = "armed_setup"
  <2>1. /\ (a + 1) + 1 = a + 2 /\ a + 2 \in 1..Len(s) /\ SameSetup(s[a + 1], s[a + 2])
        /\ s[a + 2].type \in ArmedTerminals \cup {"structural_reclaim"}
    <3>1. (a + 1) + 1 = a + 2 /\ a + 2 \in 1..Len(s) /\ MayFollow(s[a + 1], s[a + 2])
      BY <1>1, <1>2, <1>3, <1>4, <1>7
    <3>2. QED
      BY <1>7, <3>1 DEF MayFollow, Closing, Rejects, ArmedTerminals, Failures, Admissions
  <2>2. CASE s[a + 2].type \in ArmedTerminals
    <3>1. s[a + 2].type \in Closing /\ a..(a + 2) = {a, a + 1, a + 2}
      BY <1>1, <2>2 DEF Closing
    <3>2. \A j \in a..(a + 2) : SameSetup(s[j], s[a])
      BY <1>4, <1>5, <2>1, <3>1 DEF SameSetup
    <3>3. Stretch(s, a, a + 2)
      BY <1>7, <2>1, <2>2, <3>1, <3>2 DEF Stretch
    <3>4. QED
      BY <3>3
  <2>3. CASE s[a + 2].type = "structural_reclaim"
    <3>1. /\ (a + 2) + 1 = a + 3 /\ a + 3 \in 1..Len(s) /\ SameSetup(s[a + 2], s[a + 3])
          /\ s[a + 3].type \in Admissions
      <4>1. (a + 2) + 1 = a + 3
        BY <1>1
      <4>2. (a + 2) + 1 \in 1..Len(s) /\ MayFollow(s[a + 2], s[(a + 2) + 1])
        BY <1>2, <1>3, <2>1, <2>3
      <4>3. QED
        BY <2>3, <4>1, <4>2 DEF MayFollow, Closing, Rejects, ArmedTerminals, Failures, Admissions
    <3>2. s[a + 3].type \in Closing /\ a..(a + 3) = {a, a + 1, a + 2, a + 3}
      BY <1>1, <3>1 DEF Closing
    <3>3. \A j \in a..(a + 3) : SameSetup(s[j], s[a])
      BY <1>4, <1>5, <2>1, <3>1, <3>2 DEF SameSetup
    <3>4. Stretch(s, a, a + 3)
      BY <1>7, <2>3, <3>1, <3>2, <3>3 DEF Stretch
    <3>5. QED
      BY <3>4
  <2>4. QED
    BY <2>1, <2>2, <2>3
<1>8. QED
  BY <1>4, <1>6, <1>7

\* Every event has the candidate of its setup before it.
LEMMA CandidateOf ==
  ASSUME NEW s \in Seq(Event), WellChained(s), NEW i \in 1..Len(s)
  PROVE  \E a \in 1..Len(s) : s[a].type = "candidate" /\ SameSetup(s[a], s[i])
<1>1. \A e : SameSetup(e, e)
  BY DEF SameSetup
<1>2. \A d, e, f : SameSetup(d, e) /\ SameSetup(e, f) => SameSetup(d, f)
  BY DEF SameSetup
<1>3. ASSUME NEW j \in 1..Len(s), s[j].type \in Rejects \cup {"armed_setup"}
      PROVE  \E a \in 1..Len(s) : s[a].type = "candidate" /\ SameSetup(s[a], s[j])
  BY <1>3, Precursor
<1>4. ASSUME NEW j \in 1..Len(s), s[j].type \in ArmedTerminals \cup {"structural_reclaim"}
      PROVE  \E a \in 1..Len(s) : s[a].type = "candidate" /\ SameSetup(s[a], s[j])
  <2>1. j - 1 \in 1..Len(s) /\ s[j - 1].type = "armed_setup" /\ SameSetup(s[j - 1], s[j])
    BY <1>4, Precursor
  <2>2. PICK a \in 1..Len(s) : s[a].type = "candidate" /\ SameSetup(s[a], s[j - 1])
    BY <1>3, <2>1
  <2>3. QED
    BY <1>2, <2>1, <2>2
<1>5. ASSUME NEW j \in 1..Len(s), s[j].type \in Admissions
      PROVE  \E a \in 1..Len(s) : s[a].type = "candidate" /\ SameSetup(s[a], s[j])
  <2>1. /\ j - 1 \in 1..Len(s) /\ s[j - 1].type = "structural_reclaim"
        /\ SameSetup(s[j - 1], s[j])
    BY <1>5, Precursor
  <2>2. PICK a \in 1..Len(s) : s[a].type = "candidate" /\ SameSetup(s[a], s[j - 1])
    BY <1>4, <2>1
  <2>3. QED
    BY <1>2, <2>1, <2>2
<1>6. s[i].type \in {"candidate"} \cup Rejects \cup {"armed_setup"} \cup ArmedTerminals
                    \cup {"structural_reclaim"} \cup Admissions
  <2>1. s[i] \in Event
    OBVIOUS
  <2>2. s[i].type \in EventType
    BY <2>1 DEF Event
  <2>3. QED
    BY <2>2 DEF EventType
<1>7. QED
  BY <1>1, <1>3, <1>4, <1>5, <1>6

\* No event outside the stretch is of its setup: the earlier setups were
\* settled before its trigger, and the later ones triggered after its close.
LEMMA StretchIsSetup ==
  ASSUME NEW s \in Seq(Event), WellChained(s), AllWellTimed(s), Sequenced(s),
         NEW a, NEW b, Stretch(s, a, b), NEW e, SameSetup(e, s[a])
  PROVE  /\ a..b \subseteq 1..Len(s)
         /\ \A j \in 1..Len(s) : SameSetup(s[j], e) <=> j \in a..b
<1>1. /\ Len(s) \in Nat /\ a \in 1..Len(s) /\ b \in 1..Len(s) /\ a <= b
      /\ s[a].type = "candidate" /\ s[b].type \in Closing
      /\ \A j \in a..b : SameSetup(s[j], s[a])
  BY DEF Stretch
<1>2. \A j \in 1..Len(s) : s[j] \in Event
  OBVIOUS
<1>3. \A j \in 1..Len(s) : /\ s[j].trigger \in Nat /\ s[j].decision \in Nat
                           /\ s[j].trigger <= s[j].decision
  BY <1>2 DEF Event, AllWellTimed, WellTimed
<1>4. ASSUME NEW j \in 1..Len(s), j < a PROVE s[j].trigger # s[a].trigger
  <2>1. a - 1 \in 1..Len(s) /\ s[a - 1].type \in Closing
    <3>1. a # 1
      BY <1>1, <1>4
    <3>2. QED
      BY <1>1, <3>1, Precursor
  <2>2. s[a - 1].decision < s[a].trigger
    BY <1>1, <2>1 DEF Sequenced
  <2>3. s[j].decision <= s[a - 1].decision
    <3>1. CASE j = a - 1
      BY <1>3, <3>1
    <3>2. CASE j # a - 1
      <4>1. j < a - 1
        BY <1>1, <1>4, <3>2
      <4>2. QED
        BY <2>1, <4>1 DEF Sequenced
    <3>3. QED
      BY <3>1, <3>2
  <2>4. QED
    BY <1>1, <1>3, <2>1, <2>2, <2>3
<1>5. ASSUME NEW j \in 1..Len(s), b < j PROVE s[j].trigger # s[a].trigger
  <2>1. s[b].decision < s[j].trigger
    BY <1>1, <1>5 DEF Sequenced
  <2>2. s[b].trigger = s[a].trigger
    BY <1>1 DEF SameSetup
  <2>3. QED
    BY <1>1, <1>3, <2>1, <2>2
<1>6. ASSUME NEW j \in 1..Len(s) PROVE SameSetup(s[j], e) <=> j \in a..b
  <2>1. SameSetup(s[j], e) <=> SameSetup(s[j], s[a])
    BY DEF SameSetup
  <2>2. SameSetup(s[j], s[a]) => ~(j < a) /\ ~(b < j)
    BY <1>4, <1>5 DEF SameSetup
  <2>3. QED
    BY <1>1, <2>1, <2>2
<1>7. a..b \subseteq 1..Len(s)
  BY <1>1
<1>8. QED
  BY <1>6, <1>7

\* A settled inventory has whole lifecycles only.
LEMMA LifecycleAccepted ==
  ASSUME TypeOK, WellChained(events), AllWellTimed(events), Sequenced(events), ResolvedInTime,
         events[Len(events)].type \in Closing, NEW i \in 1..Len(events)
  PROVE  ValidLifecycle(Lifecycle(events[i]))
<1> DEFINE n == Len(events)
<1>1. events \in Seq(Event)
  BY DEF TypeOK
<1>2. PICK a \in 1..n : events[a].type = "candidate" /\ SameSetup(events[a], events[i])
  BY <1>1, CandidateOf
<1>3. PICK b \in {a + 1, a + 2, a + 3} : Stretch(events, a, b)
  BY <1>1, <1>2, StretchFrom
<1>4. SameSetup(events[i], events[a])
  BY <1>2 DEF SameSetup
<1>5. SetupAt(events[i]) = a..b
  <2>1. /\ a..b \subseteq 1..Len(events)
        /\ \A j \in 1..Len(events) : SameSetup(events[j], events[i]) <=> j \in a..b
    BY <1>1, <1>3, <1>4, StretchIsSetup
  <2>2. QED
    BY <2>1 DEF SetupAt
<1> DEFINE l == Lifecycle(events[i])
<1>6. /\ n \in Nat /\ a \in Nat /\ b \in Nat /\ a <= b /\ a \in 1..n /\ b \in 1..n
  BY <1>1, <1>3 DEF Stretch
<1>7. /\ Cardinality(a..b) = b - a + 1
      /\ \A m \in 1..(b - a + 1) : Nth(a..b, m) = a + m - 1
  BY <1>6, NthInterval
<1>8. Len(l) = b - a + 1 /\ \A m \in 1..(b - a + 1) : l[m] = events[a + m - 1]
  BY <1>5, <1>6, <1>7 DEF Lifecycle, InOrder
<1> HIDE DEF l, n
<1> SUFFICES ValidLifecycle(l)
  BY DEF l
<1>9. \A j \in 1..n : events[j] \in Event /\ WellTimed(events[j])
  BY <1>1 DEF AllWellTimed, n
<1>10. \A j \in 1..(n - 1) : MayFollow(events[j], events[j + 1])
  BY DEF WellChained, n
<1>11. ASSUME NEW j \in 1..n, events[j].type \in Failures \cup Admissions \cup {"structural_reclaim"}
       PROVE  ValidElapsed(events[j])
  <2>1. /\ events[j].elapsed \in 1..SetupWindow
        /\ events[j].decision = events[j].trigger + BucketTime * events[j].elapsed
    BY <1>11 DEF ResolvedInTime, n
  <2>2. events[j] \in Event
    BY <1>9
  <2>3. events[j].trigger \in Nat /\ events[j].elapsed \in Nat /\ events[j].elapsed >= 1
    BY <2>1, <2>2, WindowAssumption DEF Event
  <2> DEFINE d == events[j].decision - events[j].trigger
             x == events[j].elapsed
  <2>4. d = 2 * x /\ x \in Nat /\ x >= 1
    BY <2>1, <2>3 DEF BucketTime
  <2> HIDE DEF d, x
  <2>5. d >= 2 /\ d % 2 = 0 /\ x = d \div 2
    BY <2>4, Z3
  <2>6. QED
    BY <2>5 DEF ValidElapsed, BucketTime, d, x
<1>12. /\ l[1] = events[a] /\ l[2] = events[a + 1] /\ a + 1 \in 1..n /\ Len(l) > 1
       /\ MayFollow(events[a], events[a + 1])
  <2>1. b >= a + 1
    BY <1>3, <1>6
  <2>2. a + 1 \in 1..n /\ a \in 1..(n - 1) /\ 1 \in 1..(b - a + 1) /\ 2 \in 1..(b - a + 1)
        /\ a + 1 - 1 = a /\ a + 2 - 1 = a + 1 /\ b - a + 1 > 1
    BY <1>6, <2>1
  <2>3. QED
    BY <1>8, <1>10, <2>2
<1>13. /\ l[1].type = "candidate" /\ l[1].decision = l[1].trigger
       /\ l[1].trigger % BucketTime = BucketTime - 1
  BY <1>2, <1>6, <1>9, <1>12 DEF WellTimed
<1>14. l[2].decision = l[1].trigger
  <2>1. events[a + 1].decision = events[a].decision
    BY <1>2, <1>12 DEF MayFollow, Closing, Rejects, ArmedTerminals, Failures, Admissions
  <2>2. QED
    BY <1>12, <1>13, <2>1
<1>15. CASE b = a + 1
  <2>1. Len(l) = 2
    BY <1>6, <1>8, <1>15
  <2>2. events[b].type \in Rejects
    BY <1>3, <1>6, <1>15 DEF Stretch
  <2>3. QED
    BY <1>12, <1>13, <1>14, <1>15, <2>1, <2>2 DEF ValidLifecycle
<1>16. CASE b = a + 2
  <2>1. Len(l) = 3 /\ l[3] = events[b]
    <3>1. b - a + 1 = 3 /\ a + 3 - 1 = b /\ 3 \in 1..(b - a + 1)
      BY <1>6, <1>16
    <3>2. QED
      BY <1>8, <3>1
  <2>2. events[a + 1].type = "armed_setup" /\ events[b].type \in ArmedTerminals
    BY <1>3, <1>6, <1>16 DEF Stretch
  <2>3. ValidTerminal(events[b])
    <3>1. WellTimed(events[b])
      BY <1>6, <1>9
    <3>2. events[b] \in Event
      BY <1>6, <1>9
    <3>3. CASE events[b].type \in Failures
      BY <1>6, <1>11, <3>3 DEF ValidTerminal
    <3>4. CASE events[b].type = "pending_setup"
      BY <3>1, <3>2, <3>4 DEF ValidTerminal, WellTimed, Event
    <3>5. CASE events[b].type = "state_reset"
      BY <3>1, <3>5 DEF ValidTerminal, WellTimed
    <3>6. QED
      BY <2>2, <3>3, <3>4, <3>5 DEF ArmedTerminals
  <2>4. QED
    BY <1>12, <1>13, <1>14, <2>1, <2>2, <2>3 DEF ValidLifecycle
<1>17. CASE b = a + 3
  <2>1. Len(l) = 4 /\ l[3] = events[a + 2] /\ l[4] = events[b]
    <3>1. /\ b - a + 1 = 4 /\ a + 3 - 1 = a + 2 /\ a + 4 - 1 = b
          /\ 3 \in 1..(b - a + 1) /\ 4 \in 1..(b - a + 1)
      BY <1>6, <1>17
    <3>2. QED
      BY <1>8, <3>1
  <2>2. /\ events[a + 1].type = "armed_setup" /\ events[a + 2].type = "structural_reclaim"
        /\ events[b].type \in Admissions
    BY <1>3, <1>6, <1>17 DEF Stretch
  <2>3. a + 2 \in 1..n /\ MayFollow(events[a + 2], events[b])
    <3>1. a + 2 \in 1..n /\ a + 2 \in 1..(n - 1) /\ (a + 2) + 1 = b
      BY <1>6, <1>17
    <3>2. QED
      BY <1>10, <3>1
  <2>4. events[b].decision = events[a + 2].decision
    BY <2>2, <2>3 DEF MayFollow, Closing, Rejects, ArmedTerminals, Failures, Admissions
  <2>5. ValidElapsed(events[a + 2]) /\ ValidElapsed(events[b])
    BY <1>6, <1>11, <2>2, <2>3
  <2>6. QED
    BY <1>12, <1>13, <1>14, <2>1, <2>2, <2>4, <2>5 DEF ValidLifecycle
<1>18. QED
  BY <1>3, <1>15, <1>16, <1>17

\* What the invariant says of a finished pass is all the validator asks.
LEMMA EvidenceInvAccepts == EvidenceInv /\ done => Accepted
<1> SUFFICES ASSUME EvidenceInv, done PROVE Accepted
  OBVIOUS
<1>1. TypeOK /\ RetestInv /\ active = None /\ ResolvedInTime /\ Linked
      /\ InSequence /\ (\A s \in Side : Tallied(s)) /\ events \in Seq(Event)
  BY DEF EvidenceInv, RetestInv, EmittedInv, TypeOK
<1>2. WellChained(events) /\ (events # <<>> => events[Len(events)].type \in Closing)
  BY <1>1, InventoryIs DEF RetestInv, Inventory, Settled, Tip
<1>3. AllWellTimed(events) /\ Sequenced(events)
  BY <1>1 DEF EvidenceInv, AllWellTimed, InSequence, Sequenced
<1>4. \A i \in 1..(Len(events) - 1) : events[i].decision <= events[i + 1].decision
  <2>1. \A i \in 1..(Len(events) - 1) :
          i \in 1..Len(events) /\ i + 1 \in 1..Len(events) /\ i < i + 1
    BY <1>1
  <2>2. QED
    BY <1>1, <2>1 DEF InSequence
<1>5. ASSUME NEW i \in 1..Len(events) PROVE ValidLifecycle(Lifecycle(events[i]))
  <2>1. events # <<>>
    BY <1>1
  <2>2. QED
    BY <1>1, <1>2, <1>3, <2>1, LifecycleAccepted
<1>6. ASSUME NEW s \in Side PROVE Reconciled(s)
  <2>1. /\ Unmatched(s, "candidate") = 0 /\ Unmatched(s, "armed_setup") = 0
        /\ Unmatched(s, "structural_reclaim") = 0
    BY <1>2 DEF Unmatched, Closing, Rejects, ArmedTerminals, Failures, Admissions
  <2>2. \A types : Count(s, types) \in Nat
    <3>1. \A types : Count(s, types) = CountIn(events, s, types)
      BY DEF Count, CountIn
    <3>2. ASSUME NEW types PROVE CountIn(events, s, types) \in Nat
      <4>1. IsFiniteSet(1..Len(events))
        BY <1>1, FS_Interval
      <4>2. IsFiniteSet({i \in 1..Len(events) : events[i].side = s /\ events[i].type \in types})
        BY <4>1, FS_Subset
      <4>3. QED
        BY <4>2, FS_CardinalityType DEF CountIn
    <3>3. QED
      BY <3>1, <3>2
  <2>3. Tallied(s)
    BY <1>1
  <2>4. QED
    BY <2>1, <2>2, <2>3 DEF Tallied, Reconciled
<1>7. QED
  BY <1>1, <1>4, <1>5, <1>6 DEF Accepted

\* Whatever the rows, the window and the instruments, the evidence of a
\* finished pass is accepted by its own validator.
THEOREM EvidenceIsAccepted == Spec => []EvidenceAccepted
<1>1. EvidenceInv => EvidenceAccepted
  BY EvidenceInvAccepts DEF EvidenceAccepted
<1>2. QED
  BY <1>1, EvidenceInvariant, PTL

=============================================================================
