--------------------------- MODULE RegimeRetest ---------------------------
(***************************************************************************)
(* The setup generator of sleeves/regime_retest_reclaim.py.                *)
(*                                                                         *)
(* One pass over the five-minute rows of one symbol.  A row that breaks    *)
(* out of its prior range is a candidate; a candidate that passes the      *)
(* hourly regime and the expansion thresholds arms a setup; an armed setup *)
(* is watched row by row until it fails, overextends, is reclaimed or      *)
(* expires, or until the run of positive, contiguous rows it lives in (its *)
(* segment) ends.  Every transition is appended to an event inventory      *)
(* that the generator's own evidence validator must accept.                *)
(*                                                                         *)
(* Rows are numbered by five-minute bucket.  A bucket k opens at 2k and    *)
(* closes at 2k+1 (in the code: k*300000 and k*300000+299999).  Buckets    *)
(* without all their minutes have no row; a row with a zero-volume minute  *)
(* is invalid.  Prices are abstracted: each comparison of a row with the   *)
(* setup may come out either way.                                          *)
(***************************************************************************)
EXTENDS Integers, Sequences, FiniteSets

CONSTANTS
  Side,            \* LONG and SHORT
  SetupWindow,     \* settings.setup_window_bars
  RequiredPrior,   \* max(baseline_lookback, breakout_lookback, atr_period)
  HourBuckets,     \* five-minute buckets in an hour
  HourLookback,    \* hours the regime needs before the hour it judges
  MaxBucket,       \* bound: the last bucket the source may hold
  None

ASSUME WindowAssumption == SetupWindow \in Nat \ {0}
ASSUME PriorAssumption == RequiredPrior \in Nat \ {0}
ASSUME HourAssumption == HourBuckets \in Nat \ {0} /\ HourLookback \in Nat
ASSUME BucketAssumption == MaxBucket \in Nat


VARIABLES
  rows,     \* buckets of the rows seen so far (rows_5m)
  invalid,  \* those with a zero-volume minute (invalid_5m, invalid_1h)
  last,     \* bucket of the last row, -1 before the first
  segment,  \* first bucket of the current segment, or None
  active,   \* the armed setup, or None
  events,   \* the inventory
  intents,  \* the emitted intents
  done

vars == <<rows, invalid, last, segment, active, events, intents, done>>

--------------------------------------------------------------------------
Open(k) == 2 * k
Close(k) == 2 * k + 1
BucketTime == 2

Rejects == {"regime_reject", "expansion_reject"}
Failures == {"boundary_failure", "overextension", "expiry"}
ArmedTerminals == Failures \cup {"pending_setup", "state_reset"}
Admissions == {"flow_mismatch", "risk_geometry_reject", "emitted_intent"}
EventType == {"candidate", "armed_setup", "structural_reclaim"}
             \cup Rejects \cup ArmedTerminals \cup Admissions
Reason == {"missing_strict_prior_hour", "pre_segment_hour", "hourly_veto", "thresholds",
           "gap", "zero_volume", "source_ended", "none"}

\* A RegimeRetestSetupEvent.  setup_id commits to side and trigger, and the
\* other digested fields are functions of the trigger's row.
Event == [type : EventType, side : Side, trigger : Nat, decision : Nat,
          elapsed : Nat, reason : Reason]
Intent == [side : Side, trigger : Nat, decision : Nat]
Setup == [side : Side, trigger : Nat, bucket : Nat, index : Nat, hour : Nat]

ASSUME NoneAssumption == None \notin Nat /\ None \notin Setup

--------------------------------------------------------------------------
(* The hour a candidate is judged by.                                      *)

HourOf(h) == (h * HourBuckets)..(h * HourBuckets + HourBuckets - 1)
Hours == {h \in 0..MaxBucket : HourOf(h) \subseteq rows}
HourOpen(h) == Open(h * HourBuckets)
HourClose(h) == Close(h * HourBuckets + HourBuckets - 1)

\* rows_1h that closed before bucket k opens.
PriorHours(k) == {h \in Hours : HourClose(h) < Open(k)}
\* bisect_left(hourly_closes, open_time) - 1: the last of them.
IsLastHour(h, k) == h \in PriorHours(k) /\ \A g \in PriorHours(k) : g <= h

\* The context of an hour needs HourLookback hours before it in one run of
\* positive, contiguous hours (_hourly_contexts over _segments of rows_1h).
HasContext(h) == \A g \in (h - HourLookback)..h : g \in Hours /\ HourOf(g) \cap invalid = {}

PreSegment(h) == HourOpen(h) < Open(segment)

\* Slip: the last complete hour is taken however old it is.
MayJudgeStale(h, k) == IsLastHour(h, k) /\ HasContext(h)
\* Hour h judges bucket k: it is the last, and it lies in the segment.
MayJudge(h, k) == IsLastHour(h, k) /\ ~PreSegment(h) /\ HasContext(h)

--------------------------------------------------------------------------
Init ==
  /\ rows = {} /\ invalid = {} /\ last = -1
  /\ segment = None /\ active = None
  /\ events = <<>> /\ intents = <<>> /\ done = FALSE

\* Position of the next row in rows_5m.
Index == Cardinality(rows)

Note(type, setup, decision, elapsed, reason) ==
  [type |-> type, side |-> setup.side, trigger |-> setup.trigger,
   decision |-> decision, elapsed |-> elapsed, reason |-> reason]

\* The next row of the source: bucket k, clean or with a zero minute.
NextBucket(k) == ~done /\ k > last /\ k <= MaxBucket

See(k) == rows' = rows \cup {k} /\ last' = k

\* Slip: an armed setup survives the end of its segment.
KeepAcross(decision, reason) == UNCHANGED <<active, events>>
\* The end of a segment resets the setup armed in it.
ResetAt(decision, reason) ==
  /\ active' = None
  /\ events' = IF active = None THEN events
               ELSE Append(events, Note("state_reset", active, decision, 0, reason))

\* A zero minute: the row belongs to no segment.
ZeroRow(k) ==
  /\ NextBucket(k) /\ See(k)
  /\ invalid' = invalid \cup {k}
  /\ segment' = None
  /\ ResetAt(Close(k), "zero_volume")
  /\ UNCHANGED <<intents, done>>

\* The first row of a segment, after an invalid row or after missing ones.
\* It has no prior rows in its segment, so it cannot be a candidate.
FirstRow(k) ==
  /\ NextBucket(k) /\ See(k)
  /\ segment = None \/ k # last + 1
  /\ segment' = k
  /\ ResetAt(Open(k), "gap")
  /\ UNCHANGED <<invalid, intents, done>>

\* A later row of the segment.
Continues(k) ==
  /\ NextBucket(k) /\ See(k)
  /\ segment # None /\ k = last + 1
  /\ UNCHANGED <<invalid, segment, done>>

--------------------------------------------------------------------------
(* A row while a setup is armed.  Whatever resolves the setup, the same    *)
(* row is not looked at as a candidate.                                    *)

Elapsed == Index - active.index

\* Slip: the row that fails the setup is looked at as a candidate too.
FailAndSearch(k, type) ==
  /\ Continues(k) /\ active # None
  /\ \E s \in Side :
       events' = events \o <<Note(type, active, Close(k), Elapsed, "none"),
                             Note("candidate", [side |-> s, trigger |-> Close(k)], Close(k), 0, "none"),
                             Note("regime_reject", [side |-> s, trigger |-> Close(k)], Close(k), 0, "hourly_veto")>>
  /\ active' = None
  /\ UNCHANGED intents

Fail(k, type) ==
  /\ Continues(k) /\ active # None
  /\ events' = Append(events, Note(type, active, Close(k), Elapsed, "none"))
  /\ active' = None
  /\ UNCHANGED intents

BoundaryFailure(k) == Fail(k, "boundary_failure")
Overextension(k) == Fail(k, "overextension")

\* The reclaim and the admission decision of the same row.
ReclaimAs(k, admission) ==
  /\ Continues(k) /\ active # None
  /\ events' = Append(Append(events, Note("structural_reclaim", active, Close(k), Elapsed, "none")),
                      Note(admission, active, Close(k), Elapsed, "none"))
  /\ active' = None

FlowMismatch(k) == ReclaimAs(k, "flow_mismatch") /\ UNCHANGED intents
RiskGeometryReject(k) == ReclaimAs(k, "risk_geometry_reject") /\ UNCHANGED intents
EmitIntent(k) ==
  /\ ReclaimAs(k, "emitted_intent")
  /\ intents' = Append(intents, [side |-> active.side, trigger |-> active.trigger,
                                 decision |-> Close(k)])

\* Slip: the window is counted from the row after the trigger.
ExpiredLate == Elapsed > SetupWindow
Expired == Elapsed >= SetupWindow

Expiry(k) == active # None /\ Expired /\ Fail(k, "expiry")

Wait(k) ==
  /\ Continues(k) /\ active # None /\ ~Expired
  /\ UNCHANGED <<active, events, intents>>

--------------------------------------------------------------------------
(* A row while no setup is armed.                                          *)

\* Not enough rows in the segment, no finite range, or no breakout.
NoCandidate(k) ==
  /\ Continues(k) /\ active = None
  /\ UNCHANGED <<active, events, intents>>

Warm(k) == k >= segment + RequiredPrior

Breakout(k) == Continues(k) /\ active = None /\ Warm(k)

Candidate(k, s) == [side |-> s, trigger |-> Close(k)]

\* The candidate of row k and, in the same row, what became of it.
Settle(k, s, type, reason) ==
  /\ events' = Append(Append(events, Note("candidate", Candidate(k, s), Close(k), 0, "none")),
                      Note(type, Candidate(k, s), Close(k), 0, reason))
  /\ UNCHANGED intents

\* An hour whose context does not exist, or has a value that is not
\* positive, counts as missing.
RegimeReject(k, s) ==
  /\ Breakout(k)
  /\ \/ /\ \A h \in PriorHours(k) : ~PreSegment(h) \/ ~IsLastHour(h, k)
        /\ Settle(k, s, "regime_reject", "missing_strict_prior_hour")
     \/ /\ \E h \in PriorHours(k) : IsLastHour(h, k) /\ PreSegment(h)
        /\ Settle(k, s, "regime_reject", "pre_segment_hour")
     \/ /\ \E h \in PriorHours(k) : MayJudge(h, k)
        /\ Settle(k, s, "regime_reject", "hourly_veto")
  /\ UNCHANGED active

ExpansionReject(k, s) ==
  /\ Breakout(k) /\ \E h \in PriorHours(k) : MayJudge(h, k)
  /\ Settle(k, s, "expansion_reject", "thresholds")
  /\ UNCHANGED active

Arm(k, s) ==
  /\ Breakout(k)
  /\ Settle(k, s, "armed_setup", "none")
  /\ \E h \in PriorHours(k) :
       /\ MayJudge(h, k)
       /\ active' = [side |-> s, trigger |-> Close(k), bucket |-> k, index |-> Index, hour |-> h]

--------------------------------------------------------------------------
\* Slip: a setup still armed at the end is dropped.
FinishSilently ==
  /\ ~done /\ done' = TRUE
  /\ active' = None
  /\ UNCHANGED <<rows, invalid, last, segment, events, intents>>

\* The source ends; a setup still armed is reported as pending.
Finish ==
  /\ ~done /\ done' = TRUE
  /\ active' = None
  /\ events' = IF active = None THEN events
               ELSE Append(events, Note("pending_setup", active, Close(last), 0, "source_ended"))
  /\ UNCHANGED <<rows, invalid, last, segment, intents>>

Watch(k) ==
  \/ BoundaryFailure(k) \/ Overextension(k) \/ Expiry(k) \/ Wait(k)
  \/ FlowMismatch(k) \/ RiskGeometryReject(k) \/ EmitIntent(k)

Search(k) ==
  \/ NoCandidate(k)
  \/ \E s \in Side : RegimeReject(k, s) \/ ExpansionReject(k, s) \/ Arm(k, s)

Row(k) == ZeroRow(k) \/ FirstRow(k) \/ Watch(k) \/ Search(k)

Next == Finish \/ \E k \in 0..MaxBucket : Row(k)

Spec == Init /\ [][Next]_vars

--------------------------------------------------------------------------
(* The validator of the evidence, RegimeRetestGenerationEvidence.          *)

ValidElapsed(e) ==
  /\ e.decision - e.trigger >= BucketTime
  /\ (e.decision - e.trigger) % BucketTime = 0
  /\ e.elapsed = (e.decision - e.trigger) \div BucketTime

ValidReset(e) ==
  /\ e.decision > e.trigger
  /\ \/ e.reason = "gap" /\ e.decision % BucketTime = 0
     \/ e.reason = "zero_volume" /\ e.decision % BucketTime = BucketTime - 1

ValidTerminal(e) ==
  \/ e.type \in Failures /\ ValidElapsed(e)
  \/ /\ e.type = "pending_setup" /\ e.reason = "source_ended"
     /\ e.decision >= e.trigger /\ e.decision % BucketTime = BucketTime - 1
  \/ e.type = "state_reset" /\ ValidReset(e)

\* All the events of one setup, in order.
ValidLifecycle(l) ==
  /\ l[1].type = "candidate" /\ l[1].decision = l[1].trigger
  /\ l[1].trigger % BucketTime = BucketTime - 1
  /\ Len(l) > 1 /\ l[2].decision = l[1].trigger
  /\ \/ Len(l) = 2 /\ l[2].type \in Rejects
     \/ Len(l) = 3 /\ l[2].type = "armed_setup" /\ ValidTerminal(l[3])
     \/ /\ Len(l) = 4 /\ l[2].type = "armed_setup"
        /\ l[3].type = "structural_reclaim" /\ l[4].type \in Admissions
        /\ ValidElapsed(l[3]) /\ ValidElapsed(l[4]) /\ l[4].decision = l[3].decision

\* The n-th of the positions P, and the events at P in their order.
Nth(P, n) == CHOOSE i \in {k \in P : Cardinality({j \in P : j <= k}) = n} : TRUE
InOrder(P) == [n \in 1..Cardinality(P) |-> events[Nth(P, n)]]

\* setup_id commits to side and trigger.
SameSetup(e, f) == e.side = f.side /\ e.trigger = f.trigger
SetupAt(e) == {i \in 1..Len(events) : SameSetup(events[i], e)}
Lifecycle(e) == InOrder(SetupAt(e))

\* The counters of one side, and how they must add up.
Count(s, types) == Cardinality({i \in 1..Len(events) : events[i].side = s /\ events[i].type \in types})
Reconciled(s) ==
  /\ Count(s, {"candidate"}) = Count(s, Rejects \cup {"armed_setup"})
  /\ Count(s, {"armed_setup"}) = Count(s, ArmedTerminals \cup {"structural_reclaim"})
  /\ Count(s, {"structural_reclaim"}) = Count(s, Admissions)

\* Emitted events and intents are one to one, in order.
EmittedAt == {i \in 1..Len(events) : events[i].type = "emitted_intent"}
Emitted == InOrder(EmittedAt)
Linked ==
  /\ Len(Emitted) = Len(intents)
  /\ \A i \in 1..Len(intents) :
       intents[i] = [side |-> Emitted[i].side, trigger |-> Emitted[i].trigger,
                     decision |-> Emitted[i].decision]
  /\ \A i, j \in 1..Len(intents) : intents[i] = intents[j] => i = j

Accepted ==
  /\ \A i \in 1..(Len(events) - 1) : events[i].decision <= events[i + 1].decision
  /\ \A i \in 1..Len(events) : ValidLifecycle(Lifecycle(events[i]))
  /\ \A s \in Side : Reconciled(s)
  /\ Linked

--------------------------------------------------------------------------
(* Types and safety.                                                       *)

\* Every variable has its type, and a setup is armed only inside a segment.
TypeOK ==
  /\ rows \subseteq 0..MaxBucket /\ invalid \subseteq rows
  /\ last \in Nat \cup {-1}
  /\ last # -1 => last \in rows
  /\ \A k \in rows : k <= last
  /\ segment \in Nat \cup {None}
  /\ segment # None => segment <= last
  /\ active \in Setup \cup {None}
  /\ active # None => segment # None
  /\ events \in Seq(Event) /\ intents \in Seq(Intent)
  /\ done \in BOOLEAN

\* What the generator hands out passes its own validator, whatever the rows:
\* the evidence constructor never raises on generated evidence
\* (generate_regime_veto_retest_reclaim_evidence, __post_init__).
EvidenceAccepted == done => Accepted

Closing == Rejects \cup ArmedTerminals \cup Admissions

\* f may be the event right after e.
MayFollow(e, f) ==
  \/ /\ e.type = "candidate" /\ f.type \in Rejects \cup {"armed_setup"}
     /\ SameSetup(e, f) /\ f.decision = e.decision
  \/ /\ e.type = "armed_setup" /\ f.type \in ArmedTerminals \cup {"structural_reclaim"}
     /\ SameSetup(e, f) /\ (f.decision > e.decision \/ f.type = "pending_setup")
  \/ /\ e.type = "structural_reclaim" /\ f.type \in Admissions
     /\ SameSetup(e, f) /\ f.decision = e.decision
  \/ e.type \in Closing /\ f.type = "candidate" /\ f.trigger > e.decision

\* Lifecycles never interleave: each candidate is settled once, by the events
\* right after it, and the next candidate comes from a strictly later row than
\* the one that settled it; the inventory is open exactly while a setup is
\* armed, and for that setup.
OneLifecycleAtATime ==
  /\ \A i \in 1..(Len(events) - 1) : MayFollow(events[i], events[i + 1])
  /\ events # <<>> => /\ events[1].type = "candidate"
                      /\ active = None => events[Len(events)].type \in Closing
  /\ active # None => /\ events # <<>>
                      /\ events[Len(events)].type = "armed_setup"
                      /\ SameSetup(events[Len(events)], active)

\* Every row-driven outcome falls within the setup window, and its elapsed
\* count, taken from row positions, is the distance of the bucket times: no
\* gap or invalid row was skipped over while the setup was armed.
ResolvedInTime ==
  \A i \in 1..Len(events) :
    events[i].type \in Failures \cup Admissions \cup {"structural_reclaim"} =>
      /\ events[i].elapsed \in 1..SetupWindow
      /\ events[i].decision = events[i].trigger + BucketTime * events[i].elapsed

\* A setup is judged by the clock hour right before the one its trigger row
\* belongs to, never by an open or an older hour, and every hour the regime
\* looks back on lies in the trigger's own five-minute segment: rows before a
\* gap or a zero minute have no influence (_segments, bisect_left - 1).
HourIsFresh ==
  active # None =>
    /\ active.hour + 1 = active.bucket \div HourBuckets
    /\ \A g \in (active.hour - HourLookback)..active.hour :
         HourOf(g) \subseteq segment..(active.bucket - 1)

--------------------------------------------------------------------------
(* The inductive strengthening of the three invariants above.              *)

\* The segment is a maximal run of positive rows that reaches the last row.
SegmentInv ==
  /\ segment # None => /\ segment..last \subseteq rows \ invalid
                       /\ segment - 1 \notin rows \ invalid
  /\ segment = None => last = -1 \/ last \in invalid

\* The armed setup lives in the segment and is younger than its window.
SetupInv ==
  active # None =>
    /\ active.trigger = Close(active.bucket)
    /\ segment <= active.bucket /\ active.bucket <= last
    /\ Cardinality(rows) - active.index = last - active.bucket + 1
    /\ last - active.bucket < SetupWindow

\* No event is later than the last row.
TipInv ==
  events # <<>> => /\ events[Len(events)].decision <= Close(last)
                  /\ (active # None => events[Len(events)].decision = active.trigger)

RetestInv == /\ TypeOK /\ SegmentInv /\ SetupInv /\ TipInv
             /\ OneLifecycleAtATime /\ ResolvedInTime /\ HourIsFresh

(***************************************************************************)
(* What the acceptance of the evidence needs besides: the inventory is     *)
(* acceptable up to the one lifecycle that is still open.                  *)
(***************************************************************************)

\* The timestamps and the reason each kind of event must carry.
WellTimed(e) ==
  /\ e.trigger % BucketTime = BucketTime - 1 /\ e.trigger <= e.decision
  /\ e.type \in {"candidate", "armed_setup"} \cup Rejects => e.decision = e.trigger
  /\ e.type = "pending_setup" => /\ e.reason = "source_ended"
                                 /\ e.decision % BucketTime = BucketTime - 1
  /\ e.type = "state_reset" => ValidReset(e)

\* Decisions never go back, and a settled setup never returns: every later
\* event was triggered by a row after the one that settled it.
InSequence ==
  \A i, j \in 1..Len(events) : i < j =>
    /\ events[i].decision <= events[j].decision
    /\ events[i].type \in Closing => events[i].decision < events[j].trigger

\* One if the last event is still to be matched by a later one.
Unmatched(s, type) ==
  IF events # <<>> /\ events[Len(events)].side = s /\ events[Len(events)].type = type
  THEN 1 ELSE 0

\* The counters of a side add up, but for the last event.
Tallied(s) ==
  /\ Count(s, {"candidate"}) =
       Count(s, Rejects \cup {"armed_setup"}) + Unmatched(s, "candidate")
  /\ Count(s, {"armed_setup"}) =
       Count(s, ArmedTerminals \cup {"structural_reclaim"}) + Unmatched(s, "armed_setup")
  /\ Count(s, {"structural_reclaim"}) = Count(s, Admissions) + Unmatched(s, "structural_reclaim")

\* A position is emitted for every intent.
EmittedInv == Linked /\ \A n \in 1..Len(intents) : Nth(EmittedAt, n) \in EmittedAt

EvidenceInv == /\ RetestInv
               /\ done => active = None
               /\ \A i \in 1..Len(events) : WellTimed(events[i])
               /\ InSequence
               /\ \A s \in Side : Tallied(s)
               /\ EmittedInv

=============================================================================
