--------------------------- MODULE SourceLineage ---------------------------
(***************************************************************************)
(* Which installed source a saved receipt vouches for.  A receipt carries  *)
(* the digest of its strategy's source_files (registry.py, provenance.py)  *)
(* and the digest of the runtime policy; a process that starts again looks *)
(* for receipts of its own policy and accepts them if the strategy's       *)
(* digest is still the installed one (service.py, runtime_evaluation.py).  *)
(*                                                                         *)
(* A digest is modelled by what goes into it: the versions of its files.   *)
(* The package is upgraded only while the process is down, so the digest,  *)
(* which is read from the files, is that of the code that runs.            *)
(***************************************************************************)
EXTENDS Naturals, FiniteSets

CONSTANTS
  Enabled,     \* enabled strategies
  Anchors,     \* identities of bars
  MaxVersion   \* bound on the upgrades of a file

\* The module_name that _DEFINITIONS registers for each strategy.
Module ==
  [regime_aligned_right_tail_v1      |-> "regime_aligned_right_tail",
   right_tail_trend_v1               |-> "right_tail_trend",
   quarter_hour_flow_v1              |-> "quarter_hour_flow",
   orderflow_volatility_expansion_v1 |-> "orderflow_volatility_expansion",
   range_mean_reversion_v1           |-> "range_mean_reversion",
   regime_veto_retest_reclaim_v1     |-> "regime_retest_reclaim",
   trend_breakout_v1                 |-> "trend_breakout",
   trend_pullback_reclaim_v1         |-> "trend_pullback_reclaim"]

Strategies == DOMAIN Module

\* The files of the package that take part: `common` is every file of
\* _COMMON_SOURCE_FILES, `evaluator` the five files of the runtime policy,
\* and the modules of the strategies have their names.
Files == {Module[s] : s \in Strategies} \union {"common", "evaluator"}

\* source_files of a definition: the common files and its own module.
SourceFiles(s) == {"common", Module[s]}

\* The settings accept registered strategies only (get_runtime_requirements).
RosterOK == Enabled \subseteq Strategies /\ MaxVersion \in Nat

\* What one evaluation of the strategy executes: the evaluator, the files of
\* its definition, and for the aligned sleeve the generator of
\* right_tail_trend.
Executed(s) ==
  {"evaluator"} \union SourceFiles(s)
    \union (IF s = "regime_aligned_right_tail_v1" THEN {"right_tail_trend"} ELSE {})

Versions(files) == [files -> 0..MaxVersion]

VARIABLES
  installed,  \* version of each file of the package
  running,    \* whether the process is up
  saved,      \* receipts in event_audit
  restored    \* receipts this process accepted in place of an evaluation

vars == <<installed, running, saved, restored>>

--------------------------------------------------------------------------
Digest(files) == [f \in files |-> installed[f]]

\* runtime_evaluation_policy_sha256, of the settings that may differ only the
\* enabled strategies, which are fixed here.
Digested == {"evaluator"} \union UNION {SourceFiles(s) : s \in Enabled}
Policy == Digest(Digested)

\* `ran` is not part of a receipt: it remembers the code that produced it.
Receipts(anchor, evaluated) ==
  {[anchor |-> anchor, strategy |-> s, evaluated |-> evaluated, policy |-> Policy,
    code |-> Digest(SourceFiles(s)), ran |-> Digest(Executed(s))] : s \in Enabled}

\* _saved_batch: the complete roster of the exact anchor and policy.
SavedBatch(anchor) == {r \in saved : r.anchor = anchor /\ r.policy = Policy}

\* validate_runtime_evaluation_provenance.
Installed(r) == r.code = Digest(SourceFiles(r.strategy))

--------------------------------------------------------------------------
Init == installed = [f \in Files |-> 0] /\ running = FALSE /\ saved = {} /\ restored = {}

\* A new version of one file, while the process is down.
Upgrade(f) ==
  /\ ~running /\ installed[f] < MaxVersion
  /\ installed' = [installed EXCEPT ![f] = @ + 1]
  /\ UNCHANGED <<running, saved, restored>>

Start == ~running /\ running' = TRUE /\ restored' = {} /\ UNCHANGED <<installed, saved>>

Stop == running /\ running' = FALSE /\ restored' = {} /\ UNCHANGED <<installed, saved>>

\* A new bar is evaluated.
Evaluate(anchor) ==
  /\ running /\ \A r \in saved : r.anchor # anchor
  /\ saved' = saved \union Receipts(anchor, TRUE)
  /\ UNCHANGED <<installed, running, restored>>

\* A bar of the restored window for which this policy saved nothing is
\* recorded as UNAVAILABLE.
RecordUnavailable(anchor) ==
  /\ running /\ SavedBatch(anchor) = {}
  /\ saved' = saved \union Receipts(anchor, FALSE)
  /\ UNCHANGED <<installed, running, restored>>

\* A restored anchor is answered by the saved receipts if all of them hold,
\* otherwise the delivery fails.
Restore(anchor) ==
  /\ running /\ SavedBatch(anchor) # {}
  /\ {r.strategy : r \in SavedBatch(anchor)} = Enabled
  /\ Cardinality(SavedBatch(anchor)) = Cardinality(Enabled)
  /\ \A r \in SavedBatch(anchor) : Installed(r)
  /\ restored' = restored \union SavedBatch(anchor)
  /\ UNCHANGED <<installed, running, saved>>

Next ==
  \/ \E f \in Files : Upgrade(f)
  \/ Start \/ Stop
  \/ \E anchor \in Anchors : Evaluate(anchor) \/ RecordUnavailable(anchor) \/ Restore(anchor)

Spec == Init /\ [][Next]_vars

--------------------------------------------------------------------------
(* Types and safety.                                                       *)

Receipt ==
  UNION {[anchor : Anchors, strategy : {s}, evaluated : BOOLEAN, policy : Versions(Digested),
          code : Versions(SourceFiles(s)), ran : Versions(Executed(s))] : s \in Enabled}

TypeOK ==
  /\ installed \in Versions(Files) /\ running \in BOOLEAN
  /\ saved \subseteq Receipt /\ restored \subseteq saved

\* A receipt was made at one time: what ran is what the policy digests.
MadeAtOnce ==
  \A r \in saved : \A f \in DOMAIN r.ran \intersect DOMAIN r.policy : r.ran[f] = r.policy[f]

\* A process only restores under the policy of the installed package.
RestoredUnderPolicy ==
  /\ ~running => restored = {}
  /\ \A r \in restored : r.policy = Policy

LineageInv == TypeOK /\ MadeAtOnce /\ RestoredUnderPolicy

\* Changed source does not pass as a quiet evaluation
\* (docs/RUNTIME-EVALUATIONS.md:80-82): a receipt of an evaluation that is
\* accepted in place of a new one was produced by the source that is installed.
RestoredSourceIsInstalled ==
  \A r \in restored : r.evaluated => r.ran = Digest(Executed(r.strategy))

\* What does hold of them: every file that the policy of this process digests
\* is installed in the version that ran, whichever strategy it belongs to.
\* So only an import that no enabled strategy is fingerprinted by may differ:
\* right_tail_trend, unless right_tail_trend_v1 is enabled beside the aligned
\* sleeve (registry.py:133-160, runtime_evaluation.py:37-60).
DigestedSourceIsInstalled ==
  \A r \in restored : r.evaluated =>
    \A f \in Executed(r.strategy) \intersect Digested : r.ran[f] = installed[f]
=============================================================================
