------------------------ MODULE SourceLineageProofs ------------------------
(* Theorems about SourceLineage, for every roster of enabled strategies.   *)
EXTENDS SourceLineage, TLAPS

\* The files of an enabled strategy, and those that the policy digests, are
\* files of the package.
LEMMA FilesOfPackage ==
  ASSUME RosterOK
  PROVE  /\ Digested \subseteq Files
         /\ \A s \in Enabled : Executed(s) \subseteq Files /\ SourceFiles(s) \subseteq Files
<1>1. \A s \in Enabled : SourceFiles(s) \subseteq Files
  BY DEF RosterOK, SourceFiles, Files
<1>2. "right_tail_trend" \in Files
  BY DEF Files, Strategies, Module
<1>3. \A s \in Enabled : Executed(s) \subseteq Files
  BY <1>1, <1>2 DEF Executed, Files
<1>4. Digested \subseteq Files
  BY <1>1 DEF Digested, Files
<1>5. QED
  BY <1>1, <1>3, <1>4

\* The digest of files of the package tells the version of each of them.
LEMMA DigestTells ==
  ASSUME NEW files \in SUBSET Files, installed \in Versions(Files)
  PROVE  /\ Digest(files) \in Versions(files)
         /\ \A f \in files : Digest(files)[f] = installed[f]
BY DEF Digest, Versions

\* The receipts of one bar are of the right type and were made at once.
LEMMA NewReceipts ==
  ASSUME RosterOK, TypeOK, NEW anchor \in Anchors, NEW evaluated \in BOOLEAN,
         NEW r \in Receipts(anchor, evaluated)
  PROVE  /\ r \in Receipt
         /\ \A f \in DOMAIN r.ran \intersect DOMAIN r.policy : r.ran[f] = r.policy[f]
<1>1. PICK s \in Enabled :
        r = [anchor |-> anchor, strategy |-> s, evaluated |-> evaluated, policy |-> Policy,
             code |-> Digest(SourceFiles(s)), ran |-> Digest(Executed(s))]
  BY DEF Receipts
<1>2. installed \in Versions(Files)
  BY DEF TypeOK
<1>3. /\ Policy \in Versions(Digested) /\ Digest(SourceFiles(s)) \in Versions(SourceFiles(s))
      /\ Digest(Executed(s)) \in Versions(Executed(s))
  BY <1>2, FilesOfPackage, DigestTells DEF Policy
<1>4. r \in [anchor : Anchors, strategy : {s}, evaluated : BOOLEAN, policy : Versions(Digested),
             code : Versions(SourceFiles(s)), ran : Versions(Executed(s))]
  BY <1>1, <1>3
<1>5. r \in Receipt
  BY <1>4 DEF Receipt
<1>6. DOMAIN r.ran = Executed(s) /\ DOMAIN r.policy = Digested
  BY <1>1 DEF Policy, Digest
<1>7. \A f \in Executed(s) : r.ran[f] = installed[f]
  BY <1>1 DEF Digest
<1>8. \A f \in Digested : r.policy[f] = installed[f]
  BY <1>1 DEF Policy, Digest
<1>9. QED
  BY <1>5, <1>6, <1>7, <1>8

LEMMA LineageInit ==
  ASSUME RosterOK, Init
  PROVE  LineageInv
<1>1. installed \in Versions(Files)
  BY DEF RosterOK, Init, Versions
<1>2. QED
  BY <1>1 DEF Init, LineageInv, TypeOK, MadeAtOnce, RestoredUnderPolicy

\* Only the receipts of the policy are restored, and the package stays what it
\* is until the process is down and what it restored is forgotten.
LEMMA LineageStep ==
  ASSUME RosterOK, LineageInv, [Next]_vars
  PROVE  LineageInv'
<1> USE DEF LineageInv
<1>1. ASSUME UNCHANGED vars PROVE LineageInv'
  BY <1>1 DEF vars, TypeOK, MadeAtOnce, RestoredUnderPolicy, Policy, Digest
<1>2. ASSUME NEW f \in Files, Upgrade(f) PROVE LineageInv'
  <2>1. installed' \in Versions(Files)
    BY <1>2 DEF RosterOK, Upgrade, TypeOK, Versions
  <2>2. restored' = {} /\ saved' = saved /\ running' = running
    BY <1>2 DEF Upgrade, RestoredUnderPolicy
  <2>3. QED
    BY <2>1, <2>2 DEF TypeOK, MadeAtOnce, RestoredUnderPolicy
<1>3. ASSUME Start \/ Stop PROVE LineageInv'
  BY <1>3 DEF Start, Stop, TypeOK, MadeAtOnce, RestoredUnderPolicy
<1>4. ASSUME NEW anchor \in Anchors, NEW evaluated \in BOOLEAN,
             saved' = saved \union Receipts(anchor, evaluated),
             UNCHANGED <<installed, running, restored>>
      PROVE  LineageInv'
  <2>1. \A r \in saved' : r \in Receipt
    BY <1>4, NewReceipts DEF TypeOK
  <2>2. MadeAtOnce'
    BY <1>4, NewReceipts DEF MadeAtOnce
  <2>3. TypeOK'
    BY <1>4, <2>1 DEF TypeOK
  <2>4. RestoredUnderPolicy'
    BY <1>4 DEF RestoredUnderPolicy, Policy, Digest
  <2>5. QED
    BY <2>2, <2>3, <2>4
<1>5. ASSUME NEW anchor \in Anchors, Restore(anchor) PROVE LineageInv'
  <2>1. \A r \in restored' \ restored : r \in saved /\ r.policy = Policy
    BY <1>5 DEF Restore, SavedBatch
  <2>2. UNCHANGED <<installed, running, saved>> /\ running /\ Policy' = Policy
    BY <1>5 DEF Restore, Policy, Digest
  <2>3. QED
    BY <2>1, <2>2 DEF TypeOK, MadeAtOnce, RestoredUnderPolicy
<1>6. QED
  BY <1>1, <1>2, <1>3, <1>4, <1>5 DEF Next, Evaluate, RecordUnavailable

LEMMA LineageInvariant ==
  ASSUME RosterOK
  PROVE  Spec => []LineageInv
<1>1. Init => LineageInv
  BY LineageInit
<1>2. LineageInv /\ [Next]_vars => LineageInv'
  BY LineageStep
<1>3. QED
  BY <1>1, <1>2, PTL DEF Spec

\* A receipt restored under the policy of the installed package ran the
\* installed version of every file that this policy digests.
LEMMA PolicyTells ==
  ASSUME LineageInv, NEW r \in restored, NEW f \in Executed(r.strategy) \intersect Digested
  PROVE  r.ran[f] = installed[f]
<1>1. r \in saved /\ r \in Receipt /\ r.policy = Policy
  BY DEF LineageInv, TypeOK, RestoredUnderPolicy
<1>2. PICK s \in Enabled :
        r \in [anchor : Anchors, strategy : {s}, evaluated : BOOLEAN, policy : Versions(Digested),
               code : Versions(SourceFiles(s)), ran : Versions(Executed(s))]
  BY <1>1 DEF Receipt
<1>3. DOMAIN r.ran = Executed(r.strategy) /\ DOMAIN r.policy = Digested
  BY <1>2 DEF Versions
<1>4. r.ran[f] = r.policy[f]
  BY <1>1, <1>3 DEF LineageInv, MadeAtOnce
<1>5. QED
  BY <1>1, <1>4 DEF Policy, Digest

\* Every restored evaluation was produced by the installed version of every
\* file that the policy digests (_saved_batch selects by the policy).
THEOREM DigestedSourceIsKept ==
  ASSUME RosterOK
  PROVE  Spec => []DigestedSourceIsInstalled
<1>1. LineageInv => DigestedSourceIsInstalled
  BY PolicyTells DEF DigestedSourceIsInstalled
<1>2. QED
  BY <1>1, LineageInvariant, PTL

\* What the documents say of changed source holds of every roster that
\* enables right_tail_trend_v1 as well, or not the aligned sleeve: then the
\* policy digests everything that an evaluation executes.
THEOREM WithoutHiddenImport ==
  ASSUME RosterOK,
         "right_tail_trend_v1" \in Enabled \/ "regime_aligned_right_tail_v1" \notin Enabled
  PROVE  Spec => []RestoredSourceIsInstalled
<1>1. ASSUME NEW s \in Enabled PROVE Executed(s) \subseteq Digested
  <2>1. SourceFiles(s) \subseteq Digested
    BY <1>1 DEF Digested
  <2>2. ASSUME s = "regime_aligned_right_tail_v1" PROVE "right_tail_trend" \in Digested
    <3>1. "right_tail_trend" \in SourceFiles("right_tail_trend_v1")
      BY DEF SourceFiles, Module
    <3>2. QED
      BY <1>1, <2>2, <3>1 DEF Digested
  <2>3. QED
    BY <2>1, <2>2 DEF Executed, Digested
<1>2. ASSUME LineageInv PROVE RestoredSourceIsInstalled
  <2>1. SUFFICES ASSUME NEW r \in restored PROVE r.ran = Digest(Executed(r.strategy))
    BY DEF RestoredSourceIsInstalled
  <2>2. r \in Receipt
    BY <1>2 DEF LineageInv, TypeOK
  <2>3. PICK s \in Enabled :
          r \in [anchor : Anchors, strategy : {s}, evaluated : BOOLEAN, policy : Versions(Digested),
                 code : Versions(SourceFiles(s)), ran : Versions(Executed(s))]
    BY <2>2 DEF Receipt
  <2>4. r.strategy \in Enabled /\ r.ran \in Versions(Executed(r.strategy))
    BY <2>3
  <2>5. \A f \in Executed(r.strategy) : r.ran[f] = installed[f]
    BY <1>1, <1>2, <2>4, PolicyTells
  <2>6. QED
    BY <2>4, <2>5 DEF Versions, Digest
<1>3. QED
  BY <1>2, LineageInvariant, PTL
=============================================================================
