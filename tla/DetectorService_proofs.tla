----------------------- MODULE DetectorService_proofs ------------------------
(***************************************************************************)
(* Proofs about DetectorService, for every thread pool, batch size, number  *)
(* of requests, overwrites and restarts, and set of baked artifacts.        *)
(***************************************************************************)
EXTENDS DetectorService, FiniteSetTheorems, SequenceTheorems, TLAPS

Loaded == Versions \cup {None}

-----------------------------------------------------------------------------
(* Loaders.                                                                 *)

\* What the loaders return is a version or None, from either directory.
LEMMA ReadTyped ==
    ASSUME DiskOK, NEW a \in Artifacts, NEW src \in {"live", "baked"}
    PROVE  read(a, src) \in Loaded
  BY ConstantsAssumption
  DEF DiskOK, read, load, baked, File, Versions, Loaded

\* A start-up installs components of the right types.
LEMMA DiskTyped ==
    ASSUME DiskOK
    PROVE  /\ disk_bundle \in Loaded /\ disk_triage \in Loaded
           /\ disk_noise \in Filter /\ disk_policy \in Filter
           /\ resolve("model") \in {"live", "baked"}
  <1>1. /\ \A a \in Artifacts : resolve(a) \in {"live", "baked"}
        /\ resolve_noise \in {"live", "baked"}
    BY DEF resolve, resolve_noise
  <1>2. /\ disk_bundle \in Loaded /\ disk_triage \in Loaded
        /\ read("noise_model", resolve_noise) \in Loaded
        /\ read("noise_baseline", resolve_noise) \in Loaded
        /\ read("policy", resolve("policy")) \in Loaded
        /\ read("noise_baseline", resolve("noise_baseline")) \in Loaded
    BY <1>1, ReadTyped DEF disk_bundle, disk_triage, Artifacts
  <1>3. disk_noise \in Filter /\ disk_policy \in Filter
    BY <1>2 DEF disk_noise, disk_policy, NoiseFilter, PolicyFilter, Disabled,
                Filter, Loaded
  <1> QED BY <1>1, <1>2, <1>3 DEF Artifacts

-----------------------------------------------------------------------------
(* Rows.                                                                    *)

\* The annotations keep the rows a sequence of rows of the same length.
LEMMA AnnotatedRows ==
    ASSUME NEW rs \in Seq(Row), NEW supp, NEW act \in [DOMAIN rs -> Escalations]
    PROVE  /\ NoiseAnnotated(rs, supp) \in Seq(Row)
           /\ PolicyAnnotated(rs, act) \in Seq(Row)
           /\ DOMAIN NoiseAnnotated(rs, supp) = DOMAIN rs
           /\ DOMAIN PolicyAnnotated(rs, act) = DOMAIN rs
  <1>1. Len(rs) \in Nat /\ DOMAIN rs = 1..Len(rs) /\ rs \in [1..Len(rs) -> Row]
    BY LenProperties
  <1>2. ASSUME NEW i \in 1..Len(rs)
        PROVE  /\ [rs[i] EXCEPT !.suppressed = i \in supp] \in Row
               /\ [rs[i] EXCEPT !.policy_action =
                      IF ~rs[i].is_anomaly THEN None
                      ELSE IF rs[i].suppressed THEN "suppress"
                      ELSE IF policy.enabled THEN act[i]
                      ELSE None] \in Row
    <2>1. rs[i] \in Row /\ act[i] \in Actions \cup {None}
      BY <1>1 DEF Escalations, Actions
    <2>2. (i \in supp) \in BOOLEAN
      OBVIOUS
    <2> QED BY <2>1, <2>2 DEF Row, Actions
  <1>3. /\ NoiseAnnotated(rs, supp) \in [1..Len(rs) -> Row]
        /\ PolicyAnnotated(rs, act) \in [1..Len(rs) -> Row]
    BY <1>1, <1>2 DEF NoiseAnnotated, PolicyAnnotated
  <1>4. [1..Len(rs) -> Row] \subseteq Seq(Row)
    BY <1>1, SeqDef
  <1> QED BY <1>1, <1>3, <1>4 DEF NoiseAnnotated, PolicyAnnotated

\* Annotating a non-empty batch leaves it non-empty.
LEMMA AnnotatedNonempty ==
    ASSUME NEW rs \in Seq(Row), rs # <<>>
    PROVE  /\ \A supp : /\ NoiseAnnotated(rs, supp) \in Seq(Row)
                        /\ NoiseAnnotated(rs, supp) # <<>>
           /\ \A act \in [DOMAIN rs -> Escalations] :
                 /\ PolicyAnnotated(rs, act) \in Seq(Row)
                 /\ PolicyAnnotated(rs, act) # <<>>
  <1>1. Len(rs) \in Nat \ {0} /\ DOMAIN rs = 1..Len(rs)
    BY EmptySeq, LenProperties
  <1>2. 1 \in DOMAIN rs
    BY <1>1
  <1>3. PICK wait \in [DOMAIN rs -> Escalations] : TRUE
    <2>1. [i \in DOMAIN rs |-> "wait"] \in [DOMAIN rs -> Escalations]
      BY DEF Escalations
    <2> QED BY <2>1
  <1>4. ASSUME NEW supp
        PROVE  NoiseAnnotated(rs, supp) \in Seq(Row) /\ NoiseAnnotated(rs, supp) # <<>>
    BY <1>2, <1>3, AnnotatedRows
  <1>5. ASSUME NEW act \in [DOMAIN rs -> Escalations]
        PROVE  PolicyAnnotated(rs, act) \in Seq(Row) /\ PolicyAnnotated(rs, act) # <<>>
    <2>1. /\ PolicyAnnotated(rs, act) \in Seq(Row)
          /\ DOMAIN PolicyAnnotated(rs, act) = DOMAIN rs
      <3> DEFINE none == {}
      <3> HIDE DEF none
      <3>1. /\ NoiseAnnotated(rs, none) \in Seq(Row)
            /\ PolicyAnnotated(rs, act) \in Seq(Row)
            /\ DOMAIN PolicyAnnotated(rs, act) = DOMAIN rs
        BY AnnotatedRows
      <3> QED BY <3>1
    <2> QED BY <1>2, <2>1
  <1> QED BY <1>4, <1>5

\* score_frame yields rows.
LEMMA ScoredRowsTyped == ScoredRows \subseteq Row
  <1> SUFFICES ASSUME NEW s \in Scores, NEW b \in BOOLEAN
               PROVE  ScoredRow(s, b) \in Row
    BY DEF ScoredRows
  <1>1. (s >= Threshold \/ b) \in BOOLEAN
    OBVIOUS
  <1> QED BY <1>1 DEF ScoredRow, Row

\* The counts of _Metrics.observe are naturals.
LEMMA CountsTyped ==
    ASSUME NEW rs \in Seq(Row)
    PROVE  /\ IsFiniteSet(DOMAIN rs) /\ Cardinality(DOMAIN rs) = Len(rs)
           /\ IsFiniteSet(Anomalous(rs)) /\ Cardinality(Anomalous(rs)) \in Nat
           /\ IsFiniteSet(Suppressed(rs)) /\ Cardinality(Suppressed(rs)) \in Nat
           /\ \A a : /\ IsFiniteSet(WithAction(rs, a))
                     /\ Cardinality(WithAction(rs, a)) \in Nat
  <1>1. Len(rs) \in Nat /\ DOMAIN rs = 1..Len(rs)
    BY LenProperties
  <1>2. IsFiniteSet(DOMAIN rs) /\ Cardinality(DOMAIN rs) = Len(rs)
    BY <1>1, FS_Interval
  <1>3. ASSUME NEW T \in SUBSET DOMAIN rs
        PROVE  IsFiniteSet(T) /\ Cardinality(T) \in Nat
    BY <1>2, FS_Subset, FS_CardinalityType
  <1> QED BY <1>2, <1>3 DEF Anomalous, Suppressed, WithAction

-----------------------------------------------------------------------------
(* Types.  TypeOK needs two facts to be inductive: a file is torn only once *)
(* an overwrite began, and the pipeline of annotations never sees an empty  *)
(* batch.                                                                   *)

TornWritten == \A a \in Artifacts : live[a] = Torn => writes >= 1

Batched == \A t \in Threads :
              pc[t] \in {"noise", "policy", "observe"} => rows[t] # <<>>

Typed == TypeOK /\ TornWritten /\ Batched

\* A reply resets the thread.
LEMMA ReplyTyped ==
    ASSUME ThreadsOK, Batched, NEW t \in Threads, NEW status \in {"200", "503", "500"},
           Reply(t, status)
    PROVE  ThreadsOK' /\ Batched'
  <1>1. <<>> \in Seq(Row)
    BY EmptySeq
  <1>2. Nothing \in Local
    BY DEF Nothing, Local
  <1> QED BY <1>1, <1>2 DEF ThreadsOK, Batched, Reply, Goto, Pcs

\* A step that moves one thread, past the loop of a batch or to code that does
\* not look at the rows, and keeps them.
LEMMA GotoTyped ==
    ASSUME ThreadsOK, Batched, NEW t \in Threads,
           NEW l \in Pcs \ {"noise", "policy", "observe"}, Goto(t, l),
           UNCHANGED <<kind, rows, idx, tmp, reply>>
    PROVE  ThreadsOK' /\ Batched'
  BY DEF ThreadsOK, Batched, Goto

\* A step of /reload reads a file into the thread's locals.
LEMMA ReadStepTyped ==
    ASSUME ThreadsOK, Batched, NEW t \in Threads, NEW from,
           NEW to \in Pcs \ {"noise", "policy", "observe"},
           NEW v \in Loaded, NEW src \in {"live", "baked"}, NEW base \in Loaded,
           ReadStep(t, from, to, v, src, base)
    PROVE  ThreadsOK' /\ Batched'
  <1>1. [val |-> v, src |-> src, base |-> base] \in Local
    BY DEF Local, Loaded
  <1> QED BY <1>1 DEF ReadStep, Goto, Keep, ThreadsOK, Batched

\* The steps of /detect, /detect/batch and /triage keep the types.
LEMMA ServeTyped ==
    ASSUME Typed, NEW t \in Threads,
           \/ RequireModel(t) \/ ReturnBundle(t) \/ Score(t)
           \/ NoiseAnnotate(t) \/ PolicyAnnotate(t) \/ Observe(t)
           \/ TriageReady(t) \/ TriageDecide(t) \/ TriageDone(t) \/ Archive(t)
           \/ Status(t) \/ ModelName(t)
    PROVE  Typed'
  <1> USE DEF Typed, TypeOK
  <1>1. CASE RequireModel(t)
    <2>1. DiskOK' /\ GlobalsOK' /\ MetricsOK' /\ TornWritten'
      BY <1>1 DEF RequireModel, disk, globals, metrics, observed, DiskOK,
                  GlobalsOK, MetricsOK, TornWritten
    <2>2. ThreadsOK' /\ Batched'
      BY <1>1, ReplyTyped, GotoTyped DEF RequireModel, Pcs
    <2> QED BY <2>1, <2>2
  <1>2. CASE ReturnBundle(t)
    <2>1. DiskOK' /\ GlobalsOK' /\ MetricsOK' /\ TornWritten'
      BY <1>2 DEF ReturnBundle, disk, globals, metrics, observed, DiskOK,
                  GlobalsOK, MetricsOK, TornWritten
    <2>2. [val |-> bundle, src |-> "baked", base |-> None] \in Local
      BY DEF Local, GlobalsOK
    <2>3. ThreadsOK' /\ Batched'
      <3>1. CASE Reply(t, "200")
        BY <3>1, ReplyTyped
      <3>2. CASE /\ Keep(t, bundle, "baked", None)
                 /\ Goto(t, IF kind[t] = "triage" THEN "ready" ELSE "score")
                 /\ UNCHANGED <<kind, rows, idx, reply>>
        <4>1. pc' = [pc EXCEPT ![t] = "ready"] \/ pc' = [pc EXCEPT ![t] = "score"]
          BY <3>2 DEF Goto
        <4>2. tmp' \in [Threads -> Local]
          BY <2>2, <3>2 DEF Keep, ThreadsOK
        <4>3. pc' \in [Threads -> Pcs]
          BY <4>1 DEF ThreadsOK, Pcs
        <4> QED BY <3>2, <4>1, <4>2, <4>3 DEF ThreadsOK, Batched
      <3> QED BY <1>2, <3>1, <3>2 DEF ReturnBundle
    <2> QED BY <2>1, <2>3
  <1>3. CASE Score(t)
    <2>1. DiskOK' /\ GlobalsOK' /\ MetricsOK' /\ TornWritten'
      BY <1>3 DEF Score, disk, globals, metrics, observed, DiskOK,
                  GlobalsOK, MetricsOK, TornWritten
    <2>2. ASSUME NEW n \in 1..(IF kind[t] = "batch" THEN MaxBatch ELSE 1),
                 NEW rs \in [1..n -> ScoredRows]
          PROVE  rs \in Seq(Row) /\ rs # <<>>
      <3>1. n \in Nat /\ n >= 1
        BY ConstantsAssumption
      <3>2. rs \in [1..n -> Row] /\ DOMAIN rs = 1..n
        BY ScoredRowsTyped
      <3>3. rs \in Seq(Row)
        BY <3>1, <3>2, SeqDef
      <3>4. 1 \in DOMAIN rs
        BY <3>1, <3>2
      <3> QED BY <3>3, <3>4
    <2>3. ThreadsOK' /\ Batched'
      <3>1. CASE tmp[t].val = None
        BY <1>3, <3>1, ReplyTyped DEF Score
      <3>2. CASE tmp[t].val # None
        <4>1. PICK n \in 1..(IF kind[t] = "batch" THEN MaxBatch ELSE 1) :
                 \E rs \in [1..n -> ScoredRows] : rows' = [rows EXCEPT ![t] = rs]
          BY <1>3, <3>2 DEF Score
        <4>2. PICK rs \in [1..n -> ScoredRows] : rows' = [rows EXCEPT ![t] = rs]
          BY <4>1
        <4>3. rs \in Seq(Row) /\ rs # <<>>
          BY <2>2
        <4> QED BY <1>3, <3>2, <4>2, <4>3 DEF Score, Goto, Pcs, ThreadsOK, Batched
      <3> QED BY <3>1, <3>2
    <2> QED BY <2>1, <2>3
  <1>4. CASE NoiseAnnotate(t)
    <2>1. DiskOK' /\ GlobalsOK' /\ MetricsOK' /\ TornWritten'
      BY <1>4 DEF NoiseAnnotate, disk, globals, metrics, observed, DiskOK,
                  GlobalsOK, MetricsOK, TornWritten
    <2>2. PICK supp : rows' = [rows EXCEPT ![t] = NoiseAnnotated(rows[t], supp)]
      BY <1>4 DEF NoiseAnnotate
    <2>3. NoiseAnnotated(rows[t], supp) \in Seq(Row)
          /\ NoiseAnnotated(rows[t], supp) # <<>>
      <3>1. rows[t] \in Seq(Row) /\ rows[t] # <<>>
        BY <1>4 DEF NoiseAnnotate, Batched, ThreadsOK
      <3> QED BY <3>1, AnnotatedNonempty
    <2>4. ThreadsOK' /\ Batched'
      BY <1>4, <2>2, <2>3 DEF NoiseAnnotate, Goto, Pcs, ThreadsOK, Batched
    <2> QED BY <2>1, <2>4
  <1>5. CASE PolicyAnnotate(t)
    <2>1. DiskOK' /\ GlobalsOK' /\ MetricsOK' /\ TornWritten'
      BY <1>5 DEF PolicyAnnotate, disk, globals, metrics, observed, DiskOK,
                  GlobalsOK, MetricsOK, TornWritten
    <2>2. PICK act \in [DOMAIN rows[t] -> Escalations] :
              rows' = [rows EXCEPT ![t] = PolicyAnnotated(rows[t], act)]
      BY <1>5 DEF PolicyAnnotate
    <2>3. PolicyAnnotated(rows[t], act) \in Seq(Row)
          /\ PolicyAnnotated(rows[t], act) # <<>>
      <3>1. rows[t] \in Seq(Row) /\ rows[t] # <<>>
        BY <1>5 DEF PolicyAnnotate, Batched, ThreadsOK
      <3> QED BY <3>1, AnnotatedNonempty
    <2>4. ThreadsOK' /\ Batched'
      BY <1>5, <2>2, <2>3 DEF PolicyAnnotate, Goto, Pcs, ThreadsOK, Batched
    <2> QED BY <2>1, <2>4
  <1>6. CASE Observe(t)
    <2>1. DiskOK' /\ GlobalsOK' /\ TornWritten'
      BY <1>6 DEF Observe, disk, globals, DiskOK, GlobalsOK, TornWritten
    <2>2. rows[t] \in Seq(Row) /\ rows[t] # <<>>
      BY <1>6 DEF Observe, Batched, ThreadsOK
    <2>3. /\ Len(rows[t]) \in Nat /\ Len(rows[t]) \in DOMAIN rows[t]
          /\ \A i \in DOMAIN rows[t] : rows[t][i].score \in Nat
      <3>1. Len(rows[t]) \in Nat \ {0} /\ DOMAIN rows[t] = 1..Len(rows[t])
        BY <2>2, EmptySeq, LenProperties
      <3>2. \A i \in 1..Len(rows[t]) : rows[t][i] \in Row
        BY <2>2, ElementOfSeq
      <3>3. \A r \in Row : r.score \in Nat
        BY ConstantsAssumption DEF Row
      <3>4. Len(rows[t]) \in 1..Len(rows[t])
        BY <3>1
      <3> QED BY <3>1, <3>2, <3>3, <3>4
    <2>4. MetricsOK'
      <3>1. PICK i \in Highest(rows[t]) :
               max_score' = IF rows[t][i].score > max_score
                            THEN rows[t][i].score ELSE max_score
        BY <1>6 DEF Observe
      <3>2. max_score' \in Nat /\ last_score' \in Nat
        <4>1. i \in DOMAIN rows[t]
          BY <3>1 DEF Highest
        <4>2. rows[t][i].score \in Nat /\ rows[t][Len(rows[t])].score \in Nat
          BY <2>3, <4>1
        <4>3. last_score' = rows[t][Len(rows[t])].score
          BY <1>6 DEF Observe
        <4> QED BY <3>1, <4>2, <4>3 DEF MetricsOK
      <3>3. total_scored' \in Nat /\ total_anomalies' \in Nat /\ total_suppressed' \in Nat
        <4>1. /\ Cardinality(Anomalous(rows[t])) \in Nat
              /\ Cardinality(Suppressed(rows[t])) \in Nat
          BY <2>2, CountsTyped
        <4>2. /\ total_scored' = total_scored + Len(rows[t])
              /\ total_anomalies' = total_anomalies + Cardinality(Anomalous(rows[t]))
              /\ total_suppressed' = total_suppressed + Cardinality(Suppressed(rows[t]))
          BY <1>6 DEF Observe
        <4>3. total_scored \in Nat /\ total_anomalies \in Nat /\ total_suppressed \in Nat
          BY DEF MetricsOK
        <4>4. Len(rows[t]) \in Nat
          BY <2>3
        <4> HIDE DEF Typed, TypeOK
        <4> QED BY <4>1, <4>2, <4>3, <4>4
      <3>4. policy_actions' \in [Actions -> Nat]
        <4>1. \A a : Cardinality(WithAction(rows[t], a)) \in Nat
          BY <2>2, CountsTyped
        <4> QED BY <1>6, <4>1 DEF Observe, MetricsOK
      <3>5. UNCHANGED <<triage_actions, archived, requests>>
        BY <1>6 DEF Observe
      <3> QED BY <3>2, <3>3, <3>4, <3>5 DEF MetricsOK
    <2>5. ThreadsOK' /\ Batched'
      BY <1>6, GotoTyped DEF Observe, Pcs
    <2> QED BY <2>1, <2>4, <2>5
  <1>7. CASE TriageReady(t)
    <2>1. DiskOK' /\ GlobalsOK' /\ MetricsOK' /\ TornWritten'
      BY <1>7 DEF TriageReady, disk, globals, metrics, observed, DiskOK,
                  GlobalsOK, MetricsOK, TornWritten
    <2>2. ThreadsOK' /\ Batched'
      BY <1>7, ReplyTyped, GotoTyped DEF TriageReady, Pcs
    <2> QED BY <2>1, <2>2
  <1>8. CASE TriageDecide(t)
    <2>1. DiskOK' /\ GlobalsOK' /\ TornWritten'
      BY <1>8 DEF TriageDecide, disk, globals, DiskOK, GlobalsOK, TornWritten
    <2>2. PICK i \in Undecided(t) :
             IF triage = None
             THEN Reply(t, "500") /\ UNCHANGED triage_actions
             ELSE /\ \E a \in Actions :
                        triage_actions' = [triage_actions EXCEPT ![a] = @ + 1]
                  /\ idx' = [idx EXCEPT ![t] = i + 1]
                  /\ UNCHANGED <<pc, kind, rows, tmp, reply>>
      BY <1>8 DEF TriageDecide
    <2>3. MetricsOK'
      BY <1>8, <2>2 DEF TriageDecide, observed, MetricsOK
    <2>4. i \in Nat
      <3>1. rows[t] \in Seq(Row)
        BY DEF ThreadsOK
      <3>2. DOMAIN rows[t] = 1..Len(rows[t]) /\ Len(rows[t]) \in Nat
        BY <3>1, LenProperties
      <3> QED BY <3>2 DEF Undecided
    <2>5. ThreadsOK' /\ Batched'
      <3>1. CASE triage = None
        BY <2>2, <3>1, ReplyTyped
      <3>2. CASE triage # None
        <4>1. idx' = [idx EXCEPT ![t] = i + 1] /\ UNCHANGED <<pc, kind, rows, tmp, reply>>
          BY <2>2, <3>2
        <4>2. i + 1 \in Nat
          BY <2>4
        <4>3. idx' \in [Threads -> Nat]
          BY <4>1, <4>2 DEF ThreadsOK
        <4> QED BY <4>1, <4>3 DEF ThreadsOK, Batched
      <3> QED BY <3>1, <3>2
    <2> QED BY <2>1, <2>3, <2>5
  <1>9. CASE TriageDone(t)
    <2>1. DiskOK' /\ GlobalsOK' /\ MetricsOK' /\ TornWritten'
      BY <1>9 DEF TriageDone, disk, globals, metrics, observed, DiskOK,
                  GlobalsOK, MetricsOK, TornWritten
    <2>2. ThreadsOK' /\ Batched'
      BY <1>9, ReplyTyped, GotoTyped DEF TriageDone, Pcs
    <2> QED BY <2>1, <2>2
  <1>10. CASE Archive(t)
    <2>1. DiskOK' /\ GlobalsOK' /\ TornWritten'
      BY <1>10 DEF Archive, disk, globals, DiskOK, GlobalsOK, TornWritten
    <2>2. Len(rows[t]) \in Nat
      BY LenProperties DEF ThreadsOK
    <2>3. MetricsOK'
      BY <1>10, <2>2 DEF Archive, metrics, observed, MetricsOK
    <2>4. ThreadsOK' /\ Batched'
      BY <1>10, ReplyTyped DEF Archive
    <2> QED BY <2>1, <2>3, <2>4
  <1>11. CASE Status(t) \/ ModelName(t)
    <2>1. DiskOK' /\ GlobalsOK' /\ MetricsOK' /\ TornWritten'
      BY <1>11 DEF Status, ModelName, disk, globals, metrics, observed, DiskOK,
                   GlobalsOK, MetricsOK, TornWritten
    <2>2. ThreadsOK' /\ Batched'
      BY <1>11, ReplyTyped, GotoTyped DEF Status, ModelName, Pcs, ReloadPcs
    <2> QED BY <2>1, <2>2
  <1> QED BY <1>1, <1>2, <1>3, <1>4, <1>5, <1>6, <1>7, <1>8, <1>9, <1>10, <1>11

\* The steps of /reload keep the types.
LEMMA ReloadTyped ==
    ASSUME Typed, NEW t \in Threads,
           LoadModel(t) \/ LoadNoise(t) \/ LoadPolicy(t) \/ LoadTriage(t)
    PROVE  Typed'
  <1> USE DEF Typed, TypeOK
  <1>1. /\ DiskOK' /\ TornWritten' /\ MetricsOK'
        /\ UNCHANGED <<kind, rows, idx, reply>>
    BY DEF LoadModel, LoadNoise, LoadPolicy, LoadTriage, ReadStep, SetStep,
           disk, metrics, observed, DiskOK, TornWritten, MetricsOK
  <1>2. /\ tmp[t].val \in Loaded /\ tmp[t].base \in Loaded
        /\ tmp[t].src \in {"live", "baked"} /\ None \in Loaded
    BY DEF ThreadsOK, Local, Loaded
  <1>3. /\ \A a \in Artifacts : resolve(a) \in {"live", "baked"}
        /\ resolve_noise \in {"live", "baked"}
    BY DEF resolve, resolve_noise
  <1>4. \A a \in Artifacts, src \in {"live", "baked"} : read(a, src) \in Loaded
    BY ReadTyped
  <1>5. ASSUME NEW from, NEW to \in ReloadPcs \cup {"status"}, SetStep(t, from, to)
        PROVE  ThreadsOK' /\ Batched'
    BY <1>5, GotoTyped DEF SetStep, Pcs, ReloadPcs
  <1>6. ASSUME NEW from, NEW to \in ReloadPcs, NEW v \in Loaded,
               NEW src \in {"live", "baked"}, NEW base \in Loaded,
               ReadStep(t, from, to, v, src, base)
        PROVE  GlobalsOK' /\ ThreadsOK' /\ Batched'
    <2>1. to \in Pcs \ {"noise", "policy", "observe"}
      BY DEF Pcs, ReloadPcs
    <2>2. ThreadsOK' /\ Batched'
      BY <1>6, <2>1, ReadStepTyped
    <2>3. GlobalsOK'
      BY <1>6 DEF ReadStep, globals, GlobalsOK
    <2> QED BY <2>2, <2>3
  <1>7. CASE LoadModel(t)
    <2>1. CASE ReadStep(t, "m_load", "m_set", disk_bundle, resolve("model"), None)
      <3>1. disk_bundle \in Loaded /\ resolve("model") \in {"live", "baked"}
        BY DiskTyped
      <3>2. "m_set" \in ReloadPcs
        BY DEF ReloadPcs
      <3> QED BY <1>1, <1>2, <1>6, <2>1, <3>1, <3>2
    <2>2. CASE /\ SetStep(t, "m_set", "m_err")
               /\ bundle' = tmp[t].val
               /\ UNCHANGED <<bundle_err, bundle_src, noise, policy, triage>>
      BY <1>1, <1>2, <1>5, <2>2 DEF GlobalsOK, ReloadPcs, Loaded
    <2>3. CASE /\ SetStep(t, "m_err", "m_src")
               /\ bundle_err' = (tmp[t].val = None)
               /\ UNCHANGED <<bundle, bundle_src, noise, policy, triage>>
      BY <1>1, <1>5, <2>3 DEF GlobalsOK, ReloadPcs
    <2>4. CASE /\ SetStep(t, "m_src", "n_model")
               /\ bundle_src' = tmp[t].src
               /\ UNCHANGED <<bundle, bundle_err, noise, policy, triage>>
      BY <1>1, <1>2, <1>5, <2>4 DEF GlobalsOK, ReloadPcs
    <2> QED BY <1>7, <2>1, <2>2, <2>3, <2>4 DEF LoadModel
  <1>8. CASE LoadNoise(t)
    <2>1. CASE ReadStep(t, "n_model", "n_base",
                        read("noise_model", resolve_noise), resolve_noise, None)
      <3>1. read("noise_model", resolve_noise) \in Loaded
        BY <1>3, <1>4 DEF Artifacts
      <3> QED BY <1>1, <1>2, <1>3, <1>6, <2>1, <3>1 DEF ReloadPcs
    <2>2. CASE ReadStep(t, "n_base", "n_set",
                        tmp[t].val, tmp[t].src, read("noise_baseline", tmp[t].src))
      <3>1. read("noise_baseline", tmp[t].src) \in Loaded
        BY <1>2, <1>4 DEF Artifacts
      <3> QED BY <1>1, <1>2, <1>6, <2>2, <3>1 DEF ReloadPcs
    <2>3. CASE /\ SetStep(t, "n_set", "p_model")
               /\ noise' = NoiseFilter(tmp[t].val, tmp[t].base)
               /\ UNCHANGED <<bundle, bundle_err, bundle_src, policy, triage>>
      <3>1. NoiseFilter(tmp[t].val, tmp[t].base) \in Filter
        BY <1>2 DEF NoiseFilter, Filter, Disabled, Loaded
      <3> QED BY <1>1, <1>5, <2>3, <3>1 DEF GlobalsOK, ReloadPcs
    <2> QED BY <1>8, <2>1, <2>2, <2>3 DEF LoadNoise
  <1>9. CASE LoadPolicy(t)
    <2>1. CASE ReadStep(t, "p_model", "p_base", read("policy", resolve("policy")),
                        resolve("noise_baseline"), None)
      <3>1. /\ read("policy", resolve("policy")) \in Loaded
            /\ resolve("noise_baseline") \in {"live", "baked"}
        BY <1>3, <1>4 DEF Artifacts
      <3> QED BY <1>1, <1>2, <1>6, <2>1, <3>1 DEF ReloadPcs
    <2>2. CASE ReadStep(t, "p_base", "p_set",
                        tmp[t].val, tmp[t].src, read("noise_baseline", tmp[t].src))
      <3>1. read("noise_baseline", tmp[t].src) \in Loaded
        BY <1>2, <1>4 DEF Artifacts
      <3> QED BY <1>1, <1>2, <1>6, <2>2, <3>1 DEF ReloadPcs
    <2>3. CASE /\ SetStep(t, "p_set", "t_load")
               /\ policy' = PolicyFilter(tmp[t].val, tmp[t].base)
               /\ UNCHANGED <<bundle, bundle_err, bundle_src, noise, triage>>
      <3>1. PolicyFilter(tmp[t].val, tmp[t].base) \in Filter
        BY <1>2 DEF PolicyFilter, Filter, Disabled, Loaded
      <3> QED BY <1>1, <1>5, <2>3, <3>1 DEF GlobalsOK, ReloadPcs
    <2> QED BY <1>9, <2>1, <2>2, <2>3 DEF LoadPolicy
  <1>10. CASE LoadTriage(t)
    <2>1. CASE ReadStep(t, "t_load", "t_set", disk_triage, resolve("triage"), None)
      <3>1. disk_triage \in Loaded /\ resolve("triage") \in {"live", "baked"}
        BY <1>3, DiskTyped DEF Artifacts
      <3> QED BY <1>1, <1>2, <1>6, <2>1, <3>1 DEF ReloadPcs
    <2>2. CASE /\ SetStep(t, "t_set", "status")
               /\ triage' = tmp[t].val
               /\ UNCHANGED <<bundle, bundle_err, bundle_src, noise, policy>>
      BY <1>1, <1>2, <1>5, <2>2 DEF GlobalsOK, Loaded
    <2> QED BY <1>10, <2>1, <2>2 DEF LoadTriage
  <1> QED BY <1>7, <1>8, <1>9, <1>10

\* Arriving requests, the pipelines and a restart keep the types.
LEMMA EnvironmentTyped ==
    ASSUME Typed,
           \/ \E t \in Threads : Request(t) \/ StartReload(t)
           \/ \E a \in Artifacts : Overwrite(a) \/ Complete(a)
           \/ Restart
    PROVE  Typed'
  <1> USE DEF Typed, TypeOK
  <1>1. ASSUME NEW t \in Threads, NEW k \in Kinds,
               NEW first \in {"require", "status", "m_load"},
               Begin(t, k, first), clean' \in BOOLEAN
        PROVE  Typed'
    <2>1. DiskOK' /\ TornWritten' /\ GlobalsOK'
      BY <1>1 DEF Begin, globals, DiskOK, TornWritten, GlobalsOK
    <2>2. MetricsOK'
      BY <1>1, ConstantsAssumption DEF Begin, metrics, observed, MetricsOK
    <2>3. ThreadsOK' /\ Batched'
      BY <1>1 DEF Begin, Goto, ThreadsOK, Batched, Pcs, ReloadPcs
    <2> QED BY <2>1, <2>2, <2>3
  <1>2. ASSUME NEW t \in Threads, Request(t) PROVE Typed'
    <2>1. clean' \in BOOLEAN
      BY <1>2 DEF Request, DiskOK
    <2> QED BY <1>1, <1>2, <2>1 DEF Request, Kinds
  <1>3. ASSUME NEW t \in Threads, StartReload(t) PROVE Typed'
    BY <1>1, <1>3 DEF StartReload, Kinds
  <1>4. ASSUME NEW a \in Artifacts, Overwrite(a) PROVE Typed'
    <2>1. writes' \in 0..MaxWrites /\ writes' = writes + 1 /\ writes \in Nat
      BY <1>4, ConstantsAssumption DEF Overwrite, DiskOK
    <2>2. DiskOK' /\ TornWritten'
      <3>1. live' \in [Artifacts -> File]
        BY <1>4 DEF Overwrite, DiskOK, File
      <3>2. writes' >= 1
        BY <2>1
      <3> QED BY <1>4, <2>1, <3>1, <3>2 DEF Overwrite, DiskOK, TornWritten
    <2>3. GlobalsOK' /\ MetricsOK' /\ ThreadsOK' /\ Batched'
      BY <1>4 DEF Overwrite, globals, metrics, observed, locals, GlobalsOK,
                  MetricsOK, ThreadsOK, Batched
    <2> QED BY <2>2, <2>3
  <1>5. ASSUME NEW a \in Artifacts, Complete(a) PROVE Typed'
    <2>1. writes \in 1..MaxWrites
      <3>1. writes \in 0..MaxWrites /\ writes >= 1 /\ MaxWrites \in Nat
        BY <1>5, ConstantsAssumption DEF Complete, DiskOK, TornWritten
      <3> QED BY <3>1
    <2>2. DiskOK' /\ TornWritten'
      BY <1>5, <2>1 DEF Complete, DiskOK, TornWritten, File
    <2>3. GlobalsOK' /\ MetricsOK' /\ ThreadsOK' /\ Batched'
      BY <1>5 DEF Complete, globals, metrics, observed, locals, GlobalsOK,
                  MetricsOK, ThreadsOK, Batched
    <2> QED BY <2>2, <2>3
  <1>6. CASE Restart
    <2>1. DiskOK' /\ TornWritten'
      BY <1>6, ConstantsAssumption DEF Restart, DiskOK, TornWritten
    <2>2. GlobalsOK'
      BY <1>6, DiskTyped DEF Restart, GlobalsOK, Loaded
    <2>3. MetricsOK'
      BY <1>6, ConstantsAssumption DEF Restart, MetricsOK
    <2>4. <<>> \in Seq(Row) /\ Nothing \in Local
      BY EmptySeq DEF Nothing, Local
    <2>5. ThreadsOK' /\ Batched'
      BY <1>6, <2>4 DEF Restart, ThreadsOK, Batched, Pcs, Kinds
    <2> QED BY <2>1, <2>2, <2>3, <2>5
  <1> QED BY <1>2, <1>3, <1>4, <1>5, <1>6

\* Typed is inductive.
LEMMA TypedInvariant == Spec => []Typed
  <1>1. Init => Typed
    <2> SUFFICES ASSUME Init PROVE Typed
      OBVIOUS
    <2>1. DiskOK /\ TornWritten
      BY ConstantsAssumption DEF Init, DiskOK, TornWritten, File, Artifacts
    <2>2. GlobalsOK
      BY <2>1, DiskTyped DEF Init, GlobalsOK, Loaded
    <2>3. MetricsOK
      BY ConstantsAssumption DEF Init, MetricsOK
    <2>4. <<>> \in Seq(Row) /\ Nothing \in Local
      BY EmptySeq DEF Nothing, Local
    <2>5. ThreadsOK /\ Batched
      BY <2>4 DEF Init, ThreadsOK, Batched, Pcs, Kinds
    <2> QED BY <2>1, <2>2, <2>3, <2>5 DEF Typed, TypeOK
  <1>2. Typed /\ [Next]_vars => Typed'
    <2> SUFFICES ASSUME Typed, [Next]_vars PROVE Typed'
      OBVIOUS
    <2>1. CASE UNCHANGED vars
      BY <2>1 DEF vars, disk, globals, metrics, observed, locals, Typed, TypeOK,
                  DiskOK, GlobalsOK, MetricsOK, ThreadsOK, TornWritten, Batched
    <2>2. ASSUME NEW t \in Threads, Serve(t) PROVE Typed'
      BY <2>2, ServeTyped, ReloadTyped DEF Serve
    <2> QED BY <2>1, <2>2, EnvironmentTyped DEF Next
  <1> QED BY <1>1, <1>2, PTL DEF Spec

\* Types of the live files, the globals, the counters and the threads.
THEOREM TypeCorrect == Spec => []TypeOK
  <1>1. Typed => TypeOK
    BY DEF Typed
  <1> QED BY <1>1, TypedInvariant, PTL

-----------------------------------------------------------------------------
(* The counters.  MetricsCoherent is about totals; what makes it inductive  *)
(* is what the two filters established about the rows of a request that is  *)
(* on its way to observe, whichever generations of the filters they were.   *)

\* The noise filter suppressed only flagged rows.
SuppressedFlagged(rs) == \A i \in DOMAIN rs : rs[i].suppressed => rs[i].is_anomaly

\* The policy layer confirmed every suppression and decided only flagged rows.
Confirmed(rs) ==
    \A i \in DOMAIN rs :
        /\ rs[i].policy_action = "suppress" <=> rs[i].suppressed
        /\ rs[i].policy_action # None => rs[i].is_anomaly

Annotated ==
    \A t \in Threads :
        /\ pc[t] \in {"policy", "observe"} => SuppressedFlagged(rows[t])
        /\ pc[t] = "observe" => Confirmed(rows[t])

\* NoiseFilter.annotate suppresses only flagged rows.
LEMMA NoiseEstablishes ==
    ASSUME NEW rs \in Seq(Row), NEW supp \in SUBSET Anomalous(rs)
    PROVE  SuppressedFlagged(NoiseAnnotated(rs, supp))
  <1>1. \A i \in DOMAIN rs : rs[i] \in Row
    BY LenProperties, ElementOfSeq
  <1> QED BY <1>1 DEF SuppressedFlagged, NoiseAnnotated, Anomalous, Row

\* PolicyFilter.annotate agrees with whatever noise filter ran before it.
LEMMA PolicyEstablishes ==
    ASSUME NEW rs \in Seq(Row), SuppressedFlagged(rs),
           NEW act \in [DOMAIN rs -> Escalations]
    PROVE  /\ SuppressedFlagged(PolicyAnnotated(rs, act))
           /\ Confirmed(PolicyAnnotated(rs, act))
  <1>1. \A i \in DOMAIN rs : rs[i] \in Row
    BY LenProperties, ElementOfSeq
  <1>2. ASSUME NEW i \in DOMAIN rs
        PROVE  LET r == PolicyAnnotated(rs, act)[i]
               IN  /\ r.suppressed = rs[i].suppressed
                   /\ r.is_anomaly = rs[i].is_anomaly
                   /\ r.policy_action = IF ~rs[i].is_anomaly THEN None
                                        ELSE IF rs[i].suppressed THEN "suppress"
                                        ELSE IF policy.enabled THEN act[i]
                                        ELSE None
    BY <1>1 DEF PolicyAnnotated, Row
  <1>3. DOMAIN PolicyAnnotated(rs, act) = DOMAIN rs
    BY DEF PolicyAnnotated
  <1>4. \A i \in DOMAIN rs : act[i] # "suppress"
    BY DEF Escalations
  <1>5. None # "suppress"
    BY ConstantsAssumption DEF Actions
  <1>6. SuppressedFlagged(PolicyAnnotated(rs, act))
    BY <1>2, <1>3 DEF SuppressedFlagged
  <1>7. Confirmed(PolicyAnnotated(rs, act))
    BY <1>2, <1>3, <1>4, <1>5 DEF Confirmed, SuppressedFlagged
  <1> QED BY <1>6, <1>7

\* Cardinalities of disjoint finite sets add up.
LEMMA DisjointUnion ==
    ASSUME NEW P, NEW Q, IsFiniteSet(P), IsFiniteSet(Q), P \cap Q = {}
    PROVE  /\ IsFiniteSet(P \cup Q)
           /\ Cardinality(P \cup Q) = Cardinality(P) + Cardinality(Q)
  <1>1. /\ IsFiniteSet(P \cup Q)
        /\ Cardinality(P \cup Q) = Cardinality(P) + Cardinality(Q) - Cardinality(P \cap Q)
    BY FS_Union
  <1>2. Cardinality(P \cap Q) = 0
    BY FS_EmptySet
  <1>3. Cardinality(P) \in Nat /\ Cardinality(Q) \in Nat
    BY FS_CardinalityType
  <1> QED BY <1>1, <1>2, <1>3

\* The counts that observe adds for confirmed rows are coherent.
LEMMA CoherentCounts ==
    ASSUME NEW rs \in Seq(Row), SuppressedFlagged(rs), Confirmed(rs)
    PROVE  LET n(a) == Cardinality(WithAction(rs, a))
           IN  /\ n("suppress") = Cardinality(Suppressed(rs))
               /\ n("suppress") + n("wait") + n("triage") + n("alert")
                    <= Cardinality(Anomalous(rs))
               /\ Cardinality(Anomalous(rs)) <= Len(rs)
               /\ Cardinality(Suppressed(rs)) <= Cardinality(Anomalous(rs))
  <1> DEFINE S == WithAction(rs, "suppress")
             W == WithAction(rs, "wait")
             T == WithAction(rs, "triage")
             A == WithAction(rs, "alert")
  <1>1. /\ IsFiniteSet(DOMAIN rs) /\ Cardinality(DOMAIN rs) = Len(rs)
        /\ IsFiniteSet(Anomalous(rs)) /\ Cardinality(Anomalous(rs)) \in Nat
        /\ IsFiniteSet(S) /\ IsFiniteSet(W) /\ IsFiniteSet(T) /\ IsFiniteSet(A)
        /\ Cardinality(S) \in Nat /\ Cardinality(W) \in Nat
        /\ Cardinality(T) \in Nat /\ Cardinality(A) \in Nat
    BY CountsTyped
  <1>2. S = Suppressed(rs)
    BY DEF WithAction, Suppressed, Confirmed
  <1>3. Suppressed(rs) \subseteq Anomalous(rs) /\ Anomalous(rs) \subseteq DOMAIN rs
    BY DEF Suppressed, Anomalous, SuppressedFlagged
  <1>4. Cardinality(Anomalous(rs)) <= Len(rs)
    BY <1>1, <1>3, FS_Subset
  <1>5. Cardinality(Suppressed(rs)) <= Cardinality(Anomalous(rs))
    BY <1>1, <1>3, FS_Subset
  <1>6. S \cup W \cup T \cup A \subseteq Anomalous(rs)
    BY ConstantsAssumption DEF WithAction, Anomalous, Confirmed, Actions
  <1>7. S \cap W = {} /\ (S \cup W) \cap T = {} /\ (S \cup W \cup T) \cap A = {}
    BY DEF WithAction
  <1> HIDE DEF S, W, T, A
  <1>8. IsFiniteSet(S \cup W) /\ Cardinality(S \cup W) = Cardinality(S) + Cardinality(W)
    BY <1>1, <1>7, DisjointUnion
  <1>9. /\ IsFiniteSet(S \cup W \cup T)
        /\ Cardinality(S \cup W \cup T) = Cardinality(S) + Cardinality(W) + Cardinality(T)
    BY <1>1, <1>7, <1>8, DisjointUnion
  <1>10. Cardinality(S \cup W \cup T \cup A)
           = Cardinality(S) + Cardinality(W) + Cardinality(T) + Cardinality(A)
    BY <1>1, <1>7, <1>9, DisjointUnion
  <1>11. Cardinality(S \cup W \cup T \cup A) <= Cardinality(Anomalous(rs))
    BY <1>1, <1>6, FS_Subset
  <1> QED BY <1>2, <1>4, <1>5, <1>10, <1>11 DEF S, W, T, A

\* Every step keeps Annotated: the filters establish it, a reply empties the
\* rows, and no other step moves a thread to "policy" or "observe".
LEMMA AnnotatedStep ==
    ASSUME Typed, Annotated, [Next]_vars
    PROVE  Annotated'
  <1> SUFFICES ASSUME NEW u \in Threads
               PROVE  /\ pc'[u] \in {"policy", "observe"} => SuppressedFlagged(rows[u])'
                      /\ pc'[u] = "observe" => Confirmed(rows[u])'
    BY DEF Annotated
  <1>0. pc \in [Threads -> Pcs] /\ rows \in [Threads -> Seq(Row)]
    BY DEF Typed, TypeOK, ThreadsOK
  <1>1. ASSUME NEW t \in Threads, NoiseAnnotate(t), u = t
        PROVE  pc'[u] = "policy" /\ SuppressedFlagged(rows'[u])
    <2>1. PICK supp \in SUBSET (IF noise.enabled THEN Anomalous(rows[t]) ELSE {}) :
              rows' = [rows EXCEPT ![t] = NoiseAnnotated(rows[t], supp)]
      BY <1>1 DEF NoiseAnnotate
    <2>2. supp \in SUBSET Anomalous(rows[t])
      OBVIOUS
    <2>3. SuppressedFlagged(NoiseAnnotated(rows[t], supp))
      BY <1>0, <2>2, NoiseEstablishes
    <2> QED BY <1>0, <1>1, <2>1, <2>3 DEF NoiseAnnotate, Goto
  <1>2. ASSUME NEW t \in Threads, PolicyAnnotate(t), u = t
        PROVE  SuppressedFlagged(rows'[u]) /\ Confirmed(rows'[u])
    <2>1. PICK act \in [DOMAIN rows[t] -> Escalations] :
              rows' = [rows EXCEPT ![t] = PolicyAnnotated(rows[t], act)]
      BY <1>2 DEF PolicyAnnotate
    <2>2. SuppressedFlagged(rows[t])
      BY <1>2 DEF PolicyAnnotate, Annotated
    <2>3. /\ SuppressedFlagged(PolicyAnnotated(rows[t], act))
          /\ Confirmed(PolicyAnnotated(rows[t], act))
      BY <1>0, <2>2, PolicyEstablishes
    <2> QED BY <1>0, <1>2, <2>1, <2>3
  <1>3. ASSUME pc'[u] = pc[u], rows'[u] = rows[u]
        PROVE  /\ pc'[u] \in {"policy", "observe"} => SuppressedFlagged(rows'[u])
               /\ pc'[u] = "observe" => Confirmed(rows'[u])
    BY <1>3 DEF Annotated
  <1>4. ASSUME NEW t \in Threads, Serve(t) \/ Request(t) \/ StartReload(t)
        PROVE  \/ NoiseAnnotate(t) /\ u = t
               \/ PolicyAnnotate(t) /\ u = t
               \/ pc'[u] \notin {"policy", "observe"}
               \/ pc'[u] = pc[u] /\ rows'[u] = rows[u]
    <2>1. CASE \/ RequireModel(t) \/ ReturnBundle(t) \/ TriageReady(t)
               \/ TriageDecide(t) \/ TriageDone(t) \/ Archive(t)
               \/ Status(t) \/ ModelName(t)
      BY <1>0, <2>1 DEF RequireModel, ReturnBundle, TriageReady, TriageDecide,
                        TriageDone, Archive, Status, ModelName, Reply, Goto
    <2>2. CASE Score(t) \/ Observe(t)
      BY <1>0, <2>2 DEF Score, Observe, Reply, Goto
    <2>3. CASE LoadModel(t) \/ LoadNoise(t) \/ LoadPolicy(t) \/ LoadTriage(t)
      BY <1>0, <2>3 DEF LoadModel, LoadNoise, LoadPolicy, LoadTriage, ReadStep,
                        SetStep, Goto
    <2>4. CASE Request(t) \/ StartReload(t)
      BY <1>0, <2>4 DEF Request, StartReload, Begin, Goto
    <2>5. CASE NoiseAnnotate(t) \/ PolicyAnnotate(t)
      BY <1>0, <2>5 DEF NoiseAnnotate, PolicyAnnotate, Goto
    <2> QED BY <1>4, <2>1, <2>2, <2>3, <2>4, <2>5 DEF Serve
  <1>5. ASSUME NEW a \in Artifacts, Overwrite(a) \/ Complete(a)
        PROVE  pc'[u] = pc[u] /\ rows'[u] = rows[u]
    BY <1>5 DEF Overwrite, Complete, locals
  <1>6. ASSUME Restart PROVE pc'[u] \notin {"policy", "observe"}
    BY <1>6 DEF Restart
  <1>7. ASSUME UNCHANGED vars PROVE pc'[u] = pc[u] /\ rows'[u] = rows[u]
    BY <1>7 DEF vars, locals
  <1> QED BY <1>1, <1>2, <1>3, <1>4, <1>5, <1>6, <1>7 DEF Next

\* The counters are written by observe and by a restart only.
LEMMA CountersFrame ==
    ASSUME [Next]_vars
    PROVE  \/ \E t \in Threads : Observe(t)
           \/ Restart
           \/ UNCHANGED <<observed, restarts>>
  <1>1. ASSUME NEW t \in Threads, Serve(t), ~Observe(t)
        PROVE  UNCHANGED <<observed, restarts>>
    BY <1>1 DEF Serve, RequireModel, ReturnBundle, Score, NoiseAnnotate,
                PolicyAnnotate, TriageReady, TriageDecide, TriageDone, Archive,
                LoadModel, LoadNoise, LoadPolicy, LoadTriage, ReadStep, SetStep,
                Status, ModelName, metrics
  <1>2. ASSUME NEW t \in Threads, Request(t) \/ StartReload(t)
        PROVE  UNCHANGED <<observed, restarts>>
    BY <1>2 DEF Request, StartReload, Begin, metrics
  <1>3. ASSUME NEW a \in Artifacts, Overwrite(a) \/ Complete(a)
        PROVE  UNCHANGED <<observed, restarts>>
    BY <1>3 DEF Overwrite, Complete, metrics
  <1>4. ASSUME UNCHANGED vars PROVE UNCHANGED <<observed, restarts>>
    BY <1>4 DEF vars, metrics
  <1> QED BY <1>1, <1>2, <1>3, <1>4 DEF Next

\* What one critical section of _Metrics adds.
LEMMA ObserveAdds ==
    ASSUME Typed, Annotated, NEW t \in Threads, Observe(t)
    PROVE  \E scored, anoms, supps \in Nat, acts \in [Actions -> Nat] :
              /\ total_scored' = total_scored + scored
              /\ total_anomalies' = total_anomalies + anoms
              /\ total_suppressed' = total_suppressed + supps
              /\ \A a \in Actions : policy_actions'[a] = policy_actions[a] + acts[a]
              /\ acts["suppress"] = supps /\ supps <= anoms /\ anoms <= scored
              /\ acts["suppress"] + acts["wait"] + acts["triage"] + acts["alert"] <= anoms
  <1> DEFINE rs == rows[t]
             acts == [a \in Actions |-> Cardinality(WithAction(rs, a))]
  <1>1. rs \in Seq(Row) /\ SuppressedFlagged(rs) /\ Confirmed(rs)
    BY DEF Observe, Annotated, Typed, TypeOK, ThreadsOK
  <1> HIDE DEF rs
  <1>2. /\ Len(rs) \in Nat /\ Cardinality(Anomalous(rs)) \in Nat
        /\ Cardinality(Suppressed(rs)) \in Nat
        /\ acts \in [Actions -> Nat]
    BY <1>1, CountsTyped, LenProperties
  <1>3. /\ total_scored' = total_scored + Len(rs)
        /\ total_anomalies' = total_anomalies + Cardinality(Anomalous(rs))
        /\ total_suppressed' = total_suppressed + Cardinality(Suppressed(rs))
        /\ \A a \in Actions : policy_actions'[a] = policy_actions[a] + acts[a]
    BY DEF Observe, rs
  <1>4. /\ acts["suppress"] = Cardinality(Suppressed(rs))
        /\ acts["suppress"] + acts["wait"] + acts["triage"] + acts["alert"]
             <= Cardinality(Anomalous(rs))
        /\ Cardinality(Anomalous(rs)) <= Len(rs)
        /\ Cardinality(Suppressed(rs)) <= Cardinality(Anomalous(rs))
    BY <1>1, CoherentCounts DEF Actions
  <1> HIDE DEF acts
  <1> QED BY <1>2, <1>3, <1>4

\* observe keeps the last score below the maximum.
LEMMA ObserveMax ==
    ASSUME Typed, NEW t \in Threads, Observe(t)
    PROVE  last_score' <= max_score'
  <1>1. PICK i \in Highest(rows[t]) :
           max_score' = IF rows[t][i].score > max_score
                        THEN rows[t][i].score ELSE max_score
    BY DEF Observe
  <1>2. rows[t] \in Seq(Row) /\ rows[t] # <<>>
    BY DEF Observe, Typed, TypeOK, ThreadsOK, Batched
  <1>3. Len(rows[t]) \in Nat \ {0} /\ DOMAIN rows[t] = 1..Len(rows[t])
    BY <1>2, EmptySeq, LenProperties
  <1>4. \A j \in DOMAIN rows[t] : rows[t][j].score \in Nat
    <2>1. \A j \in DOMAIN rows[t] : rows[t][j] \in Row
      BY <1>2, <1>3, ElementOfSeq
    <2>2. \A r \in Row : r.score \in Nat
      BY ConstantsAssumption DEF Row
    <2> QED BY <2>1, <2>2
  <1>5. Len(rows[t]) \in DOMAIN rows[t] /\ i \in DOMAIN rows[t]
    BY <1>1, <1>3 DEF Highest
  <1>6. last_score' = rows[t][Len(rows[t])].score
    BY DEF Observe
  <1>7. last_score' <= rows[t][i].score /\ last_score' \in Nat /\ rows[t][i].score \in Nat
    BY <1>1, <1>4, <1>5, <1>6 DEF Highest
  <1>8. max_score \in Nat
    BY DEF Typed, TypeOK, MetricsOK
  <1> QED BY <1>1, <1>7, <1>8

\* Annotated and MetricsCoherent are inductive together, on top of the types.
LEMMA CoherentInvariant == Spec => [](Annotated /\ MetricsCoherent)
  <1>1. Init => Annotated /\ MetricsCoherent
    BY DEF Init, Annotated, MetricsCoherent, Actions
  <1>2. Typed /\ Annotated /\ MetricsCoherent /\ [Next]_vars => MetricsCoherent'
    <2> SUFFICES ASSUME Typed, Annotated, MetricsCoherent, [Next]_vars
                 PROVE  MetricsCoherent'
      OBVIOUS
    <2>1. ASSUME NEW t \in Threads, Observe(t) PROVE MetricsCoherent'
      <3>1. PICK scored, anoms, supps \in Nat, acts \in [Actions -> Nat] :
              /\ total_scored' = total_scored + scored
              /\ total_anomalies' = total_anomalies + anoms
              /\ total_suppressed' = total_suppressed + supps
              /\ \A a \in Actions : policy_actions'[a] = policy_actions[a] + acts[a]
              /\ acts["suppress"] = supps /\ supps <= anoms /\ anoms <= scored
              /\ acts["suppress"] + acts["wait"] + acts["triage"] + acts["alert"] <= anoms
        BY <2>1, ObserveAdds
      <3>2. /\ total_scored \in Nat /\ total_anomalies \in Nat /\ total_suppressed \in Nat
            /\ policy_actions["suppress"] \in Nat /\ policy_actions["wait"] \in Nat
            /\ policy_actions["triage"] \in Nat /\ policy_actions["alert"] \in Nat
            /\ acts["suppress"] \in Nat /\ acts["wait"] \in Nat
            /\ acts["triage"] \in Nat /\ acts["alert"] \in Nat
        BY DEF Typed, TypeOK, MetricsOK, Actions
      <3>3. /\ policy_actions'["suppress"] = policy_actions["suppress"] + acts["suppress"]
            /\ policy_actions'["wait"] = policy_actions["wait"] + acts["wait"]
            /\ policy_actions'["triage"] = policy_actions["triage"] + acts["triage"]
            /\ policy_actions'["alert"] = policy_actions["alert"] + acts["alert"]
        BY <3>1 DEF Actions
      <3> QED BY <2>1, <3>1, <3>2, <3>3, ObserveMax DEF MetricsCoherent
    <2>2. CASE Restart
      BY <2>2 DEF Restart, MetricsCoherent, Actions
    <2>3. CASE UNCHANGED observed
      BY <2>3 DEF observed, MetricsCoherent
    <2> QED BY <2>1, <2>2, <2>3, CountersFrame
  <1> QED BY <1>1, <1>2, AnnotatedStep, TypedInvariant, PTL DEF Spec

\* The counters of /metrics agree with each other for every pool, batch size
\* and interleaving, although /reload swaps the two filters independently.
THEOREM Coherent == Spec => []MetricsCoherent
  BY CoherentInvariant, PTL

\* The difference that /metrics exports as a counter never decreases.
THEOREM EffectiveMonotone == Spec => EffectiveIsCounter
  <1> DEFINE Grows == restarts' = restarts => total_anomalies' - total_suppressed'
                                                >= total_anomalies - total_suppressed
  <1>1. Typed /\ Annotated /\ [Next]_vars => Grows
    <2> SUFFICES ASSUME Typed, Annotated, [Next]_vars PROVE Grows
      OBVIOUS
    <2>0. /\ total_anomalies \in Nat /\ total_suppressed \in Nat /\ restarts \in Nat
      BY DEF Typed, TypeOK, MetricsOK, DiskOK
    <2>1. ASSUME NEW t \in Threads, Observe(t) PROVE Grows
      <3>1. PICK anoms, supps \in Nat :
              /\ total_anomalies' = total_anomalies + anoms
              /\ total_suppressed' = total_suppressed + supps
              /\ supps <= anoms
        BY <2>1, ObserveAdds
      <3> QED BY <2>0, <3>1
    <2>2. CASE Restart
      BY <2>0, <2>2 DEF Restart
    <2>3. CASE UNCHANGED observed
      BY <2>0, <2>3 DEF observed
    <2> QED BY <2>1, <2>2, <2>3, CountersFrame
  <1> QED BY <1>1, TypedInvariant, CoherentInvariant, PTL DEF Spec, EffectiveIsCounter

-----------------------------------------------------------------------------
(* Hot swap, for pipelines that do not overlap and whatever the image       *)
(* ships.  A component that is loaded has a file, in the image or live, and *)
(* no /reload meets a torn one; so it stays loaded until a restart, and     *)
(* what a request tested is still true when it reads the global a second    *)
(* time.                                                                    *)

\* There is a file of artifact a to load, torn or not.
Somewhere(a) == a \in Baked \/ exists(a)

\* A component that is loaded can be loaded again.
HasFile == /\ bundle # None => Somewhere("model")
           /\ triage # None => Somewhere("triage")

\* A /reload never meets a half-written file.
QuietReload ==
    \A t \in Threads : Reloading(t) => \A a \in Artifacts : live[a] # Torn

\* The image has the two artifacts without which a request is answered with 503.
Shipped == {"model", "triage"} \subseteq Baked

\* What the code of a thread relies on at each point.
Held(t) ==
    /\ pc[t] = "bundle" => bundle # None
    /\ pc[t] = "score" => tmp[t].val # None
    /\ pc[t] = "ready" /\ kind[t] = "triage" => tmp[t].val # None
    /\ pc[t] = "score" /\ kind[t] = "triage" => triage # None
    /\ pc[t] \in {"decide", "model_name"} => triage # None
    /\ pc[t] = "m_set" => (tmp[t].val # None <=> Somewhere("model"))
    /\ pc[t] = "t_set" => (tmp[t].val # None <=> Somewhere("triage"))
    /\ pc[t] \in ReloadPcs => kind[t] = "reload"
    /\ reply[t] # "500"
    /\ restarts = 0 /\ Shipped => reply[t] \in {"none", "200"}

\* Until the first restart a process whose image has both has a model and a
\* triage runtime.
FirstLife == restarts = 0 /\ Shipped => bundle # None /\ triage # None

Swap == QuietReload /\ FirstLife /\ HasFile /\ \A t \in Threads : Held(t)

\* Only a torn file, or one that is nowhere, fails to load.
LEMMA DiskLoads ==
    ASSUME DiskOK, NEW a \in Artifacts, live[a] # Torn
    PROVE  read(a, resolve(a)) # None <=> Somewhere(a)
  <1>1. live[a] \in (1..MaxWrites) \cup {Absent}
    BY DEF DiskOK, File
  <1>2. None \notin Nat /\ Absent \notin Nat /\ Torn \notin Nat /\ MaxWrites \in Nat
    BY ConstantsAssumption
  <1>3. CASE live[a] = Absent
    BY <1>1, <1>2, <1>3 DEF read, resolve, exists, load, baked, Somewhere
  <1>4. CASE live[a] \in 1..MaxWrites
    BY <1>2, <1>4 DEF read, resolve, exists, load, Somewhere
  <1> QED BY <1>1, <1>3, <1>4

\* What loaded when the process started had a file.
LEMMA DiskHasFile ==
    ASSUME NEW a \in Artifacts, read(a, resolve(a)) # None
    PROVE  Somewhere(a)
  <1>1. CASE exists(a)
    BY <1>1 DEF Somewhere
  <1>2. CASE ~exists(a)
    <2>1. read(a, resolve(a)) = load(baked(a))
      BY <1>2 DEF read, resolve
    <2>2. baked(a) # Absent
      BY <2>1 DEF load
    <2> QED BY <2>2 DEF baked, Somewhere
  <1> QED BY <1>1, <1>2

\* A component that is loaded stays loaded until a restart.
LEMMA StaysLoaded ==
    ASSUME Typed, Swap, Next, ~Restart
    PROVE  /\ bundle # None => bundle' # None
           /\ triage # None => triage' # None
           /\ restarts' = restarts
  <1>1. ASSUME NEW t \in Threads, LoadModel(t)
        PROVE  /\ bundle # None => bundle' # None
               /\ triage' = triage /\ restarts' = restarts
    <2>1. Held(t)
      BY DEF Swap
    <2> QED BY <1>1, <2>1 DEF LoadModel, ReadStep, SetStep, globals, Held, Swap, HasFile
  <1>2. ASSUME NEW t \in Threads, LoadTriage(t)
        PROVE  /\ triage # None => triage' # None
               /\ bundle' = bundle /\ restarts' = restarts
    <2>1. Held(t)
      BY DEF Swap
    <2> QED BY <1>2, <2>1 DEF LoadTriage, ReadStep, SetStep, globals, Held, Swap, HasFile
  <1>3. ASSUME NEW t \in Threads, Serve(t), ~LoadModel(t), ~LoadTriage(t)
        PROVE  UNCHANGED <<bundle, triage, restarts>>
    BY <1>3 DEF Serve, RequireModel, ReturnBundle, Score, NoiseAnnotate,
                PolicyAnnotate, Observe, TriageReady, TriageDecide, TriageDone,
                Archive, LoadNoise, LoadPolicy, ReadStep, SetStep,
                Status, ModelName, globals
  <1>4. ASSUME NEW t \in Threads, Request(t) \/ StartReload(t)
        PROVE  UNCHANGED <<bundle, triage, restarts>>
    BY <1>4 DEF Request, StartReload, Begin, globals
  <1>5. ASSUME NEW a \in Artifacts, Overwrite(a) \/ Complete(a)
        PROVE  UNCHANGED <<bundle, triage, restarts>>
    BY <1>5 DEF Overwrite, Complete, globals
  <1> QED BY <1>1, <1>2, <1>3, <1>4, <1>5 DEF Next

\* A step of one thread leaves the control state of the others alone.
LEMMA OthersKeep ==
    ASSUME Typed, NEW t \in Threads, Request(t) \/ StartReload(t) \/ Serve(t),
           NEW u \in Threads, u # t
    PROVE  /\ pc'[u] = pc[u] /\ kind'[u] = kind[u]
           /\ tmp'[u] = tmp[u] /\ reply'[u] = reply[u]
  <1>1. /\ pc \in [Threads -> Pcs] /\ kind \in [Threads -> Kinds]
        /\ tmp \in [Threads -> Local]
        /\ reply \in [Threads -> {"none", "200", "503", "500"}]
    BY DEF Typed, TypeOK, ThreadsOK
  <1>2. CASE Request(t) \/ StartReload(t)
    BY <1>1, <1>2 DEF Request, StartReload, Begin, Goto
  <1>3. CASE \/ RequireModel(t) \/ ReturnBundle(t) \/ Score(t)
             \/ NoiseAnnotate(t) \/ PolicyAnnotate(t) \/ Observe(t)
    BY <1>1, <1>3 DEF RequireModel, ReturnBundle, Score, NoiseAnnotate,
                      PolicyAnnotate, Observe, Reply, Goto, Keep
  <1>4. CASE \/ TriageReady(t) \/ TriageDecide(t) \/ TriageDone(t) \/ Archive(t)
             \/ Status(t) \/ ModelName(t)
    BY <1>1, <1>4 DEF TriageReady, TriageDecide, TriageDone, Archive, Status,
                      ModelName, Reply, Goto
  <1>5. CASE LoadModel(t) \/ LoadNoise(t) \/ LoadPolicy(t) \/ LoadTriage(t)
    BY <1>1, <1>5 DEF LoadModel, LoadNoise, LoadPolicy, LoadTriage, ReadStep,
                      SetStep, Goto, Keep
  <1> QED BY <1>2, <1>3, <1>4, <1>5 DEF Serve

\* The thread that steps finds what it relies on.
LEMMA HeldStep ==
    ASSUME Typed, Swap, NEW t \in Threads,
           Request(t) \/ StartReload(t) \/ Serve(t)
    PROVE  Held(t)'
  <1>1. /\ pc \in [Threads -> Pcs] /\ kind \in [Threads -> Kinds]
        /\ tmp \in [Threads -> Local]
        /\ reply \in [Threads -> {"none", "200", "503", "500"}]
    BY DEF Typed, TypeOK, ThreadsOK
  <1>2. Held(t) /\ FirstLife
    BY DEF Swap
  <1>3. CASE Request(t) \/ StartReload(t)
    BY <1>1, <1>2, <1>3 DEF Request, StartReload, Begin, Goto, Held, ReloadPcs
  <1>4. CASE RequireModel(t)
    BY <1>1, <1>2, <1>4 DEF RequireModel, Reply, Goto, Held, FirstLife, ReloadPcs, globals
  <1>5. CASE ReturnBundle(t)
    BY <1>1, <1>2, <1>5 DEF ReturnBundle, Reply, Goto, Keep, Held, ReloadPcs, globals
  <1>6. CASE Score(t)
    BY <1>1, <1>2, <1>6 DEF Score, Goto, Held, ReloadPcs, globals
  <1>7. CASE NoiseAnnotate(t) \/ PolicyAnnotate(t) \/ Observe(t)
    BY <1>1, <1>2, <1>7 DEF NoiseAnnotate, PolicyAnnotate, Observe, Goto, Held,
                            ReloadPcs, globals
  <1>8. CASE TriageReady(t)
    BY <1>1, <1>2, <1>8 DEF TriageReady, Reply, Goto, Held, FirstLife, ReloadPcs, globals
  <1>9. CASE TriageDecide(t)
    BY <1>1, <1>2, <1>9 DEF TriageDecide, Held, ReloadPcs, globals
  <1>10. CASE TriageDone(t) \/ Archive(t)
    BY <1>1, <1>2, <1>10 DEF TriageDone, Archive, Reply, Goto, Held, ReloadPcs, globals
  <1>11. CASE Status(t) \/ ModelName(t)
    BY <1>1, <1>2, <1>11 DEF Status, ModelName, Reply, Goto, Held, ReloadPcs, globals
  <1>12. CASE LoadNoise(t) \/ LoadPolicy(t)
    BY <1>1, <1>2, <1>12 DEF LoadNoise, LoadPolicy, ReadStep, SetStep, Goto, Keep,
                             Held, ReloadPcs, globals
  <1>13. pc[t] \in ReloadPcs =>
            \A a \in Artifacts : read(a, resolve(a)) # None <=> Somewhere(a)
    <2>1. pc[t] \in ReloadPcs => Reloading(t)
      BY <1>2 DEF Held, Reloading, ReloadPcs
    <2> QED BY <2>1, DiskLoads DEF Swap, QuietReload, Typed, TypeOK
  <1>14. CASE LoadModel(t)
    <2>1. pc[t] = "m_load" => (disk_bundle # None <=> Somewhere("model"))
      BY <1>13 DEF disk_bundle, ReloadPcs, Artifacts
    <2>2. Somewhere("model")' <=> Somewhere("model")
      BY <1>14 DEF LoadModel, ReadStep, SetStep, disk, Somewhere, exists
    <2> QED BY <1>1, <1>2, <1>14, <2>1, <2>2
            DEF LoadModel, ReadStep, SetStep, Goto, Keep, Held, ReloadPcs, globals
  <1>15. CASE LoadTriage(t)
    <2>1. pc[t] = "t_load" => (disk_triage # None <=> Somewhere("triage"))
      BY <1>13 DEF disk_triage, ReloadPcs, Artifacts
    <2>2. Somewhere("triage")' <=> Somewhere("triage")
      BY <1>15 DEF LoadTriage, ReadStep, SetStep, disk, Somewhere, exists
    <2> QED BY <1>1, <1>2, <1>15, <2>1, <2>2
            DEF LoadTriage, ReadStep, SetStep, Goto, Keep, Held, ReloadPcs, globals
  <1> QED BY <1>3, <1>4, <1>5, <1>6, <1>7, <1>8, <1>9, <1>10, <1>11, <1>12,
             <1>14, <1>15 DEF Serve

\* The pipelines and the handlers keep /reload away from half-written files.
LEMMA QuietStep ==
    ASSUME Serialized, Typed, QuietReload, Next
    PROVE  QuietReload'
  <1> SUFFICES ASSUME NEW u \in Threads, Reloading(u)', NEW b \in Artifacts
               PROVE  live'[b] # Torn
    BY DEF QuietReload
  <1>1. /\ pc \in [Threads -> Pcs] /\ kind \in [Threads -> Kinds]
        /\ live \in [Artifacts -> File] /\ writes \in Nat
    BY DEF Typed, TypeOK, ThreadsOK, DiskOK
  <1>2. ASSUME NEW t \in Threads, StartReload(t) PROVE live'[b] # Torn
    BY <1>2 DEF StartReload, Begin, Quiet
  <1>3. ASSUME NEW t \in Threads, Request(t) \/ Serve(t) PROVE live'[b] # Torn
    <2>1. live' = live
      BY <1>3 DEF Request, Begin, Serve, RequireModel, ReturnBundle, Score,
                  NoiseAnnotate, PolicyAnnotate, Observe, TriageReady,
                  TriageDecide, TriageDone, Archive, LoadModel, LoadNoise,
                  LoadPolicy, LoadTriage, ReadStep, SetStep, Status, ModelName, disk
    <2>2. Reloading(u)
      <3>1. CASE u # t
        BY <1>3, <3>1, OthersKeep DEF Reloading
      <3>2. CASE u = t /\ Request(t)
        BY <1>1, <3>2 DEF Request, Begin, Reloading
      <3>3. CASE u = t /\ Serve(t)
        <4>1. kind'[t] = kind[t]
          BY <3>3 DEF Serve, RequireModel, ReturnBundle, Score, NoiseAnnotate,
                      PolicyAnnotate, Observe, TriageReady, TriageDecide,
                      TriageDone, Archive, LoadModel, LoadNoise, LoadPolicy,
                      LoadTriage, ReadStep, SetStep, Status, ModelName, Reply
        <4>2. pc[t] # "idle"
          BY <3>3 DEF Serve, RequireModel, ReturnBundle, Score, NoiseAnnotate,
                      PolicyAnnotate, Observe, TriageReady, TriageDecide,
                      TriageDone, Archive, LoadModel, LoadNoise, LoadPolicy,
                      LoadTriage, ReadStep, SetStep, Status, ModelName
        <4> QED BY <3>3, <4>1, <4>2 DEF Reloading
      <3> QED BY <1>3, <3>1, <3>2, <3>3
    <2> QED BY <2>1, <2>2 DEF QuietReload
  <1>4. ASSUME NEW a \in Artifacts, Overwrite(a) PROVE FALSE
    <2>1. Reloading(u)
      BY <1>4 DEF Overwrite, locals, Reloading
    <2> QED BY <1>4, <2>1 DEF Overwrite, Quiet
  <1>5. ASSUME NEW a \in Artifacts, Complete(a) PROVE live'[b] # Torn
    <2>1. Reloading(u)
      BY <1>5 DEF Complete, locals, Reloading
    <2>2. live[b] # Torn
      BY <2>1 DEF QuietReload
    <2>3. writes # Torn
      BY <1>1, ConstantsAssumption
    <2> QED BY <1>1, <1>5, <2>2, <2>3 DEF Complete
  <1>6. ASSUME Restart PROVE FALSE
    BY <1>6 DEF Restart, Reloading
  <1> QED BY <1>2, <1>3, <1>4, <1>5, <1>6 DEF Next

\* The live files of a running /reload do not change.
LEMMA ReloadFreezes ==
    ASSUME Serialized, Typed, QuietReload, Next, NEW t \in Threads, Reloading(t)
    PROVE  UNCHANGED live \/ Restart
  <1>1. ASSUME NEW a \in Artifacts, Overwrite(a) \/ Complete(a) PROVE FALSE
    BY <1>1 DEF Overwrite, Complete, Quiet, QuietReload
  <1>2. ASSUME NEW u \in Threads, Request(u) \/ StartReload(u) \/ Serve(u)
        PROVE  UNCHANGED live
    BY <1>2 DEF Request, StartReload, Begin, Serve, RequireModel, ReturnBundle, Score,
                NoiseAnnotate, PolicyAnnotate, Observe, TriageReady,
                TriageDecide, TriageDone, Archive, LoadModel, LoadNoise,
                LoadPolicy, LoadTriage, ReadStep, SetStep, Status, ModelName, disk
  <1> QED BY <1>1, <1>2 DEF Next

\* A file that is there stays there, and a loaded component keeps its file.
LEMMA HasFileStep ==
    ASSUME Typed, Swap, Next
    PROVE  /\ \A a \in Artifacts : Somewhere(a) => Somewhere(a)'
           /\ HasFile'
  <1>0. live \in [Artifacts -> File] /\ writes \in Nat
    BY DEF Typed, TypeOK, DiskOK
  <1>1. \A a \in Artifacts : Somewhere(a) => Somewhere(a)'
    <2>1. UNCHANGED live \/ \E a \in Artifacts : Overwrite(a) \/ Complete(a)
      BY DEF Next, Restart, Request, StartReload, Begin, Serve, RequireModel,
             ReturnBundle, Score, NoiseAnnotate, PolicyAnnotate, Observe, TriageReady,
             TriageDecide, TriageDone, Archive, LoadModel, LoadNoise,
             LoadPolicy, LoadTriage, ReadStep, SetStep, Status, ModelName, disk
    <2>2. ASSUME NEW a \in Artifacts, Overwrite(a) \/ Complete(a), NEW b \in Artifacts,
                 exists(b)
          PROVE  live'[b] # Absent
      BY <1>0, <2>2, ConstantsAssumption DEF Overwrite, Complete, exists
    <2> QED BY <2>1, <2>2 DEF Somewhere, exists
  <1>2. {"model", "triage"} \subseteq Artifacts
    BY DEF Artifacts
  <1>3. CASE Restart
    <2>1. UNCHANGED live /\ bundle' = disk_bundle /\ triage' = disk_triage
      BY <1>3 DEF Restart
    <2>2. /\ disk_bundle # None => Somewhere("model")
          /\ disk_triage # None => Somewhere("triage")
      BY <1>2, DiskHasFile DEF disk_bundle, disk_triage
    <2> QED BY <1>1, <1>2, <2>1, <2>2 DEF HasFile
  <1>4. ASSUME NEW t \in Threads, LoadModel(t) PROVE HasFile'
    <2>1. Held(t) /\ HasFile
      BY DEF Swap
    <2>2. triage' = triage /\ (bundle' = bundle \/ (pc[t] = "m_set" /\ bundle' = tmp[t].val))
      BY <1>4 DEF LoadModel, ReadStep, SetStep, globals
    <2> QED BY <1>1, <1>2, <2>1, <2>2 DEF HasFile, Held
  <1>5. ASSUME NEW t \in Threads, LoadTriage(t) PROVE HasFile'
    <2>1. Held(t) /\ HasFile
      BY DEF Swap
    <2>2. bundle' = bundle /\ (triage' = triage \/ (pc[t] = "t_set" /\ triage' = tmp[t].val))
      BY <1>5 DEF LoadTriage, ReadStep, SetStep, globals
    <2> QED BY <1>1, <1>2, <2>1, <2>2 DEF HasFile, Held
  <1>6. CASE UNCHANGED <<bundle, triage>>
    BY <1>1, <1>2, <1>6 DEF Swap, HasFile
  <1>7. \/ UNCHANGED <<bundle, triage>> \/ Restart
        \/ \E t \in Threads : LoadModel(t) \/ LoadTriage(t)
    BY DEF Next, Request, StartReload, Begin, Serve, RequireModel, ReturnBundle,
           Score, NoiseAnnotate, PolicyAnnotate, Observe, TriageReady, TriageDecide,
           TriageDone, Archive, LoadNoise, LoadPolicy, ReadStep, SetStep,
           Status, ModelName, Overwrite, Complete, globals
  <1> QED BY <1>1, <1>3, <1>4, <1>5, <1>6, <1>7

\* Swap is an invariant of a serialized deployment.
LEMMA SwapInvariant ==
    ASSUME Serialized
    PROVE  Spec => []Swap
  <1>1. Typed /\ Init => Swap
    <2> SUFFICES ASSUME Typed, Init PROVE Swap
      OBVIOUS
    <2>1. QuietReload
      BY DEF Init, QuietReload, Reloading
    <2>2. FirstLife
      <3>1. \A a \in Artifacts : live[a] # Torn
        BY ConstantsAssumption DEF Init
      <3>2. \A a \in Artifacts : read(a, resolve(a)) # None <=> Somewhere(a)
        BY <3>1, DiskLoads DEF Typed, TypeOK
      <3> QED BY <3>2 DEF Init, FirstLife, Shipped, Somewhere, disk_bundle, disk_triage,
                          Artifacts
    <2>3. \A t \in Threads : Held(t)
      BY DEF Init, Held, ReloadPcs
    <2>4. HasFile
      BY DiskHasFile DEF Init, HasFile, disk_bundle, disk_triage, Artifacts
    <2> QED BY <2>1, <2>2, <2>3, <2>4 DEF Swap
  <1>2. Typed /\ Swap /\ [Next]_vars => Swap'
    <2> SUFFICES ASSUME Typed, Swap, [Next]_vars PROVE Swap'
      OBVIOUS
    <2>1. CASE UNCHANGED vars
      BY <2>1 DEF vars, disk, globals, locals, Swap, QuietReload, Reloading,
                  FirstLife, HasFile, Somewhere, exists, Held
    <2>2. CASE Next /\ ~Restart
      <3>1. QuietReload'
        BY <2>2, QuietStep DEF Swap
      <3>2. FirstLife'
        BY <2>2, StaysLoaded DEF Swap, FirstLife
      <3>3. ASSUME NEW u \in Threads PROVE Held(u)'
        <4>1. ASSUME NEW t \in Threads, Request(t) \/ StartReload(t) \/ Serve(t), t # u
              PROVE  Held(u)'
          <5>1. /\ pc'[u] = pc[u] /\ kind'[u] = kind[u]
                /\ tmp'[u] = tmp[u] /\ reply'[u] = reply[u]
            BY <4>1, OthersKeep
          <5>2. pc[u] \in {"m_set", "t_set"} => UNCHANGED live
            <6>1. pc[u] \in {"m_set", "t_set"} => Reloading(u)
              BY DEF Swap, Held, Reloading, ReloadPcs
            <6> QED BY <2>2, <6>1, ReloadFreezes DEF Swap
          <5> QED BY <2>2, <5>1, <5>2, StaysLoaded DEF Swap, Held, Somewhere, exists
        <4>2. ASSUME NEW a \in Artifacts, Overwrite(a) \/ Complete(a)
              PROVE  Held(u)'
          <5>1. pc[u] \notin {"m_set", "t_set"}
            <6>1. pc[u] \in {"m_set", "t_set"} => Reloading(u)
              BY DEF Swap, Held, Reloading, ReloadPcs
            <6> QED BY <4>2, <6>1 DEF Overwrite, Complete, Quiet, Swap, QuietReload
          <5> QED BY <4>2, <5>1 DEF Overwrite, Complete, globals, locals, Swap, Held
        <4> QED BY <2>2, <4>1, <4>2, HeldStep DEF Next
      <3> QED BY <2>2, <3>1, <3>2, <3>3, HasFileStep DEF Swap
    <2>3. CASE Restart
      <3>1. restarts' # 0
        BY <2>3 DEF Restart, Typed, TypeOK, DiskOK
      <3>2. HasFile'
        BY <2>3, HasFileStep DEF Next
      <3> QED BY <2>3, <3>1, <3>2 DEF Restart, Swap, QuietReload, Reloading, FirstLife,
                                      Held, ReloadPcs
    <2> QED BY <2>1, <2>2, <2>3
  <1> QED BY <1>1, <1>2, TypedInvariant, PTL DEF Spec

\* With pipelines that do not overlap no request dies of a component that is
\* swapped out under it, whatever the image ships and the number of threads,
\* promotions and restarts (api.py reads its globals twice without a lock:
\* lines 354-356, 417-421, 308).
THEOREM NoInternalErrors ==
    ASSUME Serialized
    PROVE  Spec => []NoInternalError
  <1>1. Swap => NoInternalError
    BY DEF Swap, Held, NoInternalError
  <1> QED BY <1>1, SwapInvariant, PTL

\* Under the same condition no request fails at all before the first restart, if
\* the image ships a model and a triage model.
THEOREM Seamless ==
    ASSUME Serialized, {"model", "triage"} \subseteq Baked
    PROVE  Spec => []HotSwapSeamless
  <1>1. Swap => HotSwapSeamless
    BY DEF Swap, Held, HotSwapSeamless, Shipped
  <1> QED BY <1>1, SwapInvariant, PTL
-----------------------------------------------------------------------------
(* What a /reload leaves behind when pipelines do not overlap.  While it    *)
(* runs nothing is overwritten and no other /reload runs, so each component *)
(* it has passed is the one on disk.                                        *)

\* Never two at a time.
OneReload == \A t, u \in Threads : Reloading(t) /\ Reloading(u) => t = u

\* The steps of /reload that are still to come after each of its four loads.
BeforeModelSet  == {"m_load", "m_set", "m_err", "m_src"}
BeforeNoiseSet  == BeforeModelSet \cup {"n_model", "n_base", "n_set"}
BeforePolicySet == BeforeNoiseSet \cup {"p_model", "p_base", "p_set"}
BeforeTriageSet == BeforePolicySet \cup {"t_load", "t_set"}

\* What the thread of a /reload holds ...
Holds(t) ==
    /\ pc[t] \in {"m_set", "m_err", "m_src"} =>
          tmp[t].val = disk_bundle /\ tmp[t].src = resolve("model")
    /\ pc[t] \in {"n_base", "n_set"} =>
          tmp[t].val = read("noise_model", resolve_noise) /\ tmp[t].src = resolve_noise
    /\ pc[t] = "n_set" => tmp[t].base = read("noise_baseline", resolve_noise)
    /\ pc[t] \in {"p_base", "p_set"} =>
          tmp[t].val = read("policy", resolve("policy")) /\ tmp[t].src = resolve("noise_baseline")
    /\ pc[t] = "p_set" => tmp[t].base = read("noise_baseline", resolve("noise_baseline"))
    /\ pc[t] = "t_set" => tmp[t].val = disk_triage

\* ... and what it has already installed.
Installed(t) ==
    /\ pc[t] \in {"m_err", "m_src"} => bundle = disk_bundle
    /\ pc[t] \notin BeforeModelSet => bundle = disk_bundle /\ bundle_src = resolve("model")
    /\ pc[t] \notin BeforeNoiseSet => noise = disk_noise
    /\ pc[t] \notin BeforePolicySet => policy = disk_policy
    /\ pc[t] \notin BeforeTriageSet => triage = disk_triage

Progress == \A t \in Threads : Reloading(t) => Holds(t) /\ Installed(t)

\* Only a /reload is at the steps of a /reload.
ReloadKind == \A t \in Threads : pc[t] \in ReloadPcs => kind[t] = "reload"

\* The error message matches the model except between the two assignments.
ErrorMatches == (\A t \in Threads : pc[t] # "m_err") => (bundle = None <=> bundle_err)

FreshInv == QuietReload /\ ReloadKind /\ OneReload /\ Progress /\ FreshAfterReload /\ ErrorMatches

\* A fresh start loads what is on disk, and nothing else changes that.
LEMMA DiskSame ==
    ASSUME live' = live
    PROVE  /\ disk_bundle' = disk_bundle /\ disk_triage' = disk_triage
           /\ disk_noise' = disk_noise /\ disk_policy' = disk_policy
           /\ \A a \in Artifacts : resolve(a)' = resolve(a)
           /\ resolve_noise' = resolve_noise
           /\ \A a \in Artifacts, src \in {"live", "baked"} : read(a, src)' = read(a, src)
  BY DEF disk_bundle, disk_triage, disk_noise, disk_policy, read, resolve, resolve_noise, exists

\* Which files and directories the loaders of /reload name.
LEMMA Named ==
    /\ {"model", "noise_model", "noise_baseline", "policy", "triage"} \subseteq Artifacts
    /\ resolve("noise_baseline") \in {"live", "baked"} /\ resolve_noise \in {"live", "baked"}
    /\ resolve("policy") \in {"live", "baked"}
  BY DEF Artifacts, resolve, resolve_noise

\* No step of a thread touches the disk, its own kind or, but for the loads of
\* /reload, the globals.
LEMMA ServeFrame ==
    ASSUME NEW t \in Threads, Serve(t)
    PROVE  /\ UNCHANGED <<live, clean, restarts>> /\ kind'[t] = kind[t] /\ pc[t] # "idle"
           /\ \/ UNCHANGED globals /\ pc[t] \notin ReloadPcs
              \/ LoadModel(t) \/ LoadNoise(t) \/ LoadPolicy(t) \/ LoadTriage(t)
  <1>1. CASE LoadModel(t) \/ LoadNoise(t) \/ LoadPolicy(t) \/ LoadTriage(t)
    BY <1>1 DEF LoadModel, LoadNoise, LoadPolicy, LoadTriage, ReadStep, SetStep, disk
  <1>2. CASE \/ RequireModel(t) \/ ReturnBundle(t) \/ Score(t)
             \/ NoiseAnnotate(t) \/ PolicyAnnotate(t) \/ Observe(t)
    BY <1>2 DEF RequireModel, ReturnBundle, Score, NoiseAnnotate, PolicyAnnotate, Observe,
                Reply, disk, ReloadPcs
  <1>3. CASE \/ TriageReady(t) \/ TriageDecide(t) \/ TriageDone(t) \/ Archive(t)
             \/ Status(t) \/ ModelName(t)
    BY <1>3 DEF TriageReady, TriageDecide, TriageDone, Archive, Status, ModelName,
                Reply, disk, ReloadPcs
  <1> QED BY <1>1, <1>2, <1>3 DEF Serve

\* The load steps stay within /reload.
LEMMA LoadFrame ==
    ASSUME Typed, NEW t \in Threads,
           LoadModel(t) \/ LoadNoise(t) \/ LoadPolicy(t) \/ LoadTriage(t)
    PROVE  pc[t] \in ReloadPcs /\ pc'[t] \in ReloadPcs \cup {"status"}
  <1>1. pc \in [Threads -> Pcs]
    BY DEF Typed, TypeOK, ThreadsOK
  <1> QED BY <1>1 DEF LoadModel, LoadNoise, LoadPolicy, LoadTriage, ReadStep, SetStep, Goto, ReloadPcs

\* The other steps of a request never enter it.
LEMMA ServeOutside ==
    ASSUME Typed, NEW t \in Threads, Serve(t), pc[t] \notin ReloadPcs
    PROVE  pc'[t] \notin ReloadPcs
  <1>1. pc \in [Threads -> Pcs]
    BY DEF Typed, TypeOK, ThreadsOK
  <1>2. CASE \/ RequireModel(t) \/ ReturnBundle(t) \/ Score(t)
             \/ NoiseAnnotate(t) \/ PolicyAnnotate(t) \/ Observe(t)
    BY <1>1, <1>2 DEF RequireModel, ReturnBundle, Score, NoiseAnnotate, PolicyAnnotate, Observe,
                Reply, Goto, ReloadPcs
  <1>3. CASE \/ TriageReady(t) \/ TriageDecide(t) \/ TriageDone(t) \/ Archive(t)
             \/ Status(t) \/ ModelName(t)
    BY <1>1, <1>3 DEF TriageReady, TriageDecide, TriageDone, Archive, Status, ModelName,
                Reply, Goto, ReloadPcs
  <1>4. CASE LoadModel(t) \/ LoadNoise(t) \/ LoadPolicy(t) \/ LoadTriage(t)
    BY <1>4, LoadFrame
  <1> QED BY <1>2, <1>3, <1>4 DEF Serve

\* One load of /reload installs what is on disk, piece by piece.
LEMMA ProgressLoad ==
    ASSUME Typed, NEW t \in Threads, Holds(t), Installed(t),
           LoadModel(t) \/ LoadNoise(t) \/ LoadPolicy(t) \/ LoadTriage(t)
    PROVE  Holds(t)' /\ Installed(t)'
  <1>0. pc \in [Threads -> Pcs] /\ tmp \in [Threads -> Local]
    BY DEF Typed, TypeOK, ThreadsOK
  <1>1. live' = live
    BY DEF LoadModel, LoadNoise, LoadPolicy, LoadTriage, ReadStep, SetStep, disk
  <1>2. /\ disk_bundle' = disk_bundle /\ disk_triage' = disk_triage
        /\ disk_noise' = disk_noise /\ disk_policy' = disk_policy
        /\ resolve("model")' = resolve("model") /\ resolve_noise' = resolve_noise
        /\ resolve("noise_baseline")' = resolve("noise_baseline")
        /\ read("noise_model", resolve_noise)' = read("noise_model", resolve_noise)
        /\ read("noise_baseline", resolve_noise)' = read("noise_baseline", resolve_noise)
        /\ read("policy", resolve("policy"))' = read("policy", resolve("policy"))
        /\ read("noise_baseline", resolve("noise_baseline"))' =
                read("noise_baseline", resolve("noise_baseline"))
    BY <1>1 DEF disk_bundle, disk_triage, disk_noise, disk_policy, read, resolve, resolve_noise, exists
  <1> USE DEF BeforeModelSet, BeforeNoiseSet, BeforePolicySet, BeforeTriageSet, globals
  <1>3. CASE LoadModel(t)
    BY <1>0, <1>2, <1>3 DEF LoadModel, ReadStep, SetStep, Goto, Keep, Holds, Installed
  <1>4. CASE LoadNoise(t)
    BY <1>0, <1>2, <1>4 DEF LoadNoise, ReadStep, SetStep, Goto, Keep, Holds, Installed, disk_noise
  <1>5. CASE LoadPolicy(t)
    BY <1>0, <1>2, <1>5 DEF LoadPolicy, ReadStep, SetStep, Goto, Keep, Holds, Installed, disk_policy
  <1>6. CASE LoadTriage(t)
    BY <1>0, <1>2, <1>6 DEF LoadTriage, ReadStep, SetStep, Goto, Keep, Holds, Installed
  <1> QED BY <1>3, <1>4, <1>5, <1>6

\* The invariant over the steps of the threads.
LEMMA FreshThreads ==
    ASSUME Serialized, Typed, FreshInv, NEW t \in Threads,
           Request(t) \/ StartReload(t) \/ Serve(t)
    PROVE  ReloadKind' /\ OneReload' /\ Progress' /\ FreshAfterReload' /\ ErrorMatches'
  <1>0. /\ pc \in [Threads -> Pcs] /\ kind \in [Threads -> Kinds]
        /\ QuietReload /\ ReloadKind /\ OneReload /\ Progress /\ FreshAfterReload /\ ErrorMatches
    BY DEF Typed, TypeOK, ThreadsOK, FreshInv
  <1>1. \A u \in Threads : u # t =>
           /\ pc'[u] = pc[u] /\ kind'[u] = kind[u] /\ tmp'[u] = tmp[u]
           /\ (Reloading(u)' <=> Reloading(u))
    BY OthersKeep DEF Reloading
  <1>2. CASE Request(t)
    <2>1. /\ live' = live /\ clean' = clean /\ UNCHANGED globals /\ tmp' = tmp
          /\ pc[t] = "idle" /\ pc'[t] \in {"require", "status"} /\ kind'[t] # "reload"
      BY <1>0, <1>2 DEF Request, Begin, Goto
    <2>2. ~Reloading(t) /\ ~Reloading(t)' /\ pc'[t] \notin ReloadPcs
      BY <2>1 DEF Reloading, ReloadPcs
    <2>3. \A u \in Threads : (Reloading(u)' <=> Reloading(u))
      BY <1>1, <2>2
    <2>4. ReloadKind' /\ OneReload'
      BY <1>0, <1>1, <2>2, <2>3 DEF ReloadKind, OneReload
    <2>5. Progress'
      <3> SUFFICES ASSUME NEW u \in Threads, Reloading(u) PROVE (Holds(u) /\ Installed(u))'
        BY <2>3 DEF Progress
      <3>1. u # t /\ Holds(u) /\ Installed(u)
        BY <1>0, <2>2 DEF Progress
      <3> QED BY <1>1, <2>1, <3>1, DiskSame, Named DEF Holds, Installed, globals
    <2>6. FreshAfterReload'
      BY <1>0, <2>1, <2>3, DiskSame, Named DEF FreshAfterReload, globals
    <2>7. ErrorMatches'
      BY <1>0, <1>1, <2>1 DEF ErrorMatches, globals
    <2> QED BY <2>4, <2>5, <2>6, <2>7
  <1>3. CASE StartReload(t)
    <2>1. /\ live' = live /\ UNCHANGED globals /\ tmp' = tmp
          /\ pc[t] = "idle" /\ pc'[t] = "m_load" /\ kind'[t] = "reload"
      BY <1>0, <1>3 DEF StartReload, Begin, Goto
    <2>2. \A u \in Threads : ~Reloading(u)
      BY <1>3 DEF StartReload, Quiet
    <2>3. Reloading(t)' /\ \A u \in Threads : u # t => ~Reloading(u)'
      BY <1>1, <2>1, <2>2 DEF Reloading
    <2>4. ReloadKind' /\ OneReload' /\ FreshAfterReload'
      BY <1>0, <1>1, <2>1, <2>3 DEF ReloadKind, OneReload, FreshAfterReload
    <2>5. Progress'
      BY <2>1, <2>3 DEF Progress, Holds, Installed, BeforeModelSet, BeforeNoiseSet,
                        BeforePolicySet, BeforeTriageSet
    <2>6. ErrorMatches'
      BY <1>0, <1>1, <2>1 DEF ErrorMatches, globals
    <2> QED BY <2>4, <2>5, <2>6
  <1>4. CASE Serve(t) /\ UNCHANGED globals /\ pc[t] \notin ReloadPcs
    <2>1. /\ live' = live /\ clean' = clean /\ kind'[t] = kind[t] /\ pc[t] # "idle"
          /\ pc'[t] \notin ReloadPcs
      BY <1>4, ServeFrame, ServeOutside
    <2>2. Reloading(t)' => Reloading(t)
      BY <2>1 DEF Reloading
    <2>3. ReloadKind' /\ OneReload'
      BY <1>0, <1>1, <2>1, <2>2 DEF ReloadKind, OneReload
    <2>4. Reloading(t) => bundle = disk_bundle /\ bundle_src = resolve("model")
                          /\ noise = disk_noise /\ policy = disk_policy /\ triage = disk_triage
      BY <1>0, <1>4 DEF Progress, Installed, BeforeModelSet, BeforeNoiseSet,
                        BeforePolicySet, BeforeTriageSet, ReloadPcs
    <2>5. ASSUME NEW u \in Threads, Reloading(u)' PROVE (Holds(u) /\ Installed(u))'
      <3>1. CASE u = t
        <4>1. Holds(t)'
          BY <2>1 DEF Holds, ReloadPcs
        <4> QED BY <1>4, <2>1, <2>2, <2>4, <2>5, <3>1, <4>1, DiskSame, Named DEF Installed, globals
      <3>2. CASE u # t
        <4>1. Holds(u) /\ Installed(u)
          BY <1>0, <1>1, <2>5, <3>2 DEF Progress
        <4> QED BY <1>1, <1>4, <2>1, <3>2, <4>1, DiskSame, Named DEF Holds, Installed, globals
      <3> QED BY <3>1, <3>2
    <2>6. Progress'
      BY <2>5 DEF Progress
    <2>7. FreshAfterReload'
      <3> SUFFICES ASSUME clean', \A u \in Threads : ~Reloading(u)'
                   PROVE  /\ bundle = disk_bundle /\ bundle_src = resolve("model")
                          /\ noise = disk_noise /\ policy = disk_policy /\ triage = disk_triage
        BY <1>4, <2>1, DiskSame, Named DEF FreshAfterReload, globals
      <3>1. CASE Reloading(t)
        BY <2>4, <3>1
      <3>2. CASE ~Reloading(t)
        <4>1. \A u \in Threads : ~Reloading(u)
          BY <1>1, <3>2
        <4> QED BY <1>0, <2>1, <4>1 DEF FreshAfterReload
      <3> QED BY <3>1, <3>2
    <2>8. ErrorMatches'
      BY <1>0, <1>1, <1>4, <2>1 DEF ErrorMatches, globals, ReloadPcs
    <2> QED BY <2>3, <2>6, <2>7, <2>8
  <1>5. CASE LoadModel(t) \/ LoadNoise(t) \/ LoadPolicy(t) \/ LoadTriage(t)
    <2>1. /\ live' = live /\ clean' = clean /\ kind'[t] = kind[t]
          /\ pc[t] \in ReloadPcs /\ pc'[t] \in ReloadPcs \cup {"status"}
      BY <1>5, ServeFrame, LoadFrame DEF Serve
    <2>2. Reloading(t) /\ Reloading(t)'
      BY <1>0, <2>1 DEF Reloading, ReloadKind, ReloadPcs
    <2>3. \A u \in Threads : u # t => ~Reloading(u) /\ ~Reloading(u)' /\ pc[u] \notin ReloadPcs
      BY <1>0, <1>1, <2>2 DEF OneReload, ReloadKind, Reloading, ReloadPcs
    <2>4. ReloadKind' /\ OneReload' /\ FreshAfterReload'
      BY <1>0, <1>1, <2>1, <2>2, <2>3 DEF ReloadKind, OneReload, FreshAfterReload, Reloading, ReloadPcs
    <2>5. Holds(t)' /\ Installed(t)'
      BY <1>0, <1>5, <2>2, ProgressLoad DEF Progress
    <2>6. Progress'
      BY <2>3, <2>5 DEF Progress
    <2>7. ErrorMatches'
      <3>1. \A u \in Threads : u # t => pc'[u] # "m_err" /\ pc[u] # "m_err"
        BY <1>1, <2>3 DEF ReloadPcs
      <3>2. CASE LoadModel(t)
        <4>1. CASE pc'[t] = "m_err"
          BY <4>1 DEF ErrorMatches
        <4>2. CASE pc[t] = "m_err"
          <5>1. bundle = tmp[t].val
            BY <1>0, <2>2, <4>2 DEF Progress, Holds, Installed
          <5>2. bundle' = bundle /\ bundle_err' = (tmp[t].val = None)
            BY <1>0, <3>2, <4>2 DEF LoadModel, ReadStep, SetStep, Goto
          <5> QED BY <5>1, <5>2 DEF ErrorMatches
        <4>3. CASE pc'[t] # "m_err" /\ pc[t] # "m_err"
          <5>1. bundle' = bundle /\ bundle_err' = bundle_err
            BY <1>0, <3>2, <4>3 DEF LoadModel, ReadStep, SetStep, Goto, globals
          <5> QED BY <1>0, <3>1, <4>3, <5>1 DEF ErrorMatches
        <4> QED BY <4>1, <4>2, <4>3
      <3>3. CASE LoadNoise(t) \/ LoadPolicy(t) \/ LoadTriage(t)
        <4>1. UNCHANGED <<bundle, bundle_err>> /\ pc[t] # "m_err"
          BY <1>0, <3>3 DEF LoadNoise, LoadPolicy, LoadTriage, ReadStep, SetStep, globals
        <4> QED BY <1>0, <3>1, <4>1 DEF ErrorMatches
      <3> QED BY <1>5, <3>2, <3>3
    <2> QED BY <2>4, <2>6, <2>7
  <1> QED BY <1>2, <1>3, <1>4, <1>5, ServeFrame

\* FreshInv is an invariant of a serialized deployment, whatever the image ships.
LEMMA FreshInvariant ==
    ASSUME Serialized
    PROVE  Spec => []FreshInv
  <1>1. Init => FreshInv
    BY DEF Init, FreshInv, QuietReload, ReloadKind, OneReload, Progress, Reloading,
           FreshAfterReload, ErrorMatches, ReloadPcs
  <1>2. Typed /\ FreshInv /\ [Next]_vars => FreshInv'
    <2> SUFFICES ASSUME Typed, FreshInv, [Next]_vars PROVE FreshInv'
      OBVIOUS
    <2>0. QuietReload /\ ReloadKind /\ OneReload /\ Progress /\ FreshAfterReload /\ ErrorMatches
      BY DEF FreshInv
    <2>1. ASSUME NEW t \in Threads, Request(t) \/ StartReload(t) \/ Serve(t) PROVE FreshInv'
      BY <2>0, <2>1, QuietStep, FreshThreads DEF Next, FreshInv
    <2>2. ASSUME NEW a \in Artifacts, Overwrite(a) \/ Complete(a) PROVE FreshInv'
      <3>1. UNCHANGED <<globals, locals>> /\ clean' = FALSE
        BY <2>2 DEF Overwrite, Complete
      <3>2. \A u \in Threads : ~Reloading(u)
        <4>1. CASE Overwrite(a)
          BY <4>1 DEF Overwrite, Quiet
        <4>2. CASE Complete(a)
          BY <2>0, <4>2 DEF Complete, QuietReload
        <4> QED BY <2>2, <4>1, <4>2
      <3>3. \A u \in Threads : ~Reloading(u)'
        BY <3>1, <3>2 DEF Reloading, locals
      <3>4. ReloadKind' /\ ErrorMatches'
        BY <2>0, <3>1 DEF ReloadKind, ErrorMatches, locals, globals
      <3>5. QuietReload' /\ OneReload' /\ Progress' /\ FreshAfterReload'
        BY <3>1, <3>3 DEF QuietReload, OneReload, Progress, FreshAfterReload
      <3> QED BY <3>4, <3>5 DEF FreshInv
    <2>3. CASE Restart
      <3>1. /\ live' = live /\ \A u \in Threads : pc'[u] = "idle"
            /\ bundle' = disk_bundle /\ bundle_src' = resolve("model")
            /\ bundle_err' = (disk_bundle = None)
            /\ noise' = disk_noise /\ policy' = disk_policy /\ triage' = disk_triage
        BY <2>3 DEF Restart
      <3>2. \A u \in Threads : ~Reloading(u)'
        BY <3>1 DEF Reloading
      <3>3. ReloadKind' /\ ErrorMatches'
        BY <3>1 DEF ReloadKind, ErrorMatches, ReloadPcs
      <3>4. QuietReload' /\ OneReload' /\ Progress'
        BY <3>2 DEF QuietReload, OneReload, Progress
      <3>5. FreshAfterReload'
        BY <3>1, DiskSame, Named DEF FreshAfterReload
      <3> QED BY <3>3, <3>4, <3>5 DEF FreshInv
    <2>4. CASE UNCHANGED vars
      <3>1. UNCHANGED <<disk, globals, locals>>
        BY <2>4 DEF vars
      <3>2. \A u \in Threads : (Reloading(u)' <=> Reloading(u))
        BY <3>1 DEF Reloading, locals
      <3>3. QuietReload' /\ OneReload' /\ ReloadKind' /\ ErrorMatches'
        BY <2>0, <3>1, <3>2 DEF disk, globals, locals, QuietReload, OneReload, ReloadKind, ErrorMatches
      <3>4. live' = live /\ clean' = clean
        BY <3>1 DEF disk
      <3>5. FreshAfterReload'
        BY <2>0, <3>1, <3>2, <3>4, DiskSame, Named DEF FreshAfterReload, globals
      <3>6. Progress'
        <4> SUFFICES ASSUME NEW u \in Threads, Reloading(u) PROVE (Holds(u) /\ Installed(u))'
          BY <3>2 DEF Progress
        <4>1. Holds(u) /\ Installed(u)
          BY <2>0 DEF Progress
        <4> QED BY <3>1, <3>4, <4>1, DiskSame, Named DEF Holds, Installed, globals, locals
      <3> QED BY <3>3, <3>5, <3>6 DEF FreshInv
    <2> QED BY <2>1, <2>2, <2>3, <2>4 DEF Next
  <1> QED BY <1>1, <1>2, TypedInvariant, PTL DEF Spec

\* With pipelines that do not overlap a /reload ends with exactly the components
\* that a fresh start would load, for any image, threads, promotions and restarts
\* (_load_model to _load_triage against _startup).
THEOREM FreshTheorem ==
    ASSUME Serialized
    PROVE  Spec => []FreshAfterReload
  <1>1. FreshInv => FreshAfterReload
    BY DEF FreshInv
  <1> QED BY <1>1, FreshInvariant, PTL

\* Outside a /reload the process has an error message exactly when it has no
\* model (_load_model, /health).
THEOREM ErrorTheorem ==
    ASSUME Serialized
    PROVE  Spec => []LoadErrorSurfaced
  <1>1. FreshInv => LoadErrorSurfaced
    <2> SUFFICES ASSUME FreshInv, \A t \in Threads : ~Reloading(t)
                 PROVE  bundle = None <=> bundle_err
      BY DEF LoadErrorSurfaced
    <2>1. \A t \in Threads : pc[t] # "m_err"
      BY DEF FreshInv, ReloadKind, Reloading, ReloadPcs
    <2> QED BY <2>1 DEF FreshInv, ErrorMatches
  <1> QED BY <1>1, FreshInvariant, PTL

-----------------------------------------------------------------------------
(* The archive.                                                             *)

\* A request that was counted by observe and is still to be archived.
Counted(t) == kind[t] \in {"detect", "batch"} /\ pc[t] \in {"ready", "decide", "archive"}

\* Its rows, over all threads.
InFlight == {p \in Threads \X Nat : Counted(p[1]) /\ p[2] \in DOMAIN rows[p[1]]}

\* Kinds of request at each step.
KindsKept ==
    \A t \in Threads :
        /\ pc[t] \in {"require", "bundle", "score", "ready", "decide"} =>
              kind[t] \in {"detect", "batch", "triage"}
        /\ pc[t] \in {"noise", "policy", "observe", "archive"} => kind[t] \in {"detect", "batch"}

\* Scored rows are archived or in flight.
Accounted == IsFiniteSet(InFlight) /\ total_scored = archived + Cardinality(InFlight)

\* The rows of one thread are as many as its batch is long.
LEMMA RowsOfThread ==
    ASSUME NEW t, NEW n \in Nat
    PROVE  IsFiniteSet({t} \X (1..n)) /\ Cardinality({t} \X (1..n)) = n
  <1>1. IsFiniteSet({t}) /\ Cardinality({t}) = 1
    BY FS_Singleton
  <1>2. IsFiniteSet(1..n) /\ Cardinality(1..n) = n
    BY FS_Interval
  <1>3. IsFiniteSet({t} \X (1..n)) /\ Cardinality({t} \X (1..n)) = Cardinality({t}) * Cardinality(1..n)
    BY <1>1, <1>2, FS_Product
  <1> QED BY <1>1, <1>2, <1>3

\* The kinds of request that reach each step.
LEMMA KindsStep ==
    ASSUME Typed, KindsKept, [Next]_vars
    PROVE  KindsKept'
  <1>0. pc \in [Threads -> Pcs] /\ kind \in [Threads -> Kinds]
    BY DEF Typed, TypeOK, ThreadsOK
  <1>1. ASSUME NEW t \in Threads, Request(t) \/ StartReload(t) \/ Serve(t) PROVE KindsKept'
    <2>1. ASSUME NEW u \in Threads, u # t
          PROVE  pc'[u] = pc[u] /\ kind'[u] = kind[u]
      BY <1>1, <2>1, OthersKeep
    <2>2. /\ pc'[t] \in {"require", "bundle", "score", "ready", "decide"} =>
                kind'[t] \in {"detect", "batch", "triage"}
          /\ pc'[t] \in {"noise", "policy", "observe", "archive"} => kind'[t] \in {"detect", "batch"}
      <3>1. CASE Request(t) \/ StartReload(t)
        BY <1>0, <3>1 DEF Request, StartReload, Begin, Goto
      <3>2. CASE \/ RequireModel(t) \/ ReturnBundle(t) \/ Score(t)
                 \/ NoiseAnnotate(t) \/ PolicyAnnotate(t) \/ Observe(t)
        BY <1>0, <3>2 DEF RequireModel, ReturnBundle, Score, NoiseAnnotate, PolicyAnnotate,
                          Observe, Reply, Goto, KindsKept
      <3>3. CASE \/ TriageReady(t) \/ TriageDecide(t) \/ TriageDone(t) \/ Archive(t)
                 \/ Status(t) \/ ModelName(t)
        BY <1>0, <3>3 DEF TriageReady, TriageDecide, TriageDone, Archive, Status, ModelName,
                          Reply, Goto, KindsKept
      <3>4. CASE LoadModel(t) \/ LoadNoise(t) \/ LoadPolicy(t) \/ LoadTriage(t)
        <4>1. pc'[t] \in ReloadPcs \cup {"status"}
          BY <3>4, LoadFrame
        <4> QED BY <4>1 DEF ReloadPcs
      <3> QED BY <1>1, <3>1, <3>2, <3>3, <3>4 DEF Serve
    <2> QED BY <2>1, <2>2 DEF KindsKept
  <1>2. ASSUME NEW a \in Artifacts, Overwrite(a) \/ Complete(a) PROVE KindsKept'
    BY <1>2 DEF Overwrite, Complete, locals, KindsKept
  <1>3. CASE Restart
    BY <1>3 DEF Restart, KindsKept
  <1>4. CASE UNCHANGED vars
    BY <1>4 DEF vars, locals, KindsKept
  <1> QED BY <1>1, <1>2, <1>3, <1>4 DEF Next

\* The rows of the other threads are left alone.
LEMMA OthersRows ==
    ASSUME Typed, NEW t \in Threads, Request(t) \/ StartReload(t) \/ Serve(t),
           NEW u \in Threads, u # t
    PROVE  rows'[u] = rows[u]
  <1>1. rows \in [Threads -> Seq(Row)]
    BY DEF Typed, TypeOK, ThreadsOK
  <1>2. CASE Request(t) \/ StartReload(t)
    BY <1>1, <1>2 DEF Request, StartReload, Begin
  <1>3. CASE \/ RequireModel(t) \/ ReturnBundle(t) \/ Score(t)
             \/ NoiseAnnotate(t) \/ PolicyAnnotate(t) \/ Observe(t)
    BY <1>1, <1>3 DEF RequireModel, ReturnBundle, Score, NoiseAnnotate, PolicyAnnotate, Observe, Reply
  <1>4. CASE \/ TriageReady(t) \/ TriageDecide(t) \/ TriageDone(t) \/ Archive(t)
             \/ Status(t) \/ ModelName(t)
    BY <1>1, <1>4 DEF TriageReady, TriageDecide, TriageDone, Archive, Status, ModelName, Reply
  <1>5. CASE LoadModel(t) \/ LoadNoise(t) \/ LoadPolicy(t) \/ LoadTriage(t)
    BY <1>1, <1>5 DEF LoadModel, LoadNoise, LoadPolicy, LoadTriage, ReadStep, SetStep
  <1> QED BY <1>2, <1>3, <1>4, <1>5 DEF Serve

\* But for observe and the archiving itself no step changes what is to be archived.
LEMMA ServeUncounted ==
    ASSUME Typed, KindsKept, NEW t \in Threads, triage # None \/ pc[t] # "decide",
           Request(t) \/ StartReload(t) \/ Serve(t), ~Observe(t), ~Archive(t)
    PROVE  /\ UNCHANGED <<total_scored, archived>>
           /\ (Counted(t)' <=> Counted(t)) /\ (Counted(t) => rows'[t] = rows[t])
  <1>0. pc \in [Threads -> Pcs] /\ kind \in [Threads -> Kinds] /\ rows \in [Threads -> Seq(Row)]
    BY DEF Typed, TypeOK, ThreadsOK
  <1>1. UNCHANGED <<total_scored, archived>>
    BY DEF Request, StartReload, Begin, Serve, RequireModel, ReturnBundle, Score, NoiseAnnotate,
           PolicyAnnotate, TriageReady, TriageDecide, TriageDone, LoadModel, LoadNoise,
           LoadPolicy, LoadTriage, ReadStep, SetStep, Status, ModelName, metrics, observed
  <1>2. CASE Request(t) \/ StartReload(t)
    BY <1>0, <1>1, <1>2 DEF Request, StartReload, Begin, Goto, Counted
  <1>3. CASE \/ RequireModel(t) \/ ReturnBundle(t) \/ Score(t)
             \/ NoiseAnnotate(t) \/ PolicyAnnotate(t)
    BY <1>0, <1>1, <1>3 DEF RequireModel, ReturnBundle, Score, NoiseAnnotate, PolicyAnnotate,
                            Reply, Goto, Counted
  <1>4. CASE TriageReady(t)
    BY <1>0, <1>1, <1>4 DEF TriageReady, Reply, Goto, Counted, KindsKept
  <1>5. CASE TriageDecide(t)
    BY <1>0, <1>1, <1>5 DEF TriageDecide, Counted
  <1>6. CASE TriageDone(t)
    BY <1>0, <1>1, <1>6 DEF TriageDone, Reply, Goto, Counted, KindsKept
  <1>7. CASE Status(t) \/ ModelName(t)
    BY <1>0, <1>1, <1>7 DEF Status, ModelName, Reply, Goto, Counted
  <1>8. CASE LoadModel(t) \/ LoadNoise(t) \/ LoadPolicy(t) \/ LoadTriage(t)
    <2>1. pc[t] \in ReloadPcs /\ pc'[t] \in ReloadPcs \cup {"status"}
      BY <1>8, LoadFrame
    <2> QED BY <1>1, <2>1 DEF Counted, ReloadPcs
  <1> QED BY <1>2, <1>3, <1>4, <1>5, <1>6, <1>7, <1>8 DEF Serve

\* What is to be archived when only one thread's part of it changes.
LEMMA InFlightOf ==
    ASSUME NEW t \in Threads,
           \A u \in Threads : u # t => pc'[u] = pc[u] /\ kind'[u] = kind[u] /\ rows'[u] = rows[u]
    PROVE  /\ ~Counted(t) /\ ~Counted(t)' => InFlight' = InFlight
           /\ Counted(t) /\ Counted(t)' /\ rows'[t] = rows[t] => InFlight' = InFlight
           /\ ~Counted(t) /\ Counted(t)' /\ DOMAIN rows'[t] \subseteq Nat =>
                 InFlight' = InFlight \cup ({t} \X DOMAIN rows'[t])
                 /\ InFlight \cap ({t} \X DOMAIN rows'[t]) = {}
           /\ Counted(t) /\ ~Counted(t)' /\ DOMAIN rows[t] \subseteq Nat =>
                 InFlight = InFlight' \cup ({t} \X DOMAIN rows[t])
                 /\ InFlight' \cap ({t} \X DOMAIN rows[t]) = {}
  <1>1. \A u \in Threads : u # t => (Counted(u)' <=> Counted(u))
    BY DEF Counted
  <1>2. \A p \in Threads \X Nat :
            /\ p \in InFlight <=> Counted(p[1]) /\ p[2] \in DOMAIN rows[p[1]]
            /\ p \in InFlight' <=> Counted(p[1])' /\ p[2] \in DOMAIN rows'[p[1]]
            /\ p[1] # t => (p \in InFlight' <=> p \in InFlight)
    BY <1>1 DEF InFlight
  <1>3. InFlight \subseteq Threads \X Nat /\ InFlight' \subseteq Threads \X Nat
    BY DEF InFlight
  <1>4. ASSUME NEW D, D \subseteq Nat
        PROVE  /\ {t} \X D \subseteq Threads \X Nat
               /\ \A p \in Threads \X Nat : p \in {t} \X D <=> p[1] = t /\ p[2] \in D
    BY <1>4
  <1>5. CASE ~Counted(t) /\ ~Counted(t)'
    BY <1>2, <1>3, <1>5
  <1>6. CASE Counted(t) /\ Counted(t)'
    BY <1>2, <1>3, <1>6
  <1>7. CASE ~Counted(t) /\ Counted(t)'
    <2> SUFFICES ASSUME DOMAIN rows'[t] \subseteq Nat
                 PROVE  InFlight' = InFlight \cup ({t} \X DOMAIN rows'[t])
                        /\ InFlight \cap ({t} \X DOMAIN rows'[t]) = {}
      BY <1>7
    <2> DEFINE D == DOMAIN rows'[t]
               B == {t} \X D
    <2>1. B \subseteq Threads \X Nat /\ \A p \in Threads \X Nat : p \in B <=> p[1] = t /\ p[2] \in D
      BY <1>4
    <2> HIDE DEF B
    <2> QED BY <1>2, <1>3, <1>7, <2>1 DEF B
  <1>8. CASE Counted(t) /\ ~Counted(t)'
    <2> SUFFICES ASSUME DOMAIN rows[t] \subseteq Nat
                 PROVE  InFlight = InFlight' \cup ({t} \X DOMAIN rows[t])
                        /\ InFlight' \cap ({t} \X DOMAIN rows[t]) = {}
      BY <1>8
    <2> DEFINE D == DOMAIN rows[t]
               B == {t} \X D
    <2>1. B \subseteq Threads \X Nat /\ \A p \in Threads \X Nat : p \in B <=> p[1] = t /\ p[2] \in D
      BY <1>4
    <2> HIDE DEF B
    <2> QED BY <1>2, <1>3, <1>8, <2>1 DEF B
  <1> QED BY <1>5, <1>6, <1>7, <1>8

\* Every scored row is archived or on its way, as long as no request dies.
LEMMA AccountedStep ==
    ASSUME Typed, KindsKept, Accounted, \A t \in Threads : pc[t] = "decide" => triage # None,
           [Next]_vars
    PROVE  Accounted'
  <1>0. /\ pc \in [Threads -> Pcs] /\ kind \in [Threads -> Kinds] /\ rows \in [Threads -> Seq(Row)]
        /\ total_scored \in Nat /\ archived \in Nat
    BY DEF Typed, TypeOK, ThreadsOK, MetricsOK
  <1>1. ASSUME InFlight' = InFlight, UNCHANGED <<total_scored, archived>> PROVE Accounted'
    BY <1>1 DEF Accounted
  <1>2. ASSUME NEW t \in Threads, Request(t) \/ StartReload(t) \/ Serve(t) PROVE Accounted'
    <2>1. \A u \in Threads : u # t => pc'[u] = pc[u] /\ kind'[u] = kind[u] /\ rows'[u] = rows[u]
      BY <1>2, OthersKeep, OthersRows
    <2>2. CASE ~Observe(t) /\ ~Archive(t)
      <3>1. /\ UNCHANGED <<total_scored, archived>>
            /\ (Counted(t)' <=> Counted(t)) /\ (Counted(t) => rows'[t] = rows[t])
        BY <1>2, <2>2, ServeUncounted
      <3>2. InFlight' = InFlight
        BY <2>1, <3>1, InFlightOf
      <3> QED BY <1>1, <3>1, <3>2
    <2> DEFINE n == Len(rows[t])
               B == {t} \X (1..n)
    <2>3. n \in Nat /\ DOMAIN rows[t] = 1..n
      BY <1>0, LenProperties
    <2>4. IsFiniteSet(B) /\ Cardinality(B) = n /\ 1..n \subseteq Nat
      <3> HIDE DEF n
      <3>1. IsFiniteSet(B) /\ Cardinality(B) = n
        BY <2>3, RowsOfThread
      <3>2. 1..n \subseteq Nat
        BY <2>3
      <3> QED BY <3>1, <3>2
    <2>5. CASE Observe(t)
      <3>1. /\ total_scored' = total_scored + n /\ archived' = archived /\ rows' = rows /\ kind' = kind
            /\ pc[t] = "observe" /\ pc'[t] \in {"ready", "archive"}
        BY <1>0, <2>5 DEF Observe, Goto
      <3>2. ~Counted(t) /\ Counted(t)'
        BY <3>1 DEF Counted, KindsKept
      <3>3. InFlight' = InFlight \cup B /\ InFlight \cap B = {}
        BY <2>1, <2>3, <2>4, <3>1, <3>2, InFlightOf
      <3> HIDE DEF B, n
      <3>4. /\ IsFiniteSet(InFlight \cup B)
            /\ Cardinality(InFlight \cup B) = Cardinality(InFlight) + Cardinality(B)
        BY <2>4, <3>3, DisjointUnion DEF Accounted
      <3>5. Cardinality(InFlight) \in Nat
        BY FS_CardinalityType DEF Accounted
      <3>6. Cardinality(InFlight') = Cardinality(InFlight) + n /\ IsFiniteSet(InFlight')
        BY <2>4, <3>3, <3>4
      <3>7. total_scored' = archived' + Cardinality(InFlight')
        BY <1>0, <2>3, <3>1, <3>5, <3>6 DEF Accounted
      <3> QED BY <3>6, <3>7 DEF Accounted
    <2>6. CASE Archive(t)
      <3>1. /\ archived' = archived + n /\ total_scored' = total_scored
            /\ pc[t] = "archive" /\ pc'[t] = "idle"
        BY <1>0, <2>6 DEF Archive, Reply, Goto, metrics, observed
      <3>2. Counted(t) /\ ~Counted(t)'
        BY <3>1 DEF Counted, KindsKept
      <3>3. InFlight = InFlight' \cup B /\ InFlight' \cap B = {}
        BY <2>1, <2>3, <2>4, <3>2, InFlightOf
      <3> HIDE DEF B, n
      <3>4. IsFiniteSet(InFlight')
        <4>1. InFlight' \subseteq InFlight /\ IsFiniteSet(InFlight)
          BY <3>3 DEF Accounted
        <4> QED BY <4>1, FS_Subset
      <3>5. Cardinality(InFlight' \cup B) = Cardinality(InFlight') + Cardinality(B)
        BY <2>4, <3>3, <3>4, DisjointUnion
      <3>6. Cardinality(InFlight') \in Nat
        BY <3>4, FS_CardinalityType
      <3>7. Cardinality(InFlight) = Cardinality(InFlight') + n
        BY <2>4, <3>3, <3>5
      <3>8. total_scored' = archived' + Cardinality(InFlight')
        BY <1>0, <2>3, <3>1, <3>6, <3>7 DEF Accounted
      <3> QED BY <3>4, <3>8 DEF Accounted
    <2> QED BY <2>2, <2>5, <2>6
  <1>3. ASSUME NEW a \in Artifacts, Overwrite(a) \/ Complete(a) PROVE Accounted'
    <2>1. UNCHANGED <<total_scored, archived, pc, kind, rows>>
      BY <1>3 DEF Overwrite, Complete, locals, metrics, observed
    <2>2. InFlight' = InFlight
      BY <2>1 DEF InFlight, Counted
    <2> QED BY <1>1, <2>1, <2>2
  <1>4. CASE Restart
    <2>1. /\ total_scored' = 0 /\ archived' = 0 /\ \A t \in Threads : pc'[t] = "idle"
      BY <1>4 DEF Restart
    <2>2. InFlight' = {}
      BY <2>1 DEF InFlight, Counted
    <2>3. IsFiniteSet(InFlight') /\ Cardinality(InFlight') = 0
      BY <2>2, FS_EmptySet
    <2> QED BY <2>1, <2>3 DEF Accounted
  <1>5. CASE UNCHANGED vars
    <2>1. UNCHANGED <<total_scored, archived, pc, kind, rows>>
      BY <1>5 DEF vars, locals, metrics, observed
    <2>2. InFlight' = InFlight
      BY <2>1 DEF InFlight, Counted
    <2> QED BY <1>1, <2>1, <2>2
  <1> QED BY <1>2, <1>3, <1>4, <1>5 DEF Next

\* With pipelines that do not overlap the archive has every row that /metrics
\* counts once no request is in flight, for any threads, images, batch sizes,
\* promotions and restarts (observe, _archive_rows).
THEOREM ArchivedTheorem ==
    ASSUME Serialized
    PROVE  Spec => []EveryScoredRowArchived
  <1>1. Init => KindsKept /\ Accounted
    <2> SUFFICES ASSUME Init PROVE KindsKept /\ Accounted
      OBVIOUS
    <2>1. total_scored = 0 /\ archived = 0 /\ \A t \in Threads : pc[t] = "idle"
      BY DEF Init
    <2>2. InFlight = {}
      BY <2>1 DEF InFlight, Counted
    <2>3. IsFiniteSet(InFlight) /\ Cardinality(InFlight) = 0
      BY <2>2, FS_EmptySet
    <2> QED BY <2>1, <2>3 DEF Accounted, KindsKept
  <1>2. Typed /\ Swap /\ KindsKept /\ Accounted /\ [Next]_vars => KindsKept' /\ Accounted'
    <2>1. Swap => \A t \in Threads : pc[t] = "decide" => triage # None
      BY DEF Swap, Held
    <2> QED BY <2>1, KindsStep, AccountedStep
  <1>3. Typed /\ Accounted => EveryScoredRowArchived
    <2> SUFFICES ASSUME Typed, Accounted, \A t \in Threads : pc[t] = "idle"
                 PROVE  archived = total_scored
      BY DEF EveryScoredRowArchived
    <2>1. InFlight = {}
      BY DEF InFlight, Counted
    <2>2. Cardinality(InFlight) = 0
      BY <2>1, FS_EmptySet
    <2> QED BY <2>2 DEF Accounted, Typed, TypeOK, MetricsOK
  <1> QED BY <1>1, <1>2, <1>3, TypedInvariant, SwapInvariant, PTL DEF Spec
=============================================================================
