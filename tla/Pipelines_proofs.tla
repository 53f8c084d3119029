-------------------------- MODULE Pipelines_proofs ---------------------------
(***************************************************************************)
(* Proofs about the two promotion pipelines, Distill and Retrain, for any   *)
(* number of replicas, trainings, nightly runs and faults.  Each property   *)
(* has its own inductive invariant over the types and the place of the      *)
(* promotion loop.                                                          *)
(***************************************************************************)
EXTENDS Distill, Retrain, TLAPS

-----------------------------------------------------------------------------
(* The distill pipeline (Distill).                                          *)

Files == Nat \cup {NoFile, Cut}
Pairs == [model : Files, base : Files]

\* Stages in which the loop works on replica pod, and all of the loop.
AtPod  == {"model_fill", "base", "base_fill", "reload"}
InLoop == {"model"} \cup AtPod

DistillTypes ==
    /\ FreshWork \in BOOLEAN /\ trainings \in Nat
    /\ work \in [metrics : Files, model : Files, base : Files]
    /\ pair \in [Replicas -> Pairs] /\ filter \in [Replicas -> Pairs]
    /\ at \in {"idle", "train", "gate"} \cup InLoop
    /\ rest \subseteq Replicas /\ pod \in Replicas /\ counted \subseteq Replicas
    /\ trainerFaults \in Nat /\ execFaults \in Nat

\* Where the loop is: a replica is counted after the loop took it.
Place ==
    /\ at \in {"train", "gate"} => counted = {}
    /\ counted \cap rest = {}
    /\ at \in AtPod => pod \notin counted \cup rest

\* What was copied to the replica at hand.
Copied ==
    /\ at \in {"base", "base_fill", "reload"} => pair[pod].model = work.model
    /\ at = "reload" => pair[pod].base = work.base

\* Under this condition the files in $WORK are of one training, or are missing.
Reliable == FreshWork \/ trainerFaults = 0

GateInv ==
    Reliable =>
        /\ \A r \in Replicas : pair[r].model \in safe \cup {NoFile, Cut}
        /\ at = "train" /\ FreshWork => work = NoWork
        /\ at = "gate" => \/ work.model \in {NoFile, Cut}
                          \/ work.model = work.metrics
        /\ at \in InLoop => work.model \in safe \cup {NoFile, Cut}

\* Without faults a pair is torn only while it is being overwritten, and only
\* then a restart can load a torn one.
MatchInv ==
    trainerFaults + execFaults = 0 =>
        /\ at \in {"gate"} \cup InLoop => work.model = work.base /\ work.model \in Nat
        /\ \A r \in Replicas :
              /\ pair[r].model = pair[r].base \/ (r = pod /\ at \in {"model_fill", "base", "base_fill"})
              /\ filter[r].model = filter[r].base \/ (r = pod /\ at \in AtPod)

DistillInv == DistillTypes /\ Place /\ Copied /\ CountedRunsPair /\ GateInv /\ MatchInv

-----------------------------------------------------------------------------

\* What from_env loads is a pair of files, and a matched one if the files match.
LEMMA LoadedPairType ==
    ASSUME DistillTypes, NEW r \in Replicas
    PROVE  LoadedPair(r) \in Pairs
           /\ (pair[r].model = pair[r].base => LoadedPair(r).model = LoadedPair(r).base)
<1>1. pair[r] \in Pairs
  BY DEF DistillTypes
<1> QED
  BY <1>1 DEF LoadedPair, Off, Pairs, Files

\* The invariant of the distill pipeline holds at the start.
LEMMA DistillStart == DistillInit => DistillInv
<1> SUFFICES ASSUME DistillInit PROVE DistillInv
  OBVIOUS
<1>1. DistillTypes
  BY DEF DistillInit, DistillTypes, NoWork, Off, Pairs, Files
<1>2. Place /\ Copied /\ CountedRunsPair
  BY DEF DistillInit, Place, Copied, CountedRunsPair, AtPod
<1>3. GateInv
  BY DEF DistillInit, GateInv, InLoop, AtPod, Off
<1>4. MatchInv
  BY DEF DistillInit, MatchInv, InLoop, AtPod, Off
<1> QED
  BY <1>1, <1>2, <1>3, <1>4 DEF DistillInv

\* The trainer's files, in the order it writes them (train_noise_filter.py).
LEMMA TrainPreserves ==
    ASSUME DistillInv, Train
    PROVE  DistillInv'
<1> USE DEF DistillInv, training, onReplicas, loop
<1>0. PICK done \in 0..3, cut \in BOOLEAN :
        /\ done = 3 => ~cut
        /\ trainerFaults' = IF done = 3 THEN trainerFaults ELSE trainerFaults + 1
        /\ work' = Written(done, cut)
        /\ IF work'.metrics = NoFile THEN Stop("failed") ELSE at' = "gate" /\ UNCHANGED told
  BY DEF Train
<1>1. /\ at = "train" /\ trainings' = trainings + 1 /\ at' \in {"idle", "gate"}
      /\ safe \subseteq safe'
      /\ UNCHANGED <<FreshWork, pair, filter, rest, pod, counted, execFaults>>
  BY <1>0 DEF Train, Stop
<1>2. work' = [metrics |-> IF 1 <= done THEN trainings + 1 ELSE IF cut /\ 1 = done + 1 THEN Cut ELSE work.metrics,
               model |-> IF 2 <= done THEN trainings + 1 ELSE IF cut /\ 2 = done + 1 THEN Cut ELSE work.model,
               base |-> IF 3 <= done THEN trainings + 1 ELSE IF cut /\ 3 = done + 1 THEN Cut ELSE work.base]
  BY <1>0 DEF Written
<1>3. trainings + 1 \in Nat /\ NoFile \notin Nat /\ Cut \notin Nat
  BY DistillAssumption DEF DistillTypes
<1>4. DistillTypes'
  <2>1. work' \in [metrics : Files, model : Files, base : Files]
    BY <1>2, <1>3 DEF DistillTypes, Files
  <2>2. trainerFaults' \in Nat
    BY <1>0 DEF DistillTypes
  <2> QED
    BY <1>1, <1>3, <2>1, <2>2 DEF DistillTypes
<1>5. Place' /\ Copied' /\ CountedRunsPair'
  BY <1>1 DEF Place, Copied, CountedRunsPair, AtPod
<1>6. GateInv'
  <2> SUFFICES ASSUME Reliable' PROVE
        /\ \A r \in Replicas : pair'[r].model \in safe' \cup {NoFile, Cut}
        /\ at' = "gate" => work'.model \in {NoFile, Cut} \/ work'.model = work'.metrics
    BY <1>1 DEF GateInv, InLoop, AtPod
  <2>1. Reliable
    BY <1>0, <1>1 DEF Reliable, DistillTypes
  <2>2. \A r \in Replicas : pair'[r].model \in safe' \cup {NoFile, Cut}
    BY <2>1, <1>1 DEF GateInv
  <2>3. CASE done >= 2
    BY <1>2, <2>2, <2>3
  <2>4. CASE done < 2 /\ FreshWork
    <3>1. work = NoWork
      BY <1>1, <2>1, <2>4 DEF GateInv
    <3> QED
      BY <1>2, <2>2, <2>4, <3>1 DEF NoWork
  <2>5. done < 2 => FreshWork
    BY <1>0, <1>1 DEF Reliable, DistillTypes
  <2> QED
    BY <2>3, <2>4, <2>5
<1>7. MatchInv'
  <2> SUFFICES ASSUME trainerFaults' + execFaults' = 0 PROVE
        /\ work'.model = work'.base /\ work'.model \in Nat
        /\ \A r \in Replicas : pair'[r].model = pair'[r].base /\ filter'[r].model = filter'[r].base
    BY DEF MatchInv
  <2>1. trainerFaults + execFaults = 0 /\ done = 3
    BY <1>0, <1>1 DEF DistillTypes
  <2> QED
    BY <1>1, <1>2, <1>3, <2>1 DEF MatchInv, AtPod
<1> QED
  BY <1>4, <1>5, <1>6, <1>7

\* A reload or a restart changes only what one replica has in memory, to what
\* from_env loads (noise_filter.py).
LEMMA LoadPreserves ==
    ASSUME DistillInv, NEW r \in Replicas,
           filter' = [filter EXCEPT ![r] = LoadedPair(r)],
           UNCHANGED <<training, work, pair, at, loop, trainerFaults, execFaults>>
    PROVE  DistillInv'
<1> USE DEF DistillInv, training, loop
<1>1. LoadedPair(r) \in Pairs
      /\ (pair[r].model = pair[r].base => LoadedPair(r).model = LoadedPair(r).base)
  BY LoadedPairType
<1>2. DistillTypes'
  BY <1>1 DEF DistillTypes
<1>3. Place' /\ Copied' /\ GateInv'
  BY DEF Place, Copied, GateInv, Reliable
<1>4. CountedRunsPair'
  BY DEF DistillTypes, CountedRunsPair, LoadedPair
<1>5. MatchInv'
  BY <1>1 DEF DistillTypes, MatchInv, AtPod
<1> QED
  BY <1>2, <1>3, <1>4, <1>5

\* Every step of the pipeline, of a fault and of a replica's restart keeps it.
LEMMA DistillStep == DistillInv /\ [DistillNext]_distillVars => DistillInv'
<1> SUFFICES ASSUME DistillInv, [DistillNext]_distillVars PROVE DistillInv'
  OBVIOUS
<1> USE DEF DistillInv, training, onReplicas, loop
<1>t. NoFile \notin Nat /\ Cut \notin Nat /\ NoFile # Cut
  BY DistillAssumption
<1>1. CASE StartDistill
  <2>1. DistillTypes'
    BY <1>1 DEF StartDistill, Stop, DistillTypes, NoWork, Files
  <2>2. Place' /\ Copied' /\ CountedRunsPair'
    BY <1>1 DEF StartDistill, Stop, Place, Copied, CountedRunsPair, AtPod
  <2>3. GateInv'
    BY <1>1 DEF StartDistill, Stop, GateInv, Reliable, InLoop, AtPod
  <2>4. MatchInv'
    BY <1>1 DEF StartDistill, Stop, MatchInv, InLoop, AtPod
  <2> QED
    BY <2>1, <2>2, <2>3, <2>4
<1>2. CASE Train
  BY <1>2, TrainPreserves
<1>3. CASE GateFloor
  <2>1. DistillTypes'
    BY <1>3 DEF GateFloor, Stop, DistillTypes, InLoop
  <2>2. Place' /\ Copied' /\ CountedRunsPair'
    BY <1>3 DEF GateFloor, Stop, Place, Copied, CountedRunsPair, LoadedPair, AtPod
  <2>3. GateInv'
    BY <1>3 DEF GateFloor, Stop, GateInv, Reliable, InLoop, AtPod
  <2>4. MatchInv'
    BY <1>3 DEF GateFloor, Stop, MatchInv, InLoop, AtPod
  <2> QED
    BY <2>1, <2>2, <2>3, <2>4
<1>4. ASSUME NEW r \in Replicas, BeginReplica(r) PROVE DistillInv'
  <2>1. DistillTypes'
    BY <1>4 DEF BeginReplica, ExecFault, DistillTypes, Pairs, Files, InLoop, AtPod
  <2>2. Place' /\ Copied'
    BY <1>4 DEF BeginReplica, Place, Copied, AtPod
  <2>3. CountedRunsPair'
    BY <1>4 DEF BeginReplica, Place, CountedRunsPair, LoadedPair, DistillTypes
  <2>4. GateInv'
    BY <1>4 DEF BeginReplica, GateInv, Reliable, DistillTypes, Pairs, InLoop, AtPod
  <2>5. MatchInv'
    BY <1>4 DEF BeginReplica, ExecFault, MatchInv, DistillTypes, Pairs, InLoop, AtPod
  <2> QED
    BY <2>1, <2>2, <2>3, <2>4, <2>5
<1>5. CASE FillModel
  <2>1. DistillTypes'
    BY <1>5 DEF FillModel, ExecFault, DistillTypes, Pairs, Files, InLoop, AtPod
  <2>2. Place' /\ Copied'
    BY <1>5 DEF FillModel, Place, Copied, DistillTypes, Pairs, AtPod
  <2>3. CountedRunsPair'
    BY <1>5 DEF FillModel, Place, CountedRunsPair, LoadedPair, DistillTypes, AtPod
  <2>4. GateInv'
    BY <1>5 DEF FillModel, GateInv, Reliable, DistillTypes, Pairs, InLoop, AtPod
  <2>5. MatchInv'
    BY <1>5 DEF FillModel, ExecFault, MatchInv, DistillTypes, Pairs, InLoop, AtPod
  <2> QED
    BY <2>1, <2>2, <2>3, <2>4, <2>5
<1>6. CASE BeginBase
  <2>1. DistillTypes'
    BY <1>6 DEF BeginBase, ExecFault, DistillTypes, Pairs, Files, InLoop, AtPod
  <2>2. Place' /\ Copied'
    BY <1>6 DEF BeginBase, Place, Copied, DistillTypes, Pairs, AtPod
  <2>3. CountedRunsPair'
    BY <1>6 DEF BeginBase, Place, CountedRunsPair, LoadedPair, DistillTypes, AtPod
  <2>4. GateInv'
    BY <1>6 DEF BeginBase, GateInv, Reliable, DistillTypes, Pairs, InLoop, AtPod
  <2>5. MatchInv'
    BY <1>6, <1>t DEF BeginBase, ExecFault, MatchInv, DistillTypes, Pairs, InLoop, AtPod
  <2> QED
    BY <2>1, <2>2, <2>3, <2>4, <2>5
<1>7. CASE FillBase
  <2>1. DistillTypes'
    BY <1>7 DEF FillBase, ExecFault, DistillTypes, Pairs, Files, InLoop, AtPod
  <2>2. Place' /\ Copied'
    BY <1>7 DEF FillBase, Place, Copied, DistillTypes, Pairs, AtPod
  <2>3. CountedRunsPair'
    BY <1>7 DEF FillBase, Place, CountedRunsPair, LoadedPair, DistillTypes, AtPod
  <2>4. GateInv'
    BY <1>7 DEF FillBase, GateInv, Reliable, DistillTypes, Pairs, InLoop, AtPod
  <2>5. MatchInv'
    BY <1>7 DEF FillBase, ExecFault, MatchInv, Copied, DistillTypes, Pairs, InLoop, AtPod
  <2> QED
    BY <2>1, <2>2, <2>3, <2>4, <2>5
<1>8. CASE ReloadReplica
  <2>0. /\ at = "reload" /\ at' = "model" /\ pod \in Replicas
        /\ UNCHANGED <<FreshWork, trainings, safe, work, pair, rest, pod, trainerFaults>>
    BY <1>8 DEF ReloadReplica, DistillTypes
  <2>1. LoadedPair(pod) \in Pairs
        /\ (pair[pod].model = pair[pod].base => LoadedPair(pod).model = LoadedPair(pod).base)
    BY <2>0, LoadedPairType
  <2>2. DistillTypes'
    BY <1>8, <2>0, <2>1 DEF ReloadReplica, ExecFault, DistillTypes, InLoop
  <2>3. Place' /\ Copied'
    BY <1>8, <2>0 DEF ReloadReplica, Place, Copied, AtPod
  <2>4. pair[pod] = [model |-> work.model, base |-> work.base]
    BY <2>0 DEF Copied, DistillTypes, Pairs
  <2>5. CountedRunsPair'
    BY <1>8, <2>0, <2>4 DEF ReloadReplica, CountedRunsPair, LoadedPair, DistillTypes
  <2>6. GateInv'
    BY <2>0 DEF GateInv, Reliable, InLoop, AtPod
  <2>7. MatchInv'
    BY <1>8, <2>0, <2>1 DEF ReloadReplica, ExecFault, MatchInv, DistillTypes, InLoop, AtPod
  <2> QED
    BY <2>2, <2>3, <2>5, <2>6, <2>7
<1>9. CASE TellPromoted
  <2>1. DistillTypes' /\ Place' /\ Copied'
    BY <1>9 DEF TellPromoted, Stop, DistillTypes, Place, Copied, AtPod
  <2>2. CountedRunsPair' /\ GateInv'
    BY <1>9 DEF TellPromoted, Stop, CountedRunsPair, LoadedPair, GateInv, Reliable, InLoop, AtPod
  <2>3. MatchInv'
    BY <1>9 DEF TellPromoted, Stop, MatchInv, InLoop, AtPod
  <2> QED
    BY <2>1, <2>2, <2>3
<1>10. CASE DistillKilled
  <2>1. DistillTypes' /\ Place' /\ Copied'
    BY <1>10 DEF DistillKilled, ExecFault, Stop, DistillTypes, Place, Copied, AtPod
  <2>2. CountedRunsPair' /\ GateInv'
    BY <1>10 DEF DistillKilled, Stop, CountedRunsPair, LoadedPair, GateInv, Reliable, InLoop, AtPod
  <2>3. MatchInv'
    BY <1>10 DEF DistillKilled, ExecFault, MatchInv, DistillTypes
  <2> QED
    BY <2>1, <2>2, <2>3
<1>11. ASSUME NEW r \in Replicas, RestartReplica(r) PROVE DistillInv'
  BY <1>11, LoadPreserves DEF RestartReplica
<1>12. CASE UNCHANGED distillVars
  <2>1. DistillTypes' /\ Place' /\ Copied'
    BY <1>12 DEF distillVars, DistillTypes, Place, Copied
  <2>2. CountedRunsPair' /\ GateInv' /\ MatchInv'
    BY <1>12 DEF distillVars, CountedRunsPair, LoadedPair, GateInv, Reliable, MatchInv
  <2> QED
    BY <2>1, <2>2
<1> QED
  BY <1>1, <1>2, <1>3, <1>4, <1>5, <1>6, <1>7, <1>8, <1>9, <1>10, <1>11, <1>12 DEF DistillNext

\* So it always holds.
LEMMA DistillInvariant == DistillSpec => []DistillInv
<1> QED
  BY DistillStart, DistillStep, PTL DEF DistillSpec

\* A replica counted as reloaded has the run's pair on disk and uses it
\* (distill_pipeline.sh, the && chain of the promotion loop).
THEOREM CountedTheorem == DistillSpec => []CountedRunsPair
<1>1. DistillInv => CountedRunsPair
  BY DEF DistillInv
<1> QED
  BY <1>1, DistillInvariant, PTL

\* With an empty $WORK, or as long as no trainer failed, no filter that failed
\* the gate reaches a replica (distill_pipeline.sh, steps 4 and 5).
THEOREM GateTheorem == DistillSpec => []GateUnlessStale
<1>1. DistillInv => GateUnlessStale
  BY DEF DistillInv, GateInv, Reliable, GateUnlessStale, GateHolds
<1> QED
  BY <1>1, DistillInvariant, PTL

\* Without faults every replica uses a model with its own baseline between runs,
\* though restarts may load a torn pair during one (noise_filter.from_env).
THEOREM MatchedTheorem == DistillSpec => []MatchedPair
<1>1. DistillInv => MatchedPair
  BY DEF DistillInv, MatchInv, MatchedPair, AtPod
<1> QED
  BY <1>1, DistillInvariant, PTL

-----------------------------------------------------------------------------
(* The retrain pipeline (Retrain).                                          *)

USE DEF End, Loaded

Copying == {"write", "fill", "reload"}

RetrainTypes ==
    /\ models \in Nat /\ auc \in [0..models -> Nat]
    /\ live \in [Pods -> (0..models) \cup {Missing, Broken}]
    /\ serving \in [Pods -> (0..models) \cup {Broken}]
    /\ stage \in {"idle", "current", "gate"} \cup Copying
    /\ PODS \subseteq Pods /\ todo \subseteq PODS /\ p0 \in Pods
    /\ cur \in (0..models) \cup {Broken}
    /\ answered \subseteq PODS \ todo

\* How far the promotion loop is: the pods it has left behind have the new
\* model, except the one whose file was just truncated.
LoopInv ==
    /\ stage \in {"current", "gate"} => todo = PODS /\ answered = {}
    /\ stage # "idle" => notified # "PROMOTED"
    /\ stage \in {"fill", "reload"} => p0 \in PODS \ todo
    /\ stage = "fill" => p0 \notin answered
    /\ notified = "PROMOTED" => todo = {}
    /\ stage \in Copying \/ notified = "PROMOTED" =>
          /\ \A p \in PODS \ todo : live[p] = models \/ (stage = "fill" /\ p = p0)
          /\ \A p \in answered : serving[p] = models

\* Every model is at most auc_tol per promotion worse than the baked one.
DriftInv == \A m \in 0..models : auc[m] >= auc[0] - auc_tol * m

RetrainInv == RetrainTypes /\ LoopInv /\ DriftInv

-----------------------------------------------------------------------------

\* Arithmetic of the tolerance (retrain.py: cur_auc - args.auc_tol).
LEMMA ToleranceAdds ==
    ASSUME NEW t \in Nat, NEW k \in Nat, NEW n \in Nat, k <= n
    PROVE  t * k + t <= t * (n + 1)
<1>1. t * (n + 1) = t * n + t
  OBVIOUS
<1>2. t * k <= t * n
  OBVIOUS
<1> QED
  BY <1>1, <1>2

\* A model that passes the gate keeps the bound on the drift (retrain.py main).
LEMMA GateDrift ==
    ASSUME RetrainTypes, DriftInv, cur # Broken,
           NEW a \in Nat, NEW r \in BOOLEAN, promote(a, r)
    PROVE  a >= auc[0] - auc_tol * (models + 1)
<1>1. cur \in 0..models /\ auc_tol \in Nat /\ auc[cur] \in Nat /\ auc[0] \in Nat /\ models \in Nat
  BY RetrainAssumption DEF RetrainTypes
<1>2. a >= auc[cur] - auc_tol
  BY DEF promote
<1>3. auc[cur] >= auc[0] - auc_tol * cur
  BY <1>1 DEF DriftInv
<1>4. auc_tol * cur + auc_tol <= auc_tol * (models + 1)
  BY <1>1, ToleranceAdds
<1>5. auc_tol * cur \in Nat /\ auc_tol * (models + 1) \in Nat
  BY <1>1
<1> QED
  BY <1>1, <1>2, <1>3, <1>4, <1>5

\* The invariant of the retrain pipeline holds at the start.
LEMMA RetrainStart == RetrainInit => RetrainInv
<1> SUFFICES ASSUME RetrainInit PROVE RetrainInv
  OBVIOUS
<1>1. RetrainTypes
  BY RetrainAssumption DEF RetrainInit, RetrainTypes
<1>2. LoopInv
  BY DEF RetrainInit, LoopInv, Copying
<1>3. DriftInv
  BY RetrainAssumption DEF RetrainInit, DriftInv
<1> QED
  BY <1>1, <1>2, <1>3 DEF RetrainInv

\* The gate: the only step that makes a model.
LEMMA GatePreserves ==
    ASSUME RetrainInv, Gate
    PROVE  RetrainInv'
<1> USE DEF RetrainInv, rtPods, rtRun
<1>1. CASE UNCHANGED <<auc, models>> /\ stage' = "idle" /\ notified' \in {"ERROR", "REJECTED"}
  <2>1. RetrainTypes' /\ DriftInv'
    BY <1>1 DEF Gate, RetrainTypes, DriftInv, Copying
  <2>2. LoopInv'
    BY <1>1 DEF Gate, LoopInv, Copying
  <2> QED
    BY <2>1, <2>2
<1>2. ASSUME cur # Broken, NEW a \in AUCs, NEW r \in BOOLEAN, promote(a, r),
             models' = models + 1,
             auc' = [m \in 0..(models + 1) |-> IF m > models THEN a ELSE auc[m]],
             stage' = "write", UNCHANGED notified
      PROVE  RetrainInv'
  <2>0. a \in Nat /\ models \in Nat /\ UNCHANGED <<live, serving, PODS, todo, p0, cur, answered>>
        /\ stage = "gate"
    BY <1>2, RetrainAssumption DEF Gate, RetrainTypes
  <2>1. RetrainTypes'
    BY <1>2, <2>0 DEF RetrainTypes, Copying
  <2>2. LoopInv'
    BY <1>2, <2>0 DEF RetrainTypes, LoopInv, Copying
  <2>3. a >= auc[0] - auc_tol * (models + 1)
    BY <1>2, <2>0, GateDrift
  <2>4. ASSUME NEW m \in 0..(models + 1) PROVE auc'[m] >= auc'[0] - auc_tol * m
    <3>1. auc'[0] = auc[0]
      BY <1>2, <2>0
    <3>2. CASE m = models + 1
      <4>1. auc'[m] = a
        BY <1>2, <2>0, <3>2
      <4> QED
        BY <2>3, <3>1, <3>2, <4>1
    <3>3. CASE m \in 0..models
      <4>1. auc'[m] = auc[m]
        BY <1>2, <2>0, <3>3
      <4> QED
        BY <3>1, <3>3, <4>1 DEF DriftInv
    <3> QED
      BY <2>0, <3>2, <3>3
  <2>5. DriftInv'
    BY <1>2, <2>4 DEF DriftInv
  <2> QED
    BY <2>1, <2>2, <2>5
<1>3. (UNCHANGED <<auc, models>> /\ stage' = "idle" /\ notified' \in {"ERROR", "REJECTED"})
      \/ \E a \in AUCs, r \in BOOLEAN :
            /\ cur # Broken /\ promote(a, r) /\ models' = models + 1
            /\ auc' = [m \in 0..(models + 1) |-> IF m > models THEN a ELSE auc[m]]
            /\ stage' = "write" /\ UNCHANGED notified
  BY DEF Gate
<1> QED
  BY <1>1, <1>2, <1>3

\* Every step of the script, of a fault and of a pod's restart keeps it.
LEMMA RetrainStep == RetrainInv /\ [RetrainNext]_retrainVars => RetrainInv'
<1> SUFFICES ASSUME RetrainInv, [RetrainNext]_retrainVars PROVE RetrainInv'
  OBVIOUS
<1> USE DEF RetrainInv, rtPods, rtRun
<1>t. models \in Nat /\ Missing \notin Nat /\ Broken \notin Nat /\ Missing # Broken
  BY RetrainAssumption DEF RetrainTypes
<1>1. ASSUME NEW L \in SUBSET Pods, ListPods(L) PROVE RetrainInv'
  <2>1. RetrainTypes'
    BY <1>1 DEF ListPods, RetrainTypes, Copying
  <2>2. LoopInv'
    BY <1>1 DEF ListPods, LoopInv, Copying
  <2>3. DriftInv'
    BY <1>1 DEF ListPods, DriftInv
  <2> QED
    BY <2>1, <2>2, <2>3
<1>2. CASE ReadCurrent
  <2>1. RetrainTypes'
    BY <1>2, <1>t DEF ReadCurrent, RetrainTypes, Copying
  <2>2. LoopInv' /\ DriftInv'
    BY <1>2 DEF ReadCurrent, LoopInv, DriftInv, Copying
  <2> QED
    BY <2>1, <2>2
<1>3. CASE Gate
  BY <1>3, GatePreserves
<1>4. ASSUME NEW p \in Pods, Truncate(p) PROVE RetrainInv'
  <2>1. RetrainTypes'
    BY <1>4 DEF Truncate, RetrainTypes, Copying
  <2>2. LoopInv' /\ DriftInv'
    BY <1>4 DEF Truncate, RetrainTypes, LoopInv, DriftInv, Copying
  <2> QED
    BY <2>1, <2>2
<1>5. CASE Fill
  <2>1. RetrainTypes'
    BY <1>5, <1>t DEF Fill, RetrainTypes, Copying
  <2>2. LoopInv' /\ DriftInv'
    BY <1>5 DEF Fill, RetrainTypes, LoopInv, DriftInv, Copying
  <2> QED
    BY <2>1, <2>2
<1>6. CASE Reload
  <2>0. p0 \in PODS \ todo /\ p0 \in Pods /\ live[p0] = models /\ Loaded(p0) = models
    BY <1>6, <1>t DEF Reload, RetrainTypes, LoopInv, Copying
  <2>1. RetrainTypes'
    BY <1>6, <2>0, <1>t DEF Reload, RetrainTypes, Copying
  <2>2. LoopInv'
    BY <1>6, <2>0 DEF Reload, RetrainTypes, LoopInv, Copying
  <2>3. DriftInv'
    BY <1>6 DEF Reload, DriftInv
  <2> QED
    BY <2>1, <2>2, <2>3
<1>7. CASE Notify
  BY <1>7 DEF Notify, RetrainTypes, LoopInv, DriftInv, Copying
<1>8. CASE RunFails
  BY <1>8 DEF RunFails, RetrainTypes, LoopInv, DriftInv, Copying
<1>9. ASSUME NEW p \in Pods, RestartPod(p) PROVE RetrainInv'
  <2>0. Loaded(p) \in (0..models) \cup {Broken}
    BY <1>t DEF RetrainTypes
  <2>1. RetrainTypes'
    BY <1>9, <2>0 DEF RestartPod, RetrainTypes
  <2>2. ASSUME stage \in Copying \/ notified = "PROMOTED", p \in answered
        PROVE  Loaded(p) = models
    BY <2>2, <1>t DEF RetrainTypes, LoopInv, Copying
  <2>3. LoopInv'
    BY <1>9, <2>2 DEF RestartPod, RetrainTypes, LoopInv
  <2>4. DriftInv'
    BY <1>9 DEF RestartPod, DriftInv
  <2> QED
    BY <2>1, <2>3, <2>4
<1>10. CASE UNCHANGED retrainVars
  BY <1>10 DEF retrainVars, RetrainTypes, LoopInv, DriftInv
<1> QED
  BY <1>1, <1>2, <1>3, <1>4, <1>5, <1>6, <1>7, <1>8, <1>9, <1>10 DEF RetrainNext

\* So it always holds.
LEMMA RetrainInvariant == RetrainSpec => []RetrainInv
<1> QED
  BY RetrainStart, RetrainStep, PTL DEF RetrainSpec

\* PROMOTED is told only when every listed pod has the complete new model and
\* every pod that answered its reload serves it (retrain_pipeline.sh, promotion
\* loop under set -e).
THEOREM PromotedTheorem == RetrainSpec => []PromotedEverywhere
<1>1. RetrainInv => PromotedEverywhere
  BY DEF RetrainInv, RetrainTypes, LoopInv, PromotedEverywhere
<1> QED
  BY <1>1, RetrainInvariant, PTL

\* The nightly loss is bounded: auc_tol per promotion, over partial rollouts and
\* a gate that compares with one pod only (retrain.py, auc_ok).
THEOREM DriftTheorem == RetrainSpec => []DriftBounded
<1>1. RetrainInv => DriftBounded
  BY RetrainAssumption DEF RetrainInv, RetrainTypes, DriftInv, DriftBounded
<1> QED
  BY <1>1, RetrainInvariant, PTL
==============================================================================
