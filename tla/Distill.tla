------------------------------- MODULE Distill --------------------------------
(***************************************************************************)
(* The nightly noise-filter refresh: scripts/distill_pipeline.sh after its  *)
(* labelling step, the trainer detector/train_noise_filter.py, and the      *)
(* replicas whose live pair (model and baseline) it overwrites.             *)
(*                                                                         *)
(* A model or baseline is the number of the training that made it, 0 being  *)
(* the baked pair.  The script has no set -e and hides the trainer's exit   *)
(* status behind | tail.  $WORK is new for every run of the CronJob         *)
(* (emptyDir); on a host it stays (WORK_DIR).                               *)
(***************************************************************************)
EXTENDS Naturals

CONSTANTS
    Replicas,
    MaxTrainings,    \* bound: trainings
    MaxTrainerFaults, MaxExecFaults,   \* bounds: failures of each kind
    NoFile, Cut      \* a file that is not there; one that was cut short

ASSUME DistillAssumption ==
    /\ {MaxTrainings, MaxTrainerFaults, MaxExecFaults} \subseteq Nat
    /\ NoFile \notin Nat /\ Cut \notin Nat /\ NoFile # Cut

VARIABLES
    FreshWork,       \* $WORK starts empty: a deployment, it does not change
    trainings,       \* trainings so far
    safe,            \* trainings whose false_suppress is within the floor
    work,            \* metrics.json, noise_filter.pkl, noise_baseline.json in $WORK
    pair,            \* per replica: the live model and baseline
    filter,          \* per replica: the pair in memory, or Off
    at,              \* where the script is
    rest, pod,       \* replicas the loop has left; the one it is at
    counted,         \* replicas in OK
    told,            \* what the run notified
    trainerFaults, execFaults

onReplicas == <<pair, filter>>
loop       == <<rest, pod, counted>>
training    == <<FreshWork, trainings, safe>>
distillVars == <<training, work, onReplicas, at, loop, told, trainerFaults, execFaults>>

Off == [model |-> NoFile, base |-> NoFile]
NoWork == [metrics |-> NoFile, model |-> NoFile, base |-> NoFile]

DistillInit ==
    /\ FreshWork \in BOOLEAN /\ trainings = 0 /\ safe = {0} /\ work = NoWork
    /\ pair = [r \in Replicas |-> Off]
    /\ filter = [r \in Replicas |-> [model |-> 0, base |-> 0]]
    /\ at = "idle" /\ rest = {} /\ pod \in Replicas /\ counted = {} /\ told = "none"
    /\ trainerFaults = 0 /\ execFaults = 0

\* noise_filter.from_env: the live pair if both files are there, else the baked
\* one; a file that does not load disables the filter.
LoadedPair(r) ==
    IF pair[r].model = NoFile \/ pair[r].base = NoFile THEN [model |-> 0, base |-> 0]
    ELSE IF Cut \in {pair[r].model, pair[r].base} THEN Off
    ELSE pair[r]

Stop(report) == at' = "idle" /\ told' = report

-----------------------------------------------------------------------------
(* The script.                                                              *)

\* Qwen is up, there are pods, and the labeler gave enough labels; or not.
StartDistill ==
    /\ at = "idle" /\ trainings < MaxTrainings
    /\ work' = IF FreshWork THEN NoWork ELSE work
    /\ rest' = Replicas /\ counted' = {}
    /\ Stop("aborted") \/ (at' = "train" /\ told' = "none")
    /\ UNCHANGED <<training, onReplicas, pod, trainerFaults, execFaults>>

\* The trainer writes metrics, model and baseline in this order; done counts
\* the files it completed, and cut tells whether it died inside the next one.
Written(done, cut) ==
    LET n == trainings + 1
        file(k, old) == IF k <= done THEN n ELSE IF cut /\ k = done + 1 THEN Cut ELSE old
    IN  [metrics |-> file(1, work.metrics),
         model |-> file(2, work.model), base |-> file(3, work.base)]

\* Step 4.  A trainer that fails is noticed only if there is no metrics.json.
Train ==
    /\ at = "train"
    /\ trainings' = trainings + 1
    /\ safe' \in {safe, safe \cup {trainings + 1}}
    /\ \E done \in 0..3, cut \in BOOLEAN :
          /\ done = 3 => ~cut
          /\ done < 3 => trainerFaults < MaxTrainerFaults
          /\ trainerFaults' = IF done = 3 THEN trainerFaults ELSE trainerFaults + 1
          /\ work' = Written(done, cut)
          /\ IF work'.metrics = NoFile THEN Stop("failed") ELSE at' = "gate" /\ UNCHANGED told
    /\ UNCHANGED <<FreshWork, onReplicas, loop, execFaults>>

\* Variant: the gate lets everything pass.
GateOpen ==
    /\ at = "gate"
    /\ at' = "model" /\ UNCHANGED told
    /\ UNCHANGED <<training, work, onReplicas, loop, trainerFaults, execFaults>>

\* Step 5.  metrics.json that cannot be parsed leaves PROMOTE empty, and then
\* [ "$PROMOTE" -ne 1 ] is an error, which is not true: the script goes on.
GateFloor ==
    /\ at = "gate"
    /\ IF work.metrics # Cut /\ work.metrics \notin safe
       THEN Stop("REJECT")
       ELSE at' = "model" /\ UNCHANGED told
    /\ UNCHANGED <<training, work, onReplicas, loop, trainerFaults, execFaults>>

ExecFault == execFaults < MaxExecFaults /\ execFaults' = execFaults + 1

\* Step 6, the next replica: cat > truncates the live model, unless there is
\* none in $WORK or the exec fails before that.
BeginReplica(r) ==
    /\ at = "model" /\ r \in rest
    /\ rest' = rest \ {r} /\ pod' = r
    /\ \/ /\ work.model # NoFile
          /\ pair' = [pair EXCEPT ![r].model = Cut] /\ at' = "model_fill"
          /\ UNCHANGED execFaults
       \/ work.model = NoFile /\ UNCHANGED <<pair, at, execFaults>>
       \/ ExecFault /\ UNCHANGED <<pair, at>>
    /\ UNCHANGED <<training, work, filter, counted, told, trainerFaults>>

\* A copy that is cut short ends the && chain of this replica.
FillModel ==
    /\ at = "model_fill"
    /\ \/ pair' = [pair EXCEPT ![pod].model = work.model] /\ at' = "base" /\ UNCHANGED execFaults
       \/ ExecFault /\ at' = "model" /\ UNCHANGED pair
    /\ UNCHANGED <<training, work, filter, loop, told, trainerFaults>>

BeginBase ==
    /\ at = "base"
    /\ \/ /\ work.base # NoFile
          /\ pair' = [pair EXCEPT ![pod].base = Cut] /\ at' = "base_fill"
          /\ UNCHANGED execFaults
       \/ work.base = NoFile /\ at' = "model" /\ UNCHANGED <<pair, execFaults>>
       \/ ExecFault /\ at' = "model" /\ UNCHANGED pair
    /\ UNCHANGED <<training, work, filter, loop, told, trainerFaults>>

\* Variant: the commands are separated by ; and not by &&.
FillBaseGoesOn ==
    /\ at = "base_fill"
    /\ \/ pair' = [pair EXCEPT ![pod].base = work.base] /\ UNCHANGED execFaults
       \/ ExecFault /\ UNCHANGED pair
    /\ at' = "reload"
    /\ UNCHANGED <<training, work, filter, loop, told, trainerFaults>>

\* Variant: the baseline of the image is copied beside the new model.
FillBaseBaked ==
    /\ at = "base_fill"
    /\ pair' = [pair EXCEPT ![pod].base = 0] /\ at' = "reload"
    /\ UNCHANGED <<training, work, filter, loop, told, trainerFaults, execFaults>>

FillBase ==
    /\ at = "base_fill"
    /\ \/ pair' = [pair EXCEPT ![pod].base = work.base] /\ at' = "reload" /\ UNCHANGED execFaults
       \/ ExecFault /\ at' = "model" /\ UNCHANGED pair
    /\ UNCHANGED <<training, work, filter, loop, told, trainerFaults>>

\* /reload from inside the pod: answered and counted; or not, done or not.
ReloadReplica ==
    /\ at = "reload"
    /\ \/ /\ filter' = [filter EXCEPT ![pod] = LoadedPair(pod)]
          /\ counted' = counted \cup {pod} /\ UNCHANGED execFaults
       \/ /\ ExecFault /\ UNCHANGED counted
          /\ filter' \in {filter, [filter EXCEPT ![pod] = LoadedPair(pod)]}
    /\ at' = "model"
    /\ UNCHANGED <<training, work, pair, rest, pod, told, trainerFaults>>

TellPromoted ==
    /\ at = "model" /\ rest = {}
    /\ Stop("PROMOTED")
    /\ UNCHANGED <<training, work, onReplicas, loop, trainerFaults, execFaults>>

\* The deadline passes, or the job is deleted.
DistillKilled ==
    /\ at # "idle" /\ ExecFault
    /\ Stop("killed")
    /\ UNCHANGED <<training, work, onReplicas, loop, trainerFaults>>

\* A container restarts, or the retrain pipeline asks it to reload.
RestartReplica(r) ==
    /\ filter' = [filter EXCEPT ![r] = LoadedPair(r)]
    /\ UNCHANGED <<training, work, pair, at, loop, told, trainerFaults, execFaults>>

DistillNext ==
    \/ StartDistill \/ Train \/ GateFloor \/ FillModel \/ BeginBase \/ FillBase
    \/ ReloadReplica \/ TellPromoted \/ DistillKilled
    \/ \E r \in Replicas : BeginReplica(r) \/ RestartReplica(r)

DistillSpec == DistillInit /\ [][DistillNext]_distillVars

-----------------------------------------------------------------------------
(* Properties.                                                              *)

\* "reloaded OK/TOT pods": a replica that is counted has the pair of this run on
\* disk and in memory, or no filter at all if the pair does not load; a later
\* restart keeps it so (distill_pipeline.sh:110-117).
CountedRunsPair ==
    \A r \in counted :
        pair[r] = [model |-> work.model, base |-> work.base] /\ filter[r] = LoadedPair(r)

\* "promote only if false-suppress <= floor" (distill_pipeline.sh:10): no filter
\* that silences too much gets to a replica.
GateHolds == \A r \in Replicas : pair[r].model \in safe \cup {NoFile, Cut}

\* The gate holds in the CronJob, whose $WORK starts empty, and elsewhere as long
\* as every trainer ran to its end (distill_pipeline.sh:87-105).
GateUnlessStale == FreshWork \/ trainerFaults = 0 => GateHolds

\* The two files of a pair are overwritten one after the other, and a restart or
\* a reload in between loads what is there: between runs every replica uses a
\* model with its own baseline, unless a trainer or a copy failed
\* (distill_pipeline.sh:112-116, noise_filter.from_env).
MatchedPair ==
    at = "idle" /\ trainerFaults + execFaults = 0 =>
        \A r \in Replicas : filter[r].model = filter[r].base

=============================================================================
