------------------------------- MODULE Retrain --------------------------------
(***************************************************************************)
(* The nightly retraining: scripts/retrain_pipeline.sh, its gate in         *)
(* detector/retrain.py, and the replicas it promotes to, over any number of *)
(* runs.  A model is the number of its promotion, 0 being the one baked     *)
(* into the image; its AUC is the rounded value the gate compares.  The     *)
(* order in which kubectl lists the pods is left open.                      *)
(*                                                                         *)
(* The script runs under set -e: a command that fails ends the run.  Runs   *)
(* do not overlap (concurrencyPolicy: Forbid, activeDeadlineSeconds 1800).  *)
(***************************************************************************)
EXTENDS Integers

CONSTANTS
    Pods,
    AUCs,           \* AUC values of a candidate on the holdout
    BakedAUC,
    auc_tol,        \* AUC_TOL
    MaxPromotions,  \* bound: models promoted
    Missing, Broken \* no live file; one that was cut short, or no model

ASSUME RetrainAssumption ==
    /\ AUCs \subseteq Nat /\ BakedAUC \in Nat
    /\ auc_tol \in Nat /\ MaxPromotions \in Nat
    /\ Missing \notin Nat /\ Broken \notin Nat /\ Missing # Broken

VARIABLES
    live,        \* per pod: /models-live/isolation_forest.pkl
    serving,     \* per pod: the model in memory, Broken when there is none
    auc,         \* AUC of each model
    models,      \* models promoted so far
    stage,       \* where the script is
    PODS, todo,  \* pods listed, and those the promotion loop has left
    p0,          \* $p in the promotion loop
    cur,         \* $WORK/current.pkl
    answered,    \* pods whose /reload answered in this run
    notified      \* what the last run notified, "FAILED" if it ended early

rtPods == <<live, serving>>
rtRun  == <<PODS, todo, p0, cur, answered, notified>>
retrainVars == <<rtPods, auc, models, stage, rtRun>>

RetrainInit ==
    /\ live = [p \in Pods |-> Missing] /\ serving = [p \in Pods |-> 0]
    /\ auc = [m \in {0} |-> BakedAUC] /\ models = 0
    /\ stage = "idle" /\ PODS = {} /\ todo = {} /\ p0 \in Pods /\ cur = 0
    /\ answered = {} /\ notified = "none"

\* _load_model: the live file if there is one, else the baked model.
Loaded(p) == IF live[p] = Missing THEN 0 ELSE live[p]

End(v) == stage' = "idle" /\ notified' = v

-----------------------------------------------------------------------------
(* The script.                                                              *)

\* Steps 1 and 2: the running pods and their archives.  Without pods or without
\* rows the run ends.
ListPods(L) ==
    /\ stage = "idle" /\ models < MaxPromotions
    /\ PODS' = L /\ todo' = L /\ answered' = {}
    /\ \/ L = {} /\ End("ERROR")
       \/ L # {} /\ End("SKIPPED")
       \/ L # {} /\ stage' = "current" /\ notified' = "none"
    /\ UNCHANGED <<rtPods, auc, models, p0, cur>>

\* Step 3: the current model is that of ${PODS[0]}, whatever the others run.
ReadCurrent ==
    /\ stage = "current"
    /\ \E p \in PODS : cur' = Loaded(p)
    /\ stage' = "gate"
    /\ UNCHANGED <<rtPods, auc, models, PODS, todo, p0, answered, notified>>

\* Variant: one of the two tests is enough.
promote_either(a, recall_ok) == a >= auc[cur] - auc_tol \/ recall_ok

\* retrain.py main: auc_ok and recall_ok.
promote(a, recall_ok) == a >= auc[cur] - auc_tol /\ recall_ok

\* Step 4: retrain.py trains a candidate and compares it; it fails if it cannot
\* read the current model, and may fail for other reasons.
Gate ==
    /\ stage = "gate"
    /\ \/ End("ERROR") /\ UNCHANGED <<auc, models>>
       \/ /\ cur # Broken
          /\ \E a \in AUCs, recall_ok \in BOOLEAN :
                IF promote(a, recall_ok)
                THEN /\ models' = models + 1
                     /\ auc' = [m \in 0..(models + 1) |-> IF m > models THEN a ELSE auc[m]]
                     /\ stage' = "write" /\ UNCHANGED notified
                ELSE End("REJECTED") /\ UNCHANGED <<auc, models>>
    /\ UNCHANGED <<rtPods, PODS, todo, p0, cur, answered>>

\* Step 5, for the next pod: cat > truncates the live file ...
Truncate(p) ==
    /\ stage = "write" /\ p \in todo
    /\ p0' = p /\ todo' = todo \ {p}
    /\ live' = [live EXCEPT ![p] = Broken]
    /\ stage' = "fill"
    /\ UNCHANGED <<serving, auc, models, PODS, cur, answered, notified>>

\* Variant: a copy that fails does not end the run (no set -e).
FillGoesOn ==
    /\ stage = "fill"
    /\ live' \in {live, [live EXCEPT ![p0] = models]}
    /\ stage' = "reload"
    /\ UNCHANGED <<serving, auc, models, rtRun>>

\* ... and then copies the candidate.
Fill ==
    /\ stage = "fill"
    /\ live' = [live EXCEPT ![p0] = models]
    /\ stage' = "reload"
    /\ UNCHANGED <<serving, auc, models, rtRun>>

\* curl -m 10 /reload: answered; or not, done by the detector or not, and the
\* script goes on.
Reload ==
    /\ stage = "reload"
    /\ \/ /\ serving' = [serving EXCEPT ![p0] = Loaded(p0)]
          /\ answered' \in {answered, answered \cup {p0}}
       \/ UNCHANGED <<serving, answered>>
    /\ stage' = "write"
    /\ UNCHANGED <<live, auc, models, PODS, todo, p0, cur, notified>>

Notify ==
    /\ stage = "write" /\ todo = {}
    /\ End("PROMOTED")
    /\ UNCHANGED <<rtPods, auc, models, PODS, todo, p0, cur, answered>>

\* An exec or a pod query fails, or the deadline passes: the run ends where it
\* is, nothing is undone and nobody is notified.
RunFails ==
    /\ stage # "idle"
    /\ End("FAILED")
    /\ UNCHANGED <<rtPods, auc, models, PODS, todo, p0, cur, answered>>

\* A container restarts, or another pipeline asks it to reload.
RestartPod(p) ==
    /\ serving' = [serving EXCEPT ![p] = Loaded(p)]
    /\ UNCHANGED <<live, auc, models, stage, rtRun>>

RetrainNext ==
    \/ \E L \in SUBSET Pods : ListPods(L)
    \/ ReadCurrent \/ Gate \/ Fill \/ Reload \/ Notify \/ RunFails
    \/ \E p \in Pods : Truncate(p) \/ RestartPod(p)

RetrainSpec == RetrainInit /\ [][RetrainNext]_retrainVars

-----------------------------------------------------------------------------
(* Properties.                                                              *)

\* PROMOTED is told only when every listed pod has the complete new model on
\* disk, and every pod whose reload answered serves it; also after restarts,
\* which then load it (retrain_pipeline.sh, promotion loop).
PromotedEverywhere ==
    notified = "PROMOTED" =>
        \A p \in PODS : live[p] = models /\ (p \in answered => serving[p] = models)

\* The gate tolerates a small loss every night and compares with one pod
\* only: over any number of partial rollouts the model of every pod
\* is at most auc_tol per promotion worse than the baked one (retrain.py).
DriftBounded ==
    \A p \in Pods : \A m \in {live[p], serving[p]} \ {Missing, Broken} :
        auc[m] >= auc[0] - auc_tol * m

=============================================================================
