------------------------------ MODULE MCLearning ------------------------------
(* Small instances of TriageDecision, PolicyDecision, LabelStore,            *)
(* DistillLabeler, Retrain and Distill for TLC: what is labelled, decided    *)
(* and rolled out around the detector.  The six share no state; a behaviour  *)
(* exercises one of them while the others stay in an initial state, so that  *)
(* the run covers the six state spaces and not their product.                *)
EXTENDS TriageDecision, PolicyDecision, LabelStore, DistillLabeler, Retrain, Distill, TLC

CONSTANTS w1, w2, m1, m2, q1, q2, p1, p2, r1, r2

\* Cases of a routine workload, at bounds of the ambiguity gate and of the
\* votes; one whose injection is known from the start, and two whose metadata
\* is half filled in.
MCCases ==
    LET c(s, d, i, f) ==
            [score |-> s, duration |-> d, hint |-> "both", disk |-> FALSE,
             syscalls |-> FALSE, novel |-> FALSE, is_injected |-> i, fault_type |-> f]
    IN  {c(s, 2, FALSE, "none") : s \in {48, 49, 85, 90}}
          \cup {c(86, 1, TRUE, "unknown"), c(86, 2, TRUE, "none"), c(86, 2, FALSE, "unknown")}

MCBatches == <<{q1}, {q2}>>

Symmetry == Permutations(Writers)

VARIABLE component   \* the one this behaviour exercises

allVars == <<component, vars, policyVars, labelVars, labelerVars, retrainVars, distillVars>>

LearningInit ==
    /\ component \in {"triage", "policy", "labels", "labeler", "retrain", "distill"}
    /\ component # "triage" =>
          prob = [normal |-> N, low |-> 0, medium |-> 0, high |-> 0] /\ score = 8
            /\ unknown = FALSE /\ mode = "default"
    /\ component # "policy" => p = 0
    /\ component # "retrain" => p0 = p1
    /\ component # "distill" => FreshWork = TRUE /\ pod = r1
    /\ Init /\ PolicyInit /\ LabelInit /\ LabelerInit /\ RetrainInit /\ DistillInit
    /\ component # "labels" => bundle.score = 48

LearningNext ==
    /\ UNCHANGED component
    /\ \/ /\ component = "triage" /\ Next
          /\ UNCHANGED <<policyVars, labelVars, labelerVars, retrainVars, distillVars>>
       \/ /\ component = "policy" /\ PolicyNext
          /\ UNCHANGED <<vars, labelVars, labelerVars, retrainVars, distillVars>>
       \/ /\ component = "labels" /\ LabelNext
          /\ UNCHANGED <<vars, policyVars, labelerVars, retrainVars, distillVars>>
       \/ /\ component = "labeler" /\ LabelerNext
          /\ UNCHANGED <<vars, policyVars, labelVars, retrainVars, distillVars>>
       \/ /\ component = "retrain" /\ RetrainNext
          /\ UNCHANGED <<vars, policyVars, labelVars, labelerVars, distillVars>>
       \/ /\ component = "distill" /\ DistillNext
          /\ UNCHANGED <<vars, policyVars, labelVars, labelerVars, retrainVars>>

LearningSpec == LearningInit /\ [][LearningNext]_allVars
=============================================================================
