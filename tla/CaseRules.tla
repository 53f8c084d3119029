------------------------------ MODULE CaseRules -------------------------------
(***************************************************************************)
(* The rules of the labelling stages for one case bundle: the action votes  *)
(* of src/triage/case_bundle.py, the weak label of weak_labeler.py and the  *)
(* ambiguity gate of llm_adjudicator.py.  Scores are hundredths; a feature  *)
(* is whether it breaches its baseline.                                     *)
(***************************************************************************)
EXTENDS Integers

CaseClasses == {"normal", "low", "medium", "high"}

\* A case bundle.  hint tells which lists of routine workloads its identity
\* is on: none, the weak labeler's only, or the adjudicator's too.
Case == [score : 0..100, duration : 1..3, hint : {"none", "weak", "both"},
         disk : BOOLEAN, syscalls : BOOLEAN, novel : BOOLEAN,
         is_injected : BOOLEAN,
         fault_type : {"none", "unknown", "cpu_pressure", "controlplane_pressure"}]

-----------------------------------------------------------------------------
(* The weak labeler.                                                        *)

FAULT_CLASS_FLOOR ==
    [none |-> "normal", unknown |-> "low", cpu_pressure |-> "medium",
     controlplane_pressure |-> "high"]

KnownInjection(c) == c.is_injected /\ c.fault_type # "none"

\* Rule 1.
InjectedClass(c) ==
    IF c.score >= 90 \/ c.duration >= 3 THEN "high" ELSE FAULT_CLASS_FLOOR[c.fault_type]

\* Rules 2 to 6, the first that applies.
HeuristicClass(c) ==
    IF c.hint # "none" /\ c.score < 90 THEN "normal"
    ELSE IF c.score >= 80 /\ c.disk THEN IF c.score >= 90 THEN "high" ELSE "medium"
    ELSE IF c.score >= 80 /\ c.syscalls THEN IF c.score >= 95 THEN "high" ELSE "medium"
    ELSE IF c.score >= 70 /\ c.duration <= 1 THEN "low"
    ELSE IF c.score >= 75 /\ c.duration >= 3 THEN "medium"
    ELSE IF c.score >= 70 THEN "low" ELSE "normal"

\* Variant: routine workloads are sorted out before the injections.
label_for_bundle_hint_first(c) ==
    IF KnownInjection(c) /\ c.hint = "none"
    THEN [source |-> "fault_metadata", class |-> InjectedClass(c)]
    ELSE [source |-> "weak_rule", class |-> HeuristicClass(c)]

label_for_bundle(c) ==
    IF KnownInjection(c)
    THEN [source |-> "fault_metadata", class |-> InjectedClass(c)]
    ELSE [source |-> "weak_rule", class |-> HeuristicClass(c)]

-----------------------------------------------------------------------------
(* The votes of the bundle and the ambiguity gate.                          *)

\* With the defaults hi = 0.9 and mid = 0.7.
threshold_vote(c) ==
    IF c.score >= 90 THEN "alert" ELSE IF c.score >= 70 THEN "triage"
    ELSE IF c.score >= 49 THEN "wait" ELSE "suppress"

quick_weak_vote(c) ==
    IF c.score >= 90 /\ c.disk THEN "alert"
    ELSE IF c.score >= 85 /\ c.duration >= 2 THEN "triage"
    ELSE IF c.score >= 70 THEN IF c.duration <= 1 THEN "wait" ELSE "triage"
    ELSE "suppress"

Votes(c) == {threshold_vote(c), quick_weak_vote(c)}

\* Variant: both bands exclude their common end 0.85.
is_ambiguous_open(c) ==
    \/ threshold_vote(c) # quick_weak_vote(c)
    \/ 50 <= c.score /\ c.score < 85
    \/ ~c.is_injected /\ c.fault_type = "none" /\ c.score > 85
    \/ "alert" \in Votes(c) /\ c.hint = "both"
    \/ c.novel

\* ambiguity_reasons is not empty.
is_ambiguous(c) ==
    \/ threshold_vote(c) # quick_weak_vote(c)
    \/ 50 <= c.score /\ c.score <= 85
    \/ ~c.is_injected /\ c.fault_type = "none" /\ c.score >= 85
    \/ "alert" \in Votes(c) /\ c.hint = "both"
    \/ c.novel

=============================================================================
