---------------------------- MODULE TriageDecision ----------------------------
(***************************************************************************)
(* The production triage decision (src/triage/cost_matrix.py): the action   *)
(* of least expected cost, then the guardrails that may only raise it.      *)
(*                                                                         *)
(* A probability is a natural number of N-ths, an anomaly score of S-ths;   *)
(* costs are doubled, which makes every cell an integer.                    *)
(***************************************************************************)
EXTENDS Integers, FiniteSets

CONSTANTS
    N,            \* denominator of the class probabilities
    S,            \* denominator of the anomaly score
    ScoreGrid     \* the anomaly scores considered, in S-ths

ASSUME TriageAssumption ==
    /\ N \in Nat \ {0} /\ S \in Nat \ {0}
    /\ ScoreGrid \subseteq 0..S

Classes == {"normal", "low", "medium", "high"}
Actions == {"suppress", "wait", "triage", "alert"}
Modes   == {"default", "recall_first"}

\* ACTION_SEVERITY: position in Actions.
ACTION_SEVERITY == [suppress |-> 0, wait |-> 1, triage |-> 2, alert |-> 3]

COST_MATRIX ==
    [suppress |-> [normal |-> 0, low |-> 2, medium |-> 12, high |-> 40],
     wait     |-> [normal |-> 1, low |-> 0, medium |-> 6,  high |-> 24],
     triage   |-> [normal |-> 2, low |-> 1, medium |-> 0,  high |-> 8],
     alert    |-> [normal |-> 6, low |-> 4, medium |-> 2,  high |-> 0]]

\* Variant: the wait row keeps its default cost for a high case.
RECALL_FIRST_WAIT_CHEAP ==
    [suppress |-> [normal |-> 0, low |-> 4, medium |-> 30, high |-> 120],
     wait     |-> [normal |-> 1, low |-> 0, medium |-> 16, high |-> 6],
     triage   |-> [normal |-> 2, low |-> 1, medium |-> 0,  high |-> 16],
     alert    |-> [normal |-> 6, low |-> 4, medium |-> 2,  high |-> 0]]

\* Variant: silencing a high case as cheap as in the default matrix.
RECALL_FIRST_SUPPRESS_CHEAP ==
    [suppress |-> [normal |-> 0, low |-> 4, medium |-> 30, high |-> 40],
     wait     |-> [normal |-> 1, low |-> 0, medium |-> 16, high |-> 70],
     triage   |-> [normal |-> 2, low |-> 1, medium |-> 0,  high |-> 16],
     alert    |-> [normal |-> 6, low |-> 4, medium |-> 2,  high |-> 0]]

RECALL_FIRST_COST_MATRIX ==
    [suppress |-> [normal |-> 0, low |-> 4, medium |-> 30, high |-> 120],
     wait     |-> [normal |-> 1, low |-> 0, medium |-> 16, high |-> 70],
     triage   |-> [normal |-> 2, low |-> 1, medium |-> 0,  high |-> 16],
     alert    |-> [normal |-> 6, low |-> 4, medium |-> 2,  high |-> 0]]

get_cost_matrix(mode) ==
    IF mode = "default" THEN COST_MATRIX ELSE RECALL_FIRST_COST_MATRIX

expected_cost(a, prob, cm) ==
    prob.normal * cm[a].normal + prob.low * cm[a].low
      + prob.medium * cm[a].medium + prob.high * cm[a].high

\* min(Actions, key=...) keeps the first of equal minima: the least severe.
recommended_action(prob, cm) ==
    CHOOSE a \in Actions :
        \A b \in Actions \ {a} :
            \/ expected_cost(a, prob, cm) < expected_cost(b, prob, cm)
            \/ /\ expected_cost(a, prob, cm) = expected_cost(b, prob, cm)
               /\ ACTION_SEVERITY[a] < ACTION_SEVERITY[b]

-----------------------------------------------------------------------------
(* Guardrails, with GuardrailConfig's defaults: 0.9, 0.5, 0.25, 0.5.        *)

HighScore(score)       == 10 * score >= 9 * S
HighAlert(prob)        == 2 * prob.high >= N
HighTriage(prob)       == ~HighAlert(prob) /\ 4 * prob.high >= N
LowConfidence(prob)    == \A c \in Classes : 2 * prob[c] < N

\* The (guardrail, action) pairs that raise_to is called with; unknown says
\* that is_unknown_workload holds of the identity.
reasons(prob, score, unknown) ==
    {r \in {"score", "p_high_alert", "p_high_triage", "confidence", "workload"} :
        \/ r = "score" /\ HighScore(score)
        \/ r = "p_high_alert" /\ HighAlert(prob)
        \/ r = "p_high_triage" /\ HighTriage(prob)
        \/ r = "confidence" /\ LowConfidence(prob)
        \/ r = "workload" /\ unknown}

raise_to == [score |-> "triage", p_high_alert |-> "alert",
             p_high_triage |-> "triage", confidence |-> "wait",
             workload |-> "triage"]

\* Variant: the last guardrail that trips sets the floor, not the strictest.
guardrail_floor_last(prob, score, unknown) ==
    LET rs == reasons(prob, score, unknown)
    IN  IF "confidence" \in rs THEN "wait"
        ELSE IF "workload" \in rs \/ "score" \in rs THEN "triage"
        ELSE IF "p_high_alert" \in rs THEN "alert"
        ELSE IF rs # {} THEN "triage" ELSE "suppress"

\* Variant: the unknown-workload guardrail forgotten.
guardrail_floor_known(prob, score, unknown) ==
    LET floors == {raise_to[r] : r \in reasons(prob, score, FALSE)} \cup {"suppress"}
    IN  CHOOSE f \in floors :
            \A g \in floors : ACTION_SEVERITY[g] <= ACTION_SEVERITY[f]

\* The most severe action some guardrail demands; suppress when none trips.
guardrail_floor(prob, score, unknown) ==
    LET floors == {raise_to[r] : r \in reasons(prob, score, unknown)} \cup {"suppress"}
    IN  CHOOSE f \in floors :
            \A g \in floors : ACTION_SEVERITY[g] <= ACTION_SEVERITY[f]

\* Variant: the floor replaces the cost-minimal action whenever it is set.
decide_action_replace(prob, score, unknown, mode) ==
    LET floor == guardrail_floor(prob, score, unknown)
    IN  [action  |-> IF reasons(prob, score, unknown) # {} THEN floor
                     ELSE recommended_action(prob, get_cost_matrix(mode)),
         reasons |-> reasons(prob, score, unknown)]

\* The action, and the reasons when a guardrail raised it.
decide_action(prob, score, unknown, mode) ==
    LET base  == recommended_action(prob, get_cost_matrix(mode))
        floor == guardrail_floor(prob, score, unknown)
    IN  IF ACTION_SEVERITY[floor] > ACTION_SEVERITY[base]
        THEN [action |-> floor, reasons |-> reasons(prob, score, unknown)]
        ELSE [action |-> base, reasons |-> {}]

-----------------------------------------------------------------------------
(* One decision for every input.                                            *)

VARIABLES prob, score, unknown, mode, decision

vars == <<prob, score, unknown, mode, decision>>

Undecided == [action |-> "none", reasons |-> {}]

\* TriageModel.proba: a distribution over Classes.
Probs == [normal : 0..N, low : 0..N, medium : 0..N, high : 0..N]

Init ==
    /\ \E n \in 0..N : \E l \in 0..(N - n) : \E m \in 0..(N - n - l) :
          prob = [normal |-> n, low |-> l, medium |-> m, high |-> N - n - l - m]
    /\ score \in ScoreGrid /\ unknown \in BOOLEAN /\ mode \in Modes
    /\ decision = Undecided

\* TriageRuntime.decide / TriageModel.decide.
Decide ==
    /\ decision = Undecided
    /\ decision' = decide_action(prob, score, unknown, mode)
    /\ UNCHANGED <<prob, score, unknown, mode>>

Next == Decide

Spec == Init /\ [][Next]_vars

-----------------------------------------------------------------------------
(* Properties.                                                              *)

Decided == decision # Undecided

Tripped == HighScore(score) \/ 4 * prob.high >= N \/ LowConfidence(prob) \/ unknown

base_action == recommended_action(prob, get_cost_matrix(mode))

\* Types of the state.
TypeOK ==
    /\ prob \in Probs
    /\ prob.normal + prob.low + prob.medium + prob.high = N
    /\ score \in 0..S /\ unknown \in BOOLEAN /\ mode \in Modes
    /\ decision.action \in Actions \cup {"none"}

\* "Core invariant: if any guardrail trips, the resulting action is never
\* suppress" (cost_matrix.py:124), for decide_action as a whole.
TrippedNeverSuppressed == Decided /\ Tripped => decision.action # "suppress"

\* "A guardrail can only RAISE the action" (cost_matrix.py:123): the decision
\* is at least as severe as the cost-minimal action, and the reasons are given
\* exactly when it is more severe (cost_matrix.py:194-196).
GuardrailsOnlyRaise ==
    Decided =>
        /\ ACTION_SEVERITY[decision.action] >= ACTION_SEVERITY[base_action]
        /\ decision.reasons # {} <=>
             ACTION_SEVERITY[decision.action] > ACTION_SEVERITY[base_action]

\* The recall-first matrix is what its comment claims (cost_matrix.py:47-52):
\* for no distribution is a production decision milder than what the default
\* matrix recommends.
RecallFirstEscalates ==
    Decided /\ mode = "recall_first" =>
        ACTION_SEVERITY[decision.action]
          >= ACTION_SEVERITY[recommended_action(prob, COST_MATRIX)]

\* A production (recall-first) suppress needs a workload that is known, a score
\* under 0.9, a probability of normal of at least one half, and at most one
\* part of high in fifty parts of normal.
SuppressIsSafe ==
    decision.action = "suppress" /\ mode = "recall_first" =>
        /\ ~unknown /\ 10 * score < 9 * S
        /\ 2 * prob.normal >= N
        /\ 50 * prob.high <= prob.normal

=============================================================================
