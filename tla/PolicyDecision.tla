---------------------------- MODULE PolicyDecision ----------------------------
(***************************************************************************)
(* The escalation decision of the policy layer (policy/reward.py and        *)
(* PolicyFilter.decide in policy/policy_filter.py) for an anomaly that      *)
(* survived the noise filter.                                               *)
(*                                                                         *)
(* P(fault) is a natural number out of Parts; costs are doubled.            *)
(***************************************************************************)
EXTENDS Integers

CONSTANT Parts        \* denominator of P(fault)

ASSUME PolicyAssumption == Parts \in Nat \ {0}

ACTION_IDX == [suppress |-> 0, wait |-> 1, triage |-> 2, alert |-> 3]
ESCALATION_ACTIONS == {"wait", "triage", "alert"}

\* COST = -REWARD.
COST == [benign |-> [suppress |-> -4, wait |-> -1, triage |-> 1, alert |-> 6],
         fault  |-> [suppress |-> 20, wait |-> 2, triage |-> -4, alert |-> -10]]

\* Variant: the benign cost not weighted by 1 - p.
policy_expected_cost_unweighted(p, a) == p * COST.fault[a] + Parts * COST.benign[a]

\* policy_expected_cost clamps p into 0..1.
policy_expected_cost(p, a) ==
    LET q == IF p < 0 THEN 0 ELSE IF p > Parts THEN Parts ELSE p
    IN  q * COST.fault[a] + (Parts - q) * COST.benign[a]

\* The first of the cheapest escalation actions.
best_action(p) ==
    CHOOSE a \in ESCALATION_ACTIONS :
        \A b \in ESCALATION_ACTIONS \ {a} :
            \/ policy_expected_cost(p, a) < policy_expected_cost(p, b)
            \/ /\ policy_expected_cost(p, a) = policy_expected_cost(p, b)
               /\ ACTION_IDX[a] < ACTION_IDX[b]

\* p_fault answers -1.0 when the model raises.
ModelError == -1

\* Variant: a model error treated like any other probability.
decide_unsafe(p) == best_action(p)

\* A failing model escalates.
decide(p) == IF p < 0 THEN "alert" ELSE best_action(p)

-----------------------------------------------------------------------------
(* An operator watches one anomaly while P(fault) moves.                    *)

VARIABLES p, action

policyVars == <<p, action>>

PolicyInit == p \in 0..Parts \cup {ModelError} /\ action = decide(p)

\* The next window of the same container is scored and decided.
NextWindow ==
    /\ p' \in 0..Parts \cup {ModelError}
    /\ action' = decide(p')

PolicyNext == NextWindow

PolicySpec == PolicyInit /\ [][PolicyNext]_policyVars

-----------------------------------------------------------------------------
(* Properties.                                                              *)

\* Types of the state, and: the policy never suppresses, the noise filter owns
\* that decision (policy_filter.py and reward.py:50-52).
PolicyTypeOK == p \in 0..Parts \cup {ModelError} /\ action \in ESCALATION_ACTIONS

\* More evidence of a fault never lowers the escalation, and losing the model
\* never does either (decide over policy_expected_cost and the reward grid).
EscalationMonotone ==
    [][(p <= p' /\ p # ModelError) \/ p' = ModelError
         => ACTION_IDX[action'] >= ACTION_IDX[action]]_policyVars

\* The argmin over the reward grid, in closed form: wait while P(fault) is at
\* most 1/4, page when it is over 5/11 or unknown, otherwise triage.
DecisionBands ==
    action = IF p = ModelError \/ 11 * p > 5 * Parts THEN "alert"
             ELSE IF 4 * p <= Parts THEN "wait"
             ELSE "triage"

=============================================================================
