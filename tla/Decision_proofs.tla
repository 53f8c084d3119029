--------------------------- MODULE Decision_proofs ---------------------------
(***************************************************************************)
(* Proofs about TriageDecision, for every resolution N of the class         *)
(* probabilities and S of the anomaly score, and about PolicyDecision, for  *)
(* every denominator Parts of P(fault).                                     *)
(***************************************************************************)
EXTENDS TriageDecision, PolicyDecision, TLAPS

\* The total order that min(ACTIONS, key=...) walks: cost first, then position.
Beats(a, b, q, cm) ==
    \/ expected_cost(a, q, cm) < expected_cost(b, q, cm)
    \/ /\ expected_cost(a, q, cm) = expected_cost(b, q, cm)
       /\ ACTION_SEVERITY[a] < ACTION_SEVERITY[b]

\* The components of a probability vector are naturals.
LEMMA ProbParts ==
    ASSUME NEW q \in Probs
    PROVE  q.normal \in Nat /\ q.low \in Nat /\ q.medium \in Nat /\ q.high \in Nat
  BY TriageAssumption DEF Probs

\* expected_cost with the default matrix, written out.
LEMMA DefaultCost ==
    ASSUME NEW q \in Probs
    PROVE  /\ expected_cost("suppress", q, COST_MATRIX)
                = 2 * q.low + 12 * q.medium + 40 * q.high
           /\ expected_cost("wait", q, COST_MATRIX)
                = q.normal + 6 * q.medium + 24 * q.high
           /\ expected_cost("triage", q, COST_MATRIX)
                = 2 * q.normal + q.low + 8 * q.high
           /\ expected_cost("alert", q, COST_MATRIX)
                = 6 * q.normal + 4 * q.low + 2 * q.medium
  BY ProbParts DEF expected_cost, COST_MATRIX

\* expected_cost with the recall-first matrix, written out.
LEMMA RecallFirstCost ==
    ASSUME NEW q \in Probs
    PROVE  /\ expected_cost("suppress", q, RECALL_FIRST_COST_MATRIX)
                = 4 * q.low + 30 * q.medium + 120 * q.high
           /\ expected_cost("wait", q, RECALL_FIRST_COST_MATRIX)
                = q.normal + 16 * q.medium + 70 * q.high
           /\ expected_cost("triage", q, RECALL_FIRST_COST_MATRIX)
                = 2 * q.normal + q.low + 16 * q.high
           /\ expected_cost("alert", q, RECALL_FIRST_COST_MATRIX)
                = 6 * q.normal + 4 * q.low + 2 * q.medium
  BY ProbParts DEF expected_cost, RECALL_FIRST_COST_MATRIX

\* Both matrices give integer costs.
LEMMA CostIsInt ==
    ASSUME NEW q \in Probs, NEW m \in Modes, NEW a \in Actions
    PROVE  expected_cost(a, q, get_cost_matrix(m)) \in Int
  BY ProbParts, DefaultCost, RecallFirstCost DEF Modes, Actions, get_cost_matrix

\* recommended_action returns an action that beats the three others: the
\* argmin exists and the tie-break makes it well defined.
LEMMA Recommended ==
    ASSUME NEW q \in Probs, NEW m \in Modes
    PROVE  LET cm == get_cost_matrix(m)
               r  == recommended_action(q, cm)
           IN  r \in Actions /\ \A b \in Actions \ {r} : Beats(r, b, q, cm)
  <1> DEFINE cm == get_cost_matrix(m)
             cost(a) == expected_cost(a, q, cm)
             Best(a) == \A b \in Actions \ {a} : Beats(a, b, q, cm)
  <1>1. /\ cost("suppress") \in Int /\ cost("wait") \in Int
        /\ cost("triage") \in Int /\ cost("alert") \in Int
    BY CostIsInt DEF Actions
  <1>2. \E a \in Actions : Best(a)
    <2>1. CASE /\ cost("suppress") <= cost("wait")
               /\ cost("suppress") <= cost("triage")
               /\ cost("suppress") <= cost("alert")
      <3>1. Best("suppress") BY <1>1, <2>1 DEF Beats, Actions, ACTION_SEVERITY
      <3> QED BY <3>1 DEF Actions
    <2>2. CASE /\ cost("wait") < cost("suppress")
               /\ cost("wait") <= cost("triage")
               /\ cost("wait") <= cost("alert")
      <3>1. Best("wait") BY <1>1, <2>2 DEF Beats, Actions, ACTION_SEVERITY
      <3> QED BY <3>1 DEF Actions
    <2>3. CASE /\ cost("triage") < cost("suppress")
               /\ cost("triage") < cost("wait")
               /\ cost("triage") <= cost("alert")
      <3>1. Best("triage") BY <1>1, <2>3 DEF Beats, Actions, ACTION_SEVERITY
      <3> QED BY <3>1 DEF Actions
    <2>4. CASE /\ cost("alert") < cost("suppress")
               /\ cost("alert") < cost("wait")
               /\ cost("alert") < cost("triage")
      <3>1. Best("alert") BY <1>1, <2>4 DEF Beats, Actions, ACTION_SEVERITY
      <3> QED BY <3>1 DEF Actions
    <2> HIDE DEF cost
    <2> QED BY <1>1, <2>1, <2>2, <2>3, <2>4
  <1>3. recommended_action(q, cm) = CHOOSE a \in Actions : Best(a)
    BY DEF recommended_action, Beats
  <1> HIDE DEF Best, cm
  <1>4. recommended_action(q, cm) \in Actions /\ Best(recommended_action(q, cm))
    BY <1>2, <1>3
  <1> QED BY <1>4 DEF Best, cm

\* The guardrail floor is an action some guardrail demands (or suppress), and
\* no guardrail demands a more severe one.
LEMMA Floor ==
    ASSUME NEW q, NEW sc, NEW u
    PROVE  LET f == guardrail_floor(q, sc, u)
           IN  /\ f \in {raise_to[r] : r \in reasons(q, sc, u)} \cup {"suppress"}
               /\ f \in Actions
               /\ \A r \in reasons(q, sc, u) :
                     ACTION_SEVERITY[raise_to[r]] <= ACTION_SEVERITY[f]
  <1> DEFINE floors == {raise_to[r] : r \in reasons(q, sc, u)} \cup {"suppress"}
             Top(f) == \A g \in floors : ACTION_SEVERITY[g] <= ACTION_SEVERITY[f]
  <1>1. floors \subseteq Actions /\ "suppress" \in floors
    BY DEF reasons, raise_to, Actions
  <1>2. \E f \in floors : Top(f)
    <2> HIDE DEF floors
    <2>1. CASE "alert" \in floors
      BY <1>1, <2>1 DEF Actions, ACTION_SEVERITY
    <2>2. CASE "alert" \notin floors /\ "triage" \in floors
      BY <1>1, <2>2 DEF Actions, ACTION_SEVERITY
    <2>3. CASE "alert" \notin floors /\ "triage" \notin floors /\ "wait" \in floors
      BY <1>1, <2>3 DEF Actions, ACTION_SEVERITY
    <2>4. CASE floors = {"suppress"}
      BY <2>4 DEF ACTION_SEVERITY
    <2> QED BY <1>1, <2>1, <2>2, <2>3, <2>4 DEF Actions
  <1>3. guardrail_floor(q, sc, u) = CHOOSE f \in floors : Top(f)
    BY DEF guardrail_floor
  <1>4. guardrail_floor(q, sc, u) \in floors /\ Top(guardrail_floor(q, sc, u))
    <2> HIDE DEF floors, Top
    <2> QED BY <1>2, <1>3
  <1> QED BY <1>1, <1>4

\* A guardrail that trips lifts the floor above suppress.
LEMMA TrippedFloor ==
    ASSUME NEW q, NEW sc, NEW u
    PROVE  guardrail_floor(q, sc, u) = "suppress" <=> reasons(q, sc, u) = {}
  <1> DEFINE f == guardrail_floor(q, sc, u)
  <1>1. ASSUME reasons(q, sc, u) = {} PROVE f = "suppress"
    BY <1>1, Floor
  <1>2. ASSUME NEW r \in reasons(q, sc, u) PROVE f # "suppress"
    <2>1. ACTION_SEVERITY[raise_to[r]] >= 1
      BY DEF reasons, raise_to, ACTION_SEVERITY
    <2>2. ACTION_SEVERITY[raise_to[r]] <= ACTION_SEVERITY[f] /\ f \in Actions
      BY Floor
    <2>3. ACTION_SEVERITY[raise_to[r]] \in Int
      BY DEF reasons, raise_to, ACTION_SEVERITY
    <2> HIDE DEF f
    <2> QED BY <2>1, <2>2, <2>3 DEF ACTION_SEVERITY, Actions
  <1> QED BY <1>1, <1>2

\* Severities are integers, so the comparison in decide_action is total.
LEMMA SeverityIsInt ==
    ASSUME NEW a \in Actions
    PROVE  ACTION_SEVERITY[a] \in 0..3
  BY DEF Actions, ACTION_SEVERITY

\* The invariant: the inputs are a distribution and a score, and the decision
\* is not taken yet or is decide_action's answer for them.
Answered ==
    /\ prob \in Probs /\ prob.normal + prob.low + prob.medium + prob.high = N
    /\ score \in 0..S /\ unknown \in BOOLEAN /\ mode \in Modes
    /\ \/ decision = Undecided
       \/ decision = decide_action(prob, score, unknown, mode)

\* Answered is inductive: Decide is the only step and keeps its inputs.
LEMMA AnsweredInvariant == Spec => []Answered
  <1>1. Init => Answered
    <2> SUFFICES ASSUME Init PROVE Answered
      OBVIOUS
    <2>1. PICK n \in 0..N : \E l \in 0..(N - n) : \E m \in 0..(N - n - l) :
              prob = [normal |-> n, low |-> l, medium |-> m, high |-> N - n - l - m]
      BY DEF Init
    <2>2. PICK l \in 0..(N - n) : \E m \in 0..(N - n - l) :
              prob = [normal |-> n, low |-> l, medium |-> m, high |-> N - n - l - m]
      BY <2>1
    <2>3. PICK m \in 0..(N - n - l) :
              prob = [normal |-> n, low |-> l, medium |-> m, high |-> N - n - l - m]
      BY <2>2
    <2>4. /\ n \in 0..N /\ l \in 0..N /\ m \in 0..N /\ N - n - l - m \in 0..N
          /\ n + l + m + (N - n - l - m) = N
      BY TriageAssumption
    <2>5. prob \in Probs /\ prob.normal + prob.low + prob.medium + prob.high = N
      BY <2>3, <2>4 DEF Probs
    <2> QED BY <2>5, TriageAssumption DEF Init, Answered
  <1>2. Answered /\ [Next]_vars => Answered'
    BY DEF Answered, Next, Decide, vars
  <1> QED BY <1>1, <1>2, PTL DEF Spec

\* What an answered decision looks like: the more severe of the cost-minimal
\* action and the floor, with the reasons when the floor won.
LEMMA AnswerShape ==
    ASSUME Answered, Decided
    PROVE  LET f == guardrail_floor(prob, score, unknown)
               rs == reasons(prob, score, unknown)
           IN  /\ base_action \in Actions /\ f \in Actions
               /\ \/ /\ ACTION_SEVERITY[f] > ACTION_SEVERITY[base_action]
                     /\ decision = [action |-> f, reasons |-> rs]
                  \/ /\ ~(ACTION_SEVERITY[f] > ACTION_SEVERITY[base_action])
                     /\ decision = [action |-> base_action, reasons |-> {}]
  <1>1. base_action \in Actions
    BY Recommended DEF base_action, Answered
  <1>2. guardrail_floor(prob, score, unknown) \in Actions
    BY Floor
  <1>3. decision = decide_action(prob, score, unknown, mode)
    BY DEF Answered, Decided
  <1> QED BY <1>1, <1>2, <1>3 DEF decide_action, base_action

\* TypeOK of decide_action: its answer is one of the four actions.
THEOREM TypeCorrect == Spec => []TypeOK
  <1>1. Answered => TypeOK
    <2> SUFFICES ASSUME Answered PROVE decision.action \in Actions \cup {"none"}
      BY DEF Answered, TypeOK
    <2>1. CASE decision = Undecided
      BY <2>1 DEF Undecided
    <2>2. CASE Decided
      BY <2>2, AnswerShape
    <2> QED BY <2>1, <2>2 DEF Decided
  <1> QED BY <1>1, AnsweredInvariant, PTL

\* In an answered state no tripped guardrail is answered with suppress.
LEMMA NeverSuppressedState == Answered => TrippedNeverSuppressed
  <1> SUFFICES ASSUME Answered, Decided, Tripped
               PROVE  decision.action # "suppress"
    BY DEF TrippedNeverSuppressed
  <1> DEFINE f == guardrail_floor(prob, score, unknown)
  <1>1. reasons(prob, score, unknown) # {}
    <2>1. CASE HighScore(score)
      <3>1. "score" \in reasons(prob, score, unknown) BY <2>1 DEF reasons
      <3> QED BY <3>1
    <2>2. CASE 4 * prob.high >= N
      <3>1. HighAlert(prob) \/ HighTriage(prob) BY <2>2 DEF HighTriage
      <3>2. \/ "p_high_alert" \in reasons(prob, score, unknown)
            \/ "p_high_triage" \in reasons(prob, score, unknown)
        BY <3>1 DEF reasons
      <3> QED BY <3>2
    <2>3. CASE LowConfidence(prob)
      <3>1. "confidence" \in reasons(prob, score, unknown) BY <2>3 DEF reasons
      <3> QED BY <3>1
    <2>4. CASE unknown
      <3>1. "workload" \in reasons(prob, score, unknown) BY <2>4 DEF reasons
      <3> QED BY <3>1
    <2> QED BY <2>1, <2>2, <2>3, <2>4 DEF Tripped
  <1>2. f # "suppress"
    BY <1>1, TrippedFloor
  <1>3. f \in Actions /\ base_action \in Actions
    BY AnswerShape
  <1>4. CASE /\ ACTION_SEVERITY[f] > ACTION_SEVERITY[base_action]
             /\ decision.action = f
    BY <1>2, <1>4
  <1>5. CASE /\ ~(ACTION_SEVERITY[f] > ACTION_SEVERITY[base_action])
             /\ decision.action = base_action
    <2> HIDE DEF f
    <2>1. base_action # "suppress"
      BY <1>2, <1>3, <1>5 DEF Actions, ACTION_SEVERITY
    <2> QED BY <2>1, <1>5
  <1> QED BY <1>4, <1>5, AnswerShape

\* The "core invariant" of cost_matrix.py for every distribution, score,
\* workload and mode: a tripped guardrail is never answered with suppress.
THEOREM NeverSuppressed == Spec => []TrippedNeverSuppressed
  BY NeverSuppressedState, AnsweredInvariant, PTL

\* In an answered state the guardrails have raised the action or left it.
LEMMA OnlyRaiseState == Answered => GuardrailsOnlyRaise
  <1> SUFFICES ASSUME Answered, Decided PROVE GuardrailsOnlyRaise
    BY DEF GuardrailsOnlyRaise
  <1> DEFINE f == guardrail_floor(prob, score, unknown)
             rs == reasons(prob, score, unknown)
  <1>1. /\ f \in Actions /\ base_action \in Actions
        /\ ACTION_SEVERITY[f] \in 0..3 /\ ACTION_SEVERITY[base_action] \in 0..3
    BY AnswerShape, SeverityIsInt
  <1>2. f = "suppress" <=> rs = {}
    BY TrippedFloor
  <1>3. CASE /\ ACTION_SEVERITY[f] > ACTION_SEVERITY[base_action]
             /\ decision = [action |-> f, reasons |-> rs]
    <2> HIDE DEF f, rs
    <2>1. f # "suppress"
      BY <1>1, <1>3 DEF ACTION_SEVERITY
    <2> QED BY <1>1, <1>2, <1>3, <2>1 DEF GuardrailsOnlyRaise
  <1>4. CASE decision = [action |-> base_action, reasons |-> {}]
    BY <1>1, <1>4 DEF GuardrailsOnlyRaise
  <1> QED BY <1>3, <1>4, AnswerShape

\* A guardrail only raises, and reasons are reported exactly when it did.
THEOREM OnlyRaise == Spec => []GuardrailsOnlyRaise
  BY OnlyRaiseState, AnsweredInvariant, PTL

\* For no distribution is the recall-first matrix milder than the default one:
\* each of the six ways it could be contradicts two comparisons of costs.
LEMMA RecallFirst ==
    ASSUME NEW q \in Probs
    PROVE  ACTION_SEVERITY[recommended_action(q, RECALL_FIRST_COST_MATRIX)]
             >= ACTION_SEVERITY[recommended_action(q, COST_MATRIX)]
  <1> DEFINE r == recommended_action(q, RECALL_FIRST_COST_MATRIX)
             d == recommended_action(q, COST_MATRIX)
  <1>1. /\ r \in Actions
        /\ \A b \in Actions \ {r} : Beats(r, b, q, RECALL_FIRST_COST_MATRIX)
    BY Recommended DEF Modes, get_cost_matrix
  <1>2. /\ d \in Actions
        /\ \A b \in Actions \ {d} : Beats(d, b, q, COST_MATRIX)
    BY Recommended DEF Modes, get_cost_matrix
  <1> HIDE DEF r, d
  <1>3. q.normal \in Nat /\ q.low \in Nat /\ q.medium \in Nat /\ q.high \in Nat
    BY ProbParts
  <1>4. ASSUME NEW a \in Actions, NEW b \in Actions,
               r = a, d = b, ACTION_SEVERITY[a] < ACTION_SEVERITY[b]
        PROVE  FALSE
    <2>1. a # b
      BY <1>4 DEF Actions, ACTION_SEVERITY
    <2>2. Beats(a, b, q, RECALL_FIRST_COST_MATRIX) /\ Beats(b, a, q, COST_MATRIX)
      BY <1>1, <1>2, <1>4, <2>1
    <2>3. CASE a = "suppress"
      BY <1>3, <1>4, <2>2, <2>3, DefaultCost, RecallFirstCost
      DEF Beats, Actions, ACTION_SEVERITY
    <2>4. CASE a = "wait"
      BY <1>3, <1>4, <2>2, <2>4, DefaultCost, RecallFirstCost
      DEF Beats, Actions, ACTION_SEVERITY
    <2>5. CASE a = "triage"
      BY <1>3, <1>4, <2>2, <2>5, DefaultCost, RecallFirstCost
      DEF Beats, Actions, ACTION_SEVERITY
    <2>6. CASE a = "alert"
      BY <1>4, <2>6 DEF Actions, ACTION_SEVERITY
    <2> QED BY <2>3, <2>4, <2>5, <2>6 DEF Actions
  <1>5. ACTION_SEVERITY[r] \in 0..3 /\ ACTION_SEVERITY[d] \in 0..3
    BY <1>1, <1>2, SeverityIsInt
  <1>6. ~(ACTION_SEVERITY[r] < ACTION_SEVERITY[d])
    BY <1>1, <1>2, <1>4
  <1>7. ACTION_SEVERITY[r] >= ACTION_SEVERITY[d]
    BY <1>5, <1>6
  <1> QED BY <1>7 DEF r, d

\* A production decision escalates at least as far as the default matrix.
THEOREM RecallFirstTheorem == Spec => []RecallFirstEscalates
  <1>1. ASSUME Answered, Decided, mode = "recall_first"
        PROVE  ACTION_SEVERITY[decision.action]
                 >= ACTION_SEVERITY[recommended_action(prob, COST_MATRIX)]
    <2>1. ACTION_SEVERITY[decision.action] >= ACTION_SEVERITY[base_action]
      BY <1>1, OnlyRaiseState DEF GuardrailsOnlyRaise
    <2>2. base_action = recommended_action(prob, RECALL_FIRST_COST_MATRIX)
      BY <1>1 DEF base_action, get_cost_matrix
    <2>3. ACTION_SEVERITY[base_action]
            >= ACTION_SEVERITY[recommended_action(prob, COST_MATRIX)]
      BY <1>1, <2>2, RecallFirst DEF Answered
    <2>4. /\ recommended_action(prob, COST_MATRIX) \in Actions
          /\ base_action \in Actions /\ decision.action \in Actions
      BY <1>1, <2>2, Recommended, AnswerShape DEF Answered, Modes, get_cost_matrix
    <2> HIDE DEF base_action
    <2> QED BY <2>1, <2>3, <2>4, SeverityIsInt
  <1>2. Answered => RecallFirstEscalates
    BY <1>1 DEF RecallFirstEscalates
  <1> QED BY <1>2, AnsweredInvariant, PTL

\* A production suppress is backed by the inputs for every N: no guardrail
\* tripped, normal holds at least half of the mass and fifty times that of high.
THEOREM SafeSuppress == Spec => []SuppressIsSafe
  <1>1. Answered => SuppressIsSafe
    <2> SUFFICES ASSUME Answered, decision.action = "suppress", mode = "recall_first"
                 PROVE  /\ ~unknown /\ 10 * score < 9 * S
                        /\ 2 * prob.normal >= N /\ 50 * prob.high <= prob.normal
      BY DEF SuppressIsSafe
    <2> DEFINE cm == RECALL_FIRST_COST_MATRIX
    <2>1. Decided
      BY DEF Decided, Undecided
    <2>2. ~Tripped
      BY <2>1, NeverSuppressedState DEF TrippedNeverSuppressed
    <2>3. /\ prob.normal \in Nat /\ prob.low \in Nat /\ prob.medium \in Nat
          /\ prob.high \in Nat /\ N \in Nat /\ N # 0 /\ S \in Nat /\ score \in Nat
          /\ prob.normal + prob.low + prob.medium + prob.high = N
      BY ProbParts, TriageAssumption DEF Answered
    <2>4. ~unknown /\ 10 * score < 9 * S
      BY <2>2, <2>3 DEF Tripped, HighScore
    <2>5. base_action = "suppress"
      BY <2>1, OnlyRaiseState, SeverityIsInt, AnswerShape
      DEF GuardrailsOnlyRaise, Actions, ACTION_SEVERITY
    <2>6. Beats("suppress", "wait", prob, cm)
      BY <2>5, Recommended DEF base_action, Answered, Modes, get_cost_matrix, Actions
    <2>7. 4 * prob.low + 30 * prob.medium + 120 * prob.high
            <= prob.normal + 16 * prob.medium + 70 * prob.high
      BY <2>3, <2>6, RecallFirstCost DEF Beats, Answered
    <2>8. 50 * prob.high <= prob.normal
      BY <2>3, <2>7
    <2>9. 2 * prob.normal >= N
      BY <2>3, <2>7
    <2> QED BY <2>4, <2>8, <2>9
  <1> QED BY <1>1, AnsweredInvariant, PTL

-----------------------------------------------------------------------------
(* The policy layer (PolicyDecision).                                       *)

\* policy_expected_cost of the three escalation actions, written out: on 0..Parts the
\* clamp does nothing.
LEMMA ExpectedCost ==
    ASSUME NEW q \in 0..Parts
    PROVE  /\ policy_expected_cost(q, "wait")   = 2 * q - (Parts - q)
           /\ policy_expected_cost(q, "triage") = (Parts - q) - 4 * q
           /\ policy_expected_cost(q, "alert")  = 6 * (Parts - q) - 10 * q
  BY PolicyAssumption DEF policy_expected_cost, COST

\* The argmin of best_action over the reward grid (policy/reward.py) has a
\* closed form: two thresholds on P(fault), the milder action winning ties.
LEMMA BestAction ==
    ASSUME NEW q \in 0..Parts
    PROVE  best_action(q) = IF 11 * q > 5 * Parts THEN "alert"
                            ELSE IF 4 * q <= Parts THEN "wait"
                            ELSE "triage"
  <1> DEFINE w == policy_expected_cost(q, "wait")
             g == policy_expected_cost(q, "triage")
             l == policy_expected_cost(q, "alert")
             Cheapest(a) ==
                 \A b \in ESCALATION_ACTIONS \ {a} :
                    \/ policy_expected_cost(q, a) < policy_expected_cost(q, b)
                    \/ /\ policy_expected_cost(q, a) = policy_expected_cost(q, b)
                       /\ ACTION_IDX[a] < ACTION_IDX[b]
  <1>1. /\ w = 2 * q - (Parts - q) /\ g = (Parts - q) - 4 * q /\ l = 6 * (Parts - q) - 10 * q
        /\ w \in Int /\ g \in Int /\ l \in Int
    BY ExpectedCost, PolicyAssumption
  <1>2. /\ Cheapest("wait") <=> w <= g /\ w <= l
        /\ Cheapest("triage") <=> g < w /\ g <= l
        /\ Cheapest("alert") <=> l < w /\ l < g
    BY <1>1 DEF ESCALATION_ACTIONS, ACTION_IDX
  <1>3. CASE 11 * q > 5 * Parts
    <2>1. Cheapest("alert") /\ ~Cheapest("wait") /\ ~Cheapest("triage")
      BY <1>1, <1>2, <1>3, PolicyAssumption
    <2> QED BY <2>1, <1>3 DEF best_action, ESCALATION_ACTIONS
  <1>4. CASE ~(11 * q > 5 * Parts) /\ 4 * q <= Parts
    <2>1. Cheapest("wait") /\ ~Cheapest("alert") /\ ~Cheapest("triage")
      BY <1>1, <1>2, <1>4, PolicyAssumption
    <2> QED BY <2>1, <1>4 DEF best_action, ESCALATION_ACTIONS
  <1>5. CASE ~(11 * q > 5 * Parts) /\ ~(4 * q <= Parts)
    <2>1. Cheapest("triage") /\ ~Cheapest("alert") /\ ~Cheapest("wait")
      BY <1>1, <1>2, <1>5, PolicyAssumption
    <2> QED BY <2>1, <1>5 DEF best_action, ESCALATION_ACTIONS
  <1> QED BY <1>3, <1>4, <1>5

\* PolicyFilter.decide in closed form, the model error included.
LEMMA DecideClosedForm ==
    ASSUME NEW q \in 0..Parts \cup {ModelError}
    PROVE  decide(q) = IF q = ModelError \/ 11 * q > 5 * Parts THEN "alert"
                       ELSE IF 4 * q <= Parts THEN "wait"
                       ELSE "triage"
  <1>1. CASE q = ModelError
    BY <1>1 DEF decide, ModelError
  <1>2. CASE q \in 0..Parts
    BY <1>2, BestAction, PolicyAssumption DEF decide, ModelError
  <1> QED BY <1>1, <1>2

\* decide is monotone in P(fault), with the model error above everything.
LEMMA DecideMonotone ==
    ASSUME NEW q \in 0..Parts \cup {ModelError}, NEW r \in 0..Parts \cup {ModelError},
           (q <= r /\ q # ModelError) \/ r = ModelError
    PROVE  ACTION_IDX[decide(r)] >= ACTION_IDX[decide(q)]
  <1>1. CASE r = ModelError
    BY <1>1, DecideClosedForm DEF ACTION_IDX
  <1>2. CASE r # ModelError
    <2>1. q \in 0..Parts /\ r \in 0..Parts /\ q <= r /\ q # ModelError
      BY <1>2
    <2>2. 11 * q > 5 * Parts => 11 * r > 5 * Parts
      BY <2>1, PolicyAssumption
    <2>3. 4 * r <= Parts => 4 * q <= Parts
      BY <2>1, PolicyAssumption
    <2> QED BY <2>1, <2>2, <2>3, <1>2, DecideClosedForm DEF ACTION_IDX
  <1> QED BY <1>1, <1>2

\* The invariant of the specification: the action on display is the decision
\* for the current P(fault).
PolicyDecided == p \in 0..Parts \cup {ModelError} /\ action = decide(p)

\* Every window is decided by PolicyFilter.decide.
LEMMA PolicyInvariant == PolicySpec => []PolicyDecided
  <1>1. PolicyInit => PolicyDecided
    BY DEF PolicyInit, PolicyDecided
  <1>2. PolicyDecided /\ [PolicyNext]_policyVars => PolicyDecided'
    BY DEF PolicyDecided, PolicyNext, NextWindow, policyVars, decide, best_action, policy_expected_cost
  <1> QED BY <1>1, <1>2, PTL DEF PolicySpec

\* The policy layer only ever answers wait, triage or alert; suppress stays
\* with the noise filter (policy_filter.py, PolicyFilter.decide).
THEOREM PolicyTypes == PolicySpec => []PolicyTypeOK
  <1>1. PolicyDecided => PolicyTypeOK
    BY DecideClosedForm DEF PolicyDecided, PolicyTypeOK, ESCALATION_ACTIONS
  <1> QED BY <1>1, PolicyInvariant, PTL

\* The decision is given by the two thresholds 1/4 and 5/11 for every Parts: the
\* cost grid has no band in which the argmin of reward.py behaves otherwise.
THEOREM Bands == PolicySpec => []DecisionBands
  <1>1. PolicyDecided => DecisionBands
    BY DecideClosedForm DEF PolicyDecided, DecisionBands
  <1> QED BY <1>1, PolicyInvariant, PTL

\* More evidence of a fault, or losing the policy model, never lowers the
\* escalation of a container from one window to the next.
THEOREM Monotone == PolicySpec => EscalationMonotone
  <1> DEFINE Step == (p <= p' /\ p # ModelError) \/ p' = ModelError
                        => ACTION_IDX[action'] >= ACTION_IDX[action]
  <1>1. PolicyDecided /\ PolicyDecided' => Step
    <2> SUFFICES ASSUME PolicyDecided, PolicyDecided',
                        (p <= p' /\ p # ModelError) \/ p' = ModelError
                 PROVE  ACTION_IDX[action'] >= ACTION_IDX[action]
      OBVIOUS
    <2>1. p \in 0..Parts \cup {ModelError} /\ action = decide(p)
      BY DEF PolicyDecided
    <2>2. p' \in 0..Parts \cup {ModelError} /\ action' = decide(p')
      BY DEF PolicyDecided
    <2> QED BY <2>1, <2>2, DecideMonotone
  <1> QED BY <1>1, PolicyInvariant, PTL DEF EscalationMonotone
==============================================================================
