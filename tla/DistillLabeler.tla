---------------------------- MODULE DistillLabeler ----------------------------
(***************************************************************************)
(* The labelling of anomaly groups by several LLMs                          *)
(* (scripts/qwen_distill_label.py): batch after batch every model is asked  *)
(* about the groups of the batch, and the votes are merged.  Groups that    *)
(* are labelled benign teach the noise filter what to silence.              *)
(*                                                                         *)
(* A model may answer for any group, also one of another batch, more than   *)
(* once or not at all, and with a verdict it was not offered.               *)
(***************************************************************************)
EXTENDS Naturals, Sequences

CONSTANTS
    Voters,     \* MODELS
    Groups,
    Batches     \* the groups of each batch

\* A group is an entry of a dictionary and in one batch only.
ASSUME BatchAssumption ==
    /\ Batches \in Seq(SUBSET Groups)
    /\ \A i, j \in DOMAIN Batches : i # j => Batches[i] \cap Batches[j] = {}

VARIABLES
    batch,      \* the batch being labelled
    asked,      \* models asked about it
    votes,      \* per group: (model, verdict) pairs of this batch
    labels,     \* per group: the verdict printed, "none" if there is none
    heard       \* per group: every vote cast while its batch was asked about

labelerVars == <<batch, asked, votes, labels, heard>>

Verdicts == {"benign", "suspicious", "other"}

NoVotes == [g \in Groups |-> {}]

LabelerInit ==
    /\ batch = 1 /\ asked = {} /\ votes = NoVotes
    /\ labels = [g \in Groups |-> "none"] /\ heard = NoVotes

\* ask: the entries of the answer.  A model that cannot be reached has none; one
\* whose answer breaks off (a confidence that is no number) has those before.
Ask(v) ==
    /\ batch \in DOMAIN Batches /\ v \notin asked
    /\ asked' = asked \cup {v}
    /\ \E ans \in [Groups -> {s \in SUBSET Verdicts : s # Verdicts}] :
          /\ votes' = [g \in Groups |-> votes[g] \cup {<<v, x>> : x \in ans[g]}]
          /\ heard' = [g \in Groups |->
                         IF g \in Batches[batch]
                         THEN heard[g] \cup {<<v, x>> : x \in ans[g]} ELSE heard[g]]
    /\ UNCHANGED <<batch, labels>>

\* Variant: one benign vote is enough.
verdict_any(g) == IF \E x \in votes[g] : x[2] = "benign" THEN "benign" ELSE "suspicious"

\* all_benign over the votes that were cast.
verdict(g) == IF \A x \in votes[g] : x[2] = "benign" THEN "benign" ELSE "suspicious"

\* The votes of a batch are merged, and the next batch starts without any.
Merge ==
    /\ batch \in DOMAIN Batches /\ asked = Voters
    /\ labels' = [g \in Groups |->
                    IF g \in Batches[batch] /\ votes[g] # {} THEN verdict(g) ELSE labels[g]]
    /\ batch' = batch + 1 /\ asked' = {} /\ votes' = NoVotes
    /\ UNCHANGED heard

LabelerNext == Merge \/ \E v \in Voters : Ask(v)

LabelerSpec == LabelerInit /\ [][LabelerNext]_labelerVars

-----------------------------------------------------------------------------
(* Properties.                                                              *)

\* "benign only on unanimous benign" (qwen_distill_label.py:105): of all that
\* models said when they were asked about the group's batch nothing but benign
\* was heard, and at least once; failed calls, answers that break off and
\* answers about groups of other batches do not change that.
BenignUnanimous ==
    \A g \in Groups : labels[g] = "benign" =>
        heard[g] # {} /\ \A x \in heard[g] : x[2] = "benign"

\* "A group is labelled benign (=> safe to suppress at runtime) ONLY when every
\* model agrees benign" (qwen_distill_label.py:71-72).
EveryModelAgrees ==
    \A g \in Groups : labels[g] = "benign" => \A v \in Voters : <<v, "benign">> \in heard[g]

=============================================================================
