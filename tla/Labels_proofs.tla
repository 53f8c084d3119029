----------------------------- MODULE Labels_proofs -----------------------------
(***************************************************************************)
(* Proofs about the labels: what the store answers however its writers      *)
(* overlap (LabelStore), and what the voting of several models lets the     *)
(* noise filter learn (DistillLabeler).                                     *)
(***************************************************************************)
EXTENDS LabelStore, DistillLabeler, SequenceTheorems, WellFoundedInduction, TLAPS

-----------------------------------------------------------------------------
(* The label store.                                                         *)

Jobs == {"idle", "weak", "weak_known", "llm", "llm_part"}

LabelTypes ==
    /\ bundle \in Case
    /\ lines \in Seq(Label) /\ delivered \subseteq Label
    /\ job \in [Writers -> Jobs]
    /\ out \in [Writers -> Label \cup {NoLabel}]
    /\ clock \in Nat
    /\ broken \in BOOLEAN /\ swept \in BOOLEAN /\ adjudicated \in BOOLEAN

\* Labels of known injections are never normal, and a label that is none of the
\* LLM's own words is the fallback.
Sound(l) ==
    /\ l.source = "fault_metadata" => l.class # "normal"
    /\ ~l.ok => l.class = "medium"

LabelsSound ==
    /\ \A i \in DOMAIN lines : Sound(lines[i])
    /\ \A w \in Writers : out[w] # NoLabel => Sound(out[w])

\* No fault metadata, and a score from which the adjudicator looks at the case.
Open == ~bundle.is_injected /\ bundle.fault_type = "none" /\ bundle.score >= 49

\* What a writer has in hand.
InHand ==
    \A w \in Writers :
        /\ job[w] = "weak_known" => out[w] # NoLabel /\ out[w].source = "fault_metadata"
        /\ job[w] = "llm" /\ Open => out[w] # NoLabel /\ out[w].source = "llm_adjudicator"

\* What runs that ended have left, in a file without a broken line.
Left ==
    ~broken =>
        /\ \A l \in delivered : \E i \in DOMAIN lines : lines[i] = l
        /\ swept => \E i \in DOMAIN lines : lines[i].source = "fault_metadata"
        /\ adjudicated /\ Open => \E i \in DOMAIN lines : lines[i].source = "llm_adjudicator"

LabelInv == LabelTypes /\ LabelsSound /\ InHand /\ Left

-----------------------------------------------------------------------------
(* The labelling by several models.                                         *)

LabelerTypes ==
    /\ batch \in Nat \ {0}
    /\ votes \in [Groups -> SUBSET (Voters \X Verdicts)]
    /\ heard \in [Groups -> SUBSET (Voters \X Verdicts)]
    /\ labels \in [Groups -> {"none", "benign", "suspicious"}]

\* Groups that are still to be labelled have no label, and the votes at hand are
\* all that was said about them.
Unlabelled ==
    \A j \in DOMAIN Batches : \A g \in Batches[j] :
        /\ j >= batch => labels[g] = "none"
        /\ j = batch => heard[g] = votes[g]
        /\ j > batch => heard[g] = {}

\* A group of no batch is never labelled.
Unlisted == \A g \in Groups : (\A j \in DOMAIN Batches : g \notin Batches[j]) => labels[g] = "none"

LabelerInv == LabelerTypes /\ Unlabelled /\ Unlisted /\ BenignUnanimous

-----------------------------------------------------------------------------
(* What resolve answers.                                                    *)

\* Induction, for a set of numbers.
LEMMA NatSetInduction ==
    ASSUME NEW T, 0 \in T, \A n \in Nat : n \in T => n + 1 \in T
    PROVE  Nat \subseteq T
<1> SUFFICES ASSUME Nat \ T # {} PROVE FALSE
  OBVIOUS
<1> DEFINE R == OpToRel(<, Nat)
<1>1. PICK x \in Nat \ T : \A y \in Nat \ T : <<y, x>> \notin R
  <2>1. IsWellFoundedOn(R, Nat)
    BY NatLessThanWellFounded
  <2> HIDE DEF R
  <2> QED BY <2>1, WFMin
<1>2. x # 0 /\ x - 1 \in Nat
  OBVIOUS
<1>3. x - 1 \in T
  <2>1. <<x - 1, x>> \in R
    BY <1>2 DEF OpToRel
  <2> QED BY <1>1, <1>2, <2>1
<1> QED BY <1>2, <1>3

\* One step of the recursion.
NextBest(f, n) ==
    IF n = 0 THEN NoLabel
    ELSE IF f[n - 1] = NoLabel \/ Outranks(lines[n], f[n - 1]) THEN lines[n] ELSE f[n - 1]

\* A function that satisfies the recursion exists.
LEMMA BestExists == \A n \in Nat : \E f : f = [i \in 0..n |-> NextBest(f, i)]
<1> DEFINE T == {n \in Nat : \E f : f = [i \in 0..n |-> NextBest(f, i)]}
<1>1. 0 \in T
  <2> DEFINE f == [i \in 0..0 |-> NoLabel]
  <2>1. f = [i \in 0..0 |-> NextBest(f, i)]
    BY DEF NextBest
  <2> QED BY <2>1
<1>2. ASSUME NEW n \in Nat, n \in T PROVE n + 1 \in T
  <2>1. PICK f : f = [i \in 0..n |-> NextBest(f, i)]
    BY <1>2
  <2> DEFINE g == [i \in 0..(n + 1) |-> IF i = n + 1 THEN NextBest(f, n + 1) ELSE f[i]]
  <2>2. ASSUME NEW i \in 0..(n + 1) PROVE g[i] = NextBest(g, i)
    <3>1. CASE i = n + 1
      BY <3>1 DEF NextBest
    <3>2. CASE i # n + 1
      <4>1. i \in 0..n /\ (i # 0 => i - 1 \in 0..n)
        BY <3>2
      <4>2. f[i] = NextBest(f, i)
        BY <2>1, <4>1
      <4> QED BY <4>1, <4>2, <3>2 DEF NextBest
    <3> QED BY <3>1, <3>2
  <2>3. g = [i \in 0..(n + 1) |-> NextBest(g, i)]
    BY <2>2
  <2> HIDE DEF g
  <2> QED BY <2>3
<1> HIDE DEF T
<1>3. Nat \subseteq T
  BY <1>1, <1>2, NatSetInduction
<1> QED BY <1>3 DEF T

\* best_label is what its recursive definition says.
LEMMA BestDef ==
    ASSUME lines \in Seq(Label)
    PROVE  \A n \in 0..Len(lines) : best_label[n] = NextBest(best_label, n)
<1> DEFINE P(f) == f = [n \in 0..Len(lines) |-> NextBest(f, n)]
<1>1. \E f : P(f)
  BY BestExists, LenProperties
<1>2. best_label = CHOOSE f : P(f)
  BY DEF best_label, NextBest
<1> HIDE DEF P
<1>3. P(CHOOSE f : P(f))
  BY <1>1
<1>4. best_label = [n \in 0..Len(lines) |-> NextBest(best_label, n)]
  BY <1>2, <1>3 DEF P
<1> HIDE DEF P
<1> QED BY <1>4

\* The rank of a label's source.
Rank(l) == SOURCE_PRIORITY[l.source]

\* The four sources rank in the order of the store's table.
LEMMA Ranks ==
    ASSUME NEW l \in Label
    PROVE  /\ Rank(l) \in 0..3 /\ l.at \in Nat
           /\ Rank(l) = 0 <=> l.source = "weak_rule"
           /\ Rank(l) = 1 <=> l.source = "fault_metadata"
           /\ Rank(l) = 2 <=> l.source = "llm_adjudicator"
           /\ Rank(l) = 3 <=> l.source = "operator_feedback"
BY DEF Label, LabelSources, Rank, SOURCE_PRIORITY

\* Outranks is a strict weak order.
LEMMA OutranksOrder ==
    ASSUME NEW l \in Label, NEW m \in Label, NEW k \in Label
    PROVE  /\ ~Outranks(l, l)
           /\ Outranks(l, m) /\ ~Outranks(k, m) => ~Outranks(k, l)
           /\ ~Outranks(l, m) => Rank(l) <= Rank(m)
BY Ranks DEF Outranks, Rank

\* Nothing in the file outranks the label that resolve answers.
LEMMA ResolveBest ==
    ASSUME lines \in Seq(Label), lines # <<>>
    PROVE  \E i \in DOMAIN lines : /\ resolve = lines[i]
                                   /\ \A j \in DOMAIN lines : ~Outranks(lines[j], lines[i])
<1> DEFINE Best(n) == \E i \in 1..n : /\ best_label[n] = lines[i]
                                      /\ \A j \in 1..n : ~Outranks(lines[j], lines[i])
           T == {n \in Nat : n # 0 /\ n <= Len(lines) => Best(n)}
<1>0. /\ Len(lines) \in Nat \ {0} /\ DOMAIN lines = 1..Len(lines)
      /\ \A i \in 1..Len(lines) : lines[i] \in Label
  BY LenProperties, EmptySeq, ElementOfSeq
<1>1. 0 \in T
  OBVIOUS
<1>2. ASSUME NEW n \in Nat, n \in T PROVE n + 1 \in T
  <2> SUFFICES ASSUME n + 1 <= Len(lines) PROVE Best(n + 1)
    OBVIOUS
  <2>1. best_label[n + 1] = IF best_label[n] = NoLabel \/ Outranks(lines[n + 1], best_label[n])
                            THEN lines[n + 1] ELSE best_label[n]
    <3>1. n + 1 \in 0..Len(lines) /\ (n + 1) - 1 = n /\ n + 1 # 0
      BY <1>0
    <3>2. best_label[n + 1] = NextBest(best_label, n + 1)
      BY <3>1, BestDef
    <3> QED BY <3>1, <3>2 DEF NextBest
  <2>2. CASE n = 0
    <3>1. best_label[0] = NoLabel
      BY <1>0, BestDef DEF NextBest
    <3>2. best_label[1] = lines[1]
      BY <2>1, <2>2, <3>1
    <3>3. ~Outranks(lines[1], lines[1])
      BY <1>0, OutranksOrder
    <3> QED BY <2>2, <3>2, <3>3
  <2>3. CASE n # 0
    <3>1. PICK i \in 1..n : best_label[n] = lines[i] /\ \A j \in 1..n : ~Outranks(lines[j], lines[i])
      BY <1>2, <2>3
    <3>2. /\ i \in 1..(n + 1) /\ n + 1 \in 1..(n + 1) /\ lines[i] \in Label /\ lines[n + 1] \in Label
          /\ \A j \in 1..(n + 1) : (j \in 1..n \/ j = n + 1) /\ lines[j] \in Label
      BY <1>0
    <3>3. CASE Outranks(lines[n + 1], lines[i])
      <4>1. best_label[n + 1] = lines[n + 1]
        BY <2>1, <3>1, <3>3
      <4>2. \A j \in 1..(n + 1) : ~Outranks(lines[j], lines[n + 1])
        BY <3>1, <3>2, <3>3, OutranksOrder
      <4> QED BY <3>2, <4>1, <4>2
    <3>4. CASE ~Outranks(lines[n + 1], lines[i])
      <4>1. best_label[n + 1] = lines[i]
        BY <2>1, <3>1, <3>2, <3>4, LabelAssumption
      <4> QED BY <3>1, <3>2, <3>4, <4>1
    <3> QED BY <3>3, <3>4
  <2> QED BY <2>2, <2>3
<1>3. Len(lines) \in T
  <2> HIDE DEF T
  <2> QED BY <1>0, <1>1, <1>2, NatSetInduction
<1>4. Best(Len(lines))
  BY <1>0, <1>3
<1> QED BY <1>0, <1>4 DEF resolve

\* So no label of the file has a better source.
LEMMA ResolveSource ==
    ASSUME lines \in Seq(Label), lines # <<>>
    PROVE  /\ resolve \in Label /\ \E i \in DOMAIN lines : resolve = lines[i]
           /\ \A j \in DOMAIN lines : Rank(lines[j]) <= Rank(resolve)
<1>1. \A i \in DOMAIN lines : lines[i] \in Label
  BY LenProperties, ElementOfSeq
<1>2. PICK i \in DOMAIN lines : resolve = lines[i] /\ \A j \in DOMAIN lines : ~Outranks(lines[j], lines[i])
  BY ResolveBest
<1> QED BY <1>1, <1>2, OutranksOrder

-----------------------------------------------------------------------------
(* The invariant of the store.                                              *)

\* What a batch run of the weak labeler makes of a case.
LEMMA WeakLabel ==
    ASSUME bundle \in Case, clock \in Nat
    PROVE  LET r == label_for_bundle(bundle)
               l == make_label(r.source, r.class, TRUE)
           IN  /\ l \in Label /\ Sound(l)
               /\ KnownInjection(bundle) => l.source = "fault_metadata"
<1>1. InjectedClass(bundle) \in CaseClasses
  BY DEF InjectedClass, Case, FAULT_CLASS_FLOOR, CaseClasses
<1>2. KnownInjection(bundle) => InjectedClass(bundle) # "normal"
  BY DEF InjectedClass, Case, FAULT_CLASS_FLOOR, KnownInjection
<1>3. HeuristicClass(bundle) \in CaseClasses
  BY DEF HeuristicClass, CaseClasses
<1> QED BY <1>1, <1>2, <1>3 DEF label_for_bundle, make_label, Label, LabelSources, Sound

\* The adjudicator never skips an open case.
LEMMA OpenIsAmbiguous ==
    ASSUME bundle \in Case, Open
    PROVE  is_ambiguous(bundle)
BY DEF Open, is_ambiguous, threshold_vote, quick_weak_vote, Votes, Case

\* Which cases the adjudicator without --force skips, whatever is asked of it: a
\* case seen before whose score is below every band, or one with fault metadata
\* and a high score whose two votes agree (llm_adjudicator.ambiguity_reasons).
THEOREM SkippedCases ==
    ASSUME NEW c \in Case
    PROVE  ~is_ambiguous(c) <=>
              /\ ~c.novel
              /\ \/ c.score <= 48
                 \/ /\ c.is_injected \/ c.fault_type # "none"
                    /\ \/ c.score \in 86..89 /\ c.duration >= 2
                       \/ c.score >= 90 /\ c.disk /\ c.hint # "both"
<1>1. /\ c.score \in 0..100 /\ c.duration \in 1..3 /\ c.hint \in {"none", "weak", "both"}
      /\ c.disk \in BOOLEAN /\ c.novel \in BOOLEAN /\ c.is_injected \in BOOLEAN
  BY DEF Case
<1> USE DEF is_ambiguous, threshold_vote, quick_weak_vote, Votes
<1>2. CASE c.score <= 48
  BY <1>1, <1>2
<1>3. CASE c.score \in 49..85
  BY <1>1, <1>3
<1>4. CASE c.score \in 86..89
  BY <1>1, <1>4
<1>5. CASE c.score >= 90
  BY <1>1, <1>5
<1> QED BY <1>1, <1>2, <1>3, <1>4, <1>5

Severity == [normal |-> 0, low |-> 1, medium |-> 2, high |-> 3]

\* d is the case c with more of what makes a case serious.
Graver(d, c) ==
    /\ d.hint = c.hint /\ d.is_injected = c.is_injected /\ d.fault_type = c.fault_type
    /\ c.score <= d.score /\ c.duration <= d.duration
    /\ c.disk => d.disk
    /\ c.syscalls => d.syscalls

\* The six rules of the weak labeler overlap and the first that applies decides;
\* yet no case gets a milder label for a higher score, a longer duration or one
\* more feature out of its baseline (weak_labeler.label_for_bundle).
THEOREM WeakLabelMonotone ==
    ASSUME NEW c \in Case, NEW d \in Case, Graver(d, c)
    PROVE  Severity[label_for_bundle(c).class] <= Severity[label_for_bundle(d).class]
<1>1. /\ c.score \in 0..100 /\ c.duration \in 1..3 /\ d.score \in 0..100 /\ d.duration \in 1..3
      /\ c.disk \in BOOLEAN /\ c.syscalls \in BOOLEAN
      /\ d.disk \in BOOLEAN /\ d.syscalls \in BOOLEAN
  BY DEF Case
<1>2. Severity["normal"] = 0 /\ Severity["low"] = 1 /\ Severity["medium"] = 2 /\ Severity["high"] = 3
  BY DEF Severity
<1>3. \A k \in CaseClasses : Severity[k] \in 0..3
  BY DEF CaseClasses, Severity
<1>4. Severity[InjectedClass(c)] <= Severity[InjectedClass(d)]
  <2>1. FAULT_CLASS_FLOOR[c.fault_type] \in CaseClasses
    BY DEF Case, FAULT_CLASS_FLOOR, CaseClasses
  <2> QED BY <1>1, <1>2, <1>3, <2>1 DEF Graver, InjectedClass
<1>5. Severity[HeuristicClass(c)] <= Severity[HeuristicClass(d)]
  <2>1. HeuristicClass(c) \in CaseClasses /\ HeuristicClass(d) \in CaseClasses
    BY DEF HeuristicClass, CaseClasses
  <2>2. CASE HeuristicClass(c) = "normal"
    BY <1>2, <1>3, <2>1, <2>2
  <2>3. CASE HeuristicClass(c) = "low"
    <3>1. HeuristicClass(d) # "normal"
      BY <1>1, <2>3 DEF Graver, HeuristicClass
    <3> QED BY <1>2, <2>1, <2>3, <3>1 DEF CaseClasses
  <2>4. CASE HeuristicClass(c) = "medium"
    <3>1. HeuristicClass(d) \in {"medium", "high"}
      BY <1>1, <2>4 DEF Graver, HeuristicClass
    <3> QED BY <1>2, <2>4, <3>1
  <2>5. CASE HeuristicClass(c) = "high"
    <3>1. HeuristicClass(d) = "high"
      BY <1>1, <2>5 DEF Graver, HeuristicClass
    <3> QED BY <2>5, <3>1, <1>2
  <2> QED BY <2>1, <2>2, <2>3, <2>4, <2>5 DEF CaseClasses
<1> QED BY <1>4, <1>5 DEF label_for_bundle, KnownInjection, Graver

\* A label is added at the end.
LEMMA LineAdded ==
    ASSUME lines \in Seq(Label), NEW l \in Label, lines' = Append(lines, l)
    PROVE  /\ lines' \in Seq(Label)
           /\ \A i \in DOMAIN lines : i \in DOMAIN lines' /\ lines'[i] = lines[i]
           /\ \E i \in DOMAIN lines' : lines'[i] = l
           /\ \A i \in DOMAIN lines' : lines'[i] = l \/ (i \in DOMAIN lines /\ lines'[i] = lines[i])
<1>1. /\ Len(lines) \in Nat /\ DOMAIN lines = 1..Len(lines)
      /\ lines' \in Seq(Label) /\ Len(lines') = Len(lines) + 1
  BY AppendProperties, LenProperties
<1>2. /\ DOMAIN lines' = 1..(Len(lines) + 1) /\ lines'[Len(lines) + 1] = l
      /\ \A i \in 1..Len(lines) : lines'[i] = lines[i]
  BY <1>1, AppendProperties, LenProperties
<1>3. \A i \in 1..(Len(lines) + 1) : i \in 1..Len(lines) \/ i = Len(lines) + 1
  BY <1>1
<1> QED BY <1>1, <1>2, <1>3

\* What the labels and the writers keep when the file is left alone.
LEMMA FileKept ==
    ASSUME LabelInv, UNCHANGED <<lines, delivered, swept, adjudicated>>,
           broken => broken', LabelTypes', Open' => Open,
           \A w \in Writers : out'[w] # NoLabel /\ out'[w] # out[w] => Sound(out'[w]),
           InHand'
    PROVE  LabelInv'
<1>1. LabelsSound'
  BY DEF LabelInv, LabelsSound
<1>2. Left'
  BY DEF LabelInv, LabelTypes, Left
<1> QED BY <1>1, <1>2 DEF LabelInv

\* A run that ends puts its label down.
RunsEnd(w) ==
    /\ job' = [job EXCEPT ![w] = "idle"] /\ out' = [out EXCEPT ![w] = NoLabel]

\* A run begins job j with l in hand.
Begins(w, j, l) ==
    /\ job' = [job EXCEPT ![w] = j]
    /\ out' = [out EXCEPT ![w] = l] \/ (out' = out /\ l = out[w])
    /\ l # NoLabel /\ l # out[w] => Sound(l)
    /\ j = "weak_known" => l # NoLabel /\ l.source = "fault_metadata"
    /\ j = "llm" /\ Open => l # NoLabel /\ l.source = "llm_adjudicator"

\* A run begins, or comes to the end of the cases.
LEMMA RunStarts ==
    ASSUME LabelInv, NEW w \in Writers, StartWeak(w) \/ Adjudicate(w) \/ SkipCase(w)
    PROVE  LabelInv'
<1>1. /\ UNCHANGED <<bundle, lines, delivered, swept, adjudicated, broken>>
      /\ bundle \in Case /\ clock \in Nat /\ job[w] = "idle"
  BY DEF LabelInv, LabelTypes, StartWeak, Adjudicate, SkipCase, history
<1>2. /\ clock' \in Nat
      /\ \E j \in Jobs, l \in Label \cup {NoLabel} : Begins(w, j, l)
  <2>1. CASE StartWeak(w)
    <3> DEFINE r == label_for_bundle(bundle)
               l == make_label(r.source, r.class, TRUE)
               j == IF KnownInjection(bundle) THEN "weak_known" ELSE "weak"
    <3>1. l \in Label /\ Sound(l) /\ (KnownInjection(bundle) => l.source = "fault_metadata")
      BY <1>1, WeakLabel
    <3>2. job' = [job EXCEPT ![w] = j] /\ out' = [out EXCEPT ![w] = l] /\ clock' = clock + 1
      BY <2>1 DEF StartWeak, Stamp
    <3>3. j \in Jobs /\ j # "llm" /\ (j = "weak_known" => KnownInjection(bundle))
      BY DEF Jobs
    <3>4. l # NoLabel
      BY <3>1, LabelAssumption
    <3> HIDE DEF l, j
    <3>5. Begins(w, j, l)
      BY <3>1, <3>2, <3>3, <3>4 DEF Begins
    <3> QED BY <1>1, <3>1, <3>2, <3>3, <3>5
  <2>2. CASE Adjudicate(w)
    <3>1. PICK l \in {make_label("llm_adjudicator", c, TRUE) : c \in Answers} \cup {fallback_label} :
            out' = [out EXCEPT ![w] = l]
      BY <2>2 DEF Adjudicate
    <3>2. l \in Label /\ Sound(l) /\ l.source = "llm_adjudicator"
      <4>1. CASE l = fallback_label
        BY <1>1, <4>1 DEF make_label, fallback_label, Label, LabelSources, CaseClasses, Sound
      <4>2. ASSUME NEW c \in Answers, l = make_label("llm_adjudicator", c, TRUE)
            PROVE  l \in Label /\ Sound(l) /\ l.source = "llm_adjudicator"
        BY <1>1, <4>2, LabelAssumption DEF make_label, Label, LabelSources, CaseClasses, Sound
      <4> QED BY <3>1, <4>1, <4>2
    <3>3. l # NoLabel
      BY <3>2, LabelAssumption
    <3>4. job' = [job EXCEPT ![w] = "llm"] /\ clock' = clock + 1 /\ "llm" \in Jobs
      BY <2>2 DEF Adjudicate, Stamp, Jobs
    <3>5. Begins(w, "llm", l)
      BY <3>1, <3>2, <3>3, <3>4 DEF Begins
    <3> QED BY <1>1, <3>2, <3>4, <3>5
  <2>3. CASE SkipCase(w)
    <3>1. out' = out /\ clock' = clock /\ out[w] \in Label \cup {NoLabel}
      BY <2>3 DEF SkipCase, LabelInv, LabelTypes
    <3>2. \/ job' = [job EXCEPT ![w] = "llm"] /\ ~Open
          \/ job' = [job EXCEPT ![w] = "llm_part"]
      BY <1>1, <2>3, OpenIsAmbiguous DEF SkipCase
    <3>3. "llm" \in Jobs /\ "llm_part" \in Jobs
      BY DEF Jobs
    <3>4. Begins(w, "llm", out[w]) \/ Begins(w, "llm_part", out[w])
      BY <3>1, <3>2 DEF Begins
    <3> QED BY <1>1, <3>1, <3>3, <3>4
  <2> QED BY <2>1, <2>2, <2>3
<1>3. PICK j \in Jobs, l \in Label \cup {NoLabel} : Begins(w, j, l)
  BY <1>2
<1>4. /\ job' \in [Writers -> Jobs] /\ out' \in [Writers -> Label \cup {NoLabel}]
      /\ job'[w] = j /\ out'[w] = l
      /\ \A v \in Writers : v # w => job'[v] = job[v] /\ out'[v] = out[v]
  BY <1>3 DEF Begins, LabelInv, LabelTypes
<1>5. LabelTypes'
  BY <1>1, <1>2, <1>4 DEF LabelInv, LabelTypes
<1>6. Open' <=> Open
  BY <1>1 DEF Open
<1>7. InHand'
  BY <1>3, <1>4, <1>6 DEF Begins, LabelInv, InHand
<1>8. \A v \in Writers : out'[v] # NoLabel /\ out'[v] # out[v] => Sound(out'[v])
  BY <1>3, <1>4 DEF Begins
<1> QED BY <1>1, <1>5, <1>6, <1>7, <1>8, FileKept

\* The writer at hand is idle after its run, the others are as they were.
LEMMA RunIsOver ==
    ASSUME LabelInv, NEW w \in Writers, RunsEnd(w), bundle' = bundle
    PROVE  /\ job' \in [Writers -> Jobs] /\ out' \in [Writers -> Label \cup {NoLabel}]
           /\ InHand'
           /\ \A v \in Writers : out'[v] # NoLabel => out'[v] = out[v]
<1>1. /\ job' \in [Writers -> Jobs] /\ out' \in [Writers -> Label \cup {NoLabel}]
      /\ job'[w] = "idle" /\ out'[w] = NoLabel
      /\ \A v \in Writers : v # w => job'[v] = job[v] /\ out'[v] = out[v]
  BY DEF LabelInv, LabelTypes, RunsEnd, Jobs
<1>2. Open' <=> Open
  BY DEF Open
<1> QED BY <1>1, <1>2 DEF LabelInv, InHand

\* A run writes its label whole, or breaks the file, and ends normally.
LEMMA RunWrites ==
    ASSUME LabelInv, NEW w \in Writers, WriteRest(w)
    PROVE  LabelInv'
<1>1. RunsEnd(w) /\ bundle' = bundle /\ clock' = clock
  BY DEF WriteRest, RunsEnd, RunEnds
<1> DEFINE whole == tail = IF w \in parted THEN w ELSE NoWriter
           l == out[w]
<1>2. /\ broken' = (broken \/ ~whole)
      /\ lines' = IF whole /\ l # NoLabel THEN Append(lines, l) ELSE lines
      /\ delivered' = IF l = NoLabel THEN delivered ELSE delivered \cup {l}
      /\ swept' = (swept \/ job[w] = "weak_known")
      /\ adjudicated' = (adjudicated \/ job[w] = "llm")
  BY DEF WriteRest
<1>3. /\ l \in Label \cup {NoLabel} /\ (l # NoLabel => Sound(l))
      /\ job[w] = "weak_known" => l # NoLabel /\ l.source = "fault_metadata"
      /\ job[w] = "llm" /\ Open => l # NoLabel /\ l.source = "llm_adjudicator"
  BY DEF LabelInv, LabelTypes, LabelsSound, InHand
<1>4. /\ lines \in Seq(Label) /\ delivered \subseteq Label /\ bundle \in Case /\ clock \in Nat
      /\ broken \in BOOLEAN /\ swept \in BOOLEAN /\ adjudicated \in BOOLEAN
  BY DEF LabelInv, LabelTypes
<1> HIDE DEF whole, l
<1>5. /\ lines' \in Seq(Label)
      /\ \A i \in DOMAIN lines : i \in DOMAIN lines' /\ lines'[i] = lines[i]
      /\ whole /\ l # NoLabel => \E i \in DOMAIN lines' : lines'[i] = l
      /\ \A i \in DOMAIN lines' :
            (lines'[i] = l /\ l # NoLabel) \/ (i \in DOMAIN lines /\ lines'[i] = lines[i])
  <2>1. CASE whole /\ l # NoLabel
    <3>1. l \in Label /\ lines' = Append(lines, l)
      BY <1>2, <1>3, <2>1
    <3> QED BY <1>4, <2>1, <3>1, LineAdded
  <2>2. CASE ~(whole /\ l # NoLabel)
    <3>1. lines' = lines
      BY <1>2, <2>2
    <3> QED BY <1>4, <2>2, <3>1
  <2> QED BY <2>1, <2>2
<1>6. LabelTypes'
  <2>1. delivered' \subseteq Label
    BY <1>2, <1>3, <1>4
  <2>2. broken' \in BOOLEAN /\ swept' \in BOOLEAN /\ adjudicated' \in BOOLEAN
    BY <1>2
  <2> QED BY <1>1, <1>4, <1>5, <2>1, <2>2, RunIsOver DEF LabelTypes
<1>7. LabelsSound'
  BY <1>1, <1>3, <1>5, RunIsOver DEF LabelInv, LabelsSound
<1>8. InHand'
  BY <1>1, RunIsOver
<1>9. Left'
  <2>1. SUFFICES ASSUME ~broken'
                 PROVE  /\ \A d \in delivered' : \E i \in DOMAIN lines' : lines'[i] = d
                        /\ swept' => \E i \in DOMAIN lines' : lines'[i].source = "fault_metadata"
                        /\ adjudicated' /\ Open =>
                              \E i \in DOMAIN lines' : lines'[i].source = "llm_adjudicator"
    BY <1>1 DEF Left, Open
  <2>2. ~broken /\ whole
    BY <1>2, <2>1
  <2>3. /\ \A d \in delivered : \E i \in DOMAIN lines : lines[i] = d
        /\ swept => \E i \in DOMAIN lines : lines[i].source = "fault_metadata"
        /\ adjudicated /\ Open => \E i \in DOMAIN lines : lines[i].source = "llm_adjudicator"
    BY <2>2 DEF LabelInv, Left
  <2>4. \A d \in delivered' : \E i \in DOMAIN lines' : lines'[i] = d
    BY <1>2, <1>5, <2>2, <2>3
  <2>5. swept' => \E i \in DOMAIN lines' : lines'[i].source = "fault_metadata"
    BY <1>2, <1>3, <1>5, <2>2, <2>3
  <2>6. adjudicated' /\ Open => \E i \in DOMAIN lines' : lines'[i].source = "llm_adjudicator"
    BY <1>2, <1>3, <1>5, <2>2, <2>3
  <2> QED BY <2>4, <2>5, <2>6
<1> QED BY <1>6, <1>7, <1>8, <1>9 DEF LabelInv

\* An operator's label is written at once.
LEMMA OperatorWrites ==
    ASSUME LabelInv, NEW class \in Answers, Feedback(class)
    PROVE  LabelInv'
<1> DEFINE l == make_label("operator_feedback", class, TRUE)
<1>1. /\ lines' = IF tail = NoWriter THEN Append(lines, l) ELSE lines
      /\ delivered' = delivered \cup {l} /\ clock' = clock + 1
      /\ broken' = (broken \/ tail # NoWriter)
      /\ UNCHANGED <<bundle, job, out, swept, adjudicated>>
  BY DEF Feedback, Stamp
<1>2. /\ lines \in Seq(Label) /\ delivered \subseteq Label /\ bundle \in Case /\ clock \in Nat
      /\ broken \in BOOLEAN /\ swept \in BOOLEAN /\ adjudicated \in BOOLEAN
      /\ job \in [Writers -> Jobs] /\ out \in [Writers -> Label \cup {NoLabel}]
  BY DEF LabelInv, LabelTypes
<1>3. l \in Label /\ Sound(l)
  BY <1>2, LabelAssumption DEF make_label, Label, LabelSources, CaseClasses, Sound
<1> HIDE DEF l
<1>4. /\ lines' \in Seq(Label)
      /\ \A i \in DOMAIN lines : i \in DOMAIN lines' /\ lines'[i] = lines[i]
      /\ tail = NoWriter => \E i \in DOMAIN lines' : lines'[i] = l
      /\ \A i \in DOMAIN lines' : lines'[i] = l \/ (i \in DOMAIN lines /\ lines'[i] = lines[i])
  BY <1>1, <1>2, <1>3, LineAdded
<1>5. LabelTypes'
  <2>1. broken' \in BOOLEAN
    BY <1>1
  <2> QED BY <1>1, <1>2, <1>3, <1>4, <2>1 DEF LabelTypes
<1>6. LabelsSound'
  BY <1>1, <1>3, <1>4 DEF LabelInv, LabelsSound
<1>7. InHand'
  BY <1>1 DEF LabelInv, InHand, Open
<1>8. Left'
  <2>1. SUFFICES ASSUME ~broken'
                 PROVE  /\ \A d \in delivered' : \E i \in DOMAIN lines' : lines'[i] = d
                        /\ swept => \E i \in DOMAIN lines' : lines'[i].source = "fault_metadata"
                        /\ adjudicated /\ Open =>
                              \E i \in DOMAIN lines' : lines'[i].source = "llm_adjudicator"
    BY <1>1 DEF Left, Open
  <2>2. ~broken /\ tail = NoWriter
    BY <1>1, <2>1
  <2>3. /\ \A d \in delivered : \E i \in DOMAIN lines : lines[i] = d
        /\ swept => \E i \in DOMAIN lines : lines[i].source = "fault_metadata"
        /\ adjudicated /\ Open => \E i \in DOMAIN lines : lines[i].source = "llm_adjudicator"
    BY <2>2 DEF LabelInv, Left
  <2> QED BY <1>1, <1>4, <2>2, <2>3
<1> QED BY <1>5, <1>6, <1>7, <1>8 DEF LabelInv

\* The inductive invariant of the store holds.
LEMMA LabelInvariant == LabelSpec => []LabelInv
<1>1. LabelInit => LabelInv
  <2> SUFFICES ASSUME LabelInit PROVE LabelInv
    OBVIOUS
  <2>1. <<>> \in Seq(Label) /\ DOMAIN <<>> = {}
    BY EmptySeq
  <2>2. LabelTypes
    BY <2>1, LabelAssumption DEF LabelInit, LabelTypes, Jobs
  <2>3. LabelsSound /\ InHand /\ Left
    BY <2>1 DEF LabelInit, LabelsSound, InHand, Left
  <2> QED BY <2>2, <2>3 DEF LabelInv
<1>2. LabelInv /\ [LabelNext]_labelVars => LabelInv'
  <2> SUFFICES ASSUME LabelInv, [LabelNext]_labelVars PROVE LabelInv'
    OBVIOUS
  <2>1. ASSUME NEW w \in Writers, StartWeak(w) \/ Adjudicate(w) \/ SkipCase(w) PROVE LabelInv'
    BY <2>1, RunStarts
  <2>2. ASSUME NEW w \in Writers, WriteRest(w) PROVE LabelInv'
    BY <2>2, RunWrites
  <2>3. ASSUME NEW class \in Answers, Feedback(class) PROVE LabelInv'
    BY <2>3, OperatorWrites
  <2>4. ASSUME NEW w \in Writers, WritePiece(w) PROVE LabelInv'
    <3>1. /\ UNCHANGED <<bundle, lines, job, out, clock, delivered, swept, adjudicated>>
          /\ broken' = (broken \/ tail # NoWriter)
      BY <2>4 DEF WritePiece, history
    <3>2. broken' \in BOOLEAN /\ (broken => broken')
      BY <3>1
    <3>3. LabelTypes' /\ InHand' /\ (Open' => Open)
      BY <3>1, <3>2 DEF LabelInv, LabelTypes, InHand, Open
    <3> QED BY <3>1, <3>2, <3>3, FileKept
  <2>5. ASSUME NEW w \in Writers, WriteNothing(w) PROVE LabelInv'
    <3>1. /\ RunsEnd(w) /\ out[w] = NoLabel /\ adjudicated' = (adjudicated \/ job[w] = "llm")
          /\ UNCHANGED <<bundle, lines, broken, clock, delivered, swept>>
      BY <2>5 DEF WriteNothing, RunEnds, RunsEnd
    <3>2. adjudicated' \in BOOLEAN /\ (job[w] = "llm" => ~Open)
      BY <3>1 DEF LabelInv, InHand
    <3>3. LabelTypes' /\ InHand' /\ LabelsSound'
      BY <3>1, <3>2, RunIsOver DEF LabelInv, LabelTypes, LabelsSound
    <3>4. Left'
      BY <3>1, <3>2 DEF LabelInv, Left, Open
    <3> QED BY <3>3, <3>4 DEF LabelInv
  <2>6. ASSUME NEW w \in Writers, KillRun(w) PROVE LabelInv'
    <3>1. RunsEnd(w) /\ UNCHANGED <<bundle, lines, broken, clock, delivered, swept, adjudicated>>
      BY <2>6 DEF KillRun, RunEnds, RunsEnd, history
    <3>2. LabelTypes' /\ InHand' /\ LabelsSound'
      BY <3>1, RunIsOver DEF LabelInv, LabelTypes, LabelsSound
    <3>3. Left'
      BY <3>1 DEF LabelInv, Left, Open
    <3> QED BY <3>2, <3>3 DEF LabelInv
  <2>7. CASE RebuildCases
    <3>1. /\ bundle' = [bundle EXCEPT !.is_injected = TRUE, !.fault_type = "cpu_pressure"]
          /\ UNCHANGED <<lines, broken, job, out, clock, delivered, swept, adjudicated>>
      BY <2>7 DEF RebuildCases, history
    <3>2. bundle' \in Case /\ ~Open'
      BY <3>1 DEF LabelInv, LabelTypes, Case, Open
    <3>3. LabelTypes' /\ InHand'
      BY <3>1, <3>2 DEF LabelInv, LabelTypes, InHand
    <3> QED BY <3>1, <3>2, <3>3, FileKept
  <2>8. CASE UNCHANGED labelVars
    BY <2>8 DEF labelVars, history, LabelInv, LabelTypes, LabelsSound, InHand, Left, Open
  <2> QED BY <2>1, <2>2, <2>3, <2>4, <2>5, <2>6, <2>7, <2>8 DEF LabelNext
<1> QED BY <1>1, <1>2, PTL DEF LabelSpec

-----------------------------------------------------------------------------
(* What the store promises.                                                 *)

\* resolve answers with a label of the file that no other label outranks,
\* whatever the order in which overlapping runs append (_rank, resolve).
THEOREM LatestTheorem == LabelSpec => []LatestOfBestSource
<1>1. LabelInv => LatestOfBestSource
  BY ResolveBest DEF LabelInv, LabelTypes, LatestOfBestSource
<1> QED BY <1>1, LabelInvariant, PTL

\* A file that can be read has every label of every run that ended normally, for
\* any number of overlapping and killed runs (append_many, read_all).
THEOREM NoLabelLostTheorem == LabelSpec => []NoLabelLostUnnoticed
<1>1. LabelInv => NoLabelLostUnnoticed
  BY DEF LabelInv, Left, NoLabelLostUnnoticed, readable
<1> QED BY <1>1, LabelInvariant, PTL

\* After a weak labeler that saw the injection no heuristic label turns the case
\* into a normal one, for any writers, cases and answers (label_for_bundle).
THEOREM InjectionTheorem == LabelSpec => []InjectionKept
<1>1. LabelInv => InjectionKept
  <2> SUFFICES ASSUME LabelInv, Silenced, swept
               PROVE  resolve.source \in {"llm_adjudicator", "operator_feedback"}
    BY DEF InjectionKept
  <2>1. lines \in Seq(Label) /\ lines # <<>> /\ resolve.class = "normal" /\ ~broken
    BY DEF LabelInv, LabelTypes, Silenced, readable
  <2>2. PICK j \in DOMAIN lines : lines[j].source = "fault_metadata"
    BY <2>1 DEF LabelInv, Left
  <2>3. lines[j] \in Label
    BY <2>1, <2>2, LenProperties, ElementOfSeq
  <2>4. /\ resolve \in Label /\ \E i \in DOMAIN lines : resolve = lines[i]
        /\ Rank(lines[j]) <= Rank(resolve)
    BY <2>1, <2>2, ResolveSource
  <2>5. Rank(resolve) # 1
    BY <2>1, <2>4, Ranks DEF LabelInv, LabelsSound, Sound
  <2>6. Rank(lines[j]) = 1
    BY <2>2, <2>3, Ranks
  <2>7. Rank(resolve) = 2 \/ Rank(resolve) = 3
    BY <2>4, <2>5, <2>6, Ranks
  <2> QED BY <2>4, <2>7, Ranks
<1> QED BY <1>1, LabelInvariant, PTL

\* After an adjudicator run over all cases, an event of 0.49 or more without
\* fault metadata is silenced only on the word of the LLM or of an operator, for
\* any writers, cases and answers (ambiguity_reasons, _fallback_label).
THEOREM SecondOpinionTheorem == LabelSpec => []SecondOpinion
<1>1. LabelInv => SecondOpinion
  <2> SUFFICES ASSUME LabelInv, Silenced, adjudicated, Open
               PROVE  resolve.ok /\ resolve.source \in {"llm_adjudicator", "operator_feedback"}
    BY DEF SecondOpinion, Open
  <2>1. lines \in Seq(Label) /\ lines # <<>> /\ resolve.class = "normal" /\ ~broken
    BY DEF LabelInv, LabelTypes, Silenced, readable
  <2>2. PICK j \in DOMAIN lines : lines[j].source = "llm_adjudicator"
    BY <2>1 DEF LabelInv, Left
  <2>3. lines[j] \in Label
    BY <2>1, <2>2, LenProperties, ElementOfSeq
  <2>4. /\ resolve \in Label /\ \E i \in DOMAIN lines : resolve = lines[i]
        /\ Rank(lines[j]) <= Rank(resolve)
    BY <2>1, <2>2, ResolveSource
  <2>5. Rank(lines[j]) = 2
    BY <2>2, <2>3, Ranks
  <2>6. Rank(resolve) = 2 \/ Rank(resolve) = 3
    BY <2>4, <2>5, Ranks
  <2>7. resolve.ok
    BY <2>1, <2>4 DEF LabelInv, LabelsSound, Sound
  <2> QED BY <2>4, <2>6, <2>7, Ranks
<1> QED BY <1>1, LabelInvariant, PTL

-----------------------------------------------------------------------------
(* The votes of the models.                                                 *)

\* The answers of a model are votes.
LEMMA Cast ==
    ASSUME NEW v \in Voters, NEW s \in SUBSET Verdicts
    PROVE  {<<v, x>> : x \in s} \subseteq Voters \X Verdicts
OBVIOUS

\* The inductive invariant of the voting holds.
LEMMA LabelerInvariant == LabelerSpec => []LabelerInv
<1>1. LabelerInit => LabelerInv
  <2> SUFFICES ASSUME LabelerInit PROVE LabelerInv
    OBVIOUS
  <2>1. \A j \in DOMAIN Batches : Batches[j] \subseteq Groups
    BY BatchAssumption, LenProperties, ElementOfSeq
  <2>2. /\ batch = 1
        /\ \A g \in Groups : labels[g] = "none" /\ heard[g] = {} /\ votes[g] = {}
    BY DEF LabelerInit, NoVotes
  <2>3. LabelerTypes
    BY DEF LabelerInit, NoVotes, LabelerTypes
  <2>4. Unlabelled
    BY <2>1, <2>2 DEF Unlabelled
  <2> QED BY <2>2, <2>3, <2>4 DEF LabelerInv, Unlisted, BenignUnanimous
<1>2. LabelerInv /\ [LabelerNext]_labelerVars => LabelerInv'
  <2> SUFFICES ASSUME LabelerInv, [LabelerNext]_labelerVars PROVE LabelerInv'
    OBVIOUS
  <2>0. /\ LabelerTypes /\ DOMAIN Batches \subseteq Nat /\ \A j \in DOMAIN Batches : Batches[j] \subseteq Groups
        /\ \A i, j \in DOMAIN Batches : i # j => Batches[i] \cap Batches[j] = {}
    BY BatchAssumption, LenProperties, ElementOfSeq DEF LabelerInv
  <2>1. ASSUME NEW v \in Voters, Ask(v) PROVE LabelerInv'
    <3>1. PICK ans \in [Groups -> {s \in SUBSET Verdicts : s # Verdicts}] :
            /\ votes' = [g \in Groups |-> votes[g] \cup {<<v, x>> : x \in ans[g]}]
            /\ heard' = [g \in Groups |->
                         IF g \in Batches[batch]
                         THEN heard[g] \cup {<<v, x>> : x \in ans[g]} ELSE heard[g]]
      BY <2>1 DEF Ask
    <3>2. batch \in DOMAIN Batches /\ batch' = batch /\ labels' = labels
      BY <2>1 DEF Ask
    <3>3. \A g \in Groups : {<<v, x>> : x \in ans[g]} \subseteq Voters \X Verdicts
      BY Cast
    <3> DEFINE said(g) == {<<v, x>> : x \in ans[g]}
    <3>4. \A g \in Groups : /\ votes'[g] = votes[g] \cup said(g)
                            /\ heard'[g] = IF g \in Batches[batch] THEN heard[g] \cup said(g) ELSE heard[g]
      BY <3>1
    <3>5. /\ votes' \in [Groups -> SUBSET (Voters \X Verdicts)]
          /\ heard' \in [Groups -> SUBSET (Voters \X Verdicts)]
      <4> HIDE DEF said
      <4>1. \A g \in Groups : said(g) \subseteq Voters \X Verdicts
        BY <3>3 DEF said
      <4>2. votes' = [g \in Groups |-> votes'[g]] /\ heard' = [g \in Groups |-> heard'[g]]
        BY <3>1
      <4> QED BY <2>0, <3>4, <4>1, <4>2 DEF LabelerTypes
    <3> HIDE DEF said
    <3>6. LabelerTypes'
      BY <2>0, <3>2, <3>5 DEF LabelerTypes
    <3>7. Unlabelled'
      <4>1. ASSUME NEW j \in DOMAIN Batches, NEW g \in Batches[j]
            PROVE  /\ j >= batch => labels[g] = "none"
                   /\ j = batch => heard'[g] = votes'[g]
                   /\ j > batch => heard'[g] = {}
        <5>1. g \in Groups /\ j \in Nat /\ batch \in Nat
          BY <2>0, <4>1 DEF LabelerTypes
        <5>2. /\ j >= batch => labels[g] = "none"
              /\ j = batch => heard[g] = votes[g]
              /\ j > batch => heard[g] = {}
          BY <4>1 DEF LabelerInv, Unlabelled
        <5>3. j > batch => g \notin Batches[batch]
          BY <2>0, <3>2, <4>1, <5>1
        <5> QED BY <3>4, <5>1, <5>2, <5>3
      <4> QED BY <3>2, <4>1 DEF Unlabelled
    <3>8. Unlisted'
      BY <3>2 DEF LabelerInv, Unlisted
    <3>9. BenignUnanimous'
      <4>1. ASSUME NEW g \in Groups, labels[g] = "benign" PROVE heard'[g] = heard[g]
        <5>1. g \notin Batches[batch]
          BY <2>0, <3>2, <4>1 DEF LabelerInv, LabelerTypes, Unlabelled
        <5> QED BY <3>4, <5>1
      <4> QED BY <3>2, <4>1 DEF LabelerInv, BenignUnanimous
    <3> QED BY <3>6, <3>7, <3>8, <3>9 DEF LabelerInv
  <2>2. CASE Merge
    <3>1. /\ batch \in DOMAIN Batches /\ batch' = batch + 1 /\ votes' = NoVotes /\ heard' = heard
          /\ labels' = [g \in Groups |->
                          IF g \in Batches[batch] /\ votes[g] # {} THEN verdict(g) ELSE labels[g]]
      BY <2>2 DEF Merge
    <3>2. \A g \in Groups : verdict(g) \in {"benign", "suspicious"}
      BY DEF verdict
    <3>3. LabelerTypes'
      BY <2>0, <3>1, <3>2 DEF LabelerTypes, NoVotes
    <3>4. Unlabelled'
      <4>1. ASSUME NEW j \in DOMAIN Batches, NEW g \in Batches[j], j >= batch'
            PROVE  labels'[g] = "none" /\ heard'[g] = {} /\ votes'[g] = {}
        <5>1. j \in Nat /\ batch \in Nat /\ j > batch /\ j >= batch /\ j # batch /\ g \in Groups
          BY <2>0, <3>1, <4>1 DEF LabelerTypes
        <5>2. g \notin Batches[batch]
          BY <2>0, <3>1, <4>1, <5>1
        <5> QED BY <3>1, <4>1, <5>1, <5>2 DEF LabelerInv, Unlabelled, NoVotes
      <4>2. \A j \in DOMAIN Batches : j = batch' \/ j > batch' => j >= batch'
        BY <2>0, <3>1 DEF LabelerTypes
      <4> QED BY <4>1, <4>2 DEF Unlabelled
    <3>5. Unlisted'
      BY <3>1 DEF LabelerInv, Unlisted
    <3>6. BenignUnanimous'
      <4>1. ASSUME NEW g \in Groups, labels'[g] = "benign"
            PROVE  heard[g] # {} /\ \A x \in heard[g] : x[2] = "benign"
        <5>1. CASE g \in Batches[batch] /\ votes[g] # {}
          <6>1. verdict(g) = "benign"
            BY <3>1, <4>1, <5>1
          <6>2. heard[g] = votes[g]
            BY <3>1, <5>1 DEF LabelerInv, Unlabelled
          <6> QED BY <5>1, <6>1, <6>2 DEF verdict
        <5>2. CASE ~(g \in Batches[batch] /\ votes[g] # {})
          BY <3>1, <4>1, <5>2 DEF LabelerInv, BenignUnanimous
        <5> QED BY <5>1, <5>2
      <4> QED BY <3>1, <4>1 DEF BenignUnanimous
    <3> QED BY <3>3, <3>4, <3>5, <3>6 DEF LabelerInv
  <2>3. CASE UNCHANGED labelerVars
    BY <2>3 DEF labelerVars, LabelerInv, LabelerTypes, Unlabelled, Unlisted, BenignUnanimous
  <2> QED BY <2>1, <2>2, <2>3 DEF LabelerNext
<1> QED BY <1>1, <1>2, PTL DEF LabelerSpec

\* A group is labelled benign only after at least one vote and no other vote, for
\* any models, batches and answers that break off, repeat or name groups of
\* another batch (ask, all_benign).
THEOREM UnanimousTheorem == LabelerSpec => []BenignUnanimous
<1>1. LabelerInv => BenignUnanimous
  BY DEF LabelerInv
<1> QED BY <1>1, LabelerInvariant, PTL

=============================================================================
