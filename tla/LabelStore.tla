------------------------------ MODULE LabelStore ------------------------------
(***************************************************************************)
(* The label store (src/triage/label_store.py) and its writers: overlapping *)
(* batch runs of the weak labeler (weak_labeler.run) and of the LLM         *)
(* adjudicator (llm_adjudicator.main), and operator feedback.  The labels   *)
(* of one event are followed; the other lines of the file matter only where *)
(* they are cut.                                                            *)
(*                                                                         *)
(* A run makes its labels first and appends them all at its end, through a  *)
(* buffer: a large append reaches the file in pieces that may end inside a  *)
(* line.  A run that is killed leaves what it had written.                  *)
(***************************************************************************)
EXTENDS CaseRules, Sequences

CONSTANTS
    Writers,      \* batch runs that may overlap
    CaseSet,      \* the cases considered
    Answers,      \* the classes that the LLM and the operator give
    MaxLabels,    \* bound: labels made
    NoLabel, NoWriter

LabelSources == {"weak_rule", "fault_metadata", "llm_adjudicator", "operator_feedback"}

\* at is created_at, and ok is false for the fallback label (its "error").
Label == [source : LabelSources, class : CaseClasses, ok : BOOLEAN, at : Nat]

ASSUME LabelAssumption ==
    /\ CaseSet \subseteq Case /\ Answers \subseteq CaseClasses /\ MaxLabels \in Nat
    /\ NoWriter \notin Writers /\ NoLabel \notin Label

VARIABLES
    bundle,       \* the case, as the cases file has it
    lines,        \* labels of the event in the file, in file order
    tail,         \* the writer whose unfinished line ends the file
    broken,       \* some line of the file is no JSON
    job,          \* per writer: "idle", "weak", "weak_known" (the case has its
                  \* injection), "llm" or "llm_part" (cut off by --limit)
    out,          \* per writer: the label it made for this event
    parted,       \* writers that wrote a first piece
    clock,        \* time, which advances with every label
    delivered,    \* labels of the runs that ended normally
    swept,        \* a weak labeler that saw the injection has ended
    adjudicated   \* an adjudicator that saw all cases has ended

history   == <<delivered, swept, adjudicated>>
labelVars == <<bundle, lines, tail, broken, job, out, parted, clock, history>>

\* Variant: heuristics trusted more than the injection.
SOURCE_PRIORITY_swapped ==
    [weak_rule |-> 1, fault_metadata |-> 0, llm_adjudicator |-> 2, operator_feedback |-> 3]

SOURCE_PRIORITY ==
    [weak_rule |-> 0, fault_metadata |-> 1, llm_adjudicator |-> 2, operator_feedback |-> 3]

LabelInit ==
    /\ bundle \in CaseSet
    /\ lines = <<>> /\ tail = NoWriter /\ broken = FALSE
    /\ job = [w \in Writers |-> "idle"] /\ out = [w \in Writers |-> NoLabel]
    /\ parted = {} /\ clock = 0 /\ delivered = {}
    /\ swept = FALSE /\ adjudicated = FALSE

make_label(source, class, ok) == [source |-> source, class |-> class, ok |-> ok, at |-> clock]

Stamp == clock < MaxLabels /\ clock' = clock + 1

-----------------------------------------------------------------------------
(* Writers.                                                                 *)

StartWeak(w) ==
    /\ job[w] = "idle" /\ Stamp
    /\ job' = [job EXCEPT ![w] = IF KnownInjection(bundle) THEN "weak_known" ELSE "weak"]
    /\ LET l == label_for_bundle(bundle)
       IN  out' = [out EXCEPT ![w] = make_label(l.source, l.class, TRUE)]
    /\ UNCHANGED <<bundle, lines, tail, broken, parted, history>>

\* Variant: a fallback is stored like a heuristic label.
fallback_label_weak == make_label("weak_rule", "medium", FALSE)

fallback_label == make_label("llm_adjudicator", "medium", FALSE)

\* An ambiguous case, or any with --force: the LLM answers with some class, or
\* it is down, late or unparsable and the fallback is used.
Adjudicate(w) ==
    /\ job[w] = "idle" /\ Stamp
    /\ job' = [job EXCEPT ![w] = "llm"]
    /\ \E l \in {make_label("llm_adjudicator", c, TRUE) : c \in Answers} \cup {fallback_label} :
          out' = [out EXCEPT ![w] = l]
    /\ UNCHANGED <<bundle, lines, tail, broken, parted, history>>

\* A case that is not ambiguous is skipped; --limit may end the run before it
\* comes to the case.
SkipCase(w) ==
    /\ job[w] = "idle"
    /\ \/ ~is_ambiguous(bundle) /\ job' = [job EXCEPT ![w] = "llm"]
       \/ job' = [job EXCEPT ![w] = "llm_part"]
    /\ UNCHANGED <<bundle, lines, tail, broken, out, parted, clock, history>>

\* append_many, first piece of a large write.
WritePiece(w) ==
    /\ job[w] # "idle" /\ w \notin parted
    /\ broken' = (broken \/ tail # NoWriter)
    /\ tail' = w /\ parted' = parted \cup {w}
    /\ UNCHANGED <<bundle, lines, job, out, clock, history>>

RunEnds(w) ==
    /\ job' = [job EXCEPT ![w] = "idle"] /\ out' = [out EXCEPT ![w] = NoLabel]
    /\ parted' = parted \ {w}

\* The rest of the write, or all of it.  A line is whole if nobody wrote after
\* its first piece, and if the file did not end inside a line.
WriteRest(w) ==
    /\ job[w] # "idle"
    /\ LET whole == tail = IF w \in parted THEN w ELSE NoWriter
       IN  /\ broken' = (broken \/ ~whole)
           /\ lines' = IF whole /\ out[w] # NoLabel THEN Append(lines, out[w]) ELSE lines
    /\ tail' = NoWriter
    /\ delivered' = IF out[w] = NoLabel THEN delivered ELSE delivered \cup {out[w]}
    /\ swept' = (swept \/ job[w] = "weak_known")
    /\ adjudicated' = (adjudicated \/ job[w] = "llm")
    /\ RunEnds(w)
    /\ UNCHANGED <<bundle, clock>>

\* Nothing to append.
WriteNothing(w) ==
    /\ job[w] # "idle" /\ out[w] = NoLabel /\ w \notin parted
    /\ adjudicated' = (adjudicated \/ job[w] = "llm")
    /\ RunEnds(w)
    /\ UNCHANGED <<bundle, lines, tail, broken, clock, delivered, swept>>

KillRun(w) ==
    /\ job[w] # "idle"
    /\ RunEnds(w)
    /\ UNCHANGED <<bundle, lines, tail, broken, clock, history>>

\* LabelStore.append of operator feedback, a single line.
Feedback(class) ==
    /\ Stamp
    /\ LET l == make_label("operator_feedback", class, TRUE)
       IN  /\ lines' = IF tail = NoWriter THEN Append(lines, l) ELSE lines
           /\ delivered' = delivered \cup {l}
    /\ broken' = (broken \/ tail # NoWriter)
    /\ tail' = NoWriter
    /\ UNCHANGED <<bundle, job, out, parted, swept, adjudicated>>

\* The cases are built again, now with the name of the fault experiment.
RebuildCases ==
    /\ ~bundle.is_injected /\ bundle.fault_type = "none"
    /\ bundle' = [bundle EXCEPT !.is_injected = TRUE, !.fault_type = "cpu_pressure"]
    /\ UNCHANGED <<lines, tail, broken, job, out, parted, clock, history>>

-----------------------------------------------------------------------------
(* The reader.                                                              *)

\* Variant: a line that is no JSON is skipped.
readable_skips == TRUE

\* read_all raises at the first line that is no JSON.
readable == ~broken /\ tail = NoWriter

\* _rank(l) > _rank(m).
Outranks(l, m) ==
    LET p == SOURCE_PRIORITY[l.source]
        q == SOURCE_PRIORITY[m.source]
    IN  p > q \/ (p = q /\ l.at > m.at)

\* Variant: the last line of the best source wins.
best_last ==
    LET best[n \in 0..Len(lines)] ==
            IF n = 0 THEN NoLabel
            ELSE IF \/ best[n - 1] = NoLabel
                    \/ SOURCE_PRIORITY[lines[n].source] >= SOURCE_PRIORITY[best[n - 1].source]
                 THEN lines[n] ELSE best[n - 1]
    IN  best

\* The winner among the first n lines.
best_label ==
    LET best[n \in 0..Len(lines)] ==
            IF n = 0 THEN NoLabel
            ELSE IF best[n - 1] = NoLabel \/ Outranks(lines[n], best[n - 1])
                 THEN lines[n] ELSE best[n - 1]
    IN  best

resolve == best_label[Len(lines)]

LabelNext ==
    \/ \E w \in Writers :
          \/ StartWeak(w) \/ Adjudicate(w) \/ SkipCase(w)
          \/ WritePiece(w) \/ WriteRest(w) \/ WriteNothing(w) \/ KillRun(w)
    \/ \E class \in Answers : Feedback(class)
    \/ RebuildCases

LabelSpec == LabelInit /\ [][LabelNext]_labelVars

-----------------------------------------------------------------------------
(* Properties.                                                              *)

Silenced == readable /\ lines # <<>> /\ resolve.class = "normal"

\* "Ties within a source break by recency" (label_store.py:13), also when runs
\* that overlap append in another order than they made their labels: no label
\* of the file has a better source, or the same source and a later time.
LatestOfBestSource ==
    readable /\ lines # <<>> =>
        \E i \in DOMAIN lines :
            resolve = lines[i] /\ \A j \in DOMAIN lines : ~Outranks(lines[j], lines[i])

\* "a real high-severity event is not silently suppressed" (llm_adjudicator.py,
\* _fallback_label): once an adjudicator run over all cases has ended, a case
\* without fault metadata that scored 0.49 or more is learnt as normal only on
\* the word of the LLM itself or of an operator, never of a heuristic alone.
SecondOpinion ==
    /\ Silenced /\ adjudicated
    /\ ~bundle.is_injected /\ bundle.fault_type = "none" /\ bundle.score >= 49
    => resolve.ok /\ resolve.source \in {"llm_adjudicator", "operator_feedback"}

\* A known injection is "treated as ground truth" (weak_labeler.py:11): once a
\* weak labeler that saw it has ended, a heuristic label made before, however
\* late it is appended, does not turn the case into a normal one.
InjectionKept ==
    Silenced /\ swept =>
        resolve.source \in {"llm_adjudicator", "operator_feedback"}

\* Storage is "append-only [...] and safe to accumulate" (label_store.py:15):
\* overlapping and killed runs may make the file unreadable, but a file that can
\* be read has every label of every run that ended normally.
NoLabelLostUnnoticed ==
    readable => \A l \in delivered : \E i \in DOMAIN lines : lines[i] = l

=============================================================================
