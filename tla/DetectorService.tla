--------------------------- MODULE DetectorService ---------------------------
(***************************************************************************)
(* One detector process (detector/api.py): the requests its thread pool    *)
(* serves concurrently, the four hot-swappable components they read from   *)
(* module globals (_bundle, _noise, _policy, _triage), the Prometheus      *)
(* counters, and the live artifact files that the promotion pipelines      *)
(* overwrite and /reload re-reads.                                         *)
(*                                                                         *)
(* Every step of a request is one access to a global, one critical section *)
(* of _metrics, or one file read: between two steps any other thread, a    *)
(* pipeline or a container restart may run.                                *)
(***************************************************************************)
EXTENDS Naturals, Sequences, FiniteSets

CONSTANTS
    Threads,        \* threads that run the handlers (Starlette's thread pool)
    Scores,         \* values of anomaly_score
    Threshold,      \* bundle.score_threshold
    Baked,          \* artifacts shipped in the image
    MaxBatch,       \* bound: rows of one /detect/batch request
    MaxRequests,    \* bound: requests served between two restarts
    MaxWrites,      \* bound: artifact overwrites by the pipelines
    MaxRestarts,    \* bound: container restarts
    Serialized,     \* TRUE: a pipeline never overwrites an artifact, and no
                    \* second /reload is sent, while another /reload or
                    \* overwrite is under way
    None,           \* Python's None
    Absent,         \* no such file
    Torn            \* a file that exists and does not load

Artifacts == {"model", "noise_model", "noise_baseline", "policy", "triage"}
Actions == {"suppress", "wait", "triage", "alert"}

\* policy.schema.ESCALATION_ACTIONS, what PolicyFilter.decide chooses from
\* ("alert" is also its answer when the policy model fails).
Escalations == {"wait", "triage", "alert"}

Kinds == {"detect", "batch", "triage", "reload", "health"}

ASSUME ConstantsAssumption ==
    /\ Scores \subseteq Nat /\ Threshold \in Nat
    /\ Baked \subseteq Artifacts
    /\ MaxBatch \in Nat /\ MaxRequests \in Nat
    /\ MaxWrites \in Nat /\ MaxRestarts \in Nat
    /\ Serialized \in BOOLEAN
    /\ None \notin Nat \cup Actions
    /\ Absent \notin Nat /\ Torn \notin Nat
    /\ Absent # Torn /\ None # Absent /\ None # Torn

VARIABLES
    live,            \* live[a]: the file in the live (hostPath) directory
    writes,          \* overwrites started by the pipelines
    clean,           \* no overwrite since the last /reload or start-up began
    restarts,        \* container restarts so far
    bundle,          \* _bundle: the version loaded, or None
    bundle_err,      \* _bundle_err is a message
    bundle_src,      \* _bundle_src: which file it came from
    noise,           \* _noise
    policy,          \* _policy
    triage,          \* _triage: version of its model, None when not ready
    total_scored, total_anomalies, total_suppressed, last_score, max_score,
    policy_actions, triage_actions,          \* _Metrics
    archived,        \* rows handed to _archive.append since the process started
    requests,        \* requests started since the process started
    pc, kind,        \* per thread: program counter and endpoint
    rows,            \* per thread: the index-aligned rows/results lists
    idx,             \* per thread: next row of the triage loop
    tmp,             \* per thread: what the last read of a file or global gave
    reply            \* per thread: status of the last request it finished

disk      == <<live, writes, clean>>
globals   == <<bundle, bundle_err, bundle_src, noise, policy, triage>>
observed  == <<total_scored, total_anomalies, total_suppressed, last_score,
               max_score, policy_actions>>
metrics   == <<observed, triage_actions>>
locals    == <<pc, kind, rows, idx, tmp, reply>>
vars      == <<disk, restarts, globals, metrics, archived, requests, locals>>

-----------------------------------------------------------------------------
(* Artifacts.  A version is the number of the overwrite that wrote it; the  *)
(* artifacts baked into the image are version 0.                            *)

Versions == 0..MaxWrites
File     == (1..MaxWrites) \cup {Absent, Torn}

exists(a) == live[a] # Absent

baked(a) == IF a \in Baked THEN 0 ELSE Absent

\* Variant: the loaders without their try/except.
load_unguarded(f) == f

\* joblib.load / json.load: None stands for the exception of a missing or
\* truncated file.
load(f) == IF f \in {Absent, Torn} THEN None ELSE f

\* What the file of artifact a gives, from the live or the baked directory.
read(a, src) == load(IF src = "live" THEN live[a] ELSE baked(a))

resolve(a) == IF exists(a) THEN "live" ELSE "baked"

\* noise_filter.from_env takes the live pair only when both files exist.
resolve_noise == IF exists("noise_model") /\ exists("noise_baseline")
                 THEN "live" ELSE "baked"

Filter == [enabled : BOOLEAN, model : Versions \cup {None},
           baseline : Versions \cup {None}]

Disabled == [enabled |-> FALSE, model |-> None, baseline |-> None]

\* NoiseFilter.__init__: either file failing to load disables the filter.
NoiseFilter(m, b) ==
    IF m = None \/ b = None THEN Disabled
    ELSE [enabled |-> TRUE, model |-> m, baseline |-> b]

\* PolicyFilter.__init__: without a model it is disabled; a baseline that does
\* not load (None) leaves the one bundled with the model.
PolicyFilter(m, b) ==
    IF m = None THEN Disabled
    ELSE [enabled |-> TRUE, model |-> m, baseline |-> b]

\* What a process that starts now loads (_startup); a /reload that nothing
\* disturbs arrives at the same globals.
disk_bundle == read("model", resolve("model"))
disk_noise  == NoiseFilter(read("noise_model", resolve_noise),
                           read("noise_baseline", resolve_noise))
disk_policy == PolicyFilter(read("policy", resolve("policy")),
                            read("noise_baseline", resolve("noise_baseline")))
disk_triage == read("triage", resolve("triage"))

\* A thread's local copies: the object it loaded or took from a global, the
\* directory it resolved, and the baseline loaded with a filter.
Local == [val : Versions \cup {None}, src : {"live", "baked"},
          base : Versions \cup {None}]

Nothing == [val |-> None, src |-> "baked", base |-> None]

-----------------------------------------------------------------------------
(* Scored rows.                                                             *)

Row == [score : Scores, is_anomaly : BOOLEAN, suppressed : BOOLEAN,
        policy_action : Actions \cup {None}]

\* detect.score_frame on one row: over the model threshold, or (by_sigma)
\* a single feature far in its tail.
ScoredRow(s, by_sigma) ==
    [score |-> s, is_anomaly |-> s >= Threshold \/ by_sigma,
     suppressed |-> FALSE, policy_action |-> None]

ScoredRows == {ScoredRow(s, b) : s \in Scores, b \in BOOLEAN}

effective_anomaly(r) == r.is_anomaly /\ ~r.suppressed

\* Variant: anomalies counted after suppression instead of before it.
AnomalousEffective(rs) == {i \in DOMAIN rs : effective_anomaly(rs[i])}

Anomalous(rs)  == {i \in DOMAIN rs : rs[i].is_anomaly}
Suppressed(rs) == {i \in DOMAIN rs : rs[i].suppressed}
WithAction(rs, a) == {i \in DOMAIN rs : rs[i].policy_action = a}

\* NoiseFilter.annotate: an enabled filter may suppress any flagged row; a
\* disabled or failing one suppresses nothing.
NoiseAnnotated(rs, supp) ==
    [i \in DOMAIN rs |-> [rs[i] EXCEPT !.suppressed = i \in supp]]

\* Variant: the policy layer decides suppressed rows as well.
PolicyAnnotatedAll(rs, act) ==
    [i \in DOMAIN rs |->
        [rs[i] EXCEPT !.policy_action =
            IF rs[i].is_anomaly /\ policy.enabled THEN act[i] ELSE None]]

\* PolicyFilter.annotate, with the model's choice for row i in act[i].
PolicyAnnotated(rs, act) ==
    [i \in DOMAIN rs |->
        [rs[i] EXCEPT !.policy_action =
            IF ~rs[i].is_anomaly THEN None
            ELSE IF rs[i].suppressed THEN "suppress"
            ELSE IF policy.enabled THEN act[i]
            ELSE None]]

\* The rows whose score is max(scores).
Highest(rs) == {i \in DOMAIN rs : \A j \in DOMAIN rs : rs[j].score <= rs[i].score}

-----------------------------------------------------------------------------
(* Control of a thread.                                                     *)

ReloadPcs == {"m_load", "m_set", "m_err", "m_src", "n_model", "n_base", "n_set",
              "p_model", "p_base", "p_set", "t_load", "t_set"}
Pcs == ReloadPcs \cup {"idle", "require", "bundle", "ready", "score", "noise",
                       "policy", "observe", "decide", "archive",
                       "status", "model_name"}

Reloading(t) == kind[t] = "reload" /\ pc[t] # "idle"

Goto(t, l) == pc' = [pc EXCEPT ![t] = l]

Keep(t, v, src, base) ==
    tmp' = [tmp EXCEPT ![t] = [val |-> v, src |-> src, base |-> base]]

\* The handler returns, or raises HTTPException (503) or anything else (500).
Reply(t, status) ==
    /\ Goto(t, "idle")
    /\ reply' = [reply EXCEPT ![t] = status]
    /\ rows' = [rows EXCEPT ![t] = <<>>]
    /\ idx' = [idx EXCEPT ![t] = 1]
    /\ tmp' = [tmp EXCEPT ![t] = Nothing]
    /\ UNCHANGED kind

Init ==
    /\ live = [a \in Artifacts |-> Absent]
    /\ writes = 0 /\ clean = TRUE /\ restarts = 0
    /\ bundle = disk_bundle /\ bundle_src = resolve("model")
    /\ bundle_err = (disk_bundle = None)
    /\ noise = disk_noise /\ policy = disk_policy /\ triage = disk_triage
    /\ total_scored = 0 /\ total_anomalies = 0 /\ total_suppressed = 0
    /\ last_score = 0 /\ max_score = 0
    /\ policy_actions = [a \in Actions |-> 0]
    /\ triage_actions = [a \in Actions |-> 0]
    /\ archived = 0 /\ requests = 0
    /\ pc = [t \in Threads |-> "idle"] /\ kind = [t \in Threads |-> "health"]
    /\ rows = [t \in Threads |-> <<>>] /\ idx = [t \in Threads |-> 1]
    /\ tmp = [t \in Threads |-> Nothing] /\ reply = [t \in Threads |-> "none"]

\* A request reaches a free thread.
Begin(t, k, first) ==
    /\ pc[t] = "idle" /\ requests < MaxRequests
    /\ requests' = requests + 1
    /\ Goto(t, first)
    /\ kind' = [kind EXCEPT ![t] = k]
    /\ reply' = [reply EXCEPT ![t] = "none"]
    /\ UNCHANGED <<live, writes, restarts, globals, metrics, archived, rows, idx, tmp>>

Request(t) ==
    /\ \/ \E k \in {"detect", "batch", "triage"} : Begin(t, k, "require")
       \/ Begin(t, "health", "status")
    /\ UNCHANGED clean

\* No /reload and no overwrite is under way.
Quiet == /\ \A t \in Threads : ~Reloading(t)
         /\ \A a \in Artifacts : live[a] # Torn

\* POST /reload, sent by a pipeline after its overwrites.
StartReload(t) ==
    /\ Serialized => Quiet
    /\ Begin(t, "reload", "m_load")
    /\ clean' = TRUE

-----------------------------------------------------------------------------
(* /detect, /detect/batch and /triage.                                      *)

\* _require_model: the test of _bundle ...
RequireModel(t) ==
    /\ pc[t] = "require"
    /\ IF bundle = None THEN Reply(t, "503")
       ELSE Goto(t, "bundle") /\ UNCHANGED <<kind, rows, idx, tmp, reply>>
    /\ UNCHANGED <<disk, restarts, globals, metrics, archived, requests>>

\* ... and, reading the global a second time, its return value; an empty batch
\* returns at once.
ReturnBundle(t) ==
    /\ pc[t] = "bundle"
    /\ \/ /\ kind[t] = "batch"
          /\ Reply(t, "200")
       \/ /\ Keep(t, bundle, "baked", None)
          /\ Goto(t, IF kind[t] = "triage" THEN "ready" ELSE "score")
          /\ UNCHANGED <<kind, rows, idx, reply>>
    /\ UNCHANGED <<disk, restarts, globals, metrics, archived, requests>>

\* detect_one / score_frame on the local bundle (AttributeError on None).
Score(t) ==
    /\ pc[t] = "score"
    /\ IF tmp[t].val = None THEN Reply(t, "500")
       ELSE /\ \E n \in 1..(IF kind[t] = "batch" THEN MaxBatch ELSE 1) :
               \E rs \in [1..n -> ScoredRows] : rows' = [rows EXCEPT ![t] = rs]
            /\ Goto(t, IF kind[t] = "triage" THEN "decide" ELSE "noise")
            /\ UNCHANGED <<kind, idx, tmp, reply>>
    /\ UNCHANGED <<disk, restarts, globals, metrics, archived, requests>>

\* _noise.annotate, on the filter the global holds now.
NoiseAnnotate(t) ==
    /\ pc[t] = "noise"
    /\ \E supp \in SUBSET (IF noise.enabled THEN Anomalous(rows[t]) ELSE {}) :
          rows' = [rows EXCEPT ![t] = NoiseAnnotated(rows[t], supp)]
    /\ Goto(t, "policy")
    /\ UNCHANGED <<disk, restarts, globals, metrics, archived, requests,
                   kind, idx, tmp, reply>>

\* _policy.annotate, on the filter the global holds now.
PolicyAnnotate(t) ==
    /\ pc[t] = "policy"
    /\ \E act \in [DOMAIN rows[t] -> Escalations] :
          rows' = [rows EXCEPT ![t] = PolicyAnnotated(rows[t], act)]
    /\ Goto(t, "observe")
    /\ UNCHANGED <<disk, restarts, globals, metrics, archived, requests,
                   kind, idx, tmp, reply>>

\* _Metrics.observe, one critical section.
Observe(t) ==
    /\ pc[t] = "observe"
    /\ LET rs == rows[t] IN
       /\ total_scored' = total_scored + Len(rs)
       /\ total_anomalies' = total_anomalies + Cardinality(Anomalous(rs))
       /\ total_suppressed' = total_suppressed + Cardinality(Suppressed(rs))
       /\ policy_actions' = [a \in Actions |->
              policy_actions[a] + Cardinality(WithAction(rs, a))]
       /\ last_score' = rs[Len(rs)].score
       /\ \E i \in Highest(rs) :
             max_score' = IF rs[i].score > max_score THEN rs[i].score ELSE max_score
    /\ Goto(t, IF kind[t] = "batch" THEN "ready" ELSE "archive")
    /\ UNCHANGED <<disk, restarts, globals, triage_actions, archived, requests,
                   kind, rows, idx, tmp, reply>>

\* Variant: the triage loop entered without testing ready.
TriageReadyUntested(t) ==
    /\ pc[t] = "ready"
    /\ Goto(t, IF kind[t] = "triage" THEN "score" ELSE "decide")
    /\ UNCHANGED <<disk, restarts, globals, metrics, archived, requests,
                   kind, rows, idx, tmp, reply>>

\* The test of _triage.ready, in /triage and before the loop of /detect/batch.
TriageReady(t) ==
    /\ pc[t] = "ready"
    /\ IF kind[t] = "triage" /\ triage = None THEN Reply(t, "503")
       ELSE /\ Goto(t, IF kind[t] = "triage" THEN "score"
                       ELSE IF triage = None THEN "archive" ELSE "decide")
            /\ UNCHANGED <<kind, rows, idx, tmp, reply>>
    /\ UNCHANGED <<disk, restarts, globals, metrics, archived, requests>>

\* The rows the triage loop has still to decide.
Undecided(t) == {i \in DOMAIN rows[t] :
                    i >= idx[t] /\ (kind[t] = "batch" => effective_anomaly(rows[t][i]))}

\* One call of _triage.decide, which reads the global again, and the
\* observe_triage that counts its answer: decide returns None when the runtime
\* is no longer ready, and subscripting None raises.
TriageDecide(t) ==
    /\ pc[t] = "decide"
    /\ \E i \in Undecided(t) :
          /\ \A j \in Undecided(t) : i <= j
          /\ IF triage = None
             THEN Reply(t, "500") /\ UNCHANGED triage_actions
             ELSE /\ \E a \in Actions :
                        triage_actions' = [triage_actions EXCEPT ![a] = @ + 1]
                  /\ idx' = [idx EXCEPT ![t] = i + 1]
                  /\ UNCHANGED <<pc, kind, rows, tmp, reply>>
    /\ UNCHANGED <<disk, restarts, globals, observed, archived, requests>>

\* Variant: a batch that was triaged returns before _archive_rows.
TriageDoneReturns(t) ==
    /\ pc[t] = "decide" /\ Undecided(t) = {}
    /\ Reply(t, "200")
    /\ UNCHANGED <<disk, restarts, globals, metrics, archived, requests>>

\* The triage loop is over.
TriageDone(t) ==
    /\ pc[t] = "decide" /\ Undecided(t) = {}
    /\ IF kind[t] = "triage" THEN Reply(t, "200")
       ELSE Goto(t, "archive") /\ UNCHANGED <<kind, rows, idx, tmp, reply>>
    /\ UNCHANGED <<disk, restarts, globals, metrics, archived, requests>>

\* _archive_rows and the reply.
Archive(t) ==
    /\ pc[t] = "archive"
    /\ archived' = archived + Len(rows[t])
    /\ Reply(t, "200")
    /\ UNCHANGED <<disk, restarts, globals, metrics, requests>>

-----------------------------------------------------------------------------
(* /reload: _load_model, _load_noise, _load_policy, _load_triage, then the  *)
(* response; /health builds the same response.                              *)

\* A step of /reload that reads a file into the thread's locals.
ReadStep(t, from, to, v, src, base) ==
    /\ pc[t] = from /\ Goto(t, to) /\ Keep(t, v, src, base)
    /\ UNCHANGED <<disk, restarts, globals, metrics, archived, requests,
                   kind, rows, idx, reply>>

\* A step of /reload that assigns one global.
SetStep(t, from, to) ==
    /\ pc[t] = from /\ Goto(t, to)
    /\ UNCHANGED <<disk, restarts, metrics, archived, requests,
                   kind, rows, idx, tmp, reply>>

\* Variant: _bundle dropped before the new file is read.
LoadModelDropsFirst(t) ==
    \/ /\ pc[t] = "m_load" /\ Goto(t, "m_set")
       /\ Keep(t, disk_bundle, resolve("model"), None)
       /\ bundle' = None
       /\ UNCHANGED <<disk, restarts, metrics, archived, requests, kind, rows, idx,
                      reply, bundle_err, bundle_src, noise, policy, triage>>
    \/ /\ SetStep(t, "m_set", "m_err")
       /\ bundle' = tmp[t].val
       /\ UNCHANGED <<bundle_err, bundle_src, noise, policy, triage>>
    \/ /\ SetStep(t, "m_err", "n_model")
       /\ bundle_err' = (tmp[t].val = None) /\ bundle_src' = tmp[t].src
       /\ UNCHANGED <<bundle, noise, policy, triage>>

\* Variant: _bundle_err not cleared by a successful load.
LoadModelKeepsError(t) ==
    \/ ReadStep(t, "m_load", "m_set", disk_bundle, resolve("model"), None)
    \/ /\ SetStep(t, "m_set", "m_err")
       /\ bundle' = tmp[t].val
       /\ UNCHANGED <<bundle_err, bundle_src, noise, policy, triage>>
    \/ /\ SetStep(t, "m_err", "n_model")
       /\ bundle_err' = (bundle_err \/ tmp[t].val = None) /\ bundle_src' = tmp[t].src
       /\ UNCHANGED <<bundle, noise, policy, triage>>

LoadModel(t) ==
    \/ ReadStep(t, "m_load", "m_set", disk_bundle, resolve("model"), None)
    \/ /\ SetStep(t, "m_set", "m_err")
       /\ bundle' = tmp[t].val
       /\ UNCHANGED <<bundle_err, bundle_src, noise, policy, triage>>
    \/ /\ SetStep(t, "m_err", "m_src")
       /\ bundle_err' = (tmp[t].val = None)
       /\ UNCHANGED <<bundle, bundle_src, noise, policy, triage>>
    \/ /\ SetStep(t, "m_src", "n_model")
       /\ bundle_src' = tmp[t].src
       /\ UNCHANGED <<bundle, bundle_err, noise, policy, triage>>

LoadNoise(t) ==
    \/ ReadStep(t, "n_model", "n_base",
                read("noise_model", resolve_noise), resolve_noise, None)
    \/ ReadStep(t, "n_base", "n_set",
                tmp[t].val, tmp[t].src, read("noise_baseline", tmp[t].src))
    \/ /\ SetStep(t, "n_set", "p_model")
       /\ noise' = NoiseFilter(tmp[t].val, tmp[t].base)
       /\ UNCHANGED <<bundle, bundle_err, bundle_src, policy, triage>>

\* policy_filter.from_env picks the baseline's directory before it reads the
\* model; the pick is carried in src.
LoadPolicy(t) ==
    \/ ReadStep(t, "p_model", "p_base",
                read("policy", resolve("policy")), resolve("noise_baseline"), None)
    \/ ReadStep(t, "p_base", "p_set",
                tmp[t].val, tmp[t].src, read("noise_baseline", tmp[t].src))
    \/ /\ SetStep(t, "p_set", "t_load")
       /\ policy' = PolicyFilter(tmp[t].val, tmp[t].base)
       /\ UNCHANGED <<bundle, bundle_err, bundle_src, noise, triage>>

\* Variant: /reload without _load_triage.
LoadTriageSkipped(t) ==
    /\ SetStep(t, "t_load", "status")
    /\ UNCHANGED globals

LoadTriage(t) ==
    \/ ReadStep(t, "t_load", "t_set", disk_triage, resolve("triage"), None)
    \/ /\ SetStep(t, "t_set", "status")
       /\ triage' = tmp[t].val
       /\ UNCHANGED <<bundle, bundle_err, bundle_src, noise, policy>>

\* The response: "_triage.model.model_name if _triage.model else None" reads
\* the global twice, and every other field is safe for any value.
Status(t) ==
    /\ pc[t] = "status"
    /\ IF triage = None THEN Reply(t, "200")
       ELSE Goto(t, "model_name") /\ UNCHANGED <<kind, rows, idx, tmp, reply>>
    /\ UNCHANGED <<disk, restarts, globals, metrics, archived, requests>>

ModelName(t) ==
    /\ pc[t] = "model_name"
    /\ Reply(t, IF triage = None THEN "500" ELSE "200")
    /\ UNCHANGED <<disk, restarts, globals, metrics, archived, requests>>

-----------------------------------------------------------------------------
(* The pipelines and the container runtime.                                 *)

\* "cat > file" in a pod that shares the hostPath truncates the file ...
Overwrite(a) ==
    /\ writes < MaxWrites /\ live[a] # Torn
    /\ Serialized => Quiet
    /\ live' = [live EXCEPT ![a] = Torn]
    /\ writes' = writes + 1
    /\ clean' = FALSE
    /\ UNCHANGED <<restarts, globals, metrics, archived, requests, locals>>

\* ... and fills it.
Complete(a) ==
    /\ live[a] = Torn
    /\ live' = [live EXCEPT ![a] = writes]
    /\ clean' = FALSE
    /\ UNCHANGED <<writes, restarts, globals, metrics, archived, requests, locals>>

\* The container restarts: requests and counters are lost, _startup loads what
\* is on disk, the live directory survives.
Restart ==
    /\ restarts < MaxRestarts
    /\ restarts' = restarts + 1
    /\ clean' = TRUE
    /\ bundle' = disk_bundle /\ bundle_src' = resolve("model")
    /\ bundle_err' = (disk_bundle = None)
    /\ noise' = disk_noise /\ policy' = disk_policy /\ triage' = disk_triage
    /\ total_scored' = 0 /\ total_anomalies' = 0 /\ total_suppressed' = 0
    /\ last_score' = 0 /\ max_score' = 0
    /\ policy_actions' = [a \in Actions |-> 0]
    /\ triage_actions' = [a \in Actions |-> 0]
    /\ archived' = 0 /\ requests' = 0
    /\ pc' = [t \in Threads |-> "idle"] /\ kind' = [t \in Threads |-> "health"]
    /\ rows' = [t \in Threads |-> <<>>] /\ idx' = [t \in Threads |-> 1]
    /\ tmp' = [t \in Threads |-> Nothing] /\ reply' = [t \in Threads |-> "none"]
    /\ UNCHANGED <<live, writes>>

-----------------------------------------------------------------------------
Serve(t) ==
    \/ RequireModel(t) \/ ReturnBundle(t) \/ Score(t)
    \/ NoiseAnnotate(t) \/ PolicyAnnotate(t) \/ Observe(t)
    \/ TriageReady(t) \/ TriageDecide(t) \/ TriageDone(t) \/ Archive(t)
    \/ LoadModel(t) \/ LoadNoise(t) \/ LoadPolicy(t) \/ LoadTriage(t)
    \/ Status(t) \/ ModelName(t)

Next ==
    \/ \E t \in Threads : Request(t) \/ StartReload(t) \/ Serve(t)
    \/ \E a \in Artifacts : Overwrite(a) \/ Complete(a)
    \/ Restart

Spec == Init /\ [][Next]_vars

-----------------------------------------------------------------------------
(* Properties.                                                              *)

DiskOK ==
    /\ live \in [Artifacts -> File]
    /\ writes \in 0..MaxWrites /\ clean \in BOOLEAN /\ restarts \in 0..MaxRestarts

GlobalsOK ==
    /\ bundle \in Versions \cup {None}
    /\ bundle_err \in BOOLEAN /\ bundle_src \in {"live", "baked"}
    /\ noise \in Filter /\ policy \in Filter /\ triage \in Versions \cup {None}

MetricsOK ==
    /\ total_scored \in Nat /\ total_anomalies \in Nat /\ total_suppressed \in Nat
    /\ last_score \in Nat /\ max_score \in Nat
    /\ policy_actions \in [Actions -> Nat] /\ triage_actions \in [Actions -> Nat]
    /\ archived \in Nat /\ requests \in 0..MaxRequests

ThreadsOK ==
    /\ pc \in [Threads -> Pcs] /\ kind \in [Threads -> Kinds]
    /\ rows \in [Threads -> Seq(Row)] /\ idx \in [Threads -> Nat]
    /\ tmp \in [Threads -> Local]
    /\ reply \in [Threads -> {"none", "200", "503", "500"}]

\* Types of the live files and of the globals, counters and threads of api.py.
TypeOK == DiskOK /\ GlobalsOK /\ MetricsOK /\ ThreadsOK

\* The counters /metrics renders agree with each other whatever interleaving of
\* requests and reloads produced them: the policy layer's "suppress" count is
\* the noise filter's own count, every policy decision belongs to a flagged
\* row, flagged rows were scored, and the last score never exceeds the maximum
\* (_Metrics.observe fed by two filters that /reload swaps independently).
MetricsCoherent ==
    /\ policy_actions["suppress"] = total_suppressed
    /\ policy_actions["suppress"] + policy_actions["wait"]
         + policy_actions["triage"] + policy_actions["alert"] <= total_anomalies
    /\ total_anomalies <= total_scored
    /\ last_score <= max_score

\* ebpf_anomaly_effective_total is declared a counter although it is computed
\* as a difference: it never decreases while the process lives.
EffectiveIsCounter ==
    [][restarts' = restarts => total_anomalies' - total_suppressed'
                                 >= total_anomalies - total_suppressed]_vars

\* Hot swap is seamless: with the pipelines serialized, requests served while
\* components are swapped never fail, neither with 503 nor with 500, until the
\* container restarts (and may then meet a half-written artifact).
HotSwapSeamless ==
    restarts = 0 => \A t \in Threads : reply[t] \in {"none", "200"}

\* No request dies of a component that is swapped out under it, even when the
\* container restarted over a half-written artifact.
NoInternalError == \A t \in Threads : reply[t] # "500"

\* When no /reload is running and nothing was overwritten since the last one
\* began, the process runs exactly what a fresh start would load.
FreshAfterReload ==
    clean /\ (\A t \in Threads : ~Reloading(t)) =>
        /\ bundle = disk_bundle /\ bundle_src = resolve("model")
        /\ noise = disk_noise /\ policy = disk_policy /\ triage = disk_triage

\* "Every scored feature vector (input features + score + decision) is
\* appended" (archive.py:7): with no request in flight, the archive has as many
\* rows as /metrics says were scored.
EveryScoredRowArchived ==
    (\A t \in Threads : pc[t] = "idle") => archived = total_scored

\* A load that failed is surfaced to /health (api.py:78): outside a /reload the
\* process has an error message exactly when it has no model.
LoadErrorSurfaced ==
    (\A t \in Threads : ~Reloading(t)) => (bundle = None <=> bundle_err)

=============================================================================
