# A TLA+ verification of eBPF_final

eBPF_final collects per-cgroup kernel counters on every Kubernetes node, turns
them into feature windows, scores them with an Isolation Forest behind a FastAPI
service, filters and ranks the anomalies (noise filter, policy layer,
cost-sensitive triage), and retrains and promotes the models from cron jobs.
This directory models the parts whose correctness depends on interleavings,
failures and boundaries, checks them with TLC on small instances, and proves the
most important properties with TLAPS for every size.

Paths below are relative to the repository root.

## 1. Inventory

| Component | State it keeps | Operations | What is hard |
|---|---|---|---|
| **Detector service** `detector/api.py` | `_bundle`, `_bundle_err`, `_bundle_src`, `_noise`, `_policy`, `_triage`, `_metrics`, `_archive` | `/detect`, `/detect/batch`, `/triage`, `/health`, `/metrics`, `/reload`, start-up | sync handlers run concurrently in a thread pool; globals are read several times per request and swapped one at a time, without a lock, by `/reload`; the files it reloads are overwritten in place |
| **Noise filter** `detector/noise_filter.py` | model + per-container baseline, loaded from a live or a baked pair of files | `from_env`, `annotate` | two files, two overwrites, two reads |
| **Policy layer** `policy/policy_filter.py`, `reward.py`, `schema.py` | model, optional baseline | `from_env`, `annotate`, `decide` | must agree with whatever noise filter ran before it; a failing model must escalate |
| **Triage runtime** `src/triage/infer.py`, `cost_matrix.py` | model, default baseline | `from_env`, `ready`, `decide` | cost argmin with ties, guardrails with inclusive thresholds; readiness can be lost between test and use |
| **Feature archive** `detector/archive.py` | one CSV per host and UTC day, a process-wide lock | `append` | header decided before the lock; OSErrors swallowed half-way; restarts; midnight |
| **Scorer** `detector/detect.py`, `model_utils.py` | model bundle | `score_frame`, `detect_one` | numeric |
| **Kernel probes and drain (Go)** `collector-go/bpf/collector.bpf.c`, `main.go` | BPF hash maps keyed by cgroup (or sector) | `INCR`, `tp_switch`, `tp_block_issue/complete`, `drainMap`, `drain` | several CPUs against read-then-delete from user space; preallocated elements are reused under a probe; full maps |
| **Mapper** `collector-go/mapper.go`, `collector/k8s_mapper.py` | inode table, pod table, cache | `refresh`, `resolve` | one of two refreshes failing; reused inodes |
| **Collector output** `collector-go/output.go`, `collector/feature_aggregator.py` | CSV/JSONL files, HTTP client | `Emit`, push | best-effort push with a timeout; headers |
| **BCC collector** `collector/ebpf_collector.py` | the same counters | drain loop | predecessor of the Go collector |
| **Retraining and promotion** `detector/retrain.py`, `scripts/retrain_pipeline.sh`, `scripts/distill_pipeline.sh`, `k8s/cronjob-*.yaml` | candidate files, pods' live directories | gate, copy into each pod, `/reload` | partial rollouts, torn files, ignored reload failures, stale candidates |
| **Label factory** `src/triage/label_store.py`, `weak_labeler.py`, `llm_adjudicator.py`, `case_bundle.py`, `scripts/qwen_distill_label.py` | append-only label log, case bundles | label, resolve, vote | which label wins; votes that never came |
| **Offline training, evaluation, reports** | files | - | numeric library code |

Interaction: the collectors push windows to `/detect/batch`; the service scores,
annotates (noise, then policy), counts, triages and archives them; the pipelines
read the archives, train, overwrite `/models-live` in every pod (`kubectl exec`,
`cat > file`) and call `/reload`. Pods on one node share the hostPath.

What makes each part correct: counters that agree and never go backwards; a swap
that no request notices; a service that runs what is on disk after a reload;
an archive with whole, contiguous, labelled requests; decisions that no guardrail
or lost model can soften; counters that count every event at most once, in its
own cgroup and feature; windows attributed to the pod that ran, written once and
in order; labels that follow their source and time; gates and rollouts that mean
what they report.
The hazards, line by line, are in `PROJECT.json`.

## 2. Modules

| Module | Models | State ↔ code |
|---|---|---|
| `DetectorService` | `api.py` with the loading, `annotate` and readiness code of the three filters, the pipelines' overwrites, container restarts | `live[a]` the files under the live directories; `bundle`…`triage` the module globals; `total_*`, `*_actions`, `last_score`, `max_score` the fields of `_Metrics`; per thread `pc`, `rows` (the index-aligned `rows`/`results` lists), `tmp` (the handler's local references) |
| `FeatureArchive` | `FeatureArchive.append` | `content[d]` the lines of day `d`'s file, `exists` the files that exist, `lock`, per-thread `path`, `write_header` |
| `ArchiveLog` | abstract: what `archive.py` promises its readers, one append-only log per day to which a request is added atomically | refined by `FeatureArchive` |
| `ProbeContext` | the CPUs and cgroups every BPF program runs in | constants shared by the next three |
| `CounterMap` | one BPF counter map: `INCR` on several CPUs, `drainMap` | `key`, `value` the preallocated elements, `ptr[c]` the pointer a probe holds, `res`, `keys` the locals of `drainMap` |
| `WindowCounter` | abstract: what a counter promises, windows to which an event is added at one moment and from which it is reported once | refined by `CounterRaces` |
| `CounterRaces` | `CounterMap` with a history of the `INCR`s that ended in a race | `raced`; it constrains nothing |
| `BlockIO` | `tp_block_issue`, `tp_block_complete` and the drain of `c_disklat` and `c_diskio` | `disk_start`, `disk_cg` the in-flight tables; `tsp`, `cgp` the pointers of the program on each CPU; `latWindow`, `ioWindow` the windows a completion was counted in |
| `KernelProbes` | all counting programs, `tp_switch`, `drain` map after map, `Emit` | `counter[map][cgroup]`, `cpu_last`, `per` (the result of `drain`), `emitted` the sum of the windows |
| `Mapper` | `mapper.go` against a node and an API server that change | `inoToPath`, `uidToPod`, `cidToCName`, `cache`, `expired` the fields of `Mapper`; `todo`, `step`, `cgID` where `build` and `Resolve` are |
| `CollectorOutput` | the main loop and `Emit`: `features.csv`, `features.jsonl`, push | `csv`, `jsonl` the lines of the files, `wire`/`replied` the POST, `scored` what the detector counted |
| `TriageDecision` | `cost_matrix.py`: matrices, `expected_cost`, `recommended_action`, `guardrail_floor`, `decide_action` | one decision per behaviour |
| `PolicyDecision` | `reward.py` and `PolicyFilter.decide` | consecutive windows of one container |
| `CaseRules` | the rules of `weak_labeler.py`, the votes of `case_bundle.py`, the ambiguity gate of `llm_adjudicator.py` | operators on one case |
| `LabelStore` | the label file, batch runs of the weak labeler and of the adjudicator, operator feedback, `resolve` | `lines` the labels of one event in the file, `tail` the writer whose unfinished line ends it, `broken` a line that is no JSON |
| `DistillLabeler` | the vote of several LLMs in `qwen_distill_label.py` | `votes`, `labels` its dictionaries |
| `Retrain` | `retrain_pipeline.sh`, the gate of `retrain.py`, the replicas | `live`, `serving` per pod; `PODS`, `cur`, `p0` the script's variables |
| `Distill` | `distill_pipeline.sh` from the trainer on, the replicas' noise pair | `work` the three files in `$WORK`, `pair` the live files, `filter` what a replica has in memory, `counted` the `OK` of the script |
| `DetectorService_proofs`, `FeatureArchive_proofs`, `BlockIO_proofs` | theorems about the module of that name | |
| `Counters_proofs` | theorems about `CounterMap`, `CounterRaces` and `KernelProbes` | |
| `Collector_proofs` | theorems about `Mapper` and `CollectorOutput` | |
| `Labels_proofs` | theorems about `CaseRules`, `LabelStore` and `DistillLabeler` | |
| `Decision_proofs` | theorems about `TriageDecision` and `PolicyDecision` | |
| `Pipelines_proofs` | theorems about `Retrain` and `Distill` | |
| `MC*` | the instances TLC checks | |

Definitions called "Variant" are plausible faulty forms of the definition that
follows them. No specification uses them; they show that each property can fail.

**Granularity.** In `DetectorService` a step is one access to a global, one
critical section of `_metrics`, or one file read. Scoring works on local data
and is one step. `_metrics.observe` is atomic because it holds its lock.
`/metrics` only reads and is not an action. In `FeatureArchive` a step is the
stat, the lock, the open, one line, or the close; an OSError or a kill can leave
the torn end of a line. In `CounterMap` and `BlockIO` a helper call of the BPF
program and a system call of the drain are atomic, nothing larger is; `BlockIO`
takes `INCR` as one step, and `KernelProbes` takes `INCR` and the drain of one
map as one step each, because `CounterMap` has what happens inside them. In
`Mapper` a step is a table refresh or a lookup; in `CollectorOutput` an open, a
flush, a write of the JSONL rows, or one event of the POST. In `Retrain` and
`Distill` a step is one command of the script, with the truncation and the
filling of a file by `cat >` apart. In `LabelStore` a step makes a label, or
moves a piece of a buffered append into the file.

**Data.** A model file is the number of the overwrite, promotion or training
that wrote it (0: baked into the image). What the classifiers and the LLMs
answer is a free choice. In `CounterMap` a counter is the *set* of events it
counts, so a lost, repeated or misattributed event can be told apart; in
`KernelProbes` it is a number modulo `Wrap`. An entry of a disk table is named by
the request that wrote it. Probabilities are integers over `N`, scores of a case
are hundredths, costs are doubled: the arithmetic is exact where the code uses
floats, so rounding at a boundary is not modelled. The `auc` of a model is the
rounded value that the gate compares.

**Environment of `DetectorService`.** `Overwrite`/`Complete` are the two visible
moments of `cat > file` in a pod. `Serialized = TRUE` is the deployment the
scripts intend: the cron jobs run at different hours with
`concurrencyPolicy: Forbid`, each overwrites and then reloads. It is a
restriction: `retrain_pipeline.sh:93` gives up on a reload after 10 s while the
handler keeps running, pods of a node share the directory, and both pipelines
can be started by hand, so the run about counters and the one about the
disagreement use `Serialized = FALSE`. The pipelines write the model and the
noise pair; `policy` and `triage` reach the live directories by hand
(`docs/triage_pipeline.md`), which the model treats like any other overwrite.

**Composition.** `DetectorService` contains the filters and the pipelines'
overwrites, because they share the globals and the files. `Retrain` and
`Distill` contain what the pipelines do to several replicas; there a replica is
reduced to its live files and what `/reload` loads from them, which is what
`DetectorService` proves of a reload (`FreshAfterReload`). `CollectorOutput`
contains the detector as far as a batch is scored or not.

## 3. Runs

| Run | Instance | Shows |
|---|---|---|
| `svc_metrics` | 2 threads, 2 requests, batches of ≤ 2 rows, scores on both sides of the threshold, 1 overwrite, pipelines unrestricted, no triage model in the image | `MetricsCoherent`, `EffectiveIsCounter`, types |
| `svc_swap` | 2 threads, 2 requests, 2 overwrites, 1 restart at any moment, pipelines serialized, all artifacts baked | `HotSwapSeamless`, `NoInternalError`, `FreshAfterReload`, `EveryScoredRowArchived`, `LoadErrorSurfaced` |
| `svc_unarchived` (violation) | 1 overwrite, pipelines unrestricted | a reload over a half-written triage model kills a batch between counting and archiving |
| `archive` | 2 threads, 3 calls, 1 OSError, 1 restart, 2 days | refinement of `ArchiveLog`; the lock is always released; without faults the race on the header costs only extra headers |
| `archive_header_race` (violation) | 2 threads | two headers in one file |
| `archive_headerless` (violation) | 1 restart | a file that never gets its header |
| `kernel` | `CounterMap`: 2 CPUs, 2 cgroups, 2 elements, 4 events. `BlockIO`: 2 CPUs, 2 sectors, tables of one entry, 3 requests, 2 windows. `KernelProbes`: 3 CPUs, `cpu_last` of 2 entries, 3 hits or switches, 1 window | `NoDoubleCount`, `LostOnlyInRace`, `CountsIntoWindows` (refinement of `WindowCounter`); `ExactAttribution`, `LatencyNotLate`; `CountsAddUp`, `OnCpuAccounted` |
| `counter_lost` (violation) | 1 CPU | an increment between read and delete is lost |
| `collector` | `Mapper`: 2 inodes (one of a system cgroup), 2 pods, 1 failing list or scan. `CollectorOutput`: 3 windows of 2 rows, 2 failing writes, 1 kill | `CacheFresh`, `AttributionHeals`; `ScoredOnce`, `ScoredIsOnDisk`, `CsvInOrder`, `EmitEnds` |
| `learning` | `TriageDecision`: all distributions in 52nds, both matrices, score 0.8 and 0.9. `PolicyDecision`: P(fault) in hundredths and the error value. `LabelStore`: 2 overlapping runs, 3 labels, 7 cases. `DistillLabeler`: 2 models, 2 batches. `Retrain`: 2 pods, 3 promotions. `Distill`: 2 replicas, 3 trainings, 2 trainer and 2 exec faults | the decisions' four properties and `DecisionBands`, `EscalationMonotone`; `LatestOfBestSource`, `SecondOpinion`, `InjectionKept`, `NoLabelLostUnnoticed`; `BenignUnanimous`; `PromotedEverywhere`, `DriftBounded`; `CountedRunsPair`, `GateUnlessStale`, `MatchedPair` |
| `label_votes` (violation) | 2 models, 2 batches | a group is benign though one model did not vote |
| `distill_gate` (violation) | 2 replicas, persistent `$WORK` | a rejected filter is rolled out |

`kernel`, `collector` and `learning` each check several modules that share no
state. A variable `component`, fixed by the initial state, says which one a
behaviour exercises, so that the state space is the union of theirs and not the
product, and every property is checked on all behaviours of its module.

**Bounds.** Two requests suffice for the service because every race is between
one request and one reload or between two reloads, and a restart sets the
request bound back; a second overwrite is needed for "promoted over a
half-written file, then repaired". Two rows make an index-aligned batch with a
suppressed and a kept row. Three archive calls of two threads give a thread that
appends after the race for the header, and one that waits for the lock while
another fails. `N = 52` is the coarsest grid on which the recall-first
matrix suppresses with a positive P(high). Four events are two per CPU or per
cgroup: enough for a stale pointer into an element that was deleted and reused
by the other cgroup. Three block requests on two sectors give a request that
finds another's left-over entry, one that meets a full table, and two of one
sector in flight. A third core meets a full `cpu_last`. The numbers of
`KernelProbes` stay below `Wrap = 16`, as those of one window stay below 2^64,
except that a negative count would wrap. Two pods and two inodes are enough for
an inode that is reused and a pod whose object outlives its cgroup; three windows
let a row follow one that was torn by an earlier failure. Three labels are one per
overlapping run and one more that arrives in between. Two replicas are the
deployment's number; three promotions or trainings allow a rejected one between
two accepted ones. Behaviours end when a bound is reached, therefore
`CHECK_DEADLOCK FALSE` in those configurations. Symmetry is used for threads,
CPUs, cgroups, elements, sectors and label writers in runs that check invariants and
action properties, which do not name any of them, and not in the runs with a
liveness property.

**Fairness.** `archive`: weak fairness of each thread's own step; the OS
schedules every thread of the pool and no step inside the critical section waits
for anything. `collector`: weak fairness of the collector's own steps, which run
in one goroutine that nothing suspends (every call it makes returns: the pod
list and the POST have a timeout of 5 s), and of the 30 s of `refresh` going by.
Nothing is assumed of the detector, the network, the API server or the kubelet;
`AttributionHeals` has the stability of the pod as its premise.

## 4. Disagreements between code and text

* `svc_unarchived`: `archive.py:7` promises that every scored vector is
  archived. `api.py` counts a batch (414), then reads `_triage` again for each
  row (421); `decide` returns `None` when a reload installed a runtime that did
  not load, and the subscript raises before `_archive_rows`.
* `archive_header_race`: "thread-safe" (`archive.py:18`), but `write_header` is
  computed before the lock.
* `archive_headerless`: a kill after `open` and before the header reaches the
  file leaves it headerless for good; `retrain.py:71` relies on the header.
* `counter_lost`: "deletion gives per-window deltas" (`main.go:131`), yet an
  increment between the read and the deletion of its key is in no window.
* `label_votes`: "ONLY when every model agrees benign"
  (`qwen_distill_label.py:71`), but a model that fails or leaves a group out casts
  no vote and `all()` ranges over the votes that were cast.
* `distill_gate`: "promote only if false-suppress <= floor"
  (`distill_pipeline.sh:10`), but an unparsable `metrics.json` leaves `PROMOTE`
  empty, `[ "" -ne 1 ]` is an error, and the script goes on with whatever model is
  in a `WORK_DIR` that outlived an earlier run. In the CronJob, whose `/work` is an
  emptyDir, this cannot happen (`GateUnlessStale`).

Observed while modelling, not stated as a run: overlapping reloads can leave
`_bundle = None` with `_bundle_err = None` when pipelines are not serialized
(`api.py:71`, `LoadErrorSurfaced` holds only in `svc_swap`); once the live model
of the first listed pod is broken every later retraining ends with ERROR
(`retrain_pipeline.sh:66`); a fallback label of a later adjudicator run outranks
an earlier verdict of the LLM itself.

## 5. Proofs

Every safety property that a passing run checks is also a theorem: all the
invariants, the action properties `EffectiveIsCounter` and
`EscalationMonotone`, and the refinements `AppendsAreAtomic` (of `ArchiveLog`) and
`CountsIntoWindows` (of `WindowCounter`). The type invariants of `CounterMap` and
`BlockIO`, which contain that no probe uses a null pointer, are theorems and not
part of the run `kernel`. The list is under `theorems` in `PROJECT.json`.

All constants are arbitrary within the named assumptions of each module:
natural bounds, sentinels outside the sets they extend, positive denominators,
natural AUC values, file states that are no versions, a finite thread pool
(`ArchiveAssumption`, for the count of headers), batches of the LLM labeler that
are disjoint (`BatchAssumption`: they are slices of one list of groups). Some
theorems have a hypothesis of their own:

| Theorems | Hypothesis | Why |
|---|---|---|
| `FreshTheorem`, `ErrorTheorem` | `Serialized` | two reloads that overlap can leave the older state (section 4) |
| `NoInternalErrors`, `ArchivedTheorem` | `Serialized` | `svc_unarchived` shows that it cannot be dropped |
| `Seamless` | `Serialized`; the image ships a model and a triage model | a service that starts without a model answers 503 until the first promotion |
| `CountsTheorem` | `NoWrap`: no cgroup got 2^64 of a feature in all | a `u64` that is added to wraps |
| `OnCpuTheorem` | `NoTimeWrap`: no cgroup ran for 2^64 ns in all | the same, for time |

The last two are conditions on the state; without them the counts hold modulo the
width only. `Sizes` are any integers: a negative count of bytes, which
`tcp_cleanup_rbuf` can pass, is kept from the counters by the test in its probe.

**`DetectorService_proofs`.**
*Types*: `TypeOK` is not inductive. `Complete` writes the version `writes`, which
is only a legal version because a torn file implies a begun overwrite
(`TornWritten`); `observe` takes `scores[-1]`, which exists because the
annotation steps never see an empty batch (`Batched`).
*Counters* (`Coherent`, `EffectiveMonotone`): the property is about totals, the
reason is about rows in flight. `Annotated` says that a request about to be
counted has suppressed only flagged rows, and that the policy layer answered
"suppress" exactly for those. `NoiseEstablishes` and `PolicyEstablishes` show
that the two `annotate` methods establish this *whatever* generation of filter
the globals held; `CoherentCounts` turns it into cardinalities of disjoint sets.
No assumption on the pipelines is used.
*Hot swap* (`NoInternalErrors`, `Seamless`): `QuietReload` says a running reload
never coexists with a torn file, and `HasFile` that a loaded component has a file, in
the image or under the live directory, which an overwrite may tear but not remove.
Hence (`DiskLoads`) every load of a reload finds what was loaded before, hence
(`StaysLoaded`) a component that is loaded stays loaded until a restart, hence
(`Held`) what a handler tested still holds when it reads the global again. What the
image ships matters only for `Seamless`, which also says that nothing is missing from
the start.
*Reload* (`FreshTheorem`, `ErrorTheorem`): `FreshAfterReload` speaks of the time
after a reload, so `Progress` describes the reload itself, step by step: what it
holds in its locals (`Holds`) and what it has installed (`Installed`) is what a
fresh start would load, because no overwrite begins before it ends.
`ErrorMatches` excludes only the one step between the two assignments of
`_load_model`.
*Archive* (`ArchivedTheorem`): "with nothing in flight the totals agree" becomes
`Accounted`, the scored rows are the archived rows and those `InFlight`, a set of
pairs of thread and index whose size changes by one batch in two steps only. That
nothing in between raises is `Held` again.

**`FeatureArchive_proofs`.** The abstract log is `CommittedLog`: the rows of a file
that are of completed calls. Mutual
exclusion (`Mutex`) alone does not give atomicity. `Contiguous` adds that the rows
of a running call are the *end* of its file and nowhere else, so that `Close` adds
exactly them to the log. Every other step, an error or a kill included, is a
stutter of `ArchiveLog`. `RowsOf` is a recursive function on the number of lines:
that it exists and unrolls (`RowsOfExists`, `RowsOfDef`), and what it gives for a
longer file or one more committed call (`RowsOfPrefix`, `RowsOfCommit`), are proved
by induction on `Nat` (`NatSetInduction`, from the library's theorem on
well-founded orders, stated for a set so that no operator has to be instantiated). `HeadersTheorem` needs in addition
`HeaderProgress` (a file that exists and is empty has a thread at its header) and
`HeaderCount`: headers written plus threads that still believe there is no file
never exceed the number of threads.

**`Counters_proofs`.** `CounterMap`: `CountedOnce` rests on `Ledger`, which talks
about elements instead of cgroups: a cgroup has one element, what is read, reported
and pending is disjoint, and the event of a running `INCR` is counted nowhere,
*not even in the stale bytes of a deleted element*. The last part is what
survives the reuse of an element under a probe's pointer.
`ImplementsWindows`: the open window of a cgroup is what its element counts and what
the running drain has read of it and not yet reported. An `INCR` that succeeds is
`Count`, the end of a drain is `ReportWindow`, and every other step, the deletion
of an element included, is a stutter: a counter is deleted only after it was read
(`Reading`), and what the deletion takes in addition was added after the read, so it
was in no open window. The `INCR` that added it is a stutter too, an event that is
never counted; one that adds through a pointer to a reused element is a `Count`
for the element's new cgroup. Which events those are is `RacesTheorem`: the history `raced`
of `CounterRaces` collects the `INCR`s that added to an element the drain had read
or deleted, met a key that had just appeared, or found the map full. Every other
event is in a window or on its way (`EndCredits`, `CreditedGrows`), through any
number of drains and reuses of its element.
`KernelProbes`: the total of a feature is split over three places, the counter of
its map, the result of the running drain and the windows. `DrainTable` shows that
the map of a feature is found by its row in `drainOrder` and that no two features
share a map, `PerAhead` that the result of a drain is still 0 for the maps it has
not come to, without which a drain would overwrite counts. Time needs the size of
a set: `OpenTime`, the nanoseconds of the slices that still run, is cut at
`cpu_last` by a switch and grows by a tick on every tracked core that runs a task
of the cgroup.

**`BlockIO_proofs`.** The property is about completions, the reason is about requests
that are alone on their sector. `DiskAlone` says that two live requests of a sector
are on record as mixed, so nobody else writes or deletes the two entries of one that
is not; `DiskFlying` that these entries are its own, or absent because the table was
full, *whatever earlier requests of the sector left in the tables*. `DiskProgram`
carries this through the steps of both programs, each of which has one request of
its own (`DiskOwner`). `DiskWindows` counts drains: `c_diskio` is never more than one
drain behind `c_disklat`.

**`Collector_proofs`.** `Mapper`: what `CacheFresh` says of the cache, `TablesOwned`
says of the inode table of the last scan; a lookup moves the one into the other, and
clearing the cache in `refresh` is what allows the owners to start anew with a scan.
`CollectorOutput`: `OnePush` says that the window being emitted is not on the wire
and not scored before its own push, and the older ones no more than once
(`ScoredOnce`); `HandedOnDisk` is the fact that matters for `ScoredIsOnDisk`, stated for
every window that was handed to the client, scored or not. `CsvNumbers` bounds the
rows in the file by the window and row that `Emit` has reached, which makes
`CsvInOrder` inductive; the lemmas about `AppendLines` say that a write changes
nothing of a file but a torn last line.

**`Labels_proofs`.** `CaseRules`: `SkippedCases` says exactly which cases the
adjudicator does not look at, as one condition on the case in place of the code's
list of reasons; `WeakLabelMonotone` that the six overlapping rules of
the weak labeler, of which the first that applies decides, never answer more evidence
with a milder label. `LabelStore`: in a file without a broken line, `Left` says which
labels the runs that ended have left, `InHand` what label a run in progress has made;
a label made by a run that saw the injection, or that adjudicated an open case, is
then in the file, and `resolve` cannot return a worse one. That `resolve` returns a
label which no other outranks (`ResolveBest`) is an induction over the lines
(`BestDef`, `NatSetInduction`); it uses that `Outranks`
is a strict weak order (`OutranksOrder`).
`DistillLabeler`: `Unlabelled` ties a group to the only batch that contains it: until
that batch is closed, all that was heard of the group are the votes that will
decide.

**`Decision_proofs`.** `TriageDecision`: the costs are written out (`DefaultCost`,
`RecallFirstCost`), `Recommended` shows that the argmin with its tie-break is
well defined, `Floor` that the floor is the strictest demand. `RecallFirst`
refutes each of the six ways the recall-first matrix could be milder by linear
arithmetic; since guardrails only raise, the production decision is never milder
than the default recommendation. `PolicyDecision`: `BestAction` computes the argmin
for every resolution `Parts`; the bands and monotonicity follow.

**`Pipelines_proofs`.** `Retrain`: `PromotedEverywhere` speaks of the end of a run;
`LoopInv` carries it through the promotion loop: the pods it has left behind have
the new model, except the one whose file was just truncated, and a pod that
answered cannot fall back, because a restart loads the same file. `DriftInv`
bounds every model ever promoted, not only those in use, since the gate may
compare with an old one that a partial rollout left on the first pod.
`Distill`: one inductive invariant for the three properties: where the
loop is (`Place`, `Copied`), what the files in `$WORK` can be when the gate reads
them (`GateInv`: with an empty `$WORK`, or without trainer faults, the model is of
the training whose metrics are read, or missing, or cut short), and which replica
may have a torn pair (`MatchInv`: only the one being written).

**Only model-checked.** `LockReleased`, `AttributionHeals` and `EmitEnds`: liveness under
fairness, which the prover does not reach. The six disagreements of section 4 are
counterexamples that TLC finds; nothing is proved of them.

## 6. Not modelled

`collector-go/bpf/vmlinux.h` is the kernel's type information dumped by bpftool:
150,000 generated lines of declarations without behaviour. What
`collector.bpf.c` uses of it (the fields `sector`, `bytes` and `rwbs` of two
tracepoint records) are inputs of the actions. All of `collector.bpf.c` is
modelled.

Feature extraction, model fitting, evaluation, reports and message formats are
numeric or textual. Rounding of floating-point costs is not modelled. The HTTP
layer is reduced to requests that reach a free thread. `POST /detect/batch` with
an empty list is the early return in `ReturnBundle`. The five-minute baseline and
the run length of `case_bundle.py` are inputs of a case: the stream code has one
reader, no concurrency and no failure it handles, and its results are data of the
rules. The Python collector repeats the Go collector. The experiment scripts
drive load generators and keep no state. Retention of the archive
(`retrain_pipeline.sh:48-50`) only deletes files that nothing writes any more.

## 7. Plan

Done: `DetectorService`, `FeatureArchive` over `ArchiveLog`, `TriageDecision`,
`PolicyDecision`, `CounterMap`, `BlockIO`, `KernelProbes`, `Mapper`,
`CollectorOutput`, `CaseRules`, `LabelStore`, `DistillLabeler`, `Retrain`,
`Distill`; a proof of every safety property that they are checked for (section 5).

Left to do:

1. `INCR` and the drain of one map in `KernelProbes` as steps of `WindowCounter`, so
   that the composition of the two modules is a theorem too. The counters are sets of
   events in one and numbers in the other; a map between them is needed first.
2. A promotion as one step of the set of replicas, which `Retrain` implements when it
   reports PROMOTED.
