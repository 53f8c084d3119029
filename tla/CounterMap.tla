------------------------------ MODULE CounterMap ------------------------------
(***************************************************************************)
(* One per-cgroup counter of the collector: the BPF hash map that probes on *)
(* several CPUs increment (INCR in collector-go/bpf/collector.bpf.c) and    *)
(* that user space drains once per window (drainMap in main.go).           *)
(*                                                                         *)
(* A counter's value is modelled as the set of the events it counts, so     *)
(* that an event lost, counted twice or credited to another cgroup is told  *)
(* apart.  The map is preallocated: an element that is deleted can be       *)
(* reused at once, also while a probe still holds a pointer to it.          *)
(***************************************************************************)
EXTENDS Naturals, FiniteSets, ProbeContext

CONSTANTS
    Slots,        \* elements of the map (MAX_CG)
    MaxEvents,    \* bound: probe hits
    NoSlot, NoCg

Events == 1..MaxEvents

ASSUME CounterAssumption ==
    /\ MaxEvents \in Nat
    /\ NoSlot \notin Slots /\ NoCg \notin Cgroups

VARIABLES
    events,     \* probe hits so far
    owner,      \* owner[e]: the cgroup of event e
    key,        \* key[s]: the cgroup whose counter element s is, or NoCg
    value,      \* value[s]: the events counted in element s
    cpu,        \* cpu[c]: state of the INCR running on c
    event,      \* event[c]: the event it counts
    ptr,        \* ptr[c]: the element its lookup returned
    drain,      \* "idle", "read" or "delete": where drainMap is
    start,      \* cgroups present when the iteration began
    res,        \* res[k]: drainMap's snapshot of cgroup k
    keys,       \* cgroups read and not yet deleted
    seen,       \* cgroups read in this drain
    reported    \* reported[k]: events in the windows reported for k

kernel == <<key, value>>
probes == <<cpu, event, ptr>>
user   == <<drain, start, res, keys, seen, reported>>
vars   == <<events, owner, kernel, probes, user>>

Present == {key[s] : s \in Slots} \ {NoCg}
SlotOf(k) == CHOOSE s \in Slots : key[s] = k

Init ==
    /\ events = 0 /\ owner = [e \in Events |-> NoCg]
    /\ key = [s \in Slots |-> NoCg] /\ value = [s \in Slots |-> {}]
    /\ cpu = [c \in CPUs |-> "idle"] /\ event = [c \in CPUs |-> 0]
    /\ ptr = [c \in CPUs |-> NoSlot]
    /\ drain = "idle" /\ start = {} /\ keys = {} /\ seen = {}
    /\ res = [k \in Cgroups |-> {}] /\ reported = [k \in Cgroups |-> {}]

-----------------------------------------------------------------------------
(* INCR, with delta 1.                                                      *)

\* A probe fires in cgroup k: bpf_map_lookup_elem.
Lookup(c, k) ==
    /\ cpu[c] = "idle" /\ events < MaxEvents
    /\ events' = events + 1
    /\ owner' = [owner EXCEPT ![events + 1] = k]
    /\ event' = [event EXCEPT ![c] = events + 1]
    /\ ptr' = [ptr EXCEPT ![c] = IF k \in Present THEN SlotOf(k) ELSE NoSlot]
    /\ cpu' = [cpu EXCEPT ![c] = IF k \in Present THEN "add" ELSE "insert"]
    /\ UNCHANGED <<kernel, user>>

Return(c) ==
    /\ cpu' = [cpu EXCEPT ![c] = "idle"]
    /\ ptr' = [ptr EXCEPT ![c] = NoSlot]
    /\ UNCHANGED <<events, owner, event, user>>

\* __sync_fetch_and_add on the element, whatever has become of it.
FetchAndAdd(c) ==
    /\ cpu[c] = "add"
    /\ value' = [value EXCEPT ![ptr[c]] = @ \cup {event[c]}]
    /\ Return(c)
    /\ UNCHANGED key

\* Variant: BPF_ANY, which overwrites the value of a key that has appeared.
UpdateAny(c) ==
    /\ cpu[c] = "insert"
    /\ LET k == owner[event[c]]
           into == IF k \in Present THEN {SlotOf(k)} ELSE {s \in Slots : key[s] = NoCg}
       IN  IF into # {}
           THEN \E s \in into :
                   /\ key' = [key EXCEPT ![s] = k]
                   /\ value' = [value EXCEPT ![s] = {event[c]}]
           ELSE UNCHANGED kernel
    /\ Return(c)

\* bpf_map_update_elem(BPF_NOEXIST): fails when the key has appeared since the
\* lookup and when the map is full; INCR ignores the failure.
UpdateNoExist(c) ==
    /\ cpu[c] = "insert"
    /\ LET k == owner[event[c]]
           free == {s \in Slots : key[s] = NoCg}
       IN  IF k \notin Present /\ free # {}
           THEN \E s \in free :
                   /\ key' = [key EXCEPT ![s] = k]
                   /\ value' = [value EXCEPT ![s] = {event[c]}]
           ELSE UNCHANGED kernel
    /\ Return(c)

-----------------------------------------------------------------------------
(* drainMap.                                                                *)

\* The ticker fires and the iteration begins.
BeginDrain ==
    /\ drain = "idle"
    /\ drain' = "read"
    /\ start' = Present
    /\ seen' = {} /\ keys' = {} /\ res' = [k \in Cgroups |-> {}]
    /\ UNCHANGED <<events, owner, kernel, probes, reported>>

\* it.Next: a key and its value now.
ReadEntry(k) ==
    /\ drain = "read" /\ k \in Present \ seen
    /\ res' = [res EXCEPT ![k] = value[SlotOf(k)]]
    /\ seen' = seen \cup {k} /\ keys' = keys \cup {k}
    /\ UNCHANGED <<events, owner, kernel, probes, drain, start, reported>>

\* Variant: every key of the map is deleted (table.clear), also one that was
\* inserted after the iteration.
EndIterationClear ==
    /\ drain = "read" /\ start \subseteq seen
    /\ drain' = "delete"
    /\ keys' = Present
    /\ UNCHANGED <<events, owner, kernel, probes, start, res, seen, reported>>

\* The iteration ends: it has met every key it started with, and any number of
\* keys inserted meanwhile.
EndIteration ==
    /\ drain = "read" /\ start \subseteq seen
    /\ drain' = "delete"
    /\ UNCHANGED <<events, owner, kernel, probes, start, res, keys, seen, reported>>

\* Variant: an entry read but left in the map.
DeleteEntrySkipped(k) ==
    /\ drain = "delete" /\ k \in keys
    /\ keys' = keys \ {k}
    /\ UNCHANGED <<events, owner, kernel, probes, drain, start, res, seen, reported>>

\* m.Delete(&keys[i]); the element's bytes stay until it is reused.
DeleteEntry(k) ==
    /\ drain = "delete" /\ k \in keys
    /\ keys' = keys \ {k}
    /\ key' = [s \in Slots |-> IF key[s] = k THEN NoCg ELSE key[s]]
    /\ UNCHANGED <<events, owner, value, probes, drain, start, res, seen, reported>>

\* drainMap returns res; Emit reports the window.
Report ==
    /\ drain = "delete" /\ keys = {}
    /\ drain' = "idle"
    /\ reported' = [k \in Cgroups |-> reported[k] \cup res[k]]
    /\ res' = [k \in Cgroups |-> {}]
    /\ UNCHANGED <<events, owner, kernel, probes, start, keys, seen>>

Next ==
    \/ \E c \in CPUs :
          (\E k \in Cgroups : Lookup(c, k)) \/ FetchAndAdd(c) \/ UpdateNoExist(c)
    \/ BeginDrain \/ EndIteration \/ Report
    \/ \E k \in Cgroups : ReadEntry(k) \/ DeleteEntry(k)

Spec == Init /\ [][Next]_vars

-----------------------------------------------------------------------------
(* Properties.                                                              *)

\* Types of the state; INCR adds only through a pointer that is not null.
TypeOK ==
    /\ events \in 0..MaxEvents /\ owner \in [Events -> Cgroups \cup {NoCg}]
    /\ key \in [Slots -> Cgroups \cup {NoCg}] /\ value \in [Slots -> SUBSET Events]
    /\ cpu \in [CPUs -> {"idle", "add", "insert"}]
    /\ event \in [CPUs -> 0..MaxEvents] /\ ptr \in [CPUs -> Slots \cup {NoSlot}]
    /\ \A c \in CPUs : cpu[c] = "add" => ptr[c] \in Slots
    /\ drain \in {"idle", "read", "delete"}
    /\ start \subseteq Cgroups /\ keys \subseteq Cgroups /\ seen \subseteq Cgroups
    /\ res \in [Cgroups -> SUBSET Events] /\ reported \in [Cgroups -> SUBSET Events]

\* Events that a live element counts and that no drain has read yet.
InMap(k) == UNION {value[s] : s \in {x \in Slots : key[x] = k /\ k \notin keys}}

\* No event is counted twice: it is in one window of one cgroup at most, and
\* once reported or read it is in no counter that a later window will report
\* (INCR on several CPUs against drainMap's read-then-delete).
NoDoubleCount ==
    \A k, l \in Cgroups :
        /\ reported[k] \cap res[l] = {}
        /\ reported[k] \cap InMap(l) = {} /\ res[k] \cap InMap(l) = {}
        /\ k # l => /\ reported[k] \cap reported[l] = {}
                    /\ res[k] \cap res[l] = {} /\ InMap(k) \cap InMap(l) = {}

\* "Deletion gives per-window deltas" (main.go:131): the windows add up, every
\* event is reported or still in the map once no INCR and no drain is running.
NothingLost ==
    drain = "idle" /\ (\A c \in CPUs : cpu[c] = "idle") =>
        \A e \in 1..events : \E k \in Cgroups : e \in reported[k] \cup InMap(k)

=============================================================================
