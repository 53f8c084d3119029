----------------------------- MODULE KernelProbes -----------------------------
(***************************************************************************)
(* The counting programs of collector-go/bpf/collector.bpf.c, the on-CPU    *)
(* clock of tp_switch, and drain in collector-go/main.go, which empties one *)
(* map after the other while the programs go on counting.                   *)
(*                                                                         *)
(* Here INCR and the drain of one map are single steps; CounterMap has      *)
(* their inner steps, and BlockIO has the disk latency.  Values are u64,    *)
(* scaled to Wrap.  Rates are sums that the window length divides.          *)
(***************************************************************************)
EXTENDS Integers, Sequences, FiniteSets, ProbeContext

CONSTANTS
    Cores,          \* the CPUs whose switches are timed
    Wrap,           \* 2^64
    TrackedMax,     \* max_entries of cpu_last
    Sizes,          \* byte counts the kernel passes to a program
    MaxHits,        \* bound: hits of the counting programs
    MaxRuns,        \* bound: hits and context switches together
    MaxTime,        \* bound: nanoseconds of the clock
    MaxEmits        \* bound: windows

ASSUME ProbesAssumption ==
    /\ Wrap \in Nat \ {0} /\ TrackedMax \in Nat
    /\ \A n \in Sizes : n \in Int
    /\ {MaxHits, MaxRuns, MaxTime, MaxEmits} \subseteq Nat

\* drain: the maps in the order they are emptied, each with its feature.
drainOrder == <<
    [map |-> "c_read",    feat |-> "syscall_read_rate"],
    [map |-> "c_write",   feat |-> "syscall_write_rate"],
    [map |-> "c_open",    feat |-> "syscall_open_rate"],
    [map |-> "c_tcpconn", feat |-> "tcp_connect_rate"],
    [map |-> "c_tcpretx", feat |-> "tcp_retransmit_rate"],
    [map |-> "c_netrx",   feat |-> "network_rx_bytes"],
    [map |-> "c_nettx",   feat |-> "network_tx_bytes"],
    [map |-> "c_diskr",   feat |-> "disk_read_bytes"],
    [map |-> "c_diskw",   feat |-> "disk_write_bytes"],
    [map |-> "c_exec",    feat |-> "process_exec_count"],
    [map |-> "c_fork",    feat |-> "process_fork_count"],
    [map |-> "c_ctxsw",   feat |-> "context_switch_count"],
    [map |-> "c_cpu",     feat |-> "cpu_utilization"] >>

Maps == {drainOrder[i].map : i \in DOMAIN drainOrder}
Features == {drainOrder[i].feat : i \in DOMAIN drainOrder}

\* Programs that count calls, with their map.
counting == [
    tp_read |-> "c_read", tp_write |-> "c_write",
    tp_open |-> "c_open", tp_openat |-> "c_open",
    tp_exec |-> "c_exec", tp_fork |-> "c_fork",
    k_tcp_v4_connect |-> "c_tcpconn", k_tcp_v6_connect |-> "c_tcpconn",
    k_tcp_retransmit_skb |-> "c_tcpretx"]

VARIABLES
    running,     \* per CPU: cgroup of the task that is current
    clock,       \* bpf_ktime_get_ns
    cpu_last,    \* per CPU that has an entry: time of its last switch
    counter,     \* per map and cgroup: the value, 0 for no entry
    drainAt,     \* number of maps emptied for the current window
    per,         \* per feature and cgroup: drain's result so far
    emitted,     \* history: per feature and cgroup, the sum over the windows
    emits, hits, switches,
    happened,    \* history: per feature and cgroup, what the programs were told
    onCpu        \* history: per cgroup, time on the Cores that have an entry

world      == <<running, clock>>
kernelMaps == <<cpu_last, counter>>
window     == <<drainAt, per, emitted, emits>>
history    == <<hits, switches, happened, onCpu>>
probeVars  == <<world, kernelMaps, window, history>>

Zero(S) == [x \in S |-> [k \in Cgroups |-> 0]]

ProbesInit ==
    /\ running \in [Cores -> Cgroups]
    /\ clock = 0 /\ cpu_last = <<>> /\ counter = Zero(Maps)
    /\ drainAt = 0 /\ per = Zero(Features) /\ emitted = Zero(Features)
    /\ emits = 0 /\ hits = 0 /\ switches = 0
    /\ happened = Zero(Features) /\ onCpu = [k \in Cgroups |-> 0]

INCR(map, k, delta) == [counter EXCEPT ![map][k] = (@ + delta) % Wrap]

-----------------------------------------------------------------------------
(* The counting programs, in the cgroup that is current on their CPU.  A    *)
(* kprobe that attachAll had to skip never fires, which the model includes. *)

\* One hit of a program: what it counts, and what the kernel told it.
Hit(c, map, delta, feat, n) ==
    /\ hits < MaxHits /\ hits + switches < MaxRuns /\ hits' = hits + 1
    /\ counter' = INCR(map, running[c], delta)
    /\ happened' = [happened EXCEPT ![feat][running[c]] = @ + n]
    /\ UNCHANGED <<world, cpu_last, window, switches, onCpu>>

\* What a call of each program's hook is an occurrence of.
Occurrence(prog) ==
    CASE prog = "tp_read" -> "syscall_read_rate"
      [] prog = "tp_write" -> "syscall_write_rate"
      [] prog \in {"tp_open", "tp_openat"} -> "syscall_open_rate"
      [] prog = "tp_exec" -> "process_exec_count"
      [] prog = "tp_fork" -> "process_fork_count"
      [] prog \in {"k_tcp_v4_connect", "k_tcp_v6_connect"} -> "tcp_connect_rate"
      [] prog = "k_tcp_retransmit_skb" -> "tcp_retransmit_rate"

Count(c, prog) ==
    Hit(c, counting[prog], 1, Occurrence(prog), 1)

k_tcp_sendmsg(c, size) ==
    /\ size >= 0
    /\ Hit(c, "c_nettx", size, "network_tx_bytes", size)

\* Variant: copied is not tested.
k_tcp_cleanup_rbuf_untested(c, copied) ==
    Hit(c, "c_netrx", copied, "network_rx_bytes", IF copied > 0 THEN copied ELSE 0)

\* copied is a signed int; nothing is counted unless it is positive.
k_tcp_cleanup_rbuf(c, copied) ==
    /\ copied > 0
    /\ Hit(c, "c_netrx", copied, "network_rx_bytes", copied)

\* The byte counters of tp_block_issue: 'W' or 'w' is a write, all else a read.
tp_block_issue(c, nbytes, rw) ==
    /\ nbytes >= 0
    /\ IF rw = "W" THEN Hit(c, "c_diskw", nbytes, "disk_write_bytes", nbytes)
                   ELSE Hit(c, "c_diskr", nbytes, "disk_read_bytes", nbytes)

-----------------------------------------------------------------------------
(* On-CPU time.                                                             *)

Tracked == DOMAIN cpu_last

\* Time passes: every tracked CPU's current task has run for it.
Tick ==
    /\ clock < MaxTime /\ clock' = clock + 1
    /\ onCpu' = [k \in Cgroups |->
                    onCpu[k] + Cardinality({c \in Tracked : running[c] = k})]
    /\ UNCHANGED <<running, kernelMaps, window, hits, switches, happened>>

\* cpu_last[cpu] = now, BPF_ANY: fails only for a new CPU in a full map.
UpdateLast(c) ==
    IF c \in Tracked \/ Cardinality(Tracked) < TrackedMax
    THEN [x \in Tracked \cup {c} |-> IF x = c THEN clock ELSE cpu_last[x]]
    ELSE cpu_last

\* Variant: cpu_last is set only once.
tp_switch_once(c, k) ==
    /\ hits + switches < MaxRuns /\ switches' = switches + 1
    /\ LET cg == running[c]
           slice == IF c \in Tracked THEN clock - cpu_last[c] ELSE 0
       IN  /\ counter' = [counter EXCEPT !["c_ctxsw"][cg] = (@ + 1) % Wrap,
                                         !["c_cpu"][cg] = (@ + slice) % Wrap]
           /\ happened' = [happened EXCEPT !["context_switch_count"][cg] = @ + 1]
    /\ cpu_last' = IF c \in Tracked THEN cpu_last ELSE UpdateLast(c)
    /\ running' = [running EXCEPT ![c] = k]
    /\ UNCHANGED <<clock, window, hits, onCpu>>

\* sched_switch fires while the task that leaves CPU c is still current; a task
\* of cgroup k is next.  The time since the CPU's last switch goes to the one
\* that leaves; the first switch of a CPU only sets cpu_last.
tp_switch(c, k) ==
    /\ hits + switches < MaxRuns /\ switches' = switches + 1
    /\ LET cg == running[c]
           slice == IF c \in Tracked THEN clock - cpu_last[c] ELSE 0
       IN  /\ counter' = [counter EXCEPT !["c_ctxsw"][cg] = (@ + 1) % Wrap,
                                         !["c_cpu"][cg] = (@ + slice) % Wrap]
           /\ happened' = [happened EXCEPT !["context_switch_count"][cg] = @ + 1]
    /\ cpu_last' = UpdateLast(c)
    /\ running' = [running EXCEPT ![c] = k]
    /\ UNCHANGED <<clock, window, hits, onCpu>>

-----------------------------------------------------------------------------
(* drain and Emit.                                                          *)

\* Variant: the map is read and left as it is.
DrainNextKeeps ==
    /\ drainAt < Len(drainOrder) /\ emits < MaxEmits
    /\ drainAt' = drainAt + 1
    /\ per' = [per EXCEPT ![drainOrder[drainAt + 1].feat] =
                  counter[drainOrder[drainAt + 1].map]]
    /\ UNCHANGED <<world, kernelMaps, emitted, emits, history>>

\* drainMap of the next map, and its values in per.
DrainNext ==
    /\ drainAt < Len(drainOrder) /\ emits < MaxEmits
    /\ drainAt' = drainAt + 1
    /\ LET next == drainOrder[drainAt + 1]
       IN  /\ per' = [per EXCEPT ![next.feat] = counter[next.map]]
           /\ counter' = [counter EXCEPT ![next.map] = [k \in Cgroups |-> 0]]
    /\ UNCHANGED <<world, cpu_last, emitted, emits, history>>

\* drain returns and Emit writes the window.
EmitWindow ==
    /\ drainAt = Len(drainOrder)
    /\ drainAt' = 0 /\ emits' = emits + 1
    /\ emitted' = [f \in Features |-> [k \in Cgroups |-> emitted[f][k] + per[f][k]]]
    /\ per' = Zero(Features)
    /\ UNCHANGED <<world, kernelMaps, history>>

ProbesNext ==
    \/ \E c \in Cores :
          \/ \E prog \in DOMAIN counting : Count(c, prog)
          \/ \E n \in Sizes : k_tcp_sendmsg(c, n) \/ k_tcp_cleanup_rbuf(c, n)
          \/ \E n \in Sizes, rw \in {"R", "W"} : tp_block_issue(c, n, rw)
          \/ \E k \in Cgroups : tp_switch(c, k)
    \/ Tick \/ DrainNext \/ EmitWindow

ProbesSpec == ProbesInit /\ [][ProbesNext]_probeVars

-----------------------------------------------------------------------------
(* Properties.                                                              *)

mapOf ==
    [f \in Features |->
        drainOrder[CHOOSE i \in DOMAIN drainOrder : drainOrder[i].feat = f].map]

\* What cgroup k got for feature f, in windows and still on the way.
Accounted(f, k) == emitted[f][k] + per[f][k] + counter[mapOf[f]][k]

\* Every count and byte the kernel reported is in exactly one window of its own
\* feature and cgroup, however programs interleave with a drain that empties
\* the maps one after the other (bpf programs, drain; INCR without losses).
CountsAddUp ==
    \A f \in Features \ {"cpu_utilization"}, k \in Cgroups : Accounted(f, k) = happened[f][k]

\* The nanoseconds that tasks of k have run since the last switch of their CPU.
OpenTime(k) ==
    {x \in Tracked \X (1..clock) : running[x[1]] = k /\ x[2] > cpu_last[x[1]]}
OpenSlices(k) == Cardinality(OpenTime(k))

\* On-CPU time is conserved: over all windows a cgroup is credited with the time
\* its tasks ran on the Cores in cpu_last since their first switch, except the
\* slices that still run, which a later window gets in full even when they are
\* longer than it (tp_switch, cpu_utilization).
OnCpuAccounted ==
    \A k \in Cgroups :
        Accounted("cpu_utilization", k) + OpenSlices(k) = onCpu[k]

=============================================================================
