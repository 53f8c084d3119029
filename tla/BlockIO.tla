------------------------------- MODULE BlockIO --------------------------------
(***************************************************************************)
(* Disk latency: tp_block_issue and tp_block_complete of                    *)
(* collector-go/bpf/collector.bpf.c on several CPUs, with the in-flight     *)
(* tables disk_start and disk_cg they share, and the part of drain in       *)
(* collector-go/main.go that empties c_disklat and then c_diskio.           *)
(*                                                                         *)
(* A request is the number of its issue, in the order of the start times.   *)
(* An entry of a table is named by the request that wrote it: it holds that *)
(* request's start time, or its cgroup.  The tables are keyed by the sector *)
(* alone, so that requests of two disks can meet in one entry.              *)
(*                                                                         *)
(* INCR is one step here; CounterMap has its inner steps and what it can    *)
(* lose.  The byte counters of tp_block_issue are in KernelProbes.          *)
(***************************************************************************)
EXTENDS Naturals, Sequences, FiniteSets, ProbeContext

CONSTANTS
    Sectors,
    InFlightMax,   \* max_entries of disk_start and of disk_cg
    MaxRequests,   \* bound: requests issued
    MaxWindows     \* bound: windows drained

Requests == 1..MaxRequests

ASSUME BlockAssumption ==
    InFlightMax \in Nat \ {0} /\ MaxRequests \in Nat /\ MaxWindows \in Nat

VARIABLES
    issued,       \* requests issued so far
    sector,       \* per request: its sector
    flying,       \* requests the devices are working on
    mixed,        \* history: requests that shared their sector while in flight
    dropped,      \* history: requests one of whose table updates failed
    missed,       \* history: requests whose completion found no entries
    disk_start, disk_cg,  \* per sector: the request that wrote the entry, or 0
    handler,      \* per CPU: the next step of the program running there
    rq,           \* per CPU: the request it runs for
    tsp, cgp,     \* per CPU: the entries its lookups returned, 0 for NULL;
                  \* once dereferenced, the requests whose values were read
    latWindow, ioWindow,    \* per CPU: the windows that its latency and its
                            \* completion were counted in, 0 for not yet
    latDrained, ioDrained   \* windows for which each counter was drained

tables   == <<disk_start, disk_cg>>
program  == <<handler, rq, tsp, cgp, latWindow, ioWindow>>
requests == <<issued, sector, flying, mixed, dropped, missed>>
drained  == <<latDrained, ioDrained>>
windows  == <<latWindow, ioWindow>>
diskVars == <<requests, tables, program, drained>>

DiskInit ==
    /\ issued = 0 /\ sector = <<>>
    /\ flying = {} /\ mixed = {} /\ dropped = {} /\ missed = {}
    /\ disk_start = [s \in Sectors |-> 0] /\ disk_cg = [s \in Sectors |-> 0]
    /\ handler = [c \in CPUs |-> "idle"] /\ rq = [c \in CPUs |-> 0]
    /\ tsp = [c \in CPUs |-> 0] /\ cgp = [c \in CPUs |-> 0]
    /\ latWindow = [c \in CPUs |-> 0] /\ ioWindow = [c \in CPUs |-> 0]
    /\ latDrained = 0 /\ ioDrained = 0

Continue(c, step) == handler' = [handler EXCEPT ![c] = step]

\* The program returns; its locals are gone.
Exit(c) ==
    /\ Continue(c, "idle")
    /\ rq' = [rq EXCEPT ![c] = 0]
    /\ latWindow' = [latWindow EXCEPT ![c] = 0] /\ ioWindow' = [ioWindow EXCEPT ![c] = 0]
    /\ tsp' = [tsp EXCEPT ![c] = 0] /\ cgp' = [cgp EXCEPT ![c] = 0]

\* Requests a device or a running program is dealing with.
Live == (flying \cup {rq[c] : c \in CPUs}) \ {0}

-----------------------------------------------------------------------------
(* tp_block_issue.                                                          *)

\* A request for sector s is issued; the program reads the cgroup, the sector
\* and the time.
Issue(c, s) ==
    /\ handler[c] = "idle" /\ issued < MaxRequests
    /\ LET r == issued + 1
           others == {q \in Live : sector[q] = s}
       IN  /\ issued' = r
           /\ sector' = Append(sector, s)
           /\ mixed' = IF others = {} THEN mixed ELSE mixed \cup others \cup {r}
           /\ rq' = [rq EXCEPT ![c] = r]
    /\ Continue(c, "start")
    /\ UNCHANGED <<flying, dropped, missed, tables, tsp, cgp, windows, drained>>

\* bpf_map_update_elem(BPF_ANY) of one table: replaces the sector's entry, or
\* creates it unless the table is full.
CanUpdate(table, s) ==
    \/ table[s] # 0
    \/ Cardinality({x \in Sectors : table[x] # 0}) < InFlightMax

UpdateStart(c) ==
    /\ handler[c] = "start"
    /\ LET r == rq[c]
           s == sector[r]
       IN  IF CanUpdate(disk_start, s)
           THEN /\ disk_start' = [disk_start EXCEPT ![s] = r]
                /\ UNCHANGED dropped
           ELSE /\ dropped' = dropped \cup {r}
                /\ UNCHANGED disk_start
    /\ Continue(c, "cg")
    /\ UNCHANGED <<issued, sector, flying, mixed, missed, disk_cg,
                   rq, tsp, cgp, windows, drained>>

\* Variant: disk_cg written with BPF_NOEXIST.
UpdateCgNoExist(c) ==
    /\ handler[c] = "cg"
    /\ LET r == rq[c]
           s == sector[r]
       IN  /\ IF disk_cg[s] = 0 /\ CanUpdate(disk_cg, s)
              THEN /\ disk_cg' = [disk_cg EXCEPT ![s] = r]
                   /\ UNCHANGED dropped
              ELSE /\ dropped' = dropped \cup {r}
                   /\ UNCHANGED disk_cg
           /\ flying' = flying \cup {r}
    /\ Exit(c)
    /\ UNCHANGED <<issued, sector, mixed, missed, disk_start, drained>>

\* The second table; then the request goes to the device.
UpdateCg(c) ==
    /\ handler[c] = "cg"
    /\ LET r == rq[c]
           s == sector[r]
       IN  /\ IF CanUpdate(disk_cg, s)
              THEN /\ disk_cg' = [disk_cg EXCEPT ![s] = r]
                   /\ UNCHANGED dropped
              ELSE /\ dropped' = dropped \cup {r}
                   /\ UNCHANGED disk_cg
           /\ flying' = flying \cup {r}
    /\ Exit(c)
    /\ UNCHANGED <<issued, sector, mixed, missed, disk_start, drained>>

-----------------------------------------------------------------------------
(* tp_block_complete.                                                       *)

\* A request completes, on any CPU: lookup in disk_start.
LookupStart(c, r) ==
    /\ handler[c] = "idle" /\ r \in flying
    /\ flying' = flying \ {r}
    /\ rq' = [rq EXCEPT ![c] = r]
    /\ tsp' = [tsp EXCEPT ![c] = disk_start[sector[r]]]
    /\ Continue(c, "lookup")
    /\ UNCHANGED <<issued, sector, mixed, dropped, missed, tables,
                   cgp, windows, drained>>

\* Lookup in disk_cg; the program goes on only if both entries were there.
LookupCg(c) ==
    /\ handler[c] = "lookup"
    /\ LET found == disk_cg[sector[rq[c]]]
       IN  IF tsp[c] # 0 /\ found # 0
           THEN /\ cgp' = [cgp EXCEPT ![c] = found]
                /\ Continue(c, "delta")
                /\ UNCHANGED <<missed, rq, tsp, windows>>
           ELSE /\ missed' = missed \cup {rq[c]}
                /\ Exit(c)
    /\ UNCHANGED <<issued, sector, flying, mixed, dropped, tables, drained>>

\* What a pointer returned by a lookup points to: the entry, while it is in the
\* table; afterwards the element may hold whatever was written to it since.
Deref(table, s, entry) == IF table[s] = entry THEN {entry} ELSE 1..issued

\* delta = bpf_ktime_get_ns() - *tsp.
ReadStart(c) ==
    /\ handler[c] = "delta"
    /\ \E q \in Deref(disk_start, sector[rq[c]], tsp[c]) :
          tsp' = [tsp EXCEPT ![c] = q]
    /\ Continue(c, "lat")
    /\ UNCHANGED <<requests, tables, rq, cgp, windows, drained>>

\* cg = *cgp; INCR(c_disklat, cg, delta): counted in the window that is open for
\* c_disklat.
CountLatency(c) ==
    /\ handler[c] = "lat"
    /\ \E q \in Deref(disk_cg, sector[rq[c]], cgp[c]) : cgp' = [cgp EXCEPT ![c] = q]
    /\ latWindow' = [latWindow EXCEPT ![c] = latDrained + 1]
    /\ Continue(c, "io")
    /\ UNCHANGED <<requests, tables, rq, tsp, ioWindow, drained>>

\* INCR(c_diskio, cg, 1).
CountIo(c) ==
    /\ handler[c] = "io"
    /\ ioWindow' = [ioWindow EXCEPT ![c] = ioDrained + 1]
    /\ Continue(c, "del_start")
    /\ UNCHANGED <<requests, tables, rq, tsp, cgp, latWindow, drained>>

DeleteStart(c) ==
    /\ handler[c] = "del_start"
    /\ disk_start' = [disk_start EXCEPT ![sector[rq[c]]] = 0]
    /\ Continue(c, "del_cg")
    /\ UNCHANGED <<requests, disk_cg, rq, tsp, cgp, windows, drained>>

DeleteCg(c) ==
    /\ handler[c] = "del_cg"
    /\ disk_cg' = [disk_cg EXCEPT ![sector[rq[c]]] = 0]
    /\ Exit(c)
    /\ UNCHANGED <<requests, disk_start, drained>>

-----------------------------------------------------------------------------
(* drain: drainMap(c_disklat), then drainMap(c_diskio).                     *)

\* Variant: the two maps drained independently.
DrainLatencyTwice ==
    /\ latDrained < MaxWindows
    /\ latDrained' = latDrained + 1
    /\ UNCHANGED <<requests, tables, program, ioDrained>>

DrainLatency ==
    /\ latDrained = ioDrained /\ latDrained < MaxWindows
    /\ latDrained' = latDrained + 1
    /\ UNCHANGED <<requests, tables, program, ioDrained>>

DrainIo ==
    /\ ioDrained < latDrained
    /\ ioDrained' = ioDrained + 1
    /\ UNCHANGED <<requests, tables, program, latDrained>>

DiskNext ==
    \/ \E c \in CPUs :
          \/ \E s \in Sectors : Issue(c, s)
          \/ UpdateStart(c) \/ UpdateCg(c)
          \/ \E r \in flying : LookupStart(c, r)
          \/ LookupCg(c) \/ ReadStart(c) \/ CountLatency(c) \/ CountIo(c)
          \/ DeleteStart(c) \/ DeleteCg(c)
    \/ DrainLatency \/ DrainIo

DiskSpec == DiskInit /\ [][DiskNext]_diskVars

-----------------------------------------------------------------------------
(* Properties.                                                              *)

Found == {"delta", "lat", "io", "del_start", "del_cg"}

\* Types of the state; a completion that goes on has found both entries, so that
\* no null pointer is dereferenced (tp_block_complete).
DiskTypeOK ==
    /\ issued \in 0..MaxRequests /\ sector \in [1..issued -> Sectors]
    /\ flying \subseteq 1..issued /\ mixed \subseteq 1..issued
    /\ dropped \subseteq 1..issued /\ missed \subseteq 1..issued
    /\ disk_start \in [Sectors -> 0..issued] /\ disk_cg \in [Sectors -> 0..issued]
    /\ handler \in [CPUs -> {"idle", "start", "cg", "lookup"} \cup Found]
    /\ rq \in [CPUs -> 0..issued]
    /\ tsp \in [CPUs -> 0..issued] /\ cgp \in [CPUs -> 0..issued]
    /\ latWindow \in [CPUs -> 0..(MaxWindows + 1)]
    /\ ioWindow \in [CPUs -> 0..(MaxWindows + 1)]
    /\ latDrained \in 0..MaxWindows /\ ioDrained \in 0..MaxWindows
    /\ \A c \in CPUs :
          /\ handler[c] # "idle" => rq[c] # 0
          /\ handler[c] \in Found => tsp[c] # 0 /\ cgp[c] # 0

\* A completion is credited with a latency counted from its own start, to the
\* cgroup that issued it, unless another request of the sector was in flight at
\* the same time; and it goes uncredited only if a table was full
\* (tp_block_issue and tp_block_complete on several CPUs, whatever earlier
\* requests left in the tables).
ExactAttribution ==
    /\ \A c \in CPUs :
          rq[c] \notin mixed =>
              /\ handler[c] \in {"lat", "io", "del_start", "del_cg"} => tsp[c] = rq[c]
              /\ handler[c] \in {"io", "del_start", "del_cg"} => cgp[c] = rq[c]
    /\ missed \subseteq mixed \cup dropped

\* A window divides latencies by completions.  Because INCR(c_disklat) precedes
\* INCR(c_diskio) and c_disklat is drained first, a completion can be counted in
\* an earlier window than its latency, but by one window at most (drain,
\* main.go:182-191).
LatencyNotLate == \A c \in CPUs : ioWindow[c] # 0 => latWindow[c] <= ioWindow[c] + 1

=============================================================================
