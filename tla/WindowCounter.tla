----------------------------- MODULE WindowCounter -----------------------------
(***************************************************************************)
(* What a per-cgroup counter promises (drainMap in collector-go/main.go:    *)
(* "Deletion gives per-window deltas"): an event that is counted belongs to *)
(* one cgroup, stays in its open window until that is reported, and is      *)
(* reported once.  Which events are counted is left open.                   *)
(***************************************************************************)
CONSTANTS Cgroups, Events

VARIABLES
    open,      \* open[k]: events of k that a later report will have
    reports    \* reports[k]: events of k in the windows reported so far

counts == <<open, reports>>

Init == /\ open = [k \in Cgroups |-> {}]
        /\ reports = [k \in Cgroups |-> {}]

\* An event that no cgroup has counted yet.
Count(e, k) ==
    /\ \A l \in Cgroups : e \notin open[l] \cup reports[l]
    /\ open' = [open EXCEPT ![k] = @ \cup {e}]
    /\ UNCHANGED reports

\* A window is reported: some of the open events of every cgroup.
ReportWindow ==
    /\ reports' \in [Cgroups -> SUBSET Events]
    /\ \A k \in Cgroups : /\ reports[k] \subseteq reports'[k]
                          /\ reports'[k] \subseteq reports[k] \cup open[k]
    /\ open' = [k \in Cgroups |-> open[k] \ reports'[k]]

Next == ReportWindow \/ \E e \in Events, k \in Cgroups : Count(e, k)

Spec == Init /\ [][Next]_counts

=============================================================================
