---------------------------- MODULE CounterRaces -----------------------------
(***************************************************************************)
(* CounterMap with a history variable: the INCRs that ended in a race with  *)
(* drainMap, with another INCR or with a full map.  The history constrains  *)
(* nothing; it says which losses the read-then-delete window accounts for.  *)
(***************************************************************************)
EXTENDS CounterMap

VARIABLE raced     \* events whose INCR ended in a race

\* The element of a fetch-and-add has been read by the drain, or is no longer
\* that of the cgroup.
Stale(c) == key[ptr[c]] # owner[event[c]] \/ owner[event[c]] \in keys

\* bpf_map_update_elem fails.
Refused(c) == owner[event[c]] \in Present \/ \A s \in Slots : key[s] # NoCg

Races(c) == (cpu[c] = "add" /\ Stale(c)) \/ (cpu[c] = "insert" /\ Refused(c))

RaceInit == Init /\ raced = {}

RaceNext ==
    /\ Next
    /\ raced' = raced \cup
          {event[c] : c \in {x \in CPUs : cpu'[x] = "idle" /\ Races(x)}}

raceVars == <<vars, raced>>

RaceSpec == RaceInit /\ [][RaceNext]_raceVars

-----------------------------------------------------------------------------
(* Properties.                                                              *)

\* Events of k that are in its windows, in the running drain or still to be read.
Credited(k) == reported[k] \cup res[k] \cup InMap(k)

\* Read-then-delete and the failure of BPF_NOEXIST lose events, but no others:
\* an event whose INCR ended without a race is credited to its own cgroup for
\* good, whatever drains, deletions and reuses of the element come after it
\* (INCR; drainMap, main.go:131).
LostOnlyInRace ==
    \A e \in 1..events :
        \/ e \in raced \/ e \in Credited(owner[e])
        \/ \E c \in CPUs : cpu[c] # "idle" /\ event[c] = e

Windows == INSTANCE WindowCounter
              WITH open <- [k \in Cgroups |-> res[k] \cup InMap(k)],
                   reports <- reported

\* CounterMap implements windows to which an event is counted at one moment and
\* from which it is reported once: no step of any INCR or of drainMap takes an
\* event back, moves it or counts it again (INCR; drainMap, main.go:131).
CountsIntoWindows == Windows!Spec

=============================================================================
