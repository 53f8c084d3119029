------------------------------- MODULE MCKernel -------------------------------
(* Small instances of CounterRaces, BlockIO and KernelProbes for TLC.  The   *)
(* three share no state: a behaviour exercises one of them while the others  *)
(* stay in an initial state, so that one run covers the three state spaces   *)
(* one beside the other and not their product.                               *)
EXTENDS CounterRaces, BlockIO, KernelProbes, TLC

CONSTANTS c1, c2, c3, g1, g2, s1, s2

MCSizes == {-1, 0, 2}

\* CPUs and cores, elements and sectors are named alike: no state is shared, so
\* one permutation serves the module that the behaviour exercises.
Symmetry == Permutations(CPUs) \cup Permutations(Cgroups) \cup Permutations(Slots)

VARIABLE component   \* the one this behaviour exercises

\* The tasks on all CPUs are of one cgroup: the initial state of KernelProbes
\* beside which the others run.
ProbesRest == \E k \in Cgroups : running = [c \in Cores |-> k]

KernelInit ==
    /\ RaceInit /\ DiskInit /\ ProbesInit
    /\ component \in {"counter", "disk", "probes"}
    /\ component # "probes" => ProbesRest

KernelNext ==
    /\ UNCHANGED component
    /\ \/ component = "counter" /\ RaceNext /\ UNCHANGED <<diskVars, probeVars>>
       \/ component = "disk" /\ DiskNext /\ UNCHANGED <<raceVars, probeVars>>
       \/ component = "probes" /\ ProbesNext /\ UNCHANGED <<raceVars, diskVars>>

KernelSpec == KernelInit /\ [][KernelNext]_<<component, raceVars, diskVars, probeVars>>
=============================================================================
