---------------------------- MODULE MCCounterMap -----------------------------
(* Small instances of CounterMap for TLC.                                   *)
EXTENDS CounterMap, TLC

CONSTANTS c1, c2, g1, g2, s1, s2

Symmetry == Permutations(CPUs) \cup Permutations(Cgroups) \cup Permutations(Slots)
=============================================================================
