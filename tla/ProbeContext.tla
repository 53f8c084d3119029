----------------------------- MODULE ProbeContext -----------------------------
(***************************************************************************)
(* What every BPF program of collector-go/bpf/collector.bpf.c runs in: the  *)
(* CPU it runs on (bpf_get_smp_processor_id) and the cgroup of the task     *)
(* that is current there (bpf_get_current_cgroup_id).                       *)
(***************************************************************************)
CONSTANTS CPUs, Cgroups
=============================================================================
