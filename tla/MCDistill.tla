------------------------------ MODULE MCDistill -------------------------------
(* Two replicas for TLC.                                                     *)
EXTENDS Distill

CONSTANTS r1, r2
=============================================================================
