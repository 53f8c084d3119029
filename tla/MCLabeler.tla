------------------------------ MODULE MCLabeler -------------------------------
(* Two models and two batches of one group for TLC.                          *)
EXTENDS DistillLabeler

CONSTANTS m1, m2, q1, q2

MCBatches == <<{q1}, {q2}>>
=============================================================================
