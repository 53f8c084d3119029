-------------------------- MODULE MCFeatureArchive ---------------------------
(* Small instances of FeatureArchive for TLC.                               *)
EXTENDS FeatureArchive

CONSTANTS t1, t2
=============================================================================
