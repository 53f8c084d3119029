-------------------------- MODULE MCDetectorService --------------------------
(* Small instances of DetectorService for TLC.                              *)
EXTENDS DetectorService, TLC

CONSTANTS t1, t2

MCThreads == {t1, t2}
Symmetry == Permutations(MCThreads)
=============================================================================
