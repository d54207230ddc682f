--------------------------- MODULE MCAnalysisJobs ---------------------------
(* Small instances of AnalysisJobs for TLC. *)
EXTENDS AnalysisJobsProps, TLC

CONSTANTS j1, j2

Symmetry == Permutations(Jobs)
=============================================================================
