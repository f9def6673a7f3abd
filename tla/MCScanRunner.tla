---------------------------- MODULE MCScanRunner ----------------------------
(* ScanRunner for TLC: the job ids are interchangeable. *)
EXTENDS ScanRunner, TLC

RunnerSymmetry == Permutations(Jobs)
=============================================================================
