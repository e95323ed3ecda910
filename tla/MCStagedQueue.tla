--------------------------- MODULE MCStagedQueue ---------------------------
(***************************************************************************)
(* Small instances of StagedQueue for TLC.                                 *)
(***************************************************************************)
EXTENDS StagedQueue, TLC

FullJobs == Permutations(Jobs \ Partial)
=============================================================================
