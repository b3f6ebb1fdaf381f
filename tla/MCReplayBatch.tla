---------------------------- MODULE MCReplayBatch ----------------------------
(***************************************************************************)
(* Small instances of ReplayBatch for TLC.                                 *)
(***************************************************************************)
EXTENDS ReplayBatch, TLC

Symmetric == Permutations(Worker) \cup Permutations(Enqueuer)
=============================================================================
