------------------------------ MODULE MCRunQueue ------------------------------
(***************************************************************************)
(* Small instances of RunQueue for TLC.                                    *)
(***************************************************************************)
EXTENDS RunQueue, TLC

Workers == Permutations(Worker)
=============================================================================
