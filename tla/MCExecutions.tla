---------------------------- MODULE MCExecutions ----------------------------
(* Small instances of Executions for TLC. *)
EXTENDS Executions, TLC

Symmetry == Permutations(Ids) \cup Permutations(Slots)
=============================================================================
