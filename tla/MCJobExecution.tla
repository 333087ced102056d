----------------------------- MODULE MCJobExecution -----------------------------
(*****************************************************************************)
(* Finite instances of JobExecution for TLC.                                 *)
(*****************************************************************************)
EXTENDS JobExecution, TLC

Symmetry == Permutations(Workers) \cup Permutations(Pids)
===============================================================================
