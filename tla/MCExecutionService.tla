------------------------- MODULE MCExecutionService -------------------------
(* Instances of ExecutionService for TLC.                                  *)
EXTENDS ExecutionService, TLC

(* Calls of Start are interchangeable.                                     *)
RunSymmetry == Permutations(Runs)
=============================================================================
