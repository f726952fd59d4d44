--------------------------- MODULE MCPlanExecutor ---------------------------
(***************************************************************************)
(* Plans for the runs of PlanExecutor, cut down from the guided default    *)
(* plan of planner.go: retrievals that run in parallel, a step that needs  *)
(* a confirmation, a step that depends on others.                          *)
(***************************************************************************)
EXTENDS PlanExecutor, TLC

Retrieval ==
  [deps |-> {}, parallelizable |-> TRUE, risk |-> "low", checkpoint |-> FALSE,
   sandbox |-> FALSE, research |-> TRUE, grounded |-> TRUE, cost |-> 1,
   maxAttempts |-> 1]

(* Callers are interchangeable; the run with a liveness property does not  *)
(* use this.                                                               *)
CallerSymmetry == Permutations(Callers)

(* A confirmation inside a batch of two, and a second batch that overruns  *)
(* a budget of two tool calls or three cents.                              *)
GuidedPlan ==
  << Retrieval,
     [Retrieval EXCEPT !.risk = "medium", !.grounded = FALSE, !.cost = 2],
     [Retrieval EXCEPT !.deps = {1}, !.grounded = FALSE, !.maxAttempts = 2] >>

(* Two sandbox steps, of which one needs approval even in the autonomous   *)
(* mode, a step behind it that the mode lets pass, and a step whose        *)
(* dependency no step provides (the executor's "dependency_deadlock").     *)
SandboxPlan ==
  << [Retrieval EXCEPT !.sandbox = TRUE, !.maxAttempts = 2],
     [Retrieval EXCEPT !.sandbox = TRUE, !.checkpoint = TRUE, !.grounded = FALSE],
     [Retrieval EXCEPT !.deps = {2}, !.risk = "high", !.parallelizable = FALSE],
     [Retrieval EXCEPT !.deps = {9}] >>
=============================================================================
