-------------------------- MODULE SessionLifecycle --------------------------
(***************************************************************************)
(* The status of an agent session and the transitions the state machine    *)
(* allows (orchestrator/internal/wisdev/state_machine.go).  "searching" is  *)
(* the wire value of SessionExecutingPlan.                                 *)
(***************************************************************************)

SessionStatus ==
  {"questioning", "generating_tree", "editing_tree", "searching",
   "paused", "complete", "failed", "abandoned"}

(* The rows of allowedSessionTransitions.  StatusAbandoned has no row.     *)
AllowedSessionTransitions ==
  [from \in SessionStatus |->
     CASE from = "questioning"     -> {"generating_tree", "paused", "failed"}
       [] from = "generating_tree" -> {"editing_tree", "searching", "paused", "failed"}
       [] from = "editing_tree"    -> {"searching", "paused", "failed"}
       [] from = "searching"       -> {"paused", "complete", "failed"}
       [] from = "paused"          -> {"questioning", "generating_tree",
                                       "editing_tree", "searching", "failed"}
       [] from = "failed"          -> {"paused"}
       [] OTHER                    -> {}]

CanTransition(from, to) == from = to \/ to \in AllowedSessionTransitions[from]

(* transitionSessionStatus with its error ignored, as the executor calls   *)
(* it everywhere but at the start of a run: a refused move keeps the       *)
(* status.                                                                 *)
TransitionSessionStatus(from, to) == IF CanTransition(from, to) THEN to ELSE from
=============================================================================
