----------------------------- MODULE JobOutcome -----------------------------
(***************************************************************************)
(* What an autonomous job promises to whoever reads its journal later: the *)
(* job is accepted once and then decided once.  Only when something went   *)
(* wrong on the way may the journal carry two outcomes, and then one of    *)
(* them is that the job was cancelled.  YoloJob implements it.             *)
(***************************************************************************)
CONSTANTS Outcomes, Cancelled

VARIABLES
  accepted,  \* the job is known
  troubled,  \* something has failed: a panic, a save, the process
  decided    \* the outcomes the journal carries

vars == <<accepted, troubled, decided>>

Init == accepted = FALSE /\ troubled = FALSE /\ decided = {}

Accept == ~accepted /\ accepted' = TRUE /\ UNCHANGED <<troubled, decided>>

Trouble == ~troubled /\ troubled' = TRUE /\ UNCHANGED <<accepted, decided>>

Decide(o) ==
  /\ accepted /\ decided = {}
  /\ decided' = {o} /\ UNCHANGED <<accepted, troubled>>

Contradict(o, p) ==
  /\ troubled /\ decided = {o} /\ o # p /\ Cancelled \in {o, p}
  /\ decided' = {o, p} /\ UNCHANGED <<accepted, troubled>>

Next ==
  \/ Accept \/ Trouble
  \/ \E o \in Outcomes : Decide(o) \/ \E p \in Outcomes : Contradict(o, p)

Spec == Init /\ [][Next]_vars

=============================================================================
