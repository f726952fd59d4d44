-------------------------- MODULE ExecutionService --------------------------
(***************************************************************************)
(* The DurableExecutionService (execution_service.go) for one session: the *)
(* map of cancel functions, the goroutines that Start launches, and the    *)
(* Cancel and Abandon requests that stop them.  A member of Runs is one    *)
(* call of Start and, if the call gets that far, the goroutine it          *)
(* launches.  ExecutionStream adds a client that streams the journal.      *)
(*                                                                         *)
(* The session is reduced to its status; PlanExecutor models its plan.     *)
(* Of the runner this module uses what PlanExecutor shows: it closes its   *)
(* channel only with the session settled (RunSettles).                     *)
(***************************************************************************)
EXTENDS SessionLifecycle, Naturals, FiniteSets

CONSTANTS
  Runs,       \* calls of Start
  NoRun,      \* the map has no entry for the session
  MaxStops,   \* bound: Cancel and Abandon requests
  MaxFaults   \* bound: failing Puts

ASSUME RunsAssumption  == NoRun \notin Runs
ASSUME BoundAssumption == MaxStops \in Nat /\ MaxFaults \in Nat

VARIABLES
  status,      \* the stored session's status
  cancels,     \* the run whose cancel function the map holds, or NoRun
  phase,       \* where each call of Start, and then its goroutine, is
  done,        \* the runs whose context is cancelled
  mem,         \* status of the session copy each run works on
  journal,     \* terminal event types appended to the journal
  stopPhase, stopStatus, stops, faults

runVars  == <<cancels, phase, done, mem>>
stopVars == <<stopPhase, stopStatus, stops>>
vars     == <<status, runVars, journal, stopVars, faults>>

Phase == {"unborn", "read", "prepared", "refused",              \* in Start
          "launched", "running", "failing", "leaving", "gone"}  \* in run
Live(r) == phase[r] \in {"launched", "running", "failing", "leaving"}

TerminalType   == {"completed", "step_failed", "plan_cancelled"}
TerminalStatus == {"complete", "failed", "abandoned"}
Settled        == {"complete", "failed", "paused"}

TypeOK ==
  /\ status \in SessionStatus
  /\ cancels \in Runs \cup {NoRun}
  /\ phase \in [Runs -> Phase] /\ done \subseteq Runs
  /\ mem \in [Runs -> SessionStatus]
  /\ journal \subseteq TerminalType
  /\ stopPhase \in {"none", "read", "stopped"}
  /\ stopStatus \in {"paused", "abandoned"} /\ stops \in 0..MaxStops
  /\ faults \in 0..MaxFaults

Init ==
  /\ status = "questioning" /\ cancels = NoRun
  /\ phase = [r \in Runs |-> "unborn"] /\ done = {}
  /\ mem = [r \in Runs |-> "questioning"] /\ journal = {}
  /\ stopPhase = "none" /\ stopStatus = "paused" /\ stops = 0
  /\ faults = 0

Goto(r, p) == phase' = [phase EXCEPT ![r] = p]

(* The goroutine is done with its copy of the session.                     *)
Forget(r) == mem' = [mem EXCEPT ![r] = "questioning"]

Fault == faults < MaxFaults /\ faults' = faults + 1

-----------------------------------------------------------------------------
(* Start: Get, prepareSessionForExecution, then the map under its lock.    *)

StartRead(r) ==
  /\ phase[r] = "unborn" /\ Goto(r, "read")
  /\ mem' = [mem EXCEPT ![r] = status]
  /\ UNCHANGED <<status, cancels, done, journal, stopVars, faults>>

(* A questioning session is moved on by a Put of the copy just read.       *)
StartPrepare(r) ==
  /\ phase[r] = "read"
  /\ \/ /\ mem[r] # "questioning" /\ Goto(r, "prepared")
        /\ UNCHANGED <<status, mem, faults>>
     \/ /\ mem[r] = "questioning" /\ Goto(r, "prepared")
        /\ mem' = [mem EXCEPT ![r] = "generating_tree"]
        /\ status' = "generating_tree" /\ UNCHANGED faults
     \/ /\ mem[r] = "questioning" /\ Goto(r, "refused")
        /\ Fault /\ UNCHANGED <<status, mem>>
  /\ UNCHANGED <<cancels, done, journal, stopVars>>

(* Faulty variant: the entry is overwritten.                               *)
StartRegisterAlways(r) ==
  /\ phase[r] = "prepared"
  /\ cancels' = r /\ Goto(r, "launched")
  /\ UNCHANGED <<status, done, mem, journal, stopVars, faults>>

StartRegister(r) ==
  /\ phase[r] = "prepared"
  /\ IF cancels = NoRun THEN cancels' = r /\ Goto(r, "launched")
                        ELSE Goto(r, "refused") /\ UNCHANGED cancels
  /\ UNCHANGED <<status, done, mem, journal, stopVars, faults>>

-----------------------------------------------------------------------------
(* The goroutine: run around executeSessionRun.                            *)

RunOnly == UNCHANGED <<cancels, done, stopVars>>

(* executeSessionRun reads its own copy.  By then no stored session is     *)
(* questioning any more: Start has prepared it.                            *)
RunBegin(r) ==
  /\ phase[r] = "launched" /\ Goto(r, "running")
  /\ mem' = [mem EXCEPT ![r] = status]
  /\ RunOnly /\ UNCHANGED <<status, journal, faults>>

(* The runner moves the status of the copy, as the state machine allows.   *)
RunnerMoves(r) ==
  /\ phase[r] = "running"
  /\ \E to \in {"searching", "paused", "complete", "failed"} :
       mem' = [mem EXCEPT ![r] = TransitionSessionStatus(@, to)]
  /\ RunOnly /\ UNCHANGED <<status, phase, journal, faults>>

RunnerEvent == {"progress", "step_failed", "completed", "confirmation_need"}

EventStatus(e, current) ==
  CASE e = "completed"         -> "complete"
    [] e = "step_failed"       -> "failed"
    [] e = "confirmation_need" -> "paused"
    [] OTHER                   -> current

(* An event is applied and journalled ...                                  *)
Journalled(e) == journal' = journal \cup ({e} \cap TerminalType)

(* ... and stored.  select may prefer it to a context that is done, and    *)
(* the in-memory store does not look at the context.                       *)
RunEvent(r) ==
  /\ phase[r] = "running"
  /\ \E e \in RunnerEvent :
       /\ mem' = [mem EXCEPT ![r] = EventStatus(e, @)]
       /\ status' = EventStatus(e, mem[r])
       /\ Journalled(e)
  /\ RunOnly /\ UNCHANGED <<phase, faults>>

(* A Put fails for a fault, or because its context is done.                *)
PutFails(r) ==
  /\ \/ r \in done /\ Goto(r, "leaving") /\ UNCHANGED faults
     \/ r \notin done /\ Goto(r, "failing") /\ Fault
  /\ Forget(r) /\ UNCHANGED status

RunEventPutFails(r) ==
  /\ phase[r] = "running"
  /\ \E e \in RunnerEvent : Journalled(e)
  /\ PutFails(r)
  /\ RunOnly

(* Faulty variant: a done context is noticed and waited on again.          *)
RunCancelledContinues(r) ==
  /\ phase[r] = "running" /\ r \in done
  /\ RunOnly /\ UNCHANGED <<status, phase, mem, journal, faults>>

RunCancelled(r) ==
  /\ phase[r] = "running" /\ r \in done /\ Goto(r, "leaving")
  /\ Forget(r)
  /\ RunOnly /\ UNCHANGED <<status, journal, faults>>

(* The runner has closed the channel: the last Put.                        *)
RunClosed(r) ==
  /\ phase[r] = "running" /\ mem[r] \in Settled
  /\ \/ status' = mem[r] /\ Goto(r, "leaving") /\ Forget(r) /\ UNCHANGED faults
     \/ PutFails(r)
  /\ RunOnly /\ UNCHANGED journal

(* Faulty variant: the error is only logged.                               *)
LogRunFailure(r) ==
  /\ phase[r] = "failing" /\ Goto(r, "leaving")
  /\ RunOnly /\ UNCHANGED <<status, mem, journal, faults>>

(* After an error without a cancellation the stored session is marked      *)
(* failed; that Put may fail as well.                                      *)
PersistRunFailure(r) ==
  /\ phase[r] = "failing" /\ Goto(r, "leaving")
  /\ \/ status' = "failed" /\ UNCHANGED faults
     \/ Fault /\ UNCHANGED status
  /\ RunOnly /\ UNCHANGED <<mem, journal>>

(* Faulty variant: no deferred delete.                                     *)
RunLeaveRegistered(r) ==
  /\ phase[r] = "leaving" /\ Goto(r, "gone")
  /\ done' = done \ {r}
  /\ UNCHANGED <<status, cancels, mem, journal, stopVars, faults>>

(* The deferred delete, whoever's the entry is by now.  The run's context  *)
(* goes with it.                                                           *)
RunLeave(r) ==
  /\ phase[r] = "leaving" /\ Goto(r, "gone")
  /\ cancels' = NoRun /\ done' = done \ {r}
  /\ UNCHANGED <<status, mem, journal, stopVars, faults>>

Run(r) ==
  \/ RunBegin(r) \/ RunnerMoves(r) \/ RunEvent(r) \/ RunEventPutFails(r)
  \/ RunCancelled(r) \/ RunClosed(r) \/ PersistRunFailure(r) \/ RunLeave(r)

-----------------------------------------------------------------------------
(* Cancel and Abandon: Get, stopActive, Put, one journal entry.            *)

StopRead ==
  /\ stopPhase = "none" /\ stops < MaxStops
  /\ stopPhase' = "read" /\ stops' = stops + 1
  /\ stopStatus' \in {"paused", "abandoned"}
  /\ UNCHANGED <<status, runVars, journal, faults>>

(* Faulty variant: the run is cancelled, its entry stays.                  *)
StopActiveKeepsEntry ==
  /\ stopPhase = "read" /\ stopPhase' = "stopped"
  /\ done' = done \cup ({cancels} \ {NoRun})
  /\ UNCHANGED <<status, cancels, phase, mem, journal, stopStatus, stops, faults>>

StopActive ==
  /\ stopPhase = "read" /\ stopPhase' = "stopped"
  /\ done' = done \cup ({cancels} \ {NoRun})
  /\ cancels' = NoRun
  /\ UNCHANGED <<status, phase, mem, journal, stopStatus, stops, faults>>

StopPut ==
  /\ stopPhase = "stopped" /\ stopPhase' = "none" /\ stopStatus' = "paused"
  /\ \/ /\ status' = stopStatus /\ UNCHANGED faults
        /\ journal' = journal \cup (IF stopStatus = "abandoned"
                                    THEN {"plan_cancelled"} ELSE {})
     \/ Fault /\ UNCHANGED <<status, journal>>
  /\ UNCHANGED <<runVars, stops>>

-----------------------------------------------------------------------------
Next ==
  \/ \E r \in Runs : StartRead(r) \/ StartPrepare(r) \/ StartRegister(r) \/ Run(r)
  \/ StopRead \/ StopActive \/ StopPut

Spec == Init /\ [][Next]_vars

-----------------------------------------------------------------------------
(* The entry of the map always is the cancel function of a live run that   *)
(* has not been cancelled - although every goroutine deletes the entry     *)
(* without looking whose it is.  IsActive and stopActive rely on it.       *)
CancelsIsLive == cancels # NoRun => Live(cancels) /\ cancels \notin done

(* Without a Cancel or Abandon, Start is single-flight: every live run is  *)
(* the registered one.                                                     *)
RegisteredUnlessStopped ==
  stops = 0 => \A r \in Runs : Live(r) => cancels = r

Quiet == /\ stopPhase = "none"
         /\ \A r \in Runs : phase[r] \in {"unborn", "refused", "gone"}

(* When the runs are over - nobody stopped one, and at most one Put failed *)
(* - the stored status is settled, or a Start has put back the copy it     *)
(* read before the run and was then refused.                               *)
SettlesWhenQuiet ==
  (Quiet /\ stops = 0 /\ faults <= 1 /\ \E r \in Runs : phase[r] = "gone") =>
    \/ status \in Settled
    \/ /\ status = "generating_tree"
       /\ \E r \in Runs : phase[r] = "refused" /\ mem[r] = "generating_tree"

-----------------------------------------------------------------------------
(* The inductive invariant behind the three.                               *)

(* A context is cancelled only while its run lives, and only by a stop.    *)
StopsOK ==
  /\ \A r \in done : Live(r)
  /\ stops = 0 => stopPhase = "none" /\ done = {}

(* While nobody stops a run, it fails only on a failed Put; and when no    *)
(* run is at work, a run that left has settled the stored status, unless a *)
(* Start has overwritten it.                                               *)
AtWork(r) == phase[r] \in {"launched", "running", "failing"}

SettledOrOverwritten ==
  \/ status \in Settled
  \/ /\ status = "generating_tree"
     /\ \E r \in Runs : phase[r] \in {"prepared", "refused"} /\ mem[r] = "generating_tree"

OutcomeOK ==
  stops = 0 =>
    /\ \A r \in Runs : phase[r] = "failing" => faults >= 1
    /\ (/\ faults <= 1
        /\ \E r \in Runs : phase[r] \in {"leaving", "gone"}
        /\ \A r \in Runs : ~AtWork(r)) => SettledOrOverwritten

IInv == TypeOK /\ CancelsIsLive /\ StopsOK /\ RegisteredUnlessStopped /\ OutcomeOK

-----------------------------------------------------------------------------
(* A claim of the repository's tests that the code breaks.                 *)

(* Start is single-flight for each session: two runs that nobody cancelled *)
(* never live at once.                                                     *)
SingleFlight ==
  \A r1, r2 \in Runs \ done : Live(r1) /\ Live(r2) => r1 = r2
=============================================================================
