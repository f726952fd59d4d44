---------------------------- MODULE PlanExecutor ----------------------------
(***************************************************************************)
(* One plan run of an agent session: the executor goroutine                *)
(* (PlanExecutor.Execute, executor.go), the step goroutines it starts      *)
(* (RunStepWithRecovery), the consumer that applies and persists its       *)
(* events (executeSessionRun and DurableExecutionService.run,              *)
(* execution_service.go), and the requests that read and write the same    *)
(* stored session (Start, Cancel, Abandon and the gateway's resume).       *)
(*                                                                         *)
(* Executor and consumer share ONE in-memory session object; the store     *)
(* holds the copy made by the last Put.  A plan step is its position in    *)
(* Plan.Steps: 1..Len(Plan) are the steps of the plan, Len(Plan)+n is the  *)
(* step that the n-th replan appends.                                      *)
(*                                                                         *)
(* Scope: at most one run of the session is live.  Two runs living at once *)
(* is the subject of ExecutionService.                                     *)
(***************************************************************************)
EXTENDS SessionLifecycle, Naturals, Sequences, FiniteSets

CONSTANTS
  Plan,              \* the sequence of PlanStep records of the session
  YoloMode,          \* TRUE iff the session runs in the autonomous mode
  MaxParallelLanes,  \* lanes of one batch of steps
  MaxReplans,        \* replans of one plan
  EventBuffer,       \* capacity of the event channel (16 in the code)
  MaxToolCalls,      \* the three limits of policy.BudgetState
  MaxScriptRuns,
  MaxCostCents,
  Callers,           \* HTTP callers, each in at most one request at a time
  MaxRequests,       \* bound: cancel, abandon and resume requests
  MaxFaults          \* bound: process crashes, failing Gets and Puts

PlanStep ==
  [deps : SUBSET Nat, parallelizable : BOOLEAN, risk : {"low", "medium", "high"},
   checkpoint : BOOLEAN, sandbox : BOOLEAN, research : BOOLEAN,
   grounded : BOOLEAN, cost : Nat, maxAttempts : Nat \ {0}]

ASSUME PlanAssumption == Plan \in Seq(PlanStep)
ASSUME ModeAssumption == YoloMode \in BOOLEAN
ASSUME LimitAssumption ==
  /\ MaxParallelLanes \in Nat \ {0}
  /\ MaxReplans \in Nat
  /\ EventBuffer \in Nat
  /\ {MaxToolCalls, MaxScriptRuns, MaxCostCents, MaxRequests, MaxFaults} \subseteq Nat
ASSUME CallerAssumption == "run" \notin Callers

(* Who reads the stored session and later writes its copy back: the        *)
(* requests, and the run when it persists its failure.                     *)
Writers == Callers \cup {"run"}

(* The step applyAutomaticReplan appends.                                  *)
ReplanStep ==
  [deps |-> {}, parallelizable |-> FALSE, risk |-> "low", checkpoint |-> FALSE,
   sandbox |-> FALSE, research |-> TRUE, grounded |-> FALSE, cost |-> 2,
   maxAttempts |-> 1]

LastStep == Len(Plan) + MaxReplans
AllSteps == 1..LastStep
NoStep   == 0

StepAt(s) == IF s <= Len(Plan) THEN Plan[s] ELSE ReplanStep

(* What the properties tell apart in an entry of FailedStepIDs: "blocked"  *)
(* is a GUARDRAIL_BLOCKED: message, "denied" one that classifyErrorCode    *)
(* maps to a terminal code although its text is not one (AUTH_FAILED,      *)
(* TOOL_NOT_FOUND), "error" any other tool failure, "rejected" a human's   *)
(* reject_and_replan.                                                      *)
ToolFailure == {"denied", "error"}
Reason      == ToolFailure \cup {"blocked", "rejected"}
NoReason    == ""

(* The part of AgentSession and PlanState that steers a run.               *)
Session ==
  [status : SessionStatus, completed : SUBSET AllSteps,
   failed : [AllSteps -> Reason \cup {NoReason}], approved : SUBSET AllSteps,
   pending : AllSteps \cup {NoStep}, replanCount : 0..MaxReplans,
   tools : Nat, scripts : Nat, cost : Nat]

EventType ==
  {"step_started", "step_completed", "step_failed", "plan_revised",
   "confirmation_need", "progress", "completed"}

Event == [type : EventType, step : AllSteps \cup {NoStep},
          reason : Reason \cup {NoReason}]

VARIABLES
  store,      \* the persisted session record
  session,    \* the session object executor and consumer share
  pc,         \* where the executor goroutine is
  lane,       \* state of the step goroutines of the current batch
  attempt,    \* attempt number of each lane
  outcomes,   \* outcomes of the batch, in the order they were collected
  out,        \* event channel, with the value of a blocked send last
  consumer,   \* where the run goroutine is
  cancelled,  \* the run's context is done
  op, phase,  \* what each caller asks for, and how far the request is
  held,       \* the session copy a writer has read and will write back
  upToDate,   \* history: the writers that nobody else's Put has overtaken
  requests, faults

vars == <<store, session, pc, lane, attempt, outcomes, out, consumer,
          cancelled, op, phase, held, upToDate, requests, faults>>
execVars == <<pc, lane, attempt, outcomes>>
callVars == <<op, phase, requests>>
reqVars  == <<op, phase, held, upToDate, requests>>

ResumeAction == {"approve", "skip", "reject", "continue"}
Op == ResumeAction \cup {"none", "prepare", "expire", "paused", "abandoned"}

LaneState == {"off", "queued", "gate", "tool", "ok", "empty", "confirm",
              "blocked"} \cup ToolFailure
LaneDone  == {"ok", "empty", "confirm", "blocked"} \cup ToolFailure

TypeOK ==
  /\ store \in Session /\ session \in Session /\ held \in [Writers -> Session]
  /\ pc \in {"idle", "begin", "loop", "spawn", "launch", "wait", "collect",
             "pausing", "mediate", "progress", "closed"}
  /\ lane \in [AllSteps -> LaneState]
  /\ attempt \in [AllSteps -> Nat]
  /\ outcomes \in Seq(LaneDone)
  /\ out \in Seq(Event)
  /\ consumer \in {"idle", "listen", "failing", "persisting", "gone"}
  /\ cancelled \in BOOLEAN
  /\ op \in [Callers -> Op] /\ phase \in [Callers -> {"none", "stop", "write", "start"}]
  /\ upToDate \subseteq Writers
  /\ requests \in 0..MaxRequests /\ faults \in 0..MaxFaults

-----------------------------------------------------------------------------
(* Reading the plan.                                                       *)

Steps(r) == 1..(Len(Plan) + r.replanCount)

IsStepTerminal(r, s) == s \in r.completed \/ r.failed[s] # NoReason

(* Faulty variant: a failed dependency counts as done.                     *)
DependenciesTerminal(r, s) ==
  \A d \in StepAt(s).deps : d \in r.completed \/ (d \in AllSteps /\ r.failed[d] # NoReason)

DependenciesSatisfied(r, s) == StepAt(s).deps \subseteq r.completed

CollectReadySteps(r) ==
  {s \in Steps(r) : ~IsStepTerminal(r, s) /\ DependenciesSatisfied(r, s)}

AllStepsTerminal(r) == \A s \in Steps(r) : IsStepTerminal(r, s)

FailedSteps(r) == {s \in AllSteps : r.failed[s] # NoReason}

First(S) == CHOOSE s \in S : \A t \in S : s <= t

(* Parallelizable steps first, as many as there are lanes, in plan order;  *)
(* without one, the first ready step alone.                                *)
SelectRunnableSteps(ready) ==
  LET parallel == {s \in ready : StepAt(s).parallelizable} IN
  IF parallel = {} THEN {First(ready)}
  ELSE {s \in parallel : Cardinality({t \in parallel : t < s}) < MaxParallelLanes}

(* Faulty variant: neither tool calls nor cost are looked at.              *)
ScriptsExceeded(r, s) == StepAt(s).sandbox /\ r.scripts >= MaxScriptRuns

(* stepExecutionBudgetExceeded and evaluateHardBudgetGuardrail.            *)
BudgetExceeded(r, s) ==
  \/ r.tools >= MaxToolCalls
  \/ StepAt(s).sandbox /\ r.scripts >= MaxScriptRuns
  \/ StepAt(s).cost > 0 /\ r.cost + StepAt(s).cost > MaxCostCents

(* EvaluateGuardrail under DefaultPolicyConfig asks for a confirmation of  *)
(* every medium and high risk step, the plan for that of its checkpoints;  *)
(* the autonomous mode waives both for research steps outside the sandbox. *)
NeedsApproval(s) ==
  /\ StepAt(s).risk \in {"medium", "high"} \/ StepAt(s).checkpoint
  /\ ~(YoloMode /\ StepAt(s).research /\ ~StepAt(s).sandbox)

ApplyBudgetUsage(r, s) ==
  [r EXCEPT !.tools = @ + 1,
            !.scripts = IF StepAt(s).sandbox THEN @ + 1 ELSE @,
            !.cost = @ + StepAt(s).cost]

(* isTerminalAutomaticReplanFailure of the stored message ...              *)
TerminalReason(reason) == reason = "blocked"
(* ... and of the error code the coordinator sees.                         *)
TerminalCode(outcome) == outcome \in {"blocked", "denied"}

(* shouldApplyCoordinatorReplan: the first outcome that is not a plain     *)
(* success decides, and a terminal one decides against.                    *)
ShouldApplyCoordinatorReplan(oc) ==
  \E i \in 1..Len(oc) :
    /\ oc[i] # "ok" /\ ~TerminalCode(oc[i])
    /\ \A j \in 1..(i - 1) : oc[j] = "ok"

-----------------------------------------------------------------------------
(* The event channel.  `out <- e` blocks while the buffer is full: the     *)
(* value waits in the slot after the last, and the executor takes no       *)
(* further step until a receive has made room (Sent).                      *)

Sent == Len(out) <= EventBuffer

EmitReason(type, s, reason) ==
  out' = Append(out, [type |-> type, step |-> s, reason |-> reason])
Emit(type, s) == EmitReason(type, s, NoReason)

SetStatus(next) ==
  session' = [session EXCEPT !.status = TransitionSessionStatus(@, next)]

ExecutorOnly == UNCHANGED <<store, consumer, cancelled, reqVars, faults>>

-----------------------------------------------------------------------------
(* A session as it is created, with its plan built.                       *)
NewSession ==
  [status |-> "questioning", completed |-> {},
   failed |-> [s \in AllSteps |-> NoReason], approved |-> {},
   pending |-> NoStep, replanCount |-> 0, tools |-> 0, scripts |-> 0, cost |-> 0]

NoLanes == [s \in AllSteps |-> "off"]

Init ==
  /\ store = NewSession /\ session = NewSession
  /\ held = [w \in Writers |-> NewSession] /\ upToDate = {}
  /\ op = [c \in Callers |-> "none"] /\ phase = [c \in Callers |-> "none"]
  /\ pc = "idle" /\ consumer = "idle" /\ cancelled = FALSE
  /\ lane = NoLanes /\ attempt = [s \in AllSteps |-> 1]
  /\ outcomes = <<>> /\ out = <<>>
  /\ requests = 0 /\ faults = 0

-----------------------------------------------------------------------------
(* The executor goroutine.                                                 *)

(* Execute: a session whose status may not move to "searching" is          *)
(* answered with a failure event and the run ends.                         *)
Begin ==
  /\ pc = "begin" /\ Sent
  /\ \/ /\ CanTransition(session.status, "searching")
        /\ SetStatus("searching")
        /\ pc' = "loop" /\ UNCHANGED out
     \/ /\ ~CanTransition(session.status, "searching")
        /\ Emit("step_failed", NoStep)
        /\ pc' = "closed" /\ UNCHANGED session
  /\ UNCHANGED <<lane, attempt, outcomes>> /\ ExecutorOnly

AtLoop == pc = "loop" /\ Sent

(* ctx.Err() at the head of the loop.                                      *)
LoopCancelled ==
  /\ AtLoop /\ cancelled
  /\ Emit("step_failed", NoStep)
  /\ pc' = "closed"
  /\ UNCHANGED <<session, lane, attempt, outcomes>> /\ ExecutorOnly

(* Faulty variant: a plan whose steps are all terminal has completed.      *)
LoopAllTerminalIsComplete ==
  /\ AtLoop /\ ~cancelled /\ AllStepsTerminal(session)
  /\ SetStatus("complete") /\ Emit("completed", NoStep)
  /\ pc' = "closed"
  /\ UNCHANGED <<lane, attempt, outcomes>> /\ ExecutorOnly

(* Every step is terminal: the plan completed, or it ended with failures.  *)
LoopAllTerminal ==
  /\ AtLoop /\ ~cancelled /\ AllStepsTerminal(session)
  /\ \/ /\ FailedSteps(session) = {}
        /\ SetStatus("complete") /\ Emit("completed", NoStep)
     \/ /\ FailedSteps(session) # {}
        /\ SetStatus("failed") /\ Emit("step_failed", NoStep)
  /\ pc' = "closed"
  /\ UNCHANGED <<lane, attempt, outcomes>> /\ ExecutorOnly

Stuck == /\ AtLoop /\ ~cancelled /\ ~AllStepsTerminal(session)
         /\ CollectReadySteps(session) = {}

(* Nothing is ready and no replan is left.                                 *)
LoopExhausted ==
  /\ Stuck /\ session.replanCount >= MaxReplans
  /\ SetStatus("failed") /\ Emit("step_failed", NoStep)
  /\ pc' = "closed"
  /\ UNCHANGED <<lane, attempt, outcomes>> /\ ExecutorOnly

(* The first failed step of the plan carries a terminal reason.            *)
TerminallyFailed ==
  /\ FailedSteps(session) # {}
  /\ TerminalReason(session.failed[First(FailedSteps(session))])

LoopTerminalFailure ==
  /\ Stuck /\ session.replanCount < MaxReplans
  /\ TerminallyFailed
  /\ LET s == First(FailedSteps(session)) IN
       EmitReason("step_failed", s, session.failed[s])
  /\ SetStatus("failed")
  /\ pc' = "closed"
  /\ UNCHANGED <<lane, attempt, outcomes>> /\ ExecutorOnly

(* applyAutomaticReplan appends step Len(Plan) + replanCount + 1.          *)
ApplyReplan ==
  /\ session' = [session EXCEPT !.replanCount = @ + 1]
  /\ Emit("plan_revised", Len(Plan) + session.replanCount + 1)

LoopReplan ==
  /\ Stuck /\ session.replanCount < MaxReplans
  /\ ~TerminallyFailed
  /\ ApplyReplan
  /\ UNCHANGED execVars /\ ExecutorOnly

(* A batch is chosen; its steps are announced and launched one by one.     *)
LoopSelect ==
  /\ AtLoop /\ ~cancelled /\ ~AllStepsTerminal(session)
  /\ CollectReadySteps(session) # {}
  /\ LET batch == SelectRunnableSteps(CollectReadySteps(session)) IN
       lane' = [s \in AllSteps |-> IF s \in batch THEN "queued" ELSE "off"]
  /\ pc' = "spawn"
  /\ UNCHANGED <<session, out, attempt, outcomes>> /\ ExecutorOnly

Queued == {s \in AllSteps : lane[s] = "queued"}

StartStep ==
  /\ pc = "spawn" /\ Sent /\ Queued # {}
  /\ Emit("step_started", First(Queued))
  /\ pc' = "launch"
  /\ UNCHANGED <<session, lane, attempt, outcomes>> /\ ExecutorOnly

LaunchLane ==
  /\ pc = "launch" /\ Sent
  /\ lane' = [lane EXCEPT ![First(Queued)] = "gate"]
  /\ pc' = IF Queued = {First(Queued)} THEN "wait" ELSE "spawn"
  /\ UNCHANGED <<session, out, attempt, outcomes>> /\ ExecutorOnly

(* wg.Wait, then the results are read.                                     *)
BatchDone ==
  /\ pc = "wait"
  /\ \A s \in AllSteps : lane[s] \in LaneDone \cup {"off"}
  /\ pc' = "collect"
  /\ UNCHANGED <<session, out, lane, attempt, outcomes>> /\ ExecutorOnly

-----------------------------------------------------------------------------
(* The step goroutines: RunStepWithRecovery around executeStepOnce.        *)

LaneOnly == /\ UNCHANGED <<session, out, pc, outcomes>> /\ ExecutorOnly

(* Faulty variant: the attempt is not counted.                             *)
AttemptUncounted(s, failure) ==
  IF attempt[s] < StepAt(s).maxAttempts
  THEN lane' = [lane EXCEPT ![s] = "gate"] /\ UNCHANGED attempt
  ELSE lane' = [lane EXCEPT ![s] = failure] /\ UNCHANGED attempt

(* A failed attempt is retried, whatever its error, while attempts remain. *)
AttemptFails(s, failure) ==
  IF attempt[s] < StepAt(s).maxAttempts
  THEN /\ lane' = [lane EXCEPT ![s] = "gate"]
       /\ attempt' = [attempt EXCEPT ![s] = @ + 1]
  ELSE /\ lane' = [lane EXCEPT ![s] = failure]
       /\ UNCHANGED attempt

(* Faulty variant: no approval is asked for.                               *)
LaneGateUnasked(s) ==
  /\ lane[s] = "gate"
  /\ \/ BudgetExceeded(session, s) /\ AttemptFails(s, "blocked")
     \/ /\ ~BudgetExceeded(session, s)
        /\ lane' = [lane EXCEPT ![s] = "tool"] /\ UNCHANGED attempt
  /\ LaneOnly

(* Budget, guardrail and human checkpoint, before the tool is called.      *)
LaneGate(s) ==
  /\ lane[s] = "gate"
  /\ \/ BudgetExceeded(session, s) /\ AttemptFails(s, "blocked")
     \/ /\ ~BudgetExceeded(session, s)
        /\ NeedsApproval(s) /\ s \notin session.approved
        /\ lane' = [lane EXCEPT ![s] = "confirm"] /\ UNCHANGED attempt
     \/ /\ ~BudgetExceeded(session, s)
        /\ NeedsApproval(s) => s \in session.approved
        /\ lane' = [lane EXCEPT ![s] = "tool"] /\ UNCHANGED attempt
  /\ LaneOnly

(* The tool call returns; "empty" is a success without sources of a step   *)
(* whose action must ground its result.  A panic is an "error".            *)
LaneTool(s) ==
  /\ lane[s] = "tool"
  /\ \/ /\ \E o \in {"ok"} \cup (IF StepAt(s).grounded THEN {"empty"} ELSE {}) :
             lane' = [lane EXCEPT ![s] = o]
        /\ UNCHANGED attempt
     \/ \E failure \in ToolFailure : AttemptFails(s, failure)
  /\ LaneOnly

-----------------------------------------------------------------------------
(* Collecting the batch.  The channel of results holds them in the order   *)
(* the lanes finished, which may be any order.                             *)

Collecting(s) == pc = "collect" /\ Sent /\ lane[s] \in LaneDone

CollectSuccess(s) ==
  /\ Collecting(s) /\ lane[s] \in {"ok", "empty"}
  /\ session' = [ApplyBudgetUsage(session, s) EXCEPT !.completed = @ \cup {s}]
  /\ Emit("step_completed", s)
  /\ outcomes' = Append(outcomes, lane[s])
  /\ lane' = [lane EXCEPT ![s] = "off"]
  /\ UNCHANGED <<pc, attempt>> /\ ExecutorOnly

(* Faulty variant: the pending approval is not recorded.                   *)
CollectConfirmUnrecorded(s) ==
  /\ Collecting(s) /\ lane[s] = "confirm"
  /\ Emit("confirmation_need", s)
  /\ lane' = NoLanes
  /\ pc' = "pausing"
  /\ UNCHANGED <<session, attempt, outcomes>> /\ ExecutorOnly

(* The first confirmation ends the run at once: the results of the batch   *)
(* that were not read yet are dropped with the channel.                    *)
CollectConfirm(s) ==
  /\ Collecting(s) /\ lane[s] = "confirm"
  /\ session' = [session EXCEPT !.pending = s]
  /\ Emit("confirmation_need", s)
  /\ lane' = NoLanes
  /\ pc' = "pausing"
  /\ UNCHANGED <<attempt, outcomes>> /\ ExecutorOnly

(* Faulty variant: the failure is announced, not recorded.                 *)
CollectFailureUnrecorded(s) ==
  /\ Collecting(s) /\ lane[s] \in ToolFailure \cup {"blocked"}
  /\ EmitReason("step_failed", s, lane[s])
  /\ outcomes' = Append(outcomes, lane[s])
  /\ lane' = [lane EXCEPT ![s] = "off"]
  /\ UNCHANGED <<session, pc, attempt>> /\ ExecutorOnly

CollectFailure(s) ==
  /\ Collecting(s) /\ lane[s] \in ToolFailure \cup {"blocked"}
  /\ session' = [session EXCEPT !.failed[s] = lane[s]]
  /\ EmitReason("step_failed", s, lane[s])
  /\ outcomes' = Append(outcomes, lane[s])
  /\ lane' = [lane EXCEPT ![s] = "off"]
  /\ UNCHANGED <<pc, attempt>> /\ ExecutorOnly

(* The status moves to "paused" only after the event has been sent.        *)
PauseForApproval ==
  /\ pc = "pausing" /\ Sent
  /\ SetStatus("paused")
  /\ pc' = "closed"
  /\ UNCHANGED <<lane, attempt, outcomes, out>> /\ ExecutorOnly

BatchCollected ==
  /\ pc = "collect" /\ Sent
  /\ \A s \in AllSteps : lane[s] = "off"
  /\ pc' = "mediate"
  /\ UNCHANGED <<session, out, lane, attempt, outcomes>> /\ ExecutorOnly

(* CoordinateAgentFeedback asks a model; its answer may be REPLAN.         *)
MediateReplan ==
  /\ pc = "mediate"
  /\ ShouldApplyCoordinatorReplan(outcomes)
  /\ session.replanCount < MaxReplans
  /\ ApplyReplan
  /\ pc' = "progress"
  /\ UNCHANGED <<lane, attempt, outcomes>> /\ ExecutorOnly

MediateContinue ==
  /\ pc = "mediate" /\ pc' = "progress"
  /\ UNCHANGED <<session, out, lane, attempt, outcomes>> /\ ExecutorOnly

Progress ==
  /\ pc = "progress" /\ Sent
  /\ Emit("progress", NoStep)
  /\ pc' = "loop"
  /\ attempt' = [s \in AllSteps |-> 1] /\ outcomes' = <<>>
  /\ UNCHANGED <<session, lane>> /\ ExecutorOnly

(* A panic in the code that digests results is recovered at the top.       *)
Panic ==
  /\ pc \in {"collect", "mediate"} /\ Sent
  /\ SetStatus("failed") /\ Emit("step_failed", NoStep)
  /\ lane' = NoLanes
  /\ pc' = "closed"
  /\ UNCHANGED <<attempt, outcomes>> /\ ExecutorOnly

Executor ==
  \/ Begin \/ LoopCancelled \/ LoopAllTerminal \/ LoopExhausted
  \/ LoopTerminalFailure \/ LoopReplan \/ LoopSelect \/ StartStep
  \/ LaunchLane \/ BatchDone \/ PauseForApproval \/ BatchCollected
  \/ MediateReplan \/ MediateContinue \/ Progress \/ Panic
  \/ \E s \in AllSteps : CollectSuccess(s) \/ CollectConfirm(s) \/ CollectFailure(s)

Lanes == \E s \in AllSteps : LaneGate(s) \/ LaneTool(s)

-----------------------------------------------------------------------------
(* The consumer: executeSessionRun's event loop and DurableExecutionService *)
(* .run around it.                                                         *)

(* applyExecutionEventPlanProgress.                                        *)
ApplyEventProgress(r, e) ==
  CASE e.type = "step_completed" /\ e.step # NoStep ->
         [r EXCEPT !.completed = @ \cup {e.step}, !.failed[e.step] = NoReason]
    [] e.type = "step_failed" /\ e.step # NoStep ->
         [r EXCEPT !.completed = @ \ {e.step}, !.failed[e.step] = e.reason]
    [] OTHER -> r

EventStatus(e, current) ==
  CASE e.type = "completed"         -> "complete"
    [] e.type = "step_failed"       -> "failed"
    [] e.type = "confirmation_need" -> "paused"
    [] OTHER                        -> current

(* applyExecutionEventStatus assigns the status without asking the state   *)
(* machine.  The terminal payload of "completed" lists the steps of the    *)
(* same session object, so merging it changes nothing here.                *)
ApplyEvent(r, e) ==
  [ApplyEventProgress(r, e) EXCEPT !.status = EventStatus(e, @)]

ConsumerOnly == UNCHANGED <<execVars, cancelled, callVars>>

(* One event is applied, journalled and persisted.  A done context does    *)
(* not exclude this branch: select picks among its ready cases, and the    *)
(* in-memory store does not look at the context.                           *)
ConsumeEvent ==
  /\ consumer = "listen" /\ out # <<>>
  /\ session' = ApplyEvent(session, Head(out))
  /\ store' = session' /\ upToDate' = {"run"}
  /\ out' = Tail(out)
  /\ ConsumerOnly /\ UNCHANGED <<held, consumer, faults>>

AfterFailedPut == IF cancelled THEN "gone" ELSE "failing"

(* The Put of an event fails: the consumer leaves, the executor does not   *)
(* learn of it.                                                            *)
ConsumeEventPutFails ==
  /\ consumer = "listen" /\ out # <<>> /\ faults < MaxFaults
  /\ session' = ApplyEvent(session, Head(out))
  /\ out' = Tail(out)
  /\ consumer' = AfterFailedPut
  /\ faults' = faults + 1
  /\ ConsumerOnly /\ UNCHANGED <<store, held, upToDate>>

ConsumerCancelled ==
  /\ consumer = "listen" /\ cancelled
  /\ consumer' = "gone"
  /\ ConsumerOnly /\ UNCHANGED <<store, session, out, held, upToDate, faults>>

(* Nothing of a run outlives it but what it stored.                        *)
Discard ==
  /\ pc' = "idle" /\ consumer' = "idle" /\ out' = <<>> /\ cancelled' = FALSE
  /\ lane' = NoLanes /\ attempt' = [s \in AllSteps |-> 1] /\ outcomes' = <<>>
  /\ session' = NewSession

(* The channel is closed and drained: the last Put, and the run is over.   *)
RunFinished ==
  /\ consumer = "listen" /\ pc = "closed" /\ out = <<>>
  /\ store' = session /\ upToDate' = {}
  /\ Discard /\ UNCHANGED <<held, callVars, faults>>

RunFinishedPutFails ==
  /\ consumer = "listen" /\ pc = "closed" /\ out = <<>> /\ faults < MaxFaults
  /\ consumer' = AfterFailedPut
  /\ faults' = faults + 1
  /\ ConsumerOnly /\ UNCHANGED <<store, session, out, held, upToDate>>

(* run marks the stored session failed after an error that is not a        *)
(* cancellation: a Get, which may fail, ...                                *)
PersistFailureRead ==
  /\ consumer = "failing"
  /\ \/ /\ consumer' = "persisting"
        /\ held' = [held EXCEPT !["run"] = store]
        /\ upToDate' = upToDate \cup {"run"} /\ UNCHANGED faults
     \/ /\ faults < MaxFaults /\ faults' = faults + 1
        /\ consumer' = "gone" /\ UNCHANGED <<held, upToDate>>
  /\ ConsumerOnly /\ UNCHANGED <<store, session, out>>

(* ... and a Put of what it read, whose error is ignored.                  *)
PersistFailureWrite ==
  /\ consumer = "persisting"
  /\ consumer' = "gone"
  /\ \/ /\ store' = [held["run"] EXCEPT !.status = "failed"]
        /\ upToDate' = {} /\ UNCHANGED faults
     \/ /\ faults < MaxFaults /\ faults' = faults + 1
        /\ UNCHANGED <<store, upToDate>>
  /\ held' = [held EXCEPT !["run"] = NewSession]
  /\ ConsumerOnly /\ UNCHANGED <<session, out>>

PersistRunFailure == PersistFailureRead \/ PersistFailureWrite

(* An executor without a consumer has returned; its channel is garbage.    *)
OrphanReturned ==
  /\ consumer = "gone" /\ pc = "closed" /\ Sent
  /\ upToDate' = upToDate \ {"run"}
  /\ Discard /\ UNCHANGED <<store, held, callVars, faults>>

Consumer ==
  \/ ConsumeEvent \/ ConsumeEventPutFails \/ ConsumerCancelled \/ RunFinished
  \/ RunFinishedPutFails \/ PersistRunFailure \/ OrphanReturned

-----------------------------------------------------------------------------
(* Requests on the stored session.  Each reads the record, decides on the  *)
(* copy it read, and writes that copy back in a later step: whatever was   *)
(* stored in between is overwritten.                                       *)

Idle == pc = "idle" /\ consumer = "idle"

(* The run has its entry in the map of running sessions.                   *)
Registered == consumer \in {"listen", "failing", "persisting"} /\ ~cancelled

Request(c, o, ph) == op' = [op EXCEPT ![c] = o] /\ phase' = [phase EXCEPT ![c] = ph]

Read(c) == /\ held' = [held EXCEPT ![c] = store]
           /\ upToDate' = upToDate \cup {c}

(* The request of c is answered.                                           *)
Answered(c) == Request(c, "none", "none") /\ held' = [held EXCEPT ![c] = NewSession]

RunUntouched == UNCHANGED <<session, execVars, out, consumer>>

(* Faulty variant: each run starts with a budget of its own.               *)
LaunchRunUncharged ==
  /\ session' = [store EXCEPT !.tools = 0, !.scripts = 0, !.cost = 0]
  /\ pc' = "begin" /\ consumer' = "listen"
  /\ out' = <<>> /\ cancelled' = FALSE
  /\ UNCHANGED <<lane, attempt, outcomes>>

(* executeSessionRun reads its own copy.  It is not "questioning" any more *)
(* and prepareSessionForExecution leaves it alone.                         *)
LaunchRun ==
  /\ session' = store
  /\ pc' = "begin" /\ consumer' = "listen"
  /\ out' = <<>> /\ cancelled' = FALSE
  /\ UNCHANGED <<lane, attempt, outcomes>>

(* Start on a session that was never run: prepareSessionForExecution moves *)
(* the copy on and stores it, before Start has looked whether a run lives. *)
PrepareRead(c) ==
  /\ phase[c] = "none" /\ store.status = "questioning"
  /\ Read(c) /\ Request(c, "prepare", "write")
  /\ RunUntouched /\ UNCHANGED <<store, cancelled, requests, faults>>

PrepareWrite(c) ==
  /\ phase[c] = "write" /\ op[c] = "prepare"
  /\ store' = [held[c] EXCEPT !.status = "generating_tree"] /\ upToDate' = {c}
  /\ Request(c, "prepare", "start")
  /\ RunUntouched /\ UNCHANGED <<held, cancelled, requests, faults>>

(* The rest of Start, for a caller of its own or on behalf of a resume: a  *)
(* session with a run is answered AlreadyRunning.                          *)
Start(c) ==
  /\ phase[c] \in {"none", "start"} /\ store.status # "questioning"
  /\ \/ Idle /\ LaunchRun /\ upToDate' = (upToDate \ {c}) \cup {"run"}
     \/ Registered /\ RunUntouched /\ upToDate' = upToDate \ {c} /\ UNCHANGED cancelled
  /\ Answered(c)
  /\ UNCHANGED <<store, requests, faults>>

(* What the gateway's resume writes, by the action the caller names: the   *)
(* decision on the pending step, if there is one.                          *)
Resumed(r, action) ==
  LET decided == {r.pending} \ {NoStep}
      cleared == [r EXCEPT !.pending = NoStep, !.status = "searching"]
  IN CASE action = "approve" -> [cleared EXCEPT !.approved = @ \cup decided]
       [] action = "skip"    -> [cleared EXCEPT !.completed = @ \cup decided]
       [] action = "reject"  ->
            [cleared EXCEPT !.failed = [s \in AllSteps |->
                                          IF s \in decided THEN "rejected" ELSE r.failed[s]]]
       [] OTHER              -> cleared

NewRequest(c) == phase[c] = "none" /\ requests < MaxRequests /\ requests' = requests + 1

(* With a pending approval the caller presents its token and decides;      *)
(* without one the session simply runs again.                              *)
ResumeRead(c, action) ==
  /\ NewRequest(c)
  /\ (action = "continue") <=> (store.pending = NoStep)
  /\ Read(c) /\ Request(c, action, "write")
  /\ RunUntouched /\ UNCHANGED <<store, cancelled, faults>>

(* The decision is stored, and Start is called.                            *)
ResumeWrite(c) ==
  /\ phase[c] = "write" /\ op[c] \in ResumeAction
  /\ store' = Resumed(held[c], op[c]) /\ upToDate' = {c}
  /\ Request(c, op[c], "start")
  /\ RunUntouched /\ UNCHANGED <<held, cancelled, requests, faults>>

(* Start fails - its Get does - and the copy from before the decision is   *)
(* restored, if that Put succeeds.                                         *)
ResumeRollback(c) ==
  /\ phase[c] = "start" /\ op[c] \in ResumeAction
  /\ faults < MaxFaults /\ faults' = faults + 1
  /\ \/ store' = held[c] /\ upToDate' = {}
     \/ UNCHANGED store /\ upToDate' = upToDate \ {c}
  /\ Answered(c)
  /\ RunUntouched /\ UNCHANGED <<cancelled, requests>>

(* A resume that comes after the approval's deadline only clears it.       *)
ExpireRead(c) ==
  /\ NewRequest(c)
  /\ store.pending # NoStep
  /\ Read(c) /\ Request(c, "expire", "write")
  /\ RunUntouched /\ UNCHANGED <<store, cancelled, faults>>

ExpireWrite(c) ==
  /\ phase[c] = "write" /\ op[c] = "expire"
  /\ store' = [held[c] EXCEPT !.pending = NoStep] /\ upToDate' = {}
  /\ Answered(c)
  /\ RunUntouched /\ UNCHANGED <<cancelled, requests, faults>>

(* Cancel and Abandon: read the session, stop the run, write the copy back *)
(* with the new status.                                                    *)
StopRead(c, status) ==
  /\ NewRequest(c)
  /\ Read(c) /\ Request(c, status, "stop")
  /\ RunUntouched /\ UNCHANGED <<store, cancelled, faults>>

StopActive(c) ==
  /\ phase[c] = "stop"
  /\ Request(c, op[c], "write")
  /\ cancelled' = (cancelled \/ Registered)
  /\ RunUntouched /\ UNCHANGED <<store, held, upToDate, requests, faults>>

StopWrite(c) ==
  /\ phase[c] = "write" /\ op[c] \in {"paused", "abandoned"}
  /\ store' = [held[c] EXCEPT !.status = op[c]] /\ upToDate' = {}
  /\ Answered(c)
  /\ RunUntouched /\ UNCHANGED <<cancelled, requests, faults>>

(* The Put of a request fails and the caller gets an error.                *)
RequestPutFails(c) ==
  /\ phase[c] = "write" /\ faults < MaxFaults /\ faults' = faults + 1
  /\ Answered(c) /\ upToDate' = upToDate \ {c}
  /\ RunUntouched /\ UNCHANGED <<store, cancelled, requests>>

(* The process dies: the run, its channel and the half-done requests are   *)
(* gone, the store remains.                                                *)
Crash ==
  /\ ~Idle /\ faults < MaxFaults /\ faults' = faults + 1
  /\ Discard
  /\ op' = [c \in Callers |-> "none"] /\ phase' = [c \in Callers |-> "none"]
  /\ held' = [w \in Writers |-> NewSession] /\ upToDate' = {}
  /\ UNCHANGED <<store, requests>>

CallerPut(c) ==
  PrepareWrite(c) \/ ResumeWrite(c) \/ ResumeRollback(c) \/ ExpireWrite(c) \/ StopWrite(c)

CallerStep(c) ==
  \/ PrepareRead(c) \/ Start(c) \/ ExpireRead(c) \/ StopActive(c)
  \/ StopRead(c, "paused") \/ StopRead(c, "abandoned")
  \/ RequestPutFails(c) \/ CallerPut(c)
  \/ \E action \in ResumeAction : ResumeRead(c, action)

Requests == Crash \/ \E c \in Callers : CallerStep(c)

Next == Executor \/ Lanes \/ Consumer \/ Requests

Spec == Init /\ [][Next]_vars

-----------------------------------------------------------------------------
(* Fairness: the scheduler runs every goroutine that can run, and a tool   *)
(* call returns (every tool call carries a timeout).  Nothing is assumed   *)
(* of callers, of failing Puts or of crashes.                              *)
Fairness ==
  /\ WF_vars(Executor)
  /\ \A s \in AllSteps : WF_vars(LaneGate(s) \/ LaneTool(s))
  /\ WF_vars(ConsumeEvent \/ ConsumerCancelled \/ RunFinished
             \/ PersistRunFailure \/ OrphanReturned)

FairSpec == Spec /\ Fairness

-----------------------------------------------------------------------------
(* Safety.                                                                 *)

(* The session in memory, stored, or held by somebody who is about to      *)
(* write it back.                                                          *)
Copies == {session, store} \cup {held[w] : w \in Writers}

(* A human skipped the step after it had failed: the resume marks it       *)
(* completed without looking at FailedStepIDs, and an event about the old  *)
(* failure can take the mark away again.                                   *)
SkippedAfterFailure(r, s) ==
  s \in FailedSteps(r) /\ NeedsApproval(s) /\ s \notin r.approved

DependencyMet(r, d) == d \in r.completed \/ SkippedAfterFailure(r, d)

(* Every copy of a session - in memory, stored, or held by a request that  *)
(* is about to write it back - has a consistent plan, although executor,   *)
(* consumer and resume all edit its maps: a completed step has all its     *)
(* dependencies completed and is not recorded as failed, but for steps     *)
(* that a human skipped after they had failed.                             *)
ProgressConsistent ==
  \A r \in Copies :
    /\ \A s \in r.completed : \A d \in StepAt(s).deps : DependencyMet(r, d)
    /\ \A s \in r.completed \cap FailedSteps(r) : SkippedAfterFailure(r, s)

(* A tool runs only for a step whose dependencies are completed, that is   *)
(* not itself terminal, and that a human approved if it needs approval.    *)
DispatchAllowed ==
  \A s \in AllSteps : lane[s] = "tool" =>
    /\ DependenciesSatisfied(session, s)
    /\ ~IsStepTerminal(session, s)
    /\ NeedsApproval(s) => s \in session.approved

(* The budget is checked by each lane and charged only when the batch is   *)
(* collected: it can be overrun, but never by more than the other lanes of *)
(* one batch - not even over crashes, resumes and stale writes.  Each lane *)
(* may spend what is left of the cost limit.                               *)
WithinOverrun(r) ==
  /\ r.tools < MaxToolCalls + MaxParallelLanes
  /\ r.scripts < MaxScriptRuns + MaxParallelLanes
  /\ r.cost <= MaxParallelLanes * MaxCostCents

OverrunBounded == \A r \in Copies : WithinOverrun(r)

(* A session says "complete" only if each step of its plan, replans        *)
(* included, is completed and none is recorded as failed.                  *)
CompleteIsHonest ==
  \A r \in Copies : r.status = "complete" =>
    Steps(r) \subseteq r.completed /\ FailedSteps(r) = {}

(* When the last Put of a run has succeeded, the stored session is settled: *)
(* complete, failed, or paused with a step that waits for a decision.      *)
RunSettles ==
  [][RunFinished =>
       \/ store'.status \in {"complete", "failed"}
       \/ /\ store'.status = "paused"
          /\ store'.pending # NoStep
          /\ ~IsStepTerminal(store', store'.pending)]_vars

RunPut == ConsumeEvent \/ RunFinished \/ PersistFailureWrite

(* What a stored session has been charged is refunded only by a lost       *)
(* update: by a Put - of a resume, a stop, a Start that prepares, a        *)
(* rollback, or of the run itself - whose writer was overtaken by somebody *)
(* else's Put since it read or wrote the record last.  Crashes, restarts,  *)
(* failed Puts, relaunches and resumes that nothing overlaps refund        *)
(* nothing.                                                                *)
ChargesKept ==
  [][store'.tools < store.tools =>
       \/ RunPut /\ "run" \notin upToDate
       \/ \E c \in Callers \ upToDate : CallerPut(c)]_vars

-----------------------------------------------------------------------------
(* The loop of a plan ends: what a run has left to do, in the order of     *)
(* weight.  A replan uses up one of MaxReplans, a collected result closes  *)
(* a step, the stages of one batch follow each other, each lane uses up    *)
(* its attempts, and events leave the channel.                             *)

Open(r) == {s \in Steps(r) : ~IsStepTerminal(r, s)}

(* A batch is collected at the end of its round; with its first result the *)
(* next round begins.                                                      *)
Stage ==
  CASE pc = "collect" /\ outcomes # <<>> -> 9
    [] pc = "mediate"                    -> 8
    [] pc \in {"begin", "progress"}      -> 7
    [] pc = "loop"                       -> 6
    [] pc \in {"spawn", "launch"}        -> 5
    [] pc = "wait"                       -> 4
    [] pc = "collect" /\ outcomes = <<>> -> 3
    [] pc = "pausing"                    -> 2
    [] OTHER                             -> 1

LaneStage(l) == CASE l = "queued" -> 3 [] l = "gate" -> 2 [] l = "tool" -> 1 [] OTHER -> 0

LaneLeft(s) == 4 * (StepAt(s).maxAttempts - attempt[s]) + LaneStage(lane[s])

LanesAdvance ==
  /\ \A s \in AllSteps : LaneLeft(s)' <= LaneLeft(s)
  /\ \E s \in AllSteps : LaneLeft(s)' < LaneLeft(s)

Advance ==
  \/ session'.replanCount > session.replanCount
  \/ /\ session'.replanCount = session.replanCount
     /\ Open(session') \subseteq Open(session)
     /\ \/ Open(session') # Open(session)
        \/ Stage' < Stage
        \/ Stage' = Stage /\ LanesAdvance
        \/ UNCHANGED <<lane, attempt, outcomes>> /\ pc = "spawn" /\ pc' = "launch"
        \/ UNCHANGED <<lane, attempt, outcomes, pc>> /\ Len(out') < Len(out)

(* Every step of the executor, of a lane, and of the consumer that takes   *)
(* an event, leaves the run with less to do than before: although steps    *)
(* are retried, replans append steps and the consumer edits the maps that  *)
(* the loop looks at, no run goes round for ever.                          *)
RunAdvances == [][Executor \/ Lanes \/ ConsumeEvent => Advance]_vars

(* While its consumer listens, a run can always take a step: the consumer  *)
(* has an event to take or the run to finish, a lane is at work, or the    *)
(* executor is not waiting for anything.                                   *)
RunNotStuck ==
  consumer = "listen" =>
    \/ out # <<>> \/ pc = "closed"
    \/ \E s \in AllSteps : lane[s] \in {"gate", "tool"}
    \/ pc \in {"begin", "loop", "mediate", "progress", "pausing"}
    \/ pc \in {"spawn", "launch"} /\ Queued # {}
    \/ pc \in {"wait", "collect"} /\ \A s \in AllSteps : lane[s] \in LaneDone \cup {"off"}

-----------------------------------------------------------------------------
(* The inductive invariant behind ProgressConsistent, DispatchAllowed,     *)
(* CompleteIsHonest and ChargesKept (PlanInv), and behind the rest (IInv). *)

(* One copy of the session: ProgressConsistent, and a step whose approval  *)
(* is pending could run but for the approval, and nothing was built on it. *)
RecordOK(r) ==
  /\ \A s \in r.completed : \A d \in StepAt(s).deps : DependencyMet(r, d)
  /\ \A s \in r.completed \cap FailedSteps(r) : SkippedAfterFailure(r, s)
  /\ r.pending # NoStep =>
       /\ NeedsApproval(r.pending) /\ r.pending \notin r.approved
       /\ r.pending \notin r.completed
       /\ \A d \in StepAt(r.pending).deps : DependencyMet(r, d)
       /\ \A s \in r.completed : r.pending \notin StepAt(s).deps

RecordsOK ==
  RecordOK(session) /\ RecordOK(store) /\ \A w \in Writers : RecordOK(held[w])

(* A step of the batch stays runnable until its result is collected.       *)
LaneOK(s) ==
  /\ pc \in {"spawn", "launch", "wait", "collect"}
  /\ DependenciesSatisfied(session, s)
  /\ ~IsStepTerminal(session, s)
  /\ lane[s] \in {"tool", "ok", "empty"} => (NeedsApproval(s) => s \in session.approved)
  /\ lane[s] = "confirm" => NeedsApproval(s) /\ s \notin session.approved

LanesOK ==
  /\ \A s \in AllSteps : lane[s] # "off" => LaneOK(s)
  /\ pc = "launch" => Queued # {}

Finished(r) == Steps(r) \subseteq r.completed /\ FailedSteps(r) = {}

(* What an undelivered event says is already true of the session object.   *)
EventOK(e) ==
  /\ e.type = "step_completed" =>
       /\ e.step \in session.completed
       /\ e.step \notin FailedSteps(session)
  /\ e.type = "step_failed" /\ e.step # NoStep =>
       /\ e.reason # NoReason /\ session.failed[e.step] = e.reason
       /\ e.step \in session.completed => pc = "closed"
  /\ e.type = "completed" => pc = "closed" /\ Finished(session)

QueueOK == \A i \in 1..Len(out) : EventOK(out[i])

StatusOK ==
  /\ session.status = "complete" => pc \in {"begin", "closed"} /\ Finished(session)
  /\ store.status = "complete" => Finished(store)
  /\ \A w \in Writers : held[w].status = "complete" => Finished(held[w])

ChargesOK ==
  /\ pc = "idle" <=> consumer = "idle"
  /\ \A c \in Callers \cap upToDate : held[c].tools = store.tools
  /\ "run" \in upToDate =>
       /\ consumer = "listen" => store.tools <= session.tools
       /\ consumer = "persisting" => held["run"].tools = store.tools

PlanInv == TypeOK /\ RecordsOK /\ LanesOK /\ QueueOK /\ StatusOK /\ ChargesOK

-----------------------------------------------------------------------------
(* What it takes besides to bound the overrun, to settle the run and to    *)
(* have it go on.                                                          *)

(* The batch, and its lanes that a charge is due for: past the gate, with  *)
(* a result that is not collected yet.                                     *)
Batch   == {s \in AllSteps : lane[s] # "off"}
Due     == {s \in AllSteps : lane[s] \in {"tool", "ok", "empty"}}
Scripts == {s \in Due : StepAt(s).sandbox}

Paid    == {s \in Due : StepAt(s).cost > 0}

(* Nothing is charged before the collection: a lane past the gate says     *)
(* that the budget is not used up.                                         *)
GateHeld ==
  /\ Due # {} => session.tools < MaxToolCalls
  /\ Scripts # {} => session.scripts < MaxScriptRuns
  /\ \A s \in Paid : session.cost + StepAt(s).cost <= MaxCostCents

(* From then on the charges that are due fit: `room` is what was left of   *)
(* the cost limit when the lanes passed the gate.                          *)
RoomFor(room) ==
  /\ \A s \in Paid : StepAt(s).cost <= room
  /\ session.cost + Cardinality(Paid) * room
       <= (MaxCostCents - room) + MaxParallelLanes * room

DueFits ==
  /\ session.tools + Cardinality(Due) < MaxToolCalls + MaxParallelLanes
  /\ session.scripts + Cardinality(Scripts) < MaxScriptRuns + MaxParallelLanes
  /\ \E room \in 0..MaxCostCents : RoomFor(room)

LoadOK ==
  /\ OverrunBounded
  /\ Cardinality(Batch) <= MaxParallelLanes
  /\ pc # "collect" => GateHeld
  /\ pc = "collect" => DueFits /\ \A s \in AllSteps : lane[s] \in LaneDone \cup {"off"}

AwaitsDecision(r) == r.pending # NoStep /\ ~IsStepTerminal(r, r.pending)

RunSettled(r) ==
  r.status \in {"complete", "failed"} \/ (r.status = "paused" /\ AwaitsDecision(r))

(* The last event of a run settles the session, whatever the events before *)
(* it made of the status, and is the last to be applied.                   *)
LastEvent == out[Len(out)]

ExitOK ==
  consumer = "listen" =>
    /\ pc = "pausing" =>
         /\ AwaitsDecision(session)
         /\ out = <<>> => session.status = "paused"
         /\ out # <<>> => LastEvent.type = "confirmation_need"
    /\ pc = "closed" =>
         /\ out = <<>> => RunSettled(session)
         /\ out # <<>> =>
              \/ LastEvent.type \in {"completed", "step_failed"}
              \/ LastEvent.type = "confirmation_need" /\ AwaitsDecision(session)

(* A batch is not empty, its lanes are launched before it is waited for,   *)
(* and its first result is what the executor goes on with.                 *)
AdvanceOK ==
  /\ \A s \in AllSteps : attempt[s] <= StepAt(s).maxAttempts
  /\ Batch \subseteq Steps(session)
  /\ pc \in {"spawn", "launch"} => Queued # {}
  /\ pc \in {"wait", "collect"} => Queued = {}
  /\ pc \in {"idle", "begin", "loop", "spawn", "launch", "wait"} => outcomes = <<>>
  /\ pc \in {"wait", "collect"} /\ outcomes = <<>> => Batch # {}
  /\ pc = "mediate" => outcomes # <<>>

IInv == PlanInv /\ LoadOK /\ ExitOK /\ AdvanceOK

-----------------------------------------------------------------------------
(* Liveness: every run ends - the plan's loop terminates and its consumer  *)
(* is released.                                                            *)
RunEnds == consumer = "listen" ~> consumer # "listen"
=============================================================================
