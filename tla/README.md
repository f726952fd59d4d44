# A verification project for the WisDev orchestrator

WisDev is a research agent. Its core, under `orchestrator/internal/`, is a Go
server that builds a plan for a research question, executes the plan's steps
with tools (search providers, a Python sidecar, language models), asks a human
where the policy wants one, and keeps the session in a store so that a run can
be cancelled, resumed and streamed. Longer questions run as autonomous jobs that
can be streamed, steered and cancelled. These modules model the part of it that
is stateful and concurrent: the execution of a plan, the services and requests
around it, the jobs, and the search fan-out underneath.

Paths below are relative to the repository; `wisdev/`, `api/`, `resilience/`,
`search/` and `policy/` are short for `orchestrator/internal/...`.

## 1. Inventory

| Component | State | Operations | What makes it correct |
|---|---|---|---|
| Session state machine (`wisdev/state_machine.go`) | `AgentSession.Status` | `transitionSessionStatus` | only listed transitions |
| Plan executor (`wisdev/executor.go`) | the session object: completed and failed steps, approvals, pending approval, replan count, budget; lanes of a batch; event channel | `Execute`, `RunStepWithRecovery`, `executeStepOnce`, `CoordinateAgentFeedback`, `applyAutomaticReplan` | steps run in dependency order, once, approved and within budget; a plan that says complete is; every run ends |
| Guardrail and budget (`policy/engine.go`) | `BudgetState` in the session | `EvaluateGuardrail`, `ApplyBudgetUsage` | limits bind; usage is never lost |
| Durable execution service (`wisdev/execution_service.go`) | map of cancel functions, one goroutine per run, a session copy per run | `Start`, `Cancel`, `Abandon`, `IsActive`, `Stream`, `run`, `executeSessionRun` | one live run per session; a stop wins over the run; a run settles the session; streams end, and tell the truth |
| Session gateway (`api/gateway.go`, `wisdev/dedup.go`) | the session copy of each request, approval tokens, stored answers by idempotency key | create, execute, resume, cancel, abandon | a token is decided once; an accepted decision stays; a failed resume leaves no decision; a retry under an answered key is not carried out again |
| Session stores (`wisdev/session_store.go`) | Postgres or Redis, memory, and the pair `FallbackSessionStore` | `Get`, `Put`, `Delete`, `List` | reads see the last write |
| Autonomous jobs (`api/yolo.go`) | job object, bounded event channel, context, claim flag; journal entries | register, pipeline, stream, status, cancel, retention, recovery | one outcome unless something failed; ended stays ended; streams end; a cancel releases the pipeline |
| Durable research record (`wisdev/research_durable_job.go`) | status of the persisted research job | persist, fail, cancel | not left running by a finished pipeline |
| Steering bus (`wisdev/steering_bus.go`) | a channel and a pending queue per session, keys seen; journal | queue, replay, register, poll, unregister | a signal counts once; none is lost on arrival, and later only in known ways; the bus never holds a closed channel |
| Search registry (`search/provider.go`, `search/cache.go`) | global and provider semaphores, adaptive capacities, rate gates, cache | `ParallelSearch`, `AdjustConcurrency`, rate gate | gated providers are called one at a time; every goroutine reports; every search returns, with all of its reports |
| Circuit breaker (`resilience/circuit_breaker.go`) | state, counters, time of the last failure | `Admit`, `Call`, `recordSuccess`, `recordFailure`, `Reset` | opens at the threshold, holds, is tried again |
| Runtime journal (`wisdev/journal.go`), downstream events | append-only file with an index, optional table | append, read, retention | no event lost inside the window |
| Governor, retry, token budget, cooldown (`resilience/`) | counters | acquire and release, charge | counters return to zero, limits bind |
| Batch endpoint (`api/wisdev_execution_batch.go`) | the stored session | execute a batch, confirm | same as the executor |
| Temporal and ADK runtimes, worker orchestration, autonomous loop and tree search, planner, manuscripts and RAG, CLI and HTTP | see `PROJECT.json` | | not modelled, or not a matter for a model checker; the reason is with each |

How they interact. A request of the gateway reads the session, checks its
idempotency key, decides and writes the session back, and calls `Start`, which
launches a goroutine (`run`). That goroutine reads its own copy of the session,
starts the executor as another goroutine and listens on the executor's event
channel; the executor starts one goroutine per step of a batch. Executor and
listener edit **the same session object**; the listener also applies every event
to it, appends the event to the journal and Puts the object. `Cancel`, `Abandon`
and resume read and write the **stored** session while all this goes on. Streams
poll the journal, the store and the map of cancel functions, one after the other.

A job has a pipeline goroutine that publishes on one bounded channel; all streams
of the job receive from that channel, and cancel requests write the job's outcome
beside the pipeline. The research loop inside it takes steering signals from a
global bus, which requests fill. Loops and tools search through the registry,
whose provider calls pass a rate gate, a semaphore and a circuit breaker.

What is hard: two goroutines editing one plan; bounded channels whose reader may
leave or has not arrived; reads and writes of the store that are not one step; a
fallback store that can answer with an older session; clean-up racing a
successor; `select` choosing an event over a cancelled context; two writers of
one job's outcome; replaced semaphores with units outstanding; results arriving
in another state than the one that admitted them; crashes, panics and failing
writes between two steps. `PROJECT.json` lists each hazard at its line with the
properties aimed at it.

## 2. Modules

| Module | Models | Extends |
|---|---|---|
| `SessionLifecycle` | the transition table | |
| `PlanExecutor` | one session with its plan: executor, lanes, consumer, store, requests, crashes | `SessionLifecycle` |
| `MCPlanExecutor` | two small plans | `PlanExecutor` |
| `PlanExecutorProofs`, `PlanExecutorInvariant` | facts about the operators and type correctness; the inductive invariant and its consequences | `PlanExecutor` |
| `ExecutionService` | any number of runs of a session; the session is its status | `SessionLifecycle` |
| `ExecutionStream` | the service with a streaming client | `ExecutionService` |
| `MCExecutionService` | the symmetry of runs | `ExecutionService` |
| `ExecutionServiceProofs` | inductive invariant of the service; the service with a stream implements it | `ExecutionStream` |
| `SessionGateway` | concurrent requests, idempotency, the fallback store and the run: the approval handshake | |
| `MCSessionGateway`, `SessionGatewayProofs` | the symmetry of requests; inductive invariant | `SessionGateway` |
| `JobOutcome` | abstract: a job is accepted, then decided once; a second, contradicting outcome needs a fault and involves a cancellation | |
| `YoloJob` | a job with its pipeline, streams, cancels, journal and durable record; implements `JobOutcome` | |
| `YoloJobProofs` | inductive invariant and the refinement | `YoloJob` |
| `SteeringBus`, `SteeringBusProofs` | signals from request to loop, journal and restart; inductive invariant | |
| `SearchFanout`, `SearchFanoutProofs` | concurrent searches over one registry; inductive invariant | |
| `CircuitBreaker`, `CircuitBreakerProofs` | the breaker and its theorems | |

Definitions called "Faulty variant" are plausible mistakes in the code next to
them. The specifications do not use them; `PROJECT.json` pairs each with the
property that rejects it.

### PlanExecutor

| State | Code |
|---|---|
| `store` | the record the last `Put` left |
| `session` | the `*AgentSession` that executor and `executeSessionRun` share |
| `pc`, `lane`, `attempt`, `outcomes` | program counter of `Execute`, the step goroutines, their attempt numbers, `laneOutcomes` of the batch |
| `out` | the event channel; a blocked send is the element beyond `EventBuffer`, and the executor moves on (`Sent`) only when a receive made room |
| `consumer`, `cancelled` | `executeSessionRun`/`run`, and its context |
| `op`, `phase`, `held` | per caller: the request under way, where it is, and the session copy it read; `held["run"]` is the copy `run` reads to mark the session failed |
| `upToDate` | history: the writers whose copy no other Put has passed since they read or wrote the record |

A step of `Execute` between two blocking points is one action. A step of a plan
is its position, a failure message is what `classifyErrorCode` makes of it, and
a tool call has one of four outcomes (success, success without sources, a
failure that replanning treats as terminal, another failure). The executor's
parts are, in the order of the code, `Begin`, `LoopCancelled`, `LoopAllTerminal`,
`LoopExhausted`, `LoopTerminalFailure`, `LoopReplan`, `LoopSelect`, `StartStep`,
`LaunchLane`, `BatchDone`, `CollectSuccess`, `CollectConfirm`, `CollectFailure`,
`PauseForApproval`, `BatchCollected`, `MediateReplan`/`MediateContinue`,
`Progress` and `Panic`; lanes are `LaneGate` and `LaneTool`.

A request is as many steps as the code leaves gaps. `Start` on a session that was
never run is `PrepareRead` (`Get`), `PrepareWrite` (the Put of
`prepareSessionForExecution`, before the lock) and `Start` (under the lock:
AlreadyRunning, or a run). A resume is `ResumeRead`, `ResumeWrite`, `Start` or
`ResumeRollback`; on an expired approval `ExpireRead` and `ExpireWrite`. A stop is
`StopRead`, `StopActive`, `StopWrite`. The run's own mark after an error is
`PersistFailureRead` and `PersistFailureWrite`. Each of the writes may fail
(`RequestPutFails`). Between the read and the write the run and the other callers
go on, and what they stored is overwritten: the model has every lost update these
operations have. `ChargesKept` says that nothing but a lost update gives charges
back, whichever of the five writers it is.

Go's memory model gives no order between the executor's and the consumer's
accesses to the shared session. The model interleaves them in steps of one
handler each; a torn map access aborts the Go process, which is `Crash`.

### ExecutionService, ExecutionStream

A member of `Runs` is one call of `Start` and the goroutine it may launch:
`StartRead`, `StartPrepare`, `StartRegister` (only this one holds the lock),
`RunBegin` to `RunLeave`. `StopRead`, `StopActive`, `StopPut` are `Cancel` and
`Abandon`. The runner is reduced to the statuses it may set and the events it
may send; that it closes its channel only with a settled session is what
`PlanExecutor!RunSettles` shows. The client of `ExecutionStream` reads journal,
session and map in three separate steps.

### SessionGateway

The session is the token of the pending confirmation and what was decided about
each token. A request is `Receive` (`Store.Get`), `Check` (the stored answer, or
the handler's decision on its copy), `Purge` when the answer it found is past its
window (`IdempotencyStore.Get` deletes it under a second lock, and may meanwhile
meet a newer one), `PutPrimary` and `PutMirror` (the two halves
of `FallbackSessionStore.Put`), `StartSucceeds` or `StartFails` (with the Put that
restores the session), `StopGet`/`StopActive` for cancel and abandon, and `Record`
(the answer is stored). `Get` is served by the durable store, or by memory when
that fails. The run that `Start` launches reads the session, raises the next
confirmation or completes, and Puts, while requests go on. `Restart` loses memory,
stored answers and everything under way.

Neither the handlers nor the stores compare versions, so a lost update is always
possible. The history variables `dirty` and `stale` record exactly that: a process
stored a copy that another Put had passed, or a Get returned something other than
the last Put. Three of the invariants are stated for behaviours without one; they
say that nothing *else* breaks the handshake; they do not catch the overwrites
themselves, which the code allows.

`idem` and `old` are the keys of the stored answers, in and past their window;
`answered` are the requests whose answer must be there, and `before[r]` the answered
requests that `r` is a retry of when it arrives. `RetryReplayed` is the promise of
the key under a late purge, expiry, restart and interleaved requests: a retry is
never carried out while the answer it retries is kept. Requests that overlap under
one key are both carried out. The key names user, subject and header but not the
operation, so a cancel can be answered with the answer of an execute.

### JobOutcome, YoloJob

`pipe` is the program counter of `runWisDevPipeline`, split wherever another
goroutine can come in between: every journal entry, every send, the durable record
before and after the loop, and the four steps of its end (set the terminal event,
claim the right to journal it, append, deliver). A cancel request goes through the
same object in its own order (`CancelCheck`, `CancelSet`, `CancelClaim`,
`CancelAppend`, `CancelSend`, `CancelStop`), or through the persisted record when
the process has no such job. Streams receive from the shared channel and take the
job's terminal event when it is closed. `Expire` drops the object, `Crash` the
process; afterwards `Recovered` is what `recoverWisDevJobFromJournal` makes of the
journal. `JobOutcome` is the promise to a reader of the journal, mapped onto the
event types of its entries: an accepted job gets one of done, failed and cancelled,
once and for all. The entry of a cancel that went through the persisted record
(`"control"`) has the event type `job_cancelled` and counts as such. It is appended
without the claim flag, so after a panic or a failed save, which leave the record
running, a cancel can contradict the pipeline's entry; `Contradict` allows exactly
that, and only after a fault.

### SteeringBus

One session. A request is `SubmitQueue` (`Enqueue`, under the lock) and
`SubmitJournal`; a run of the loop is `ReplayRead`, `ReplayNext`, `Register` (under
the lock), `Flush` (one blocking send, after the lock), `Registered`, `Poll`,
`Unregister`. Two loops of a session may overlap. `journaled` are the loops whose
request carries the journal (only `unified_research_runtime.go` sets it); the others
replay nothing. No code but tests supplies a channel of its own, which would skip
replay and registration. `Places(s)` are all positions at
which the process holds a signal, the applied ones included.

### SearchFanout

Searches of one query (`Begin`, `Admit`, `Finish`) with a goroutine per provider
(`Launch`, `RateGate`, `Acquire`, `CallReturns`, `AdjustConcurrency`, `SendResult`,
`Release`). `sems` keeps every semaphore a provider has had, and `sem` says which
one a goroutine took, because `AdjustConcurrency` replaces a semaphore that still
has units outstanding. Time is the number of ticks until a gate opens.

### CircuitBreaker

The lock is held by `CallEnter` (up to the protected function) and by
`RecordSuccess`, `RecordFailure`, `IgnoreFailure` (after it). Time is one bit:
whether the reset timeout has passed since the last counted failure.

## 3. Runs

| Run | Result | Shows |
|---|---|---|
| `plan_safety` | passes, 2.5 M states | `ProgressConsistent`: every copy of a session has a consistent plan; `DispatchAllowed`: a tool runs only when it may; `OverrunBounded`: tool calls, script runs and cost exceed their limits by less than a batch can; `CompleteIsHonest`; `RunSettles`; `ChargesKept`: only a lost update refunds; `RunAdvances`: each step of a run uses up something finite |
| `plan_liveness` | passes, 141 k states | `RunEnds` under fairness; `IInv`, the invariant of the proofs |
| `service_safety` | passes, 2.4 M states | `CancelsIsLive`, `RegisteredUnlessStopped`, `SettlesWhenQuiet` |
| `service_single_flight` | violated | two live runs of one session |
| `stream_liveness` | passes, 725 k states | `StreamReturns`, `CancelledRunLeaves`, `StreamOutlivesRun` |
| `gateway_approval` | passes, 2.9 M states | `TokenConsumedOnce`, `AcceptedDecisionKept`, `DecisionAccounted`; `RetryReplayed`: a retry is answered from the stored answer |
| `gateway_keyless` | violated | a keyless resume is answered with another request's answer |
| `job_lifecycle` | passes, 581 k states | `OneOutcome` (the refinement of `JobOutcome`, persisted cancels included), `ClosedHasTerminal`, `RecoveryFaithful`, `RecordSettled`, `EndedStaysEnded`; `StreamsEnd` and `CancelReleases` under fairness |
| `steering_safety` | passes, 2.4 M states | `HeldOnce`, `ReplayComplete`; `LostOnlyKnownWays`: an accepted signal is held, and lost only as the oldest of a full queue, with its loop or in a restart; `HeldChannelOpen`, `RegistrationHeld` |
| `steering_register` | violated | a registration that never returns |
| `search_registry` | passes, 324 k states | `GatedSingleFlight`, `ReportedOnce`; `ReturnedSettled`: a search returns, and caches, only with every report; `CooldownNotShortened`; `SearchReturns` under fairness |
| `breaker_safety` | passes, 2.0 k states | `CountersFitState`, `ErrorsAreCounted`, `OpenHolds`, `OpenIsProbed` |

**Bounds.** `GuidedPlan` has three steps: two ready at once in two lanes, one of
which needs confirmation, so that a confirmation can drop another lane's result;
and one behind a dependency, with a retry. Two callers have one resume or stop
between them, any number of `Start`s and one fault: a resume or stop races the run
and the `Start` of the other caller, with a crash, a failing Put or a rollback in
between. (Two resumes or stops at once exceed the time of a run; the theorems have
no bound, and `SessionGateway` has two requests of any kind.) Its budget of two calls
and three cents is used up by the plan, so blocked steps, replans and overruns of
calls and of cost occur; one replan reaches both sides of the limit. `SandboxPlan` adds script limits, the autonomous
mode, a checkpoint and a dependency that does not exist. The channel holds one
event instead of 16: blocking sends are then frequent, and a larger buffer only
delays them. Three `Start`s are the fewest that break single flight after a
stop, and the passing run has two stops and a failed Put on top. The stream run
has two runs and one stop, one more than a stream needs to see a run end and
another begin.

The gateway has two requests of any kind, a run and two tokens, so that a request
can meet the confirmation after the one it decides; two faults let a Start and its
rollback's Put both fail, and a restart empties memory between a Put and the next
Get. The job has two streams (one of which does not get the terminal event), a
channel of one, one progress event, so that the channel is full when the terminal
event comes, and one fault. Three signals overflow the bus's queues of two; two
loops and a restart give overlapping registrations and a second replay; one
foreign journal entry pushes a signal out of the replay window of two. The
searches are two over one gated and one ungated provider; the global semaphore has
two slots there, so that both can be in flight, and never binds. With a third
search the state space exceeds the time of a run; that the slots bound the calls is
therefore a theorem (`SearchCallsWithinAdmission`) and not a property of the run. The breaker has three callers for thresholds of
two, so that late results outnumber a threshold, and seven requests: enough to
open it, probe it and open it again.

`CHECK_DEADLOCK FALSE` is set where the system may stop: callers need not call,
requests are bounded, and an executor whose reader left blocks for good on its
full channel. The breaker run checks deadlock.

**Fairness.** `PlanExecutor`: the Go scheduler runs goroutines that can run, and
tool calls return because each carries a timeout; nothing is assumed of callers,
failing Puts and crashes. `ExecutionStream`: goroutines are scheduled; a
cancelled context is noticed, as `select` chooses among ready cases at random and
the runner's channel does not stay ready for ever; the client's ticker ticks.
`YoloJob`: the pipeline and the handlers that have begun are scheduled; no client
has to arrive, stay or cancel. `SteeringBus`: a loop that has started goes on.
`SearchFanout`: goroutines are scheduled, provider calls return because their
clients time out, and time passes; weak fairness is enough because each of the
finitely many goroutines takes a slot of a semaphore once, so a waiting one is not
overtaken for ever (the Go semaphore is first come, first served). `CircuitBreaker`: the clock runs, admitted calls return, somebody
asks again.

## 4. What is proved

For every plan, lane count, limit (zero included), number of requests and number
of faults (`PlanAssumption`, `ModeAssumption`, `LimitAssumption`):

* `TypeCorrect`: `TypeOK`. In particular no path replans beyond the limit.
* `Invariance`: `IInv`, and from it `ProgressIsConsistent`, `DispatchIsAllowed`,
  `CompletionIsHonest`, `ChargesAreKept`, `OverrunIsBounded`,
  `FinishedRunIsSettled`, `RunNeverStuck` and `RunMakesProgress`.

`IInv` has four parts. `PlanInv` is inductive by itself (`PlanInvariance`); each
of the others is preserved by the steps of a state that satisfies it and
`PlanInv` (`AdvanceOK` also uses `LoadOK`).

*`PlanInv`, what the session says.* The consumer re-applies events to a session
that has moved on, so `ProgressConsistent` needs `QueueOK`: what an undelivered
event says is already true of the session, hence applying it late undoes nothing.
That holds only because a step of a batch is not terminal until it is collected
(`LanesOK`), which is also `DispatchAllowed`. A resume completes or fails the
pending step, so `RecordsOK` must say that the pending step could run but for
its approval and that nothing was built on it; this in turn has the exception
`SkippedAfterFailure`, a step that failed in a later run before a human skipped
it: the resume does not look at the recorded failure. `StatusOK` ties a complete
status to the executor's position, and `ChargesOK` says that a writer in
`upToDate` holds a copy charged no less than the stored one, so that its Put
refunds nothing. All of it is stated of every copy that anybody may still write.

*`LoadOK`, the budget.* While lanes pass the gate nothing is charged, so one lane
beyond it says that the budget is not used up (`GateHeld`). When the collection
begins, this turns into room for the charges that are due (`DueFits`): one call
and one script run per lane, and for the cost a number `room`, what was left of
the limit at the gate, that bounds each lane's charge. Collecting a result moves
one unit from due to charged and keeps the sum. That a batch has no more steps
than lanes (`BatchFits`) is a fact about `selectRunnableSteps`. The bound on the
cost is the product of lanes and limit, because every lane may spend the same
rest.

*`ExitOK`, the end.* A settled status is not enough: the consumer assigns a
status for each event without asking the state machine, so a late event could
overwrite it. `ExitOK` says that the last event in the channel is the one that
settles, and that a confirmation still awaits its decision when it is applied.

*`AdvanceOK`, the stages.* A batch that is announced has steps to launch, one
that is waited for is launched as a whole, and the executor goes on only with a
result in hand. `RunNeverStuck` and `RunMakesProgress` follow: while the consumer
listens some goroutine of the run has its guard satisfied, and each of their
steps lowers, in this order, the replans left, the open steps, the stage of the
batch, the attempts and stages of its lanes, the announcement due, or the events
in the channel. The order is well founded, so under fair scheduling every run
ends; that conclusion itself (`RunEnds`) is a temporal one and is checked by TLC.

For every set of runs and any number of stops and faults (`RunsAssumption`,
`BoundAssumption`), `ServiceInvariance` and from it `EntryIsLive`,
`SingleFlightUnlessStopped` and `QuietIsSettled`. The unchecked delete of
`RunLeave` keeps `CancelsIsLive` because it can only remove an entry, never
install one; it is harmless to single flight before the first stop, because then
every live run is the registered one. `OutcomeOK` carries the stored status
across the steps between a run's last Put and its departure.
`StreamImplementsService` shows that the service with a streaming client
implements the service alone, so all of this holds under a stream;
`StreamWaitsForRun` proves `StreamOutlivesRun` from it: the map is the last thing
a client reads, and before the first stop it holds every run that is live.

**Gateway** (any requests, keys, tokens, faults and restarts): `GatewayInvariant`
and from it `GatewayTokenConsumedOnce`, `GatewayDecisionKept`,
`GatewayDecisionAccounted`. The invariant is `stale`
or the handshake. `CopyOK` says that the copy of a process no other Put has passed
differs from the last Put only by the process's own decision (`PutOK`); hence a Put
that is not stale adds its own decision, or takes it back, and leaves the others.
Two requests with one token cannot both be deciding on copies that are up to date,
because the first Put makes the other copy dirty and consumes the pending token
(`SoundSession`: no token is both pending and decided). `GatewayRetryReplayed` has
an invariant of its own, `AnswersOK`: the answer of an answered request is among
those in their window, so a retry that arrives cannot find its key missing or
expired, and whoever removes the answer also ends the obligation.

**Job** (any streams, cancels, capacity, progress and faults): `JobInvariant`, and
from it `JobClosedHasTerminal`, `JobRecordSettled`, `JobRecoveryFaithful`,
`JobEndedStaysEnded` and the refinement `JobOneOutcome`. At its centre is
`ClaimOK`: whoever holds the claim flag is the only writer between claim and
append, and before it the journal has no outcome but a persisted cancel's. Such a
cancel finds the record running behind a decided journal only after a fault, which
is the one case in which the refinement takes `Contradict`. `TermOK` says that whoever
stops the pipeline has set the terminal event first, which is why a closed channel
always has one. `FaithOK` follows an untouched pipeline from its outcome over the
journal and the channel to the streams.

**Steering** (any signals, loops, positive limits, journal traffic and restarts):
`SteeringInvariant`, and from it `SteeringHeldOnce`, `SteeringChannelOpen`,
`SteeringReplayComplete`, `SteeringLosses`, `SteeringRegistrationHeld`. A step
moves one signal between two boxes, moves a whole box, adds a signal the bus has
not seen, or empties boxes; one lemma for each (`MoveOnce`, `SwapOnce`, `AddOnce`,
`SubOnce`) shows that positions stay determined by their signal and which signals
disappear; `SteeringLosses` needs besides that a signal the bus accepts is placed. `SeenOK` closes the circle: what is held is seen, so what is not seen is
new. For the replay, `ReplayOK` says that a recent signal the bus has not seen is
still in front of every loop that is replaying, and that no loop has registered.

**Search** (any finite sets of searches and providers, capacities and times):
`SearchInvariant`, and from it `SearchGatedSingleFlight`, `SearchCooldown`,
`SearchReturnedSettled`, `SearchCallsWithinAdmission`, `SearchReportedOnce`. A gated provider keeps its
first semaphore because its default and maximal concurrency are both one, so
`AdjustConcurrency` has nothing to replace (`GateOK`); the cardinality of the
admitted searches bounds everything called on their behalf (`AdmitOK`). The
results of a search are in bijection with the providers that have reported
(`ReportsCounted`), so counting them is a sound test for the collector, and a
search that has returned left nothing behind (`SettledOK`).

**Breaker** (any finite set of callers, positive thresholds): `BreakerTypes`,
`CountersFit`, `ErrorRateIsARate` (with cardinality lemmas for the calls in
flight) and `OpenBreakerHolds`.

**Model-checked only.** Liveness (`RunEnds`, `StreamReturns`,
`CancelledRunLeaves`, `StreamsEnd`, `CancelReleases`, `SearchReturns`,
`OpenIsProbed`) is out of the prover's reach, and so is `ENABLED`: `RunNotStuck`
spells the guards out instead. Every safety and action property of the passing
runs is also a theorem.

## 5. Findings

`PROJECT.json` quotes the lines; each has a run with a counterexample.

1. The deferred delete in `run` removes a successor's entry: after a cancel and
   a restart, two runs of a session can live at once.
2. A request without an idempotency header has the key `""`, which is looked up
   and stored like any other: a resume with an approval token can be answered 200
   with the answer of an earlier keyless request, and decides nothing.
3. `RegisterSteeringChannel` fills its channel after it released the lock and
   before it has a reader: signals that arrive meanwhile take the room, and the
   registration, with its loop, blocks for good.

Observed while modelling:

* Execution. Lanes of a batch check the budget concurrently, so its limits can be
  exceeded by less than a batch, and the cost can reach as many times its limit as
  there are lanes (`OverrunBounded`). A cancelled run may store one
  more event's status over the one of `Cancel`. A stream that sent an earlier
  `step_failed` can end on a complete session without `completed`. A confirmation
  drops the unread results of its batch, whose tools run again after the resume
  and were never charged. `Start` on a complete or abandoned session ends with the
  session failed. `CreateSession` leaves the budget zero, with which every step is
  blocked. Every request reads, decides and writes back without comparing versions:
  a resume, a stop, a `Start` that prepares, a rollback and the run's own Puts can
  each undo what another stored in between, charges included. A refused `Start` can put a stale `generating_tree` over a settled
  session (the exception in `SettlesWhenQuiet`).
* Gateway. Two resumes, a resume and a cancel, mirrors in another order than the
  Puts they follow, and a primary that is back after an outage all can undo or
  repeat a decision; these are what `stale` stands for. A keyless create can be
  answered with the session of another one. Two requests that overlap under one key
  are both carried out; an expired answer is deleted after the lock was released,
  and a newer one can go with it. Stored answers are the memory of one process. A `Start` that arrives while a run is
  leaving is answered AlreadyRunning with nobody running afterwards.
* Jobs. A pipeline that fails after a cancel overwrites the cancelled event in
  memory; notes behind the cancelled entry make recovery report a failure; a cancel
  can send on the channel the pipeline has just closed; cancelling a persisted job
  appends a cancelled entry without the claim flag, behind a failed one if the loop
  panicked, so that the journal has two outcomes; after a panic the durable record stays running,
  and a job recovered from the journal cannot cancel it.
* Steering. A signal that met a full channel waits for the next registration, and
  the oldest of 64 waiting ones is dropped for the next, although the comment at
  `wisdev/steering_bus.go:81` says that a full queue does not drop user steering. The
  signals a loop has not read are lost with it, and `seen` keeps a replay from
  bringing them back. After a restart, signals that were applied are replayed. A
  loop whose registration a newer one took gets no more signals.
* Search. A request that has passed the gate is sent inside a cooldown that began
  after it. Replaced semaphores let an ungated provider exceed its maximum. The
  global semaphore counts searches: with 50 of them and several providers each, more
  than the "50 concurrent provider requests across all users" of the comment at
  `search/provider.go:473` are under way. A gated
  provider that does not defer waits without limit and keeps a global slot.
  Results with failed providers are cached like complete ones.
* Breaker. Half-open admits every caller; its comment says a limited number.

## 6. Abstractions, and what is not modelled

* `paper_found` events (a Put without a change the properties see), artifacts,
  confidence values, messages, traces and telemetry.
* The tool call: one nondeterministic outcome; which Python or Go path it takes
  is not told apart. The coordinator's model answers anything.
* In `PlanExecutor` and `ExecutionService` the store is one record, `Get` does not
  fail on its own and a `Put` may. `PlanExecutor` has one run at a time, and a
  registration and the run's first read are one step; that several runs overlap,
  and what happens between these two, is `ExecutionService`. The two-store view is
  `SessionGateway`, which in turn reduces the session to its approvals and has one
  run at a time. `Start`s are not counted among the bounded requests. A resume whose
  `Start` finds the session questioning again, restored by the rollback of another
  resume, waits in `PlanExecutor` for the `Start` of another caller to prepare it; the
  code lets it do that itself.
* Expiry of records, `Delete` and `List` of the stores; the ownership check and
  malformed bodies are early returns without a state change.
* A stream client that disconnects from a session stream, or whose emit fails,
  simply ends; not modelled. Clients of a job's stream may leave.
* A panic of the function a breaker protects, the breaker's registry and its
  fallback wrapper.
* The journal is seen through the entries its users read: the set of terminal
  events of a session stream, the entries of a job, the last entries of a
  session for the replay. Its file, index, retention and database copy are not
  modelled, nor is the window of 256 entries of a session stream.
* In `YoloJob` the research passes and document generation between the two writes
  of the durable record are one loop with any outcome. What a steering signal
  does to the query list is not modelled.
* `StreamParallelSearch`, which only tests call, takes neither semaphores nor
  breakers; provider choice, fusion and ranking are data, and a search has one
  query, so one cache entry. `SetConcurrencyLimit`, which would give even a gated
  provider another semaphore, has no caller outside tests and is left out.
* The ADK runner, Temporal, the batch endpoint, governor and token budget, worker
  orchestration, tree search, planner and the text pipelines: the reason is with
  each in `PROJECT.json`. Most of the repository's lines are of this kind: text,
  ranking, prompts, generated code and the terminal interface.

## 7. Plan

Done: the modules above. What would add most next:

1. The same two halves of termination, a measure and the absence of waiting
   without end, for the job's pipeline and for the search collector.
2. The session routes' `syncCanonicalSessionStore` as one more writer of
   `PlanExecutor`, whose fresh budget refunds charges even when nothing overtook it.
3. The journal's window of 256 entries against the polling stream, in
   `ExecutionStream`.
4. `CircuitBreaker` with its fallback wrapper, composed with `SearchFanout`.
5. The resource governor and the token budget: once-only release, limits, no leak.
6. The batch endpoint on the session of `SessionGateway`.
7. An abstract specification of a durable plan (each step once pending, then
   done, failed or skipped; charges only grow) that `PlanExecutor` implements
   between lost updates.
