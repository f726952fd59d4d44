----------------------- MODULE PlanExecutorInvariant -----------------------
(***************************************************************************)
(* The inductive invariant of a plan run and what follows from it, for     *)
(* every plan, lane count, replan and budget limit and buffer size.        *)
(* First what each edit of a session record does to RecordOK; then one     *)
(* lemma for each conjunct of PlanInv, one step for each action; then the  *)
(* bound on the overrun (LoadOK), the settling of a run (ExitOK) and the   *)
(* stages of a batch (AdvanceOK), which rest on PlanInv; then the theorems *)
(* and the measure that every step of a run lowers.                        *)
(***************************************************************************)
EXTENDS PlanExecutorProofs

(* Two records that agree on the progress of the plan.                     *)
SameProgress(q, r) ==
  /\ q.completed = r.completed /\ q.failed = r.failed
  /\ q.approved = r.approved /\ q.pending = r.pending

(* RecordOK looks at nothing but the progress of the plan.                 *)
LEMMA SameProgressOK ==
  ASSUME NEW r \in Session, NEW q \in Session, SameProgress(q, r), RecordOK(r)
  PROVE  RecordOK(q)
BY DEF SameProgress, RecordOK, DependencyMet, SkippedAfterFailure, FailedSteps

(* A new session satisfies RecordOK.                                       *)
LEMMA NewSessionOK == RecordOK(NewSession)
BY DEF NewSession, RecordOK

(* A runnable step that has its approval completes.                        *)
LEMMA CompletedOK ==
  ASSUME NEW r \in Session, NEW q \in Session, NEW s \in AllSteps, RecordOK(r),
         DependenciesSatisfied(r, s), ~IsStepTerminal(r, s),
         NeedsApproval(s) => s \in r.approved,
         q.completed = r.completed \cup {s},
         q.failed = r.failed, q.approved = r.approved, q.pending = r.pending
  PROVE  RecordOK(q)
<1>1. FailedSteps(q) = FailedSteps(r) /\ s \notin FailedSteps(r)
  BY DEF FailedSteps, IsStepTerminal
<1>2. \A d : DependencyMet(r, d) => DependencyMet(q, d)
  BY <1>1 DEF DependencyMet, SkippedAfterFailure
<1>3. \A t \in q.completed : \A d \in StepAt(t).deps : DependencyMet(q, d)
  BY <1>2 DEF RecordOK, DependenciesSatisfied, DependencyMet
<1>4. \A t \in q.completed \cap FailedSteps(q) : SkippedAfterFailure(q, t)
  BY <1>1 DEF RecordOK, SkippedAfterFailure
<1>5. q.pending # NoStep => q.pending # s /\ q.pending \notin StepAt(s).deps
  BY DEF RecordOK, DependenciesSatisfied
<1> QED BY <1>2, <1>3, <1>4, <1>5 DEF RecordOK

(* A runnable step waits for its approval.                                 *)
LEMMA PendingOK ==
  ASSUME NEW r \in Session, NEW q \in Session, NEW s \in AllSteps, RecordOK(r),
         DependenciesSatisfied(r, s), ~IsStepTerminal(r, s),
         NeedsApproval(s), s \notin r.approved,
         q.completed = r.completed,
         q.failed = r.failed, q.approved = r.approved, q.pending = s
  PROVE  RecordOK(q)
<1>1. FailedSteps(q) = FailedSteps(r) /\ s \notin FailedSteps(r)
  BY DEF FailedSteps, IsStepTerminal
<1>2. \A d : DependencyMet(q, d) <=> DependencyMet(r, d)
  BY <1>1 DEF DependencyMet, SkippedAfterFailure
<1>3. s \notin r.completed /\ ~DependencyMet(r, s)
  BY <1>1 DEF IsStepTerminal, DependencyMet, SkippedAfterFailure
<1>4. \A d \in StepAt(s).deps : DependencyMet(q, d)
  BY DEF DependenciesSatisfied, DependencyMet
<1>5. \A t \in q.completed \cap FailedSteps(q) : SkippedAfterFailure(q, t)
  BY <1>1 DEF RecordOK, SkippedAfterFailure
<1> QED BY <1>2, <1>3, <1>4, <1>5 DEF RecordOK

(* A step that is not completed fails or is rejected.                      *)
LEMMA FailedOK ==
  ASSUME NEW r \in Session, NEW q \in Session, NEW s \in AllSteps, RecordOK(r),
         s \notin r.completed, NEW f, f # NoReason,
         q.completed = r.completed, q.failed = [r.failed EXCEPT ![s] = f],
         q.approved = r.approved, q.pending \in {r.pending, NoStep}
  PROVE  RecordOK(q)
<1>1. FailedSteps(q) = FailedSteps(r) \cup {s}
  BY DEF FailedSteps, Session
<1>2. \A d : /\ DependencyMet(r, d) => DependencyMet(q, d)
             /\ SkippedAfterFailure(r, d) => SkippedAfterFailure(q, d)
  BY <1>1 DEF DependencyMet, SkippedAfterFailure
<1>3. \A t \in q.completed \cap FailedSteps(q) : SkippedAfterFailure(q, t)
  BY <1>1, <1>2 DEF RecordOK
<1> QED BY <1>2, <1>3 DEF RecordOK

(* A human approves the pending step ...                                   *)
LEMMA ApprovedOK ==
  ASSUME NEW r \in Session, NEW q \in Session, RecordOK(r), r.pending # NoStep,
         q.completed = r.completed, q.failed = r.failed,
         q.approved = r.approved \cup {r.pending}, q.pending = NoStep
  PROVE  RecordOK(q)
<1>1. FailedSteps(q) = FailedSteps(r)
  BY DEF FailedSteps
<1>2. \A d : d # r.pending =>
               /\ DependencyMet(r, d) => DependencyMet(q, d)
               /\ SkippedAfterFailure(r, d) => SkippedAfterFailure(q, d)
  BY <1>1 DEF DependencyMet, SkippedAfterFailure
<1> QED BY <1>1, <1>2 DEF RecordOK

(* ... or skips it.                                                        *)
LEMMA SkippedOK ==
  ASSUME NEW r \in Session, NEW q \in Session, RecordOK(r), r.pending # NoStep,
         q.completed = r.completed \cup {r.pending}, q.failed = r.failed,
         q.approved = r.approved, q.pending = NoStep
  PROVE  RecordOK(q)
<1>1. FailedSteps(q) = FailedSteps(r)
  BY DEF FailedSteps
<1>2. \A d : /\ DependencyMet(r, d) => DependencyMet(q, d)
             /\ SkippedAfterFailure(r, d) => SkippedAfterFailure(q, d)
  BY <1>1 DEF DependencyMet, SkippedAfterFailure
<1>3. r.pending \in FailedSteps(r) => SkippedAfterFailure(q, r.pending)
  BY <1>1 DEF RecordOK, SkippedAfterFailure
<1> QED BY <1>1, <1>2, <1>3 DEF RecordOK

(* Whatever a resume decides, the record stays consistent and keeps its    *)
(* charges.                                                                *)
LEMMA ResumedOK ==
  ASSUME NEW r \in Session, RecordOK(r), NEW action \in ResumeAction
  PROVE  RecordOK(Resumed(r, action)) /\ Resumed(r, action).status = "searching"
         /\ Resumed(r, action).tools = r.tools
<1> DEFINE q == Resumed(r, action)
<1>1. q \in Session
  BY ResumedType
<1>2. q.pending = NoStep /\ q.status = "searching" /\ q.tools = r.tools
  BY DEF Resumed, Session, ResumeAction
<1>3. CASE r.pending = NoStep \/ action = "continue"
  <2>1. q.completed = r.completed /\ q.approved = r.approved
    BY <1>3 DEF Resumed, Session
  <2>2. q.failed = r.failed
    <3>1. r.failed = [s \in AllSteps |-> r.failed[s]]
      BY DEF Session
    <3> QED BY <1>3, <3>1 DEF Resumed, Session
  <2> QED BY <1>2, <2>1, <2>2 DEF RecordOK, DependencyMet, SkippedAfterFailure, FailedSteps
<1>4. CASE r.pending # NoStep /\ action = "approve"
  <2>1. q.completed = r.completed /\ q.failed = r.failed /\ q.approved = r.approved \cup {r.pending}
    BY <1>4 DEF Resumed, Session
  <2> QED BY <1>1, <1>2, <1>4, <2>1, ApprovedOK
<1>5. CASE r.pending # NoStep /\ action = "skip"
  <2>1. q.completed = r.completed \cup {r.pending} /\ q.failed = r.failed /\ q.approved = r.approved
    BY <1>5 DEF Resumed, Session
  <2> QED BY <1>1, <1>2, <1>5, <2>1, SkippedOK
<1>6. CASE r.pending # NoStep /\ action = "reject"
  <2>1. q.completed = r.completed /\ q.approved = r.approved
    BY <1>6 DEF Resumed, Session
  <2>2. r.pending \in AllSteps /\ r.pending \notin r.completed
    BY <1>6, StepsOfSession DEF RecordOK
  <2>3. q.failed = [s \in AllSteps |-> IF s = r.pending THEN "rejected" ELSE r.failed[s]]
    BY <1>6 DEF Resumed, Session
  <2>4. q.failed = [r.failed EXCEPT ![r.pending] = "rejected"]
    BY <2>2, <2>3 DEF Session
  <2> QED BY <1>1, <1>2, <2>1, <2>2, <2>4, FailedOK DEF NoReason
<1> QED BY <1>2, <1>3, <1>4, <1>5, <1>6 DEF ResumeAction

-----------------------------------------------------------------------------
(* The consumer applies an event to a session in which it is already true: *)
(* nothing changes but the status, unless a failure is reported of a step  *)
(* that a human skipped after it had failed, which loses its completion.   *)
LEMMA AppliedEvent ==
  ASSUME session \in Session, NEW e \in Event, EventOK(e), RecordOK(session),
         NEW q, q = ApplyEvent(session, e)
  PROVE  /\ q \in Session /\ RecordOK(q)
         /\ q.failed = session.failed /\ q.approved = session.approved
         /\ q.pending = session.pending /\ q.tools = session.tools
         /\ q.replanCount = session.replanCount
         /\ q.status = EventStatus(e, session.status)
         /\ \/ q.completed = session.completed
            \/ /\ e.type = "step_failed" /\ e.step # NoStep /\ pc = "closed"
               /\ e.step \in session.completed /\ e.step \in FailedSteps(session)
               /\ q.completed = session.completed \ {e.step}
<1> DEFINE p == ApplyEventProgress(session, e)
<1>0. e.step \in AllSteps \cup {NoStep} /\ session.failed \in [AllSteps -> Reason \cup {NoReason}]
  BY DEF Event, Session
<1>1. /\ p.approved = session.approved /\ p.pending = session.pending
      /\ p.tools = session.tools /\ p.replanCount = session.replanCount
      /\ p.status = session.status
  BY DEF ApplyEventProgress, Session
<1>5. /\ p.failed = session.failed
      /\ \/ p.completed = session.completed
         \/ /\ e.type = "step_failed" /\ e.step # NoStep /\ pc = "closed"
            /\ e.step \in session.completed /\ e.step \in FailedSteps(session)
            /\ p.completed = session.completed \ {e.step}
  <2>1. CASE e.type = "step_completed" /\ e.step # NoStep
    <3>1. p = [session EXCEPT !.completed = @ \cup {e.step}, !.failed[e.step] = NoReason]
      BY <2>1 DEF ApplyEventProgress
    <3>2. e.step \in session.completed /\ session.failed[e.step] = NoReason
      BY <1>0, <2>1 DEF EventOK, FailedSteps
    <3>3. /\ session.completed \cup {e.step} = session.completed
          /\ [session.failed EXCEPT ![e.step] = NoReason] = session.failed
      BY <1>0, <3>2
    <3> QED BY <3>1, <3>3 DEF Session
  <2>2. CASE e.type = "step_failed" /\ e.step # NoStep
    <3>1. p = [session EXCEPT !.completed = @ \ {e.step}, !.failed[e.step] = e.reason]
      BY <2>2 DEF ApplyEventProgress
    <3>2. session.failed[e.step] = e.reason /\ e.reason # NoReason
      BY <2>2 DEF EventOK
    <3>3. [session.failed EXCEPT ![e.step] = e.reason] = session.failed
      BY <1>0, <3>2
    <3>4. p.failed = session.failed /\ p.completed = session.completed \ {e.step}
      BY <3>1, <3>3 DEF Session
    <3>5. e.step \in FailedSteps(session) /\ (e.step \in session.completed => pc = "closed")
      BY <1>0, <2>2, <3>2 DEF EventOK, FailedSteps
    <3> HIDE DEF p
    <3> QED BY <2>2, <3>4, <3>5
  <2>3. CASE /\ ~(e.type = "step_completed" /\ e.step # NoStep)
             /\ ~(e.type = "step_failed" /\ e.step # NoStep)
    BY <2>3 DEF ApplyEventProgress
  <2> QED BY <2>1, <2>2, <2>3
<1>6. p \in Session
  BY DEF ApplyEventProgress, Session, Event
<1>7. q = [p EXCEPT !.status = EventStatus(e, @)]
  BY DEF ApplyEvent
<1> HIDE DEF p
<1>8. /\ q.completed = p.completed /\ q.failed = p.failed /\ q.approved = p.approved
      /\ q.pending = p.pending /\ q.tools = p.tools /\ q.replanCount = p.replanCount
      /\ q.status = EventStatus(e, session.status)
  BY <1>1, <1>6, <1>7 DEF Session
<1>9. q \in Session
  BY ApplyEventType
<1>10. RecordOK(q)
  <2>1. CASE q.completed = session.completed
    BY <1>1, <1>5, <1>8, <1>9, <2>1, SameProgressOK DEF SameProgress
  <2>2. CASE /\ e.step \in session.completed /\ e.step \in FailedSteps(session)
             /\ q.completed = session.completed \ {e.step}
    <3>1. SkippedAfterFailure(session, e.step)
      BY <2>2 DEF RecordOK
    <3>2. \A d : SkippedAfterFailure(q, d) <=> SkippedAfterFailure(session, d)
      BY <1>1, <1>5, <1>8 DEF SkippedAfterFailure, FailedSteps
    <3>3. \A d : DependencyMet(session, d) => DependencyMet(q, d)
      BY <2>2, <3>1, <3>2 DEF DependencyMet
    <3>4. FailedSteps(q) = FailedSteps(session)
      BY <1>5, <1>8 DEF FailedSteps
    <3> QED BY <1>1, <1>8, <2>2, <3>2, <3>3, <3>4 DEF RecordOK
  <2> QED BY <1>5, <1>8, <2>1, <2>2
<1> QED BY <1>1, <1>5, <1>8, <1>9, <1>10

-----------------------------------------------------------------------------
(* Steps of the executor that leave the progress of the plan alone.        *)
Quiet == SameProgress(session', session) /\ session'.tools = session.tools

(* A change of status is quiet.                                            *)
LEMMA StatusQuiet ==
  ASSUME session \in Session, NEW next
  PROVE  SetStatus(next) => Quiet
BY DEF SetStatus, Quiet, SameProgress, Session

(* A replan is quiet.                                                      *)
LEMMA ReplanQuiet ==
  ASSUME session \in Session PROVE ApplyReplan => Quiet
BY DEF ApplyReplan, Quiet, SameProgress, Session

(* Only the collection of results edits the progress of the plan.          *)
LEMMA ExecutorQuiet ==
  ASSUME TypeOK, Executor,
         ~\E s \in AllSteps : CollectSuccess(s) \/ CollectConfirm(s) \/ CollectFailure(s)
  PROVE  Quiet
<1>1. session \in Session
  BY DEF TypeOK
<1>2. UNCHANGED session => Quiet
  BY DEF Quiet, SameProgress
<1>3. Begin => Quiet
  BY <1>1, <1>2, StatusQuiet DEF Begin
<1>4. LoopCancelled \/ LoopSelect \/ StartStep \/ LaunchLane \/ BatchDone
      \/ BatchCollected \/ MediateContinue \/ Progress => Quiet
  BY <1>2 DEF LoopCancelled, LoopSelect, StartStep, LaunchLane, BatchDone,
              BatchCollected, MediateContinue, Progress
<1>5. LoopAllTerminal \/ LoopExhausted \/ LoopTerminalFailure
      \/ PauseForApproval \/ Panic => Quiet
  BY <1>1, StatusQuiet DEF LoopAllTerminal, LoopExhausted, LoopTerminalFailure,
              PauseForApproval, Panic
<1>6. LoopReplan \/ MediateReplan => Quiet
  BY <1>1, ReplanQuiet DEF LoopReplan, MediateReplan
<1> QED BY <1>3, <1>4, <1>5, <1>6 DEF Executor

(* What every step of the executor has in common.                          *)
LEMMA ExecutorFrame ==
  ASSUME TypeOK, Executor
  PROVE  /\ pc \notin {"idle", "closed"} /\ pc' # "idle"
         /\ UNCHANGED <<store, held, upToDate, consumer>>
<1> USE DEF ExecutorOnly, reqVars, callVars, execVars
<1>1. \A s \in AllSteps : CollectSuccess(s) \/ CollectConfirm(s) \/ CollectFailure(s) =>
        /\ pc = "collect" /\ pc' # "idle" /\ UNCHANGED <<store, held, upToDate, consumer>>
  BY DEF CollectSuccess, CollectConfirm, CollectFailure, Collecting
<1>2. Begin \/ LoopCancelled \/ LoopAllTerminal \/ LoopExhausted =>
        /\ pc \in {"begin", "loop"} /\ pc' # "idle"
        /\ UNCHANGED <<store, held, upToDate, consumer>>
  BY DEF Begin, LoopCancelled, LoopAllTerminal, LoopExhausted, Stuck, AtLoop
<1>3. LoopTerminalFailure \/ LoopReplan \/ LoopSelect \/ StartStep \/ LaunchLane =>
        /\ pc \in {"loop", "spawn", "launch"} /\ pc' # "idle"
        /\ UNCHANGED <<store, held, upToDate, consumer>>
  BY DEF LoopTerminalFailure, LoopReplan, LoopSelect, StartStep, LaunchLane, Stuck, AtLoop
<1>4. BatchDone \/ PauseForApproval \/ BatchCollected \/ MediateReplan =>
        /\ pc \in {"wait", "pausing", "collect", "mediate"} /\ pc' # "idle"
        /\ UNCHANGED <<store, held, upToDate, consumer>>
  BY DEF BatchDone, PauseForApproval, BatchCollected, MediateReplan
<1>5. MediateContinue \/ Progress \/ Panic =>
        /\ pc \in {"progress", "collect", "mediate"} /\ pc' # "idle"
        /\ UNCHANGED <<store, held, upToDate, consumer>>
  BY DEF MediateContinue, Progress, Panic
<1> QED BY <1>1, <1>2, <1>3, <1>4, <1>5 DEF Executor

(* What the three ways to collect a result do to the session.              *)
LEMMA CollectEffect ==
  ASSUME session \in Session, NEW s \in AllSteps
  PROVE  /\ CollectSuccess(s) =>
              /\ session'.completed = session.completed \cup {s}
              /\ session'.failed = session.failed
              /\ session'.approved = session.approved
              /\ session'.pending = session.pending
              /\ session'.tools = session.tools + 1
              /\ session'.status = session.status
         /\ CollectConfirm(s) =>
              /\ session'.completed = session.completed
              /\ session'.failed = session.failed
              /\ session'.approved = session.approved
              /\ session'.pending = s
              /\ session'.tools = session.tools
              /\ session'.status = session.status
         /\ CollectFailure(s) =>
              /\ session'.completed = session.completed
              /\ session'.failed = [session.failed EXCEPT ![s] = lane[s]]
              /\ session'.approved = session.approved
              /\ session'.pending = session.pending
              /\ session'.tools = session.tools
              /\ session'.status = session.status
              /\ lane[s] # NoReason
<1>1. CollectSuccess(s) =>
        /\ session'.completed = session.completed \cup {s}
        /\ session'.failed = session.failed
        /\ session'.approved = session.approved
        /\ session'.pending = session.pending
        /\ session'.tools = session.tools + 1
        /\ session'.status = session.status
  BY DEF CollectSuccess, ApplyBudgetUsage, Session
<1>2. CollectConfirm(s) =>
        /\ session'.completed = session.completed
        /\ session'.failed = session.failed
        /\ session'.approved = session.approved
        /\ session'.pending = s
        /\ session'.tools = session.tools
        /\ session'.status = session.status
  BY DEF CollectConfirm, Session
<1>3. CollectFailure(s) =>
        /\ session'.completed = session.completed
        /\ session'.failed = [session.failed EXCEPT ![s] = lane[s]]
        /\ session'.approved = session.approved
        /\ session'.pending = session.pending
        /\ session'.tools = session.tools
        /\ session'.status = session.status
        /\ lane[s] # NoReason
  BY DEF CollectFailure, Session, ToolFailure, NoReason
<1> QED BY <1>1, <1>2, <1>3

(* The executor keeps the session record consistent.                       *)
LEMMA ExecutorRecords == PlanInv /\ Executor => RecordsOK'
<1> SUFFICES ASSUME PlanInv, Executor PROVE RecordsOK'
  OBVIOUS
<1>0. TypeOK /\ TypeOK' /\ RecordsOK /\ LanesOK
  BY ExecutorType DEF PlanInv
<1>1. session \in Session /\ session' \in Session /\ RecordOK(session)
  BY <1>0 DEF TypeOK, RecordsOK
<1>2. UNCHANGED <<store, held>>
  BY <1>0, ExecutorFrame
<1>3. ASSUME NEW s \in AllSteps, CollectSuccess(s) PROVE RecordOK(session')
  <2>1. /\ DependenciesSatisfied(session, s) /\ ~IsStepTerminal(session, s)
        /\ NeedsApproval(s) => s \in session.approved
    BY <1>0, <1>3 DEF CollectSuccess, LanesOK, LaneOK
  <2> QED BY <1>1, <1>3, <2>1, CollectEffect, CompletedOK
<1>4. ASSUME NEW s \in AllSteps, CollectConfirm(s) PROVE RecordOK(session')
  <2>1. /\ DependenciesSatisfied(session, s) /\ ~IsStepTerminal(session, s)
        /\ NeedsApproval(s) /\ s \notin session.approved
    BY <1>0, <1>4 DEF CollectConfirm, LanesOK, LaneOK
  <2> QED BY <1>1, <1>4, <2>1, CollectEffect, PendingOK
<1>5. ASSUME NEW s \in AllSteps, CollectFailure(s) PROVE RecordOK(session')
  <2>1. s \notin session.completed
    BY <1>0, <1>5 DEF CollectFailure, LanesOK, LaneOK, IsStepTerminal, ToolFailure
  <2>2. /\ session'.completed = session.completed /\ session'.approved = session.approved
        /\ session'.failed = [session.failed EXCEPT ![s] = lane[s]]
        /\ lane[s] # NoReason /\ session'.pending \in {session.pending, NoStep}
    BY <1>1, <1>5, CollectEffect
  <2> QED BY <1>1, <2>1, <2>2, FailedOK
<1>6. Quiet => RecordOK(session')
  BY <1>1, SameProgressOK DEF Quiet
<1>7. RecordOK(session')
  BY <1>0, <1>3, <1>4, <1>5, <1>6, ExecutorQuiet
<1> QED BY <1>0, <1>2, <1>7 DEF RecordsOK

(* The executor keeps the events it has sent true, and sends true ones.    *)
LEMMA QueueKept ==
  ASSUME out \in Seq(Event), QueueOK, \A f \in Event : EventOK(f) => EventOK(f)',
         UNCHANGED out
  PROVE  QueueOK'
BY ElementOfSeq DEF QueueOK

(* A true event joins a queue of true events.                              *)
LEMMA QueueGrown ==
  ASSUME out \in Seq(Event), QueueOK, \A f \in Event : EventOK(f) => EventOK(f)',
         NEW e \in Event, out' = Append(out, e), EventOK(e)'
  PROVE  QueueOK'
<1> SUFFICES ASSUME NEW i \in 1..Len(out') PROVE EventOK(out[i])'
  BY DEF QueueOK
<1>1. /\ Len(out') = Len(out) + 1 /\ Len(out) \in Nat
      /\ \A j \in 1..Len(out) : out'[j] = out[j]
      /\ out'[Len(out) + 1] = e
  BY AppendProperties, LenProperties
<1>2. CASE i = Len(out) + 1
  BY <1>1, <1>2 DEF EventOK
<1>3. CASE i # Len(out) + 1
  <2>1. i \in 1..Len(out)
    BY <1>1, <1>3
  <2>2. out[i] \in Event /\ EventOK(out[i])
    BY <2>1, ElementOfSeq DEF QueueOK
  <2>3. EventOK(out[i])' <=> \A f : f = out[i] => EventOK(f)'
    BY <1>1, <2>1 DEF EventOK
  <2> QED BY <2>2, <2>3
<1> QED BY <1>2, <1>3

(* The executor makes no undelivered event untrue.                         *)
LEMMA ExecutorKeepsEvents ==
  ASSUME PlanInv, Executor, NEW f \in Event, EventOK(f)
  PROVE  EventOK(f)'
<1>0. TypeOK /\ LanesOK /\ pc # "closed" /\ session \in Session
  BY ExecutorFrame DEF PlanInv, TypeOK
<1>1. /\ f.type # "completed"
      /\ f.type = "step_failed" /\ f.step # NoStep => f.step \notin session.completed
  BY <1>0 DEF EventOK
<1>2. f.step \in AllSteps \cup {NoStep} /\ session.failed \in [AllSteps -> Reason \cup {NoReason}]
  BY <1>0 DEF Event, Session
<1>3. CASE Quiet
  BY <1>1, <1>3 DEF EventOK, Quiet, SameProgress, FailedSteps
<1>4. ASSUME NEW s \in AllSteps, CollectSuccess(s) PROVE EventOK(f)'
  <2>1. session.failed[s] = NoReason
    BY <1>0, <1>4 DEF CollectSuccess, LanesOK, LaneOK, IsStepTerminal
  <2>2. session'.completed = session.completed \cup {s} /\ session'.failed = session.failed
    BY <1>0, <1>4, CollectEffect
  <2> QED BY <1>1, <2>1, <2>2 DEF EventOK, FailedSteps
<1>5. ASSUME NEW s \in AllSteps, CollectConfirm(s) PROVE EventOK(f)'
  <2>1. session'.completed = session.completed /\ session'.failed = session.failed
    BY <1>0, <1>5, CollectEffect
  <2> QED BY <1>1, <2>1 DEF EventOK, FailedSteps
<1>6. ASSUME NEW s \in AllSteps, CollectFailure(s) PROVE EventOK(f)'
  <2>1. session.failed[s] = NoReason /\ s \notin session.completed
    BY <1>0, <1>6 DEF CollectFailure, LanesOK, LaneOK, IsStepTerminal, ToolFailure
  <2>2. /\ session'.completed = session.completed
        /\ session'.failed = [session.failed EXCEPT ![s] = lane[s]]
    BY <1>0, <1>6, CollectEffect
  <2>3. \A t \in AllSteps : t # s => session'.failed[t] = session.failed[t]
    BY <1>2, <2>2
  <2>4. f.type = "step_completed" => f.step # s
    BY <2>1 DEF EventOK
  <2>5. f.type = "step_failed" /\ f.step # NoStep => f.step # s
    BY <2>1 DEF EventOK
  <2> QED BY <1>1, <1>2, <2>2, <2>3, <2>4, <2>5 DEF EventOK, FailedSteps
<1> QED BY <1>0, <1>3, <1>4, <1>5, <1>6, ExecutorQuiet

(* Every event the executor sends is true of the session.                  *)
LEMMA ExecutorQueue == PlanInv /\ Executor => QueueOK'
<1> SUFFICES ASSUME PlanInv, Executor PROVE QueueOK'
  OBVIOUS
<1>0. TypeOK /\ QueueOK /\ LanesOK /\ out \in Seq(Event) /\ session \in Session
  BY DEF PlanInv, TypeOK
<1>1. \A f \in Event : EventOK(f) => EventOK(f)'
  BY ExecutorKeepsEvents
<1>2. UNCHANGED out => QueueOK'
  BY <1>0, <1>1, QueueKept
<1>3. \A e \in Event : out' = Append(out, e) /\ EventOK(e)' => QueueOK'
  BY <1>0, <1>1, QueueGrown
<1>4. ASSUME NEW type \in {"step_started", "step_failed", "plan_revised",
                           "confirmation_need", "progress"},
             NEW s \in AllSteps \cup {NoStep}, type = "step_failed" => s = NoStep,
             Emit(type, s)
      PROVE  QueueOK'
  <2> DEFINE e == [type |-> type, step |-> s, reason |-> NoReason]
  <2>1. e \in Event
    BY DEF Event, EventType
  <2>2. EventOK(e)'
    BY <1>4 DEF EventOK
  <2> QED BY <1>3, <1>4, <2>1, <2>2 DEF Emit, EmitReason
<1>5. ASSUME NEW s \in AllSteps, CollectSuccess(s) PROVE QueueOK'
  <2> DEFINE e == [type |-> "step_completed", step |-> s, reason |-> NoReason]
  <2>1. e \in Event
    BY DEF Event, EventType
  <2>2. session'.completed = session.completed \cup {s} /\ session'.failed = session.failed
    BY <1>0, <1>5, CollectEffect
  <2>3. session.failed[s] = NoReason
    BY <1>0, <1>5 DEF CollectSuccess, LanesOK, LaneOK, IsStepTerminal
  <2>4. EventOK(e)'
    BY <2>2, <2>3 DEF EventOK, FailedSteps
  <2> QED BY <1>3, <1>5, <2>1, <2>4 DEF CollectSuccess, Emit, EmitReason
<1>6. ASSUME NEW s \in AllSteps, CollectConfirm(s) PROVE QueueOK'
  BY <1>4, <1>6 DEF CollectConfirm
<1>7. ASSUME NEW s \in AllSteps, CollectFailure(s) PROVE QueueOK'
  <2>0. lane[s] \in Reason /\ lane[s] # NoReason
    BY <1>7 DEF CollectFailure, Reason, ToolFailure, NoReason
  <2>1. PICK e \in Event : e = [type |-> "step_failed", step |-> s, reason |-> lane[s]]
    BY <2>0 DEF Event, EventType
  <2>2. /\ session'.completed = session.completed
        /\ session'.failed = [session.failed EXCEPT ![s] = lane[s]]
    BY <1>0, <1>7, CollectEffect
  <2>3. s \notin session.completed /\ session.failed \in [AllSteps -> Reason \cup {NoReason}]
    BY <1>0, <1>7 DEF CollectFailure, LanesOK, LaneOK, IsStepTerminal, ToolFailure, Session
  <2>4. EventOK(e)'
    BY <2>0, <2>1, <2>2, <2>3 DEF EventOK
  <2> QED BY <1>3, <1>7, <2>1, <2>4 DEF CollectFailure, EmitReason
<1>8. LoopTerminalFailure => QueueOK'
  <2> SUFFICES ASSUME LoopTerminalFailure PROVE QueueOK'
    OBVIOUS
  <2>0. PICK s \in AllSteps : s = First(FailedSteps(session)) /\ s \in FailedSteps(session)
    BY <1>0, FirstStep, StepsOfSession DEF LoopTerminalFailure, TerminallyFailed
  <2>1. session.failed[s] \in Reason /\ session.failed[s] # NoReason
    BY <1>0, <2>0, StepsOfSession DEF FailedSteps
  <2>2. PICK e \in Event : e = [type |-> "step_failed", step |-> s, reason |-> session.failed[s]]
    BY <2>1 DEF Event, EventType
  <2>3. session'.failed = session.failed /\ pc' = "closed"
    BY <1>0, StatusQuiet DEF LoopTerminalFailure, Quiet, SameProgress
  <2>4. EventOK(e)'
    BY <2>1, <2>2, <2>3 DEF EventOK
  <2> QED BY <1>3, <2>0, <2>2, <2>4 DEF LoopTerminalFailure, EmitReason
<1>9. LoopAllTerminal => QueueOK'
  <2> SUFFICES ASSUME LoopAllTerminal PROVE QueueOK'
    OBVIOUS
  <2>1. CASE FailedSteps(session) = {} /\ SetStatus("complete") /\ Emit("completed", NoStep)
    <3> DEFINE e == [type |-> "completed", step |-> NoStep, reason |-> NoReason]
    <3>1. e \in Event
      BY DEF Event, EventType
    <3>2. Quiet /\ session'.replanCount = session.replanCount
      BY <1>0, <2>1, StatusQuiet DEF SetStatus, Session
    <3>3. Steps(session) \subseteq session.completed
      BY <2>1, <1>0, StepsOfSession DEF LoopAllTerminal, AllStepsTerminal, IsStepTerminal, FailedSteps
    <3>4. Finished(session)'
      BY <2>1, <3>2, <3>3 DEF Finished, Quiet, SameProgress, Steps, FailedSteps
    <3>5. EventOK(e)'
      BY <3>4 DEF EventOK, LoopAllTerminal
    <3> QED BY <1>3, <2>1, <3>1, <3>5 DEF Emit, EmitReason
  <2>2. CASE Emit("step_failed", NoStep)
    BY <1>4, <2>2
  <2> QED BY <2>1, <2>2 DEF LoopAllTerminal
<1>10. Begin \/ LoopCancelled \/ LoopExhausted \/ Progress \/ Panic => QueueOK'
  BY <1>2, <1>4 DEF Begin, LoopCancelled, LoopExhausted, Progress, Panic
<1>11. StartStep => QueueOK'
  BY <1>4, FirstStep DEF StartStep, Queued
<1>12. LoopReplan \/ MediateReplan => QueueOK'
  <2>1. session.replanCount < MaxReplans => Len(Plan) + session.replanCount + 1 \in AllSteps
    BY <1>0, StepsOfSession, ConstantTypes DEF AllSteps, LastStep
  <2> QED BY <1>4, <2>1 DEF LoopReplan, MediateReplan, ApplyReplan
<1>13. LoopSelect \/ LaunchLane \/ BatchDone \/ PauseForApproval \/ BatchCollected
       \/ MediateContinue => QueueOK'
  BY <1>2 DEF LoopSelect, LaunchLane, BatchDone, PauseForApproval, BatchCollected,
              MediateContinue
<1> QED BY <1>5, <1>6, <1>7, <1>8, <1>9, <1>10, <1>11, <1>12, <1>13 DEF Executor

(* The steps of a batch stay runnable while its results are collected.     *)
LEMMA ExecutorLanes == PlanInv /\ Executor => LanesOK'
<1> SUFFICES ASSUME PlanInv, Executor PROVE LanesOK'
  OBVIOUS
<1>0. /\ TypeOK /\ LanesOK /\ session \in Session
      /\ lane \in [AllSteps -> LaneState]
      /\ session.failed \in [AllSteps -> Reason \cup {NoReason}]
  BY DEF PlanInv, TypeOK, Session
<1>1. lane' = NoLanes /\ pc' # "launch" => LanesOK'
  BY DEF LanesOK, NoLanes
<1>2. pc \notin {"spawn", "launch", "wait", "collect"} => lane = NoLanes
  BY <1>0 DEF LanesOK, LaneOK, NoLanes
<1>3. CASE LoopSelect
  <2>1. CollectReadySteps(session) \in SUBSET AllSteps
    BY <1>0, StepsOfSession
  <2>2. \A s \in AllSteps : lane'[s] # "off" =>
          lane'[s] = "queued" /\ s \in CollectReadySteps(session)
    BY <1>3, <2>1, BatchFits DEF LoopSelect
  <2>3. session' = session /\ pc' = "spawn"
    BY <1>3 DEF LoopSelect
  <2> QED BY <2>2, <2>3 DEF LanesOK, LaneOK, CollectReadySteps, IsStepTerminal,
                            DependenciesSatisfied
<1>4. CASE StartStep
  BY <1>0, <1>4 DEF StartStep, LanesOK, LaneOK, Queued, IsStepTerminal,
                    DependenciesSatisfied
<1>5. CASE LaunchLane
  <2>1. PICK f \in AllSteps : f = First(Queued) /\ f \in Queued
    BY <1>0, <1>5, FirstStep DEF LaunchLane, LanesOK, Queued
  <2>2. /\ lane' = [lane EXCEPT ![f] = "gate"] /\ session' = session
        /\ pc' \in {"wait", "spawn"} /\ pc = "launch"
    BY <1>5, <2>1 DEF LaunchLane
  <2>3. \A s \in AllSteps : lane'[s] # "off" => LaneOK(s)'
    <3> SUFFICES ASSUME NEW s \in AllSteps, lane'[s] # "off" PROVE LaneOK(s)'
      OBVIOUS
    <3>1. LaneOK(s) /\ (lane'[s] = lane[s] \/ lane'[s] = "gate")
      BY <1>0, <2>1, <2>2 DEF LanesOK, Queued
    <3> QED BY <2>2, <3>1 DEF LaneOK, IsStepTerminal, DependenciesSatisfied
  <2> QED BY <2>2, <2>3 DEF LanesOK
<1>6. CASE BatchDone
  BY <1>0, <1>6 DEF BatchDone, LanesOK, LaneOK, IsStepTerminal, DependenciesSatisfied
<1>7. ASSUME NEW s \in AllSteps, CollectSuccess(s) PROVE LanesOK'
  <2>1. /\ session'.completed = session.completed \cup {s}
        /\ session'.failed = session.failed /\ session'.approved = session.approved
    BY <1>0, <1>7, CollectEffect
  <2>2. lane' = [lane EXCEPT ![s] = "off"] /\ pc' = "collect" /\ pc = "collect"
    BY <1>7 DEF CollectSuccess, Collecting
  <2> SUFFICES ASSUME NEW t \in AllSteps, lane'[t] # "off" PROVE LaneOK(t)'
    BY <2>2 DEF LanesOK
  <2>3. LaneOK(t) /\ t # s /\ lane'[t] = lane[t]
    BY <1>0, <2>2 DEF LanesOK
  <2> QED BY <2>1, <2>2, <2>3 DEF LaneOK, IsStepTerminal, DependenciesSatisfied
<1>8. ASSUME NEW s \in AllSteps, CollectFailure(s) PROVE LanesOK'
  <2>1. /\ session'.completed = session.completed /\ session'.approved = session.approved
        /\ session'.failed = [session.failed EXCEPT ![s] = lane[s]]
    BY <1>0, <1>8, CollectEffect
  <2>2. lane' = [lane EXCEPT ![s] = "off"] /\ pc' = "collect" /\ pc = "collect"
    BY <1>8 DEF CollectFailure, Collecting
  <2> SUFFICES ASSUME NEW t \in AllSteps, lane'[t] # "off" PROVE LaneOK(t)'
    BY <2>2 DEF LanesOK
  <2>3. LaneOK(t) /\ t # s /\ lane'[t] = lane[t] /\ session'.failed[t] = session.failed[t]
    BY <1>0, <2>1, <2>2 DEF LanesOK
  <2> QED BY <2>1, <2>2, <2>3 DEF LaneOK, IsStepTerminal, DependenciesSatisfied
<1>9. (\E s \in AllSteps : CollectConfirm(s)) \/ Panic => LanesOK'
  BY <1>1 DEF CollectConfirm, Panic
<1>10. CASE BatchCollected
  <2>1. lane' = NoLanes
    BY <1>0, <1>10 DEF BatchCollected, NoLanes
  <2> QED BY <1>1, <1>10, <2>1 DEF BatchCollected
<1>11. Begin \/ LoopCancelled \/ LoopAllTerminal \/ LoopExhausted
       \/ LoopTerminalFailure \/ LoopReplan => LanesOK'
  BY <1>1, <1>2 DEF Begin, LoopCancelled, LoopAllTerminal, LoopExhausted,
     LoopTerminalFailure, LoopReplan, Stuck, AtLoop, execVars
<1>12. PauseForApproval \/ MediateReplan \/ MediateContinue \/ Progress => LanesOK'
  BY <1>1, <1>2 DEF PauseForApproval, MediateReplan, MediateContinue, Progress
<1> QED BY <1>3, <1>4, <1>5, <1>6, <1>7, <1>8, <1>9, <1>10, <1>11, <1>12 DEF Executor

(* A run reports "complete" only at its end, with the plan finished.       *)
LEMMA ExecutorStatus == PlanInv /\ Executor => StatusOK'
<1> SUFFICES ASSUME PlanInv, Executor PROVE StatusOK'
  OBVIOUS
<1>0. TypeOK /\ StatusOK /\ session \in Session
  BY DEF PlanInv, TypeOK
<1>1. UNCHANGED <<store, held>>
  BY <1>0, ExecutorFrame
<1>2. \A next \in SessionStatus \ {"complete"} :
        session.status # "complete" /\ SetStatus(next) => session'.status # "complete"
  BY <1>0 DEF SetStatus, TransitionSessionStatus, Session
<1>3. /\ {"paused", "failed"} \subseteq SessionStatus \ {"complete"}
      /\ (session'.status = "complete" => pc' = "closed" /\ Finished(session)') => StatusOK'
  BY <1>0, <1>1 DEF SessionStatus, StatusOK, Finished, Steps, FailedSteps
<1>4. pc # "begin" => session.status # "complete"
  BY <1>0, ExecutorFrame DEF StatusOK
<1>5. CASE Begin
  <2>1. CASE CanTransition(session.status, "searching") /\ SetStatus("searching")
    <3>1. session'.status = "searching"
      BY <1>0, <2>1 DEF SetStatus, TransitionSessionStatus, Session
    <3> QED BY <1>3, <3>1
  <2>2. CASE UNCHANGED session /\ pc' = "closed"
    BY <1>0, <1>1, <2>2 DEF StatusOK, Finished, Steps, FailedSteps
  <2> QED BY <1>5, <2>1, <2>2 DEF Begin
<1>6. CASE LoopAllTerminal
  <2>1. CASE FailedSteps(session) = {} /\ SetStatus("complete")
    <3>1. Quiet /\ session'.replanCount = session.replanCount
      BY <1>0, <2>1, StatusQuiet DEF SetStatus, Session
    <3>2. Steps(session) \subseteq session.completed
      BY <1>6, <2>1, <1>0, StepsOfSession DEF LoopAllTerminal, AllStepsTerminal, IsStepTerminal, FailedSteps
    <3>3. Finished(session)'
      BY <2>1, <3>1, <3>2 DEF Finished, Quiet, SameProgress, Steps, FailedSteps
    <3> QED BY <1>3, <1>6, <3>3 DEF LoopAllTerminal
  <2>2. CASE SetStatus("failed")
    BY <1>2, <1>3, <1>4, <1>6, <2>2 DEF LoopAllTerminal, AtLoop
  <2> QED BY <1>6, <2>1, <2>2 DEF LoopAllTerminal
<1>7. LoopExhausted \/ LoopTerminalFailure \/ PauseForApproval \/ Panic => StatusOK'
  BY <1>2, <1>3, <1>4 DEF LoopExhausted, LoopTerminalFailure, PauseForApproval, Panic,
                          Stuck, AtLoop
<1>8. LoopReplan \/ MediateReplan => StatusOK'
  <2>1. ApplyReplan => session'.status = session.status
    BY <1>0 DEF ApplyReplan, Session
  <2> QED BY <1>3, <1>4, <2>1 DEF LoopReplan, MediateReplan, Stuck, AtLoop
<1>9. \A s \in AllSteps : CollectSuccess(s) \/ CollectConfirm(s) \/ CollectFailure(s) => StatusOK'
  <2> TAKE s \in AllSteps
  <2>1. CollectSuccess(s) \/ CollectConfirm(s) \/ CollectFailure(s) =>
          session'.status = session.status /\ pc = "collect"
    BY <1>0, CollectEffect DEF CollectSuccess, CollectConfirm, CollectFailure, Collecting
  <2> QED BY <1>3, <1>4, <2>1
<1>10. LoopCancelled \/ LoopSelect \/ StartStep \/ LaunchLane \/ BatchDone => StatusOK'
  BY <1>3, <1>4 DEF LoopCancelled, LoopSelect, StartStep, LaunchLane, BatchDone, AtLoop
<1>11. BatchCollected \/ MediateContinue \/ Progress => StatusOK'
  BY <1>3, <1>4 DEF BatchCollected, MediateContinue, Progress
<1> QED BY <1>5, <1>6, <1>7, <1>8, <1>9, <1>10, <1>11 DEF Executor

(* Charges only grow, and reach the store through the session.             *)
LEMMA ExecutorCharges == PlanInv /\ Executor => ChargesOK'
<1> SUFFICES ASSUME PlanInv, Executor PROVE ChargesOK'
  OBVIOUS
<1>0. TypeOK /\ ChargesOK /\ session \in Session /\ store \in Session
  BY DEF PlanInv, TypeOK
<1>1. pc # "idle" /\ pc' # "idle" /\ UNCHANGED <<store, held, upToDate, consumer>>
  BY <1>0, ExecutorFrame
<1>2. session'.tools = session.tools \/ session'.tools = session.tools + 1
  BY <1>0, ExecutorQuiet, CollectEffect DEF Quiet
<1>3. session.tools \in Nat /\ store.tools \in Nat
  BY <1>0, StepsOfSession
<1> QED BY <1>0, <1>1, <1>2, <1>3 DEF ChargesOK

(* The executor keeps the invariant.                                       *)
LEMMA ExecutorInv == PlanInv /\ Executor => PlanInv'
BY ExecutorType, ExecutorRecords, ExecutorLanes, ExecutorQueue, ExecutorStatus,
   ExecutorCharges DEF PlanInv

-----------------------------------------------------------------------------
(* A step goroutine passes its gate only with the approval the step needs. *)
LEMMA LanesInv == PlanInv /\ Lanes => PlanInv'
<1> SUFFICES ASSUME PlanInv, NEW s \in AllSteps, LaneGate(s) \/ LaneTool(s) PROVE PlanInv'
  BY DEF Lanes
<1>0. /\ TypeOK /\ TypeOK' /\ LanesOK /\ RecordsOK /\ QueueOK /\ StatusOK /\ ChargesOK
      /\ lane \in [AllSteps -> LaneState]
  BY LanesType DEF PlanInv, Lanes, TypeOK
<1>1. UNCHANGED <<session, store, held, upToDate, pc, out, consumer>>
  BY DEF LaneGate, LaneTool, LaneOnly, ExecutorOnly, reqVars, callVars
<1>2. PICK o \in LaneState \ {"off", "queued"} :
        /\ lane[s] \in {"gate", "tool"} /\ lane' = [lane EXCEPT ![s] = o]
        /\ o \in {"tool", "ok", "empty"} => (NeedsApproval(s) => s \in session.approved)
        /\ o = "confirm" => NeedsApproval(s) /\ s \notin session.approved
  <2>1. \A f \in ToolFailure \cup {"blocked"} : AttemptFails(s, f) =>
          \E o \in ToolFailure \cup {"blocked", "gate"} : lane' = [lane EXCEPT ![s] = o]
    BY DEF AttemptFails
  <2>2. \A o \in ToolFailure \cup {"blocked", "gate"} :
          /\ o \in LaneState \ {"off", "queued"}
          /\ o \notin {"tool", "ok", "empty", "confirm"}
    BY DEF LaneState, ToolFailure
  <2>3. CASE LaneGate(s)
    BY <2>1, <2>2, <2>3 DEF LaneGate, LaneState
  <2>4. CASE LaneTool(s)
    <3>1. lane[s] = "tool" /\ (NeedsApproval(s) => s \in session.approved)
      BY <1>0, <2>4 DEF LaneTool, LanesOK, LaneOK
    <3>2. {"ok", "empty"} \subseteq LaneState \ {"off", "queued"}
      BY DEF LaneState
    <3> QED BY <2>1, <2>2, <2>4, <3>1, <3>2 DEF LaneTool
  <2> QED BY <2>3, <2>4
<1>3. LanesOK'
  <2>1. \A t \in AllSteps : lane'[t] = IF t = s THEN o ELSE lane[t]
    BY <1>0, <1>2
  <2>2. Queued' = Queued
    BY <1>2, <2>1 DEF Queued
  <2>3. ASSUME NEW t \in AllSteps, lane'[t] # "off" PROVE LaneOK(t)'
    <3>1. LaneOK(t)
      BY <1>0, <1>2, <2>1, <2>3 DEF LanesOK
    <3> QED BY <1>1, <1>2, <2>1, <3>1 DEF LaneOK, IsStepTerminal, DependenciesSatisfied
  <2> QED BY <1>0, <1>1, <2>2, <2>3 DEF LanesOK
<1>4. RecordsOK' /\ StatusOK' /\ ChargesOK'
  BY <1>0, <1>1 DEF RecordsOK, RecordOK, DependencyMet, SkippedAfterFailure, FailedSteps,
                    StatusOK, Finished, Steps, ChargesOK
<1>5. QueueOK'
  BY <1>0, <1>1 DEF QueueOK, EventOK, Finished, Steps, FailedSteps
<1> QED BY <1>0, <1>3, <1>4, <1>5 DEF PlanInv

-----------------------------------------------------------------------------
(* A discarded run leaves nothing that could break the invariant.          *)
LEMMA DiscardInv ==
  Discard => /\ RecordOK(session') /\ LanesOK' /\ QueueOK'
             /\ session'.status # "complete" /\ pc' = "idle" /\ consumer' = "idle"
<1> SUFFICES ASSUME Discard PROVE /\ RecordOK(session') /\ LanesOK' /\ QueueOK'
                                  /\ session'.status # "complete"
  BY DEF Discard
<1>1. session' = NewSession /\ lane' = NoLanes /\ out' = <<>> /\ pc' = "idle"
  BY DEF Discard
<1>2. LanesOK'
  BY <1>1 DEF LanesOK, NoLanes
<1>3. QueueOK'
  BY <1>1 DEF QueueOK
<1> QED BY <1>1, <1>2, <1>3, NewSessionOK DEF NewSession

(* One event is applied to the session and leaves the channel.             *)
LEMMA ConsumedEvent ==
  ASSUME PlanInv, out # <<>>, session' = ApplyEvent(session, Head(out)),
         out' = Tail(out), UNCHANGED <<pc, lane>>
  PROVE  /\ RecordOK(session') /\ LanesOK' /\ QueueOK'
         /\ session'.tools = session.tools
         /\ session'.status = "complete" =>
              pc' \in {"begin", "closed"} /\ Finished(session)'
<1>0. /\ TypeOK /\ LanesOK /\ QueueOK /\ StatusOK /\ RecordOK(session)
      /\ session \in Session /\ out \in Seq(Event)
  BY DEF PlanInv, TypeOK, RecordsOK
<1>1. PICK e \in Event : e = Head(out) /\ EventOK(e)
  <2>1. Head(out) \in Event /\ Head(out) = out[1] /\ 1 \in 1..Len(out)
    BY <1>0, HeadTailProperties, EmptySeq
  <2> QED BY <1>0, <2>1 DEF QueueOK
<1>2. /\ session' \in Session /\ RecordOK(session')
      /\ session'.failed = session.failed /\ session'.approved = session.approved
      /\ session'.tools = session.tools /\ session'.replanCount = session.replanCount
      /\ session'.status = EventStatus(e, session.status)
      /\ \/ session'.completed = session.completed
         \/ /\ e.type = "step_failed" /\ e.step # NoStep /\ pc = "closed"
            /\ e.step \in session.completed /\ e.step \in FailedSteps(session)
            /\ session'.completed = session.completed \ {e.step}
  BY <1>0, <1>1, AppliedEvent
<1>3. LanesOK'
  <2>1. pc = "closed" => \A s \in AllSteps : lane[s] = "off"
    BY <1>0 DEF LanesOK, LaneOK
  <2>2. Queued' = Queued
    BY DEF Queued
  <2>3. ASSUME NEW s \in AllSteps, lane'[s] # "off" PROVE LaneOK(s)'
    <3>1. LaneOK(s) /\ session'.completed = session.completed
      BY <1>0, <1>2, <2>1, <2>3 DEF LanesOK
    <3> QED BY <1>2, <3>1 DEF LaneOK, IsStepTerminal, DependenciesSatisfied
  <2> QED BY <1>0, <2>2, <2>3 DEF LanesOK
<1>4. ASSUME NEW f \in Event, EventOK(f) PROVE EventOK(f)'
  <2>1. CASE session'.completed = session.completed
    BY <1>2, <1>4, <2>1 DEF EventOK, Finished, Steps, FailedSteps
  <2>2. CASE /\ pc = "closed" /\ e.step \in FailedSteps(session)
             /\ session'.completed = session.completed \ {e.step}
    <3>1. ~Finished(session)
      BY <2>2 DEF Finished
    <3>2. f.type = "step_completed" => f.step # e.step
      BY <1>4, <2>2 DEF EventOK
    <3> QED BY <1>2, <1>4, <2>2, <3>1, <3>2 DEF EventOK, FailedSteps
  <2> QED BY <1>2, <2>1, <2>2
<1>5. QueueOK'
  <2> SUFFICES ASSUME NEW i \in 1..Len(out') PROVE EventOK(out[i])'
    BY DEF QueueOK
  <2>1. /\ i + 1 \in 1..Len(out) /\ out'[i] = out[i + 1]
    BY <1>0, HeadTailProperties, LenProperties
  <2>2. out[i + 1] \in Event /\ EventOK(out[i + 1])
    BY <1>0, <2>1, ElementOfSeq DEF QueueOK
  <2>3. EventOK(out[i])' <=> \A f : f = out[i + 1] => EventOK(f)'
    BY <2>1 DEF EventOK
  <2> QED BY <1>4, <2>2, <2>3
<1>6. session'.status = "complete" => pc \in {"begin", "closed"} /\ Finished(session)'
  <2> SUFFICES ASSUME session'.status = "complete"
               PROVE  pc \in {"begin", "closed"} /\ Finished(session)'
    OBVIOUS
  <2>1. e.type # "step_failed"
        /\ (e.type = "completed" \/ session.status = "complete")
    BY <1>2 DEF EventStatus
  <2>2. pc \in {"begin", "closed"} /\ Finished(session)
    BY <1>0, <1>1, <2>1 DEF EventOK, StatusOK
  <2> QED BY <1>2, <2>1, <2>2 DEF Finished, Steps, FailedSteps
<1> QED BY <1>2, <1>3, <1>5, <1>6

(* The consumer: what it stores is the session as the executor left it.    *)
LEMMA ConsumerInv == PlanInv /\ Consumer => PlanInv'
<1> SUFFICES ASSUME PlanInv, Consumer PROVE PlanInv'
  OBVIOUS
<1> USE DEF ConsumerOnly, execVars, callVars
<1>0. /\ TypeOK /\ TypeOK' /\ LanesOK /\ QueueOK /\ StatusOK /\ ChargesOK
      /\ RecordOK(session) /\ RecordOK(store) /\ \A w \in Writers : RecordOK(held[w])
      /\ session \in Session /\ store \in Session /\ held \in [Writers -> Session]
      /\ "run" \in Writers /\ "run" \notin Callers /\ Callers \subseteq Writers
  BY ConsumerType, CallerAssumption DEF PlanInv, TypeOK, RecordsOK, Writers
<1>1. session.tools \in Nat /\ store.tools \in Nat
  BY <1>0, StepsOfSession
<1>2. UNCHANGED <<session, pc, lane, out>> => LanesOK' /\ QueueOK'
  BY <1>0 DEF LanesOK, LaneOK, Queued, IsStepTerminal, DependenciesSatisfied,
              QueueOK, EventOK, Finished, Steps, FailedSteps
<1>3. CASE ConsumeEvent
  <2>1. /\ RecordOK(session') /\ LanesOK' /\ QueueOK'
        /\ session'.tools = session.tools
        /\ session'.status = "complete" =>
             pc' \in {"begin", "closed"} /\ Finished(session)'
    BY <1>3, ConsumedEvent DEF ConsumeEvent
  <2>2. store' = session' /\ upToDate' = {"run"} /\ UNCHANGED <<held, consumer, pc>>
        /\ consumer = "listen"
    BY <1>3 DEF ConsumeEvent
  <2>3. RecordsOK'
    BY <1>0, <2>1, <2>2 DEF RecordsOK
  <2>4. StatusOK'
    BY <1>0, <2>1, <2>2 DEF StatusOK, Finished, Steps, FailedSteps
  <2>5. ChargesOK'
    BY <1>0, <1>1, <2>1, <2>2 DEF ChargesOK
  <2> QED BY <1>0, <2>1, <2>3, <2>4, <2>5 DEF PlanInv
<1>4. CASE ConsumeEventPutFails
  <2>1. /\ RecordOK(session') /\ LanesOK' /\ QueueOK'
        /\ session'.tools = session.tools
        /\ session'.status = "complete" =>
             pc' \in {"begin", "closed"} /\ Finished(session)'
    BY <1>4, ConsumedEvent DEF ConsumeEventPutFails
  <2>2. UNCHANGED <<store, held, upToDate, pc>> /\ consumer = "listen"
        /\ consumer' \in {"failing", "gone"}
    BY <1>4 DEF ConsumeEventPutFails, AfterFailedPut
  <2>3. RecordsOK'
    BY <1>0, <2>1, <2>2 DEF RecordsOK
  <2>4. StatusOK'
    BY <1>0, <2>1, <2>2 DEF StatusOK, Finished, Steps, FailedSteps
  <2>5. ChargesOK'
    BY <1>0, <2>1, <2>2 DEF ChargesOK
  <2> QED BY <1>0, <2>1, <2>3, <2>4, <2>5 DEF PlanInv
<1>5. CASE ConsumerCancelled \/ RunFinishedPutFails
  <2>1. /\ UNCHANGED <<session, store, held, upToDate, pc, lane, out>>
        /\ consumer = "listen" /\ consumer' \in {"failing", "gone"}
    BY <1>5 DEF ConsumerCancelled, RunFinishedPutFails, AfterFailedPut
  <2>2. RecordsOK' /\ StatusOK' /\ ChargesOK'
    BY <1>0, <2>1 DEF RecordsOK, StatusOK, ChargesOK, Finished, Steps, FailedSteps
  <2> QED BY <1>0, <1>2, <2>1, <2>2 DEF PlanInv
<1>6. CASE PersistFailureRead
  <2>1. /\ UNCHANGED <<session, store, pc, lane, out>> /\ consumer = "failing"
        /\ \/ consumer' = "gone" /\ UNCHANGED <<held, upToDate>>
           \/ /\ consumer' = "persisting" /\ held' = [held EXCEPT !["run"] = store]
              /\ upToDate' = upToDate \cup {"run"}
    BY <1>6 DEF PersistFailureRead
  <2>2. \A w \in Writers : held'[w] \in {held[w], store}
    BY <1>0, <2>1
  <2>3. \A c \in Callers \cap upToDate' : held'[c] = held[c] /\ c \in upToDate
    BY <1>0, <2>1
  <2>4. RecordsOK' /\ StatusOK'
    BY <1>0, <2>1, <2>2 DEF RecordsOK, StatusOK, Finished, Steps, FailedSteps
  <2>5. ChargesOK'
    BY <1>0, <2>1, <2>3 DEF ChargesOK
  <2> QED BY <1>0, <1>2, <2>1, <2>4, <2>5 DEF PlanInv
<1>7. CASE PersistFailureWrite
  <2> DEFINE r == [held["run"] EXCEPT !.status = "failed"]
  <2>1. /\ UNCHANGED <<session, pc, lane, out>> /\ consumer = "persisting" /\ consumer' = "gone"
        /\ held' = [held EXCEPT !["run"] = NewSession]
        /\ \/ store' = r /\ upToDate' = {}
           \/ UNCHANGED <<store, upToDate>>
    BY <1>7 DEF PersistFailureWrite
  <2>a. held["run"] \in Session /\ "failed" \in SessionStatus
    BY <1>0 DEF SessionStatus
  <2>2. SameProgress(r, held["run"]) /\ r.status = "failed" /\ r \in Session
    BY <2>a, StatusType DEF SameProgress, Session
  <2>3. RecordOK(r)
    BY <1>0, <2>a, <2>2, SameProgressOK
  <2> HIDE DEF r
  <2>4. \A w \in Writers : held'[w] \in {held[w], NewSession}
    BY <1>0, <2>1
  <2>5. \A c \in Callers : held'[c] = held[c]
    BY <1>0, <2>1
  <2>6. NewSession.status # "complete"
    BY DEF NewSession
  <2>7. RecordsOK'
    BY <1>0, <2>1, <2>3, <2>4, NewSessionOK DEF RecordsOK
  <2>8. StatusOK'
    BY <1>0, <2>1, <2>2, <2>4, <2>6 DEF StatusOK, Finished, Steps, FailedSteps
  <2>9. ChargesOK'
    BY <1>0, <2>1, <2>5 DEF ChargesOK
  <2> QED BY <1>0, <1>2, <2>1, <2>7, <2>8, <2>9 DEF PlanInv
<1>8. CASE RunFinished \/ OrphanReturned
  <2>1. /\ RecordOK(session') /\ LanesOK' /\ QueueOK'
        /\ session'.status # "complete" /\ pc' = "idle" /\ consumer' = "idle"
    BY <1>8, DiscardInv DEF RunFinished, OrphanReturned
  <2>2. /\ held' = held /\ consumer # "idle" /\ "run" \notin upToDate'
        /\ \/ store' = session /\ upToDate' = {}
           \/ store' = store /\ upToDate' \subseteq upToDate
    BY <1>8 DEF RunFinished, OrphanReturned
  <2>3. RecordsOK'
    BY <1>0, <2>1, <2>2 DEF RecordsOK
  <2>4. StatusOK'
    BY <1>0, <2>1, <2>2 DEF StatusOK, Finished, Steps, FailedSteps
  <2>5. ChargesOK'
    BY <1>0, <1>1, <2>1, <2>2 DEF ChargesOK
  <2> QED BY <1>0, <2>1, <2>3, <2>4, <2>5 DEF PlanInv
<1> QED BY <1>3, <1>4, <1>5, <1>6, <1>7, <1>8 DEF Consumer, PersistRunFailure

-----------------------------------------------------------------------------
(* A record that may be stored: RecordOK, and "complete" only if it is.    *)
Sound(r) == RecordOK(r) /\ (r.status = "complete" => Finished(r))

(* Every copy of the record is sound.                                      *)
LEMMA CopiesSound ==
  ASSUME PlanInv
  PROVE  Sound(store) /\ Sound(NewSession) /\ \A w \in Writers : Sound(held[w])
BY NewSessionOK DEF PlanInv, RecordsOK, StatusOK, Sound, NewSession

(* A request that leaves the run alone keeps the invariant if what it      *)
(* stores and holds is sound, and if it claims to be up to date only after *)
(* a read, or with the charges of what it has just stored.                 *)
LEMMA CallerKeeps ==
  ASSUME PlanInv, TypeOK', RunUntouched, NEW c \in Callers, NEW h,
         held' = [held EXCEPT ![c] = h], Sound(store'), Sound(h),
         \/ store' = store /\ h = store /\ upToDate' = upToDate \cup {c}
         \/ store' = store /\ upToDate' = upToDate \ {c}
         \/ store' = store /\ h = held[c] /\ upToDate' = upToDate
         \/ upToDate' = {}
         \/ upToDate' = {c} /\ h.tools = store'.tools
  PROVE  PlanInv'
<1>0. /\ TypeOK /\ LanesOK /\ QueueOK /\ StatusOK /\ ChargesOK /\ RecordOK(session)
      /\ \A w \in Writers : RecordOK(held[w]) /\ held \in [Writers -> Session]
      /\ "run" \notin Callers /\ "run" \in Writers /\ Callers \subseteq Writers
  BY CallerAssumption DEF PlanInv, TypeOK, RecordsOK, Writers
<1>1. UNCHANGED <<session, pc, lane, out, consumer>>
  BY DEF RunUntouched, execVars
<1>2. LanesOK' /\ QueueOK'
  BY <1>0, <1>1 DEF LanesOK, LaneOK, Queued, IsStepTerminal, DependenciesSatisfied,
                    QueueOK, EventOK, Finished, Steps, FailedSteps
<1>3. \A w \in Writers : held'[w] = IF w = c THEN h ELSE held[w]
  BY <1>0
<1>4. RecordsOK'
  BY <1>0, <1>1, <1>3 DEF RecordsOK, Sound
<1>5. StatusOK'
  BY <1>0, <1>1, <1>3 DEF StatusOK, Sound, Finished, Steps, FailedSteps
<1>6. \A d \in Callers \cap upToDate' : held'[d].tools = store'.tools
  BY <1>0, <1>3 DEF ChargesOK
<1>7. "run" \in upToDate' => "run" \in upToDate /\ store' = store /\ held'["run"] = held["run"]
  BY <1>0, <1>3
<1>8. ChargesOK'
  BY <1>0, <1>1, <1>6, <1>7 DEF ChargesOK
<1> QED BY <1>2, <1>4, <1>5, <1>8 DEF PlanInv

(* A run starts from the stored record.                                    *)
LEMMA LaunchInv ==
  ASSUME PlanInv, Idle, TypeOK', LaunchRun, UNCHANGED store, NEW c \in Callers,
         held' = [held EXCEPT ![c] = NewSession],
         upToDate' = (upToDate \ {c}) \cup {"run"}
  PROVE  PlanInv'
<1>1. /\ session' = store /\ pc' = "begin" /\ consumer' = "listen"
      /\ out' = <<>> /\ lane' = lane
  BY DEF LaunchRun
<1>2. /\ TypeOK /\ LanesOK /\ StatusOK /\ ChargesOK /\ lane \in [AllSteps -> LaneState]
      /\ RecordOK(store) /\ held \in [Writers -> Session] /\ store \in Session
      /\ \A w \in Writers : RecordOK(held[w])
      /\ "run" \notin Callers /\ "run" \in Writers /\ Callers \subseteq Writers
  BY CallerAssumption DEF PlanInv, TypeOK, RecordsOK, Writers
<1>3. \A w \in Writers : held'[w] = IF w = c THEN NewSession ELSE held[w]
  BY <1>2
<1>4. NewSession.status # "complete" /\ store.tools \in Nat
  BY <1>2, StepsOfSession DEF NewSession
<1>5. RecordsOK'
  BY <1>1, <1>2, <1>3, NewSessionOK DEF RecordsOK
<1>6. LanesOK'
  <2>1. \A s \in AllSteps : lane[s] = "off"
    BY <1>2 DEF Idle, LanesOK, LaneOK
  <2> QED BY <1>1, <2>1 DEF LanesOK
<1>7. QueueOK'
  BY <1>1 DEF QueueOK
<1>8. StatusOK'
  BY <1>1, <1>2, <1>3, <1>4 DEF StatusOK, Finished, Steps, FailedSteps
<1>9. ChargesOK'
  BY <1>1, <1>2, <1>3, <1>4 DEF ChargesOK
<1> QED BY <1>5, <1>6, <1>7, <1>8, <1>9 DEF PlanInv

(* What each request stores is sound and has the charges of the copy held. *)
LEMMA StoredSound ==
  ASSUME NEW r \in Session, Sound(r)
  PROVE  /\ \A status \in SessionStatus \ {"complete"} :
              /\ Sound([r EXCEPT !.status = status])
              /\ [r EXCEPT !.status = status].tools = r.tools
         /\ \A action \in ResumeAction :
              /\ Sound(Resumed(r, action)) /\ Resumed(r, action).tools = r.tools
         /\ Sound([r EXCEPT !.pending = NoStep]) /\ [r EXCEPT !.pending = NoStep].tools = r.tools
<1>1. ASSUME NEW status \in SessionStatus \ {"complete"}
      PROVE  /\ Sound([r EXCEPT !.status = status])
             /\ [r EXCEPT !.status = status].tools = r.tools
  <2> DEFINE q == [r EXCEPT !.status = status]
  <2>1. q \in Session /\ SameProgress(q, r) /\ q.status = status /\ q.tools = r.tools
    BY StatusType DEF SameProgress, Session
  <2> HIDE DEF q
  <2>2. RecordOK(q)
    BY <2>1, SameProgressOK DEF Sound
  <2> QED BY <2>1, <2>2 DEF Sound, q
<1>2. \A action \in ResumeAction :
        Sound(Resumed(r, action)) /\ Resumed(r, action).tools = r.tools
  BY ResumedOK DEF Sound
<1>3. Sound([r EXCEPT !.pending = NoStep]) /\ [r EXCEPT !.pending = NoStep].tools = r.tools
  <2> DEFINE q == [r EXCEPT !.pending = NoStep]
  <2>1. /\ q.completed = r.completed /\ q.failed = r.failed /\ q.approved = r.approved
        /\ q.pending = NoStep /\ q.tools = r.tools /\ q.status = r.status
        /\ q.replanCount = r.replanCount
    BY DEF Session
  <2> HIDE DEF q
  <2>2. RecordOK(q)
    BY <2>1 DEF Sound, RecordOK, DependencyMet, SkippedAfterFailure, FailedSteps
  <2>3. q.status = "complete" => Finished(q)
    BY <2>1 DEF Sound, Finished, Steps, FailedSteps
  <2> QED BY <2>1, <2>2, <2>3 DEF Sound, q
<1> QED BY <1>1, <1>2, <1>3

(* The steps of a request keep the invariant.                              *)
LEMMA CallerInv == \A c \in Callers : PlanInv /\ CallerStep(c) => PlanInv'
<1> SUFFICES ASSUME PlanInv, NEW c \in Callers, CallerStep(c) PROVE PlanInv'
  OBVIOUS
<1>0. /\ TypeOK' /\ held \in [Writers -> Session] /\ held[c] \in Session /\ c \in Writers
      /\ store \in Session
      /\ {"generating_tree", "paused", "abandoned"} \subseteq SessionStatus \ {"complete"}
  BY CallerType DEF PlanInv, TypeOK, Writers, SessionStatus
<1>1. Sound(store) /\ Sound(NewSession) /\ Sound(held[c])
  BY <1>0, CopiesSound
<1>2. ASSUME UNCHANGED held PROVE held' = [held EXCEPT ![c] = held[c]]
  BY <1>0, <1>2
<1>3. CASE PrepareRead(c)
  BY <1>0, <1>1, <1>3, CallerKeeps DEF PrepareRead, Read
<1>4. CASE PrepareWrite(c)
  <2>1. Sound(store') /\ held[c].tools = store'.tools
    BY <1>0, <1>1, <1>4, StoredSound DEF PrepareWrite
  <2> QED BY <1>0, <1>1, <1>2, <1>4, <2>1, CallerKeeps DEF PrepareWrite
<1>5. CASE Start(c)
  <2>1. CASE Idle /\ LaunchRun /\ upToDate' = (upToDate \ {c}) \cup {"run"}
    BY <1>0, <1>5, <2>1, LaunchInv DEF Start, Answered
  <2>2. CASE RunUntouched /\ upToDate' = upToDate \ {c}
    BY <1>0, <1>1, <1>5, <2>2, CallerKeeps DEF Start, Answered
  <2> QED BY <1>5, <2>1, <2>2 DEF Start
<1>6. ASSUME NEW action \in ResumeAction, ResumeRead(c, action) PROVE PlanInv'
  BY <1>0, <1>1, <1>6, CallerKeeps DEF ResumeRead, Read
<1>7. CASE ResumeWrite(c)
  <2>1. Sound(store') /\ held[c].tools = store'.tools
    BY <1>0, <1>1, <1>7, StoredSound DEF ResumeWrite
  <2> QED BY <1>0, <1>1, <1>2, <1>7, <2>1, CallerKeeps DEF ResumeWrite
<1>8. CASE ResumeRollback(c)
  BY <1>0, <1>1, <1>8, CallerKeeps DEF ResumeRollback, Answered
<1>9. CASE ExpireRead(c)
  BY <1>0, <1>1, <1>9, CallerKeeps DEF ExpireRead, Read
<1>10. CASE ExpireWrite(c)
  <2>1. Sound(store')
    BY <1>0, <1>1, <1>10, StoredSound DEF ExpireWrite
  <2> QED BY <1>0, <1>1, <1>10, <2>1, CallerKeeps DEF ExpireWrite, Answered
<1>11. ASSUME NEW status \in {"paused", "abandoned"}, StopRead(c, status) PROVE PlanInv'
  BY <1>0, <1>1, <1>11, CallerKeeps DEF StopRead, Read
<1>12. CASE StopActive(c)
  BY <1>0, <1>1, <1>2, <1>12, CallerKeeps DEF StopActive
<1>13. CASE StopWrite(c)
  <2>1. Sound(store')
    BY <1>0, <1>1, <1>13, StoredSound DEF StopWrite
  <2> QED BY <1>0, <1>1, <1>13, <2>1, CallerKeeps DEF StopWrite, Answered
<1>14. CASE RequestPutFails(c)
  BY <1>0, <1>1, <1>14, CallerKeeps DEF RequestPutFails, Answered
<1> QED BY <1>3, <1>4, <1>5, <1>6, <1>7, <1>8, <1>9, <1>10, <1>11, <1>12, <1>13, <1>14
        DEF CallerStep, CallerPut

(* Requests edit the stored record as RecordOK allows, and a crash keeps   *)
(* the record as it is.                                                    *)
LEMMA RequestsInv == PlanInv /\ Requests => PlanInv'
<1> SUFFICES ASSUME PlanInv, Crash PROVE PlanInv'
  BY CallerInv DEF Requests
<1>0. /\ TypeOK' /\ StatusOK /\ RecordOK(store)
  BY RequestsType DEF PlanInv, RecordsOK, Requests
<1>1. /\ RecordOK(session') /\ LanesOK' /\ QueueOK'
      /\ session'.status # "complete" /\ pc' = "idle" /\ consumer' = "idle"
  BY DiscardInv DEF Crash
<1>2. held' = [w \in Writers |-> NewSession] /\ store' = store /\ upToDate' = {}
  BY DEF Crash
<1>3. NewSession.status # "complete"
  BY DEF NewSession
<1>4. RecordsOK'
  BY <1>0, <1>1, <1>2, NewSessionOK DEF RecordsOK
<1>5. StatusOK'
  BY <1>0, <1>1, <1>2, <1>3 DEF StatusOK, Finished, Steps, FailedSteps
<1>6. ChargesOK'
  BY <1>1, <1>2 DEF ChargesOK
<1> QED BY <1>0, <1>1, <1>4, <1>5, <1>6 DEF PlanInv

-----------------------------------------------------------------------------
(* What rests on PlanInv alone.                                            *)

(* The invariant holds initially.                                          *)
LEMMA InitInv == Init => PlanInv
<1> SUFFICES ASSUME Init PROVE PlanInv
  OBVIOUS
<1>1. TypeOK
  BY InitType
<1>2. store = NewSession /\ session = NewSession
      /\ held = [w \in Writers |-> NewSession] /\ upToDate = {} /\ pc = "idle" /\ consumer = "idle" /\ lane = NoLanes /\ out = <<>>
  BY DEF Init
<1>3. NewSession.status = "questioning" /\ NewSession.tools = 0
  BY DEF NewSession
<1>4. RecordsOK
  BY <1>2, NewSessionOK DEF RecordsOK
<1>5. LanesOK /\ QueueOK
  BY <1>2 DEF LanesOK, NoLanes, QueueOK
<1>6. StatusOK /\ ChargesOK
  BY <1>2, <1>3 DEF StatusOK, ChargesOK
<1> QED BY <1>1, <1>4, <1>5, <1>6 DEF PlanInv

(* Every step keeps the invariant.                                         *)
LEMMA StepInv == PlanInv /\ [Next]_vars => PlanInv'
<1>1. PlanInv /\ UNCHANGED vars => PlanInv'
  BY DEF PlanInv, vars, TypeOK, RecordsOK, RecordOK, DependencyMet, SkippedAfterFailure,
         FailedSteps, LanesOK, LaneOK, Queued, IsStepTerminal, DependenciesSatisfied,
         QueueOK, EventOK, Finished, Steps, StatusOK, ChargesOK
<1> QED BY <1>1, ExecutorInv, LanesInv, ConsumerInv, RequestsInv DEF Next

(* PlanInv is an inductive invariant of a plan run: whatever executor,     *)
(* consumer, step goroutines, requests and crashes do, and in any order.   *)
THEOREM PlanInvariance == Spec => []PlanInv
BY InitInv, StepInv, PTL DEF Spec

(* No copy of a session ever records a completed step before its           *)
(* dependencies, or a step both completed and failed, but for a step that  *)
(* a human skipped after it had failed.                                    *)
THEOREM ProgressIsConsistent == Spec => []ProgressConsistent
<1>1. PlanInv => ProgressConsistent
  BY DEF PlanInv, RecordsOK, RecordOK, ProgressConsistent, Copies
<1> QED BY <1>1, PlanInvariance, PTL

(* A tool is never called for a step that is terminal, that has an open    *)
(* dependency, or that lacks the approval it needs.                        *)
THEOREM DispatchIsAllowed == Spec => []DispatchAllowed
<1>1. PlanInv => DispatchAllowed
  BY DEF PlanInv, LanesOK, LaneOK, DispatchAllowed
<1> QED BY <1>1, PlanInvariance, PTL

(* A session that says "complete", whichever copy, has every step of       *)
(* its plan completed and none failed.                                     *)
THEOREM CompletionIsHonest == Spec => []CompleteIsHonest
<1>1. PlanInv => CompleteIsHonest
  BY DEF PlanInv, StatusOK, Finished, CompleteIsHonest, Copies
<1> QED BY <1>1, PlanInvariance, PTL

(* Tool calls charged to a stored session are refunded by nothing but a    *)
(* lost update: the Put of a request, or of the run, that was overtaken by *)
(* another Put since it read or wrote the record last.                     *)
THEOREM ChargesAreKept == Spec => ChargesKept
<1> DEFINE Lost == \/ RunPut /\ "run" \notin upToDate
                   \/ \E c \in Callers \ upToDate : CallerPut(c)
<1>1. PlanInv /\ [Next]_vars => [store'.tools < store.tools => Lost]_vars
  <2> SUFFICES ASSUME PlanInv, Next, ~Lost PROVE ~(store'.tools < store.tools)
    OBVIOUS
  <2>0. /\ TypeOK /\ ChargesOK /\ store \in Session /\ session \in Session
        /\ RecordOK(session) /\ QueueOK /\ held \in [Writers -> Session]
        /\ "run" \in Writers /\ Callers \subseteq Writers
    BY DEF PlanInv, TypeOK, RecordsOK, Writers
  <2>1. store.tools \in Nat /\ session.tools \in Nat
    BY <2>0, StepsOfSession
  <2>2. store'.tools = store.tools => ~(store'.tools < store.tools)
    BY <2>1
  <2>3. CASE Executor
    BY <2>0, <2>2, <2>3, ExecutorFrame
  <2>4. CASE Lanes
    BY <2>2, <2>4 DEF Lanes, LaneGate, LaneTool, LaneOnly, ExecutorOnly
  <2>5. CASE Consumer
    <3>1. CASE ConsumeEvent
      <4>1. store'.tools = session.tools /\ consumer = "listen"
        BY <2>0, <3>1, ConsumedEvent DEF PlanInv, ConsumeEvent, ConsumerOnly, execVars
      <4> QED BY <2>0, <2>1, <3>1, <4>1 DEF RunPut, ChargesOK
    <3>2. CASE ConsumeEventPutFails \/ ConsumerCancelled \/ RunFinishedPutFails
               \/ OrphanReturned \/ PersistFailureRead
      BY <2>2, <3>2 DEF ConsumeEventPutFails, ConsumerCancelled, RunFinishedPutFails,
                        OrphanReturned, PersistFailureRead
    <3>3. CASE PersistFailureWrite
      <4>1. [held["run"] EXCEPT !.status = "failed"].tools = held["run"].tools
        BY <2>0 DEF Session
      <4> QED BY <2>0, <2>2, <3>3, <4>1 DEF PersistFailureWrite, RunPut, ChargesOK
    <3>4. CASE RunFinished
      BY <2>0, <2>1, <3>4 DEF RunFinished, RunPut, ChargesOK
    <3> QED BY <2>5, <3>1, <3>2, <3>3, <3>4 DEF Consumer, PersistRunFailure
  <2>6. CASE Crash
    BY <2>2, <2>6 DEF Crash
  <2>7. ASSUME NEW c \in Callers, CallerStep(c) PROVE store'.tools = store.tools
    <3>1. CallerPut(c) => held[c].tools = store.tools
      BY <2>0 DEF ChargesOK
    <3>2. held[c] \in Session /\ Sound(held[c])
          /\ {"generating_tree", "paused", "abandoned"} \subseteq SessionStatus \ {"complete"}
      BY <2>0, CopiesSound DEF SessionStatus
    <3>a. /\ \A status \in SessionStatus \ {"complete"} :
               [held[c] EXCEPT !.status = status].tools = held[c].tools
          /\ \A action \in ResumeAction : Resumed(held[c], action).tools = held[c].tools
          /\ [held[c] EXCEPT !.pending = NoStep].tools = held[c].tools
      BY <3>2, StoredSound
    <3>3. PrepareWrite(c) \/ StopWrite(c) => store'.tools = held[c].tools
      BY <3>2, <3>a DEF PrepareWrite, StopWrite
    <3>4. ResumeWrite(c) \/ ExpireWrite(c) => store'.tools = held[c].tools
      BY <3>a DEF ResumeWrite, ExpireWrite
    <3>5. ResumeRollback(c) => store' \in {store, held[c]}
      BY DEF ResumeRollback
    <3>6. CASE ~CallerPut(c)
      BY <2>7, <3>6 DEF CallerStep, PrepareRead, Start, ExpireRead, StopActive, StopRead,
                        RequestPutFails, ResumeRead
    <3> QED BY <3>1, <3>3, <3>4, <3>5, <3>6 DEF CallerPut
  <2> QED BY <2>2, <2>3, <2>4, <2>5, <2>6, <2>7 DEF Next, Requests
<1> QED BY <1>1, PlanInvariance, PTL DEF Spec, ChargesKept

-----------------------------------------------------------------------------
(* The overrun of the budget.                                              *)

(* Two records with the same charges.                                      *)
SameCharges(q, r) == q.tools = r.tools /\ q.scripts = r.scripts /\ q.cost = r.cost

(* They are bounded alike.                                                 *)
LEMMA SameOverrun ==
  ASSUME NEW q, NEW r, SameCharges(q, r), WithinOverrun(r) PROVE WithinOverrun(q)
BY DEF SameCharges, WithinOverrun

(* A new session is within the bounds.                                     *)
LEMMA NewSessionOverrun == WithinOverrun(NewSession)
<1>1. MaxParallelLanes * MaxCostCents \in Nat
  BY LimitAssumption
<1> QED BY <1>1, LimitAssumption DEF NewSession, WithinOverrun

(* What the lanes of a batch may spend together: with `room` left of the   *)
(* limit M for each of P lanes, P * M in all.                              *)
LEMMA RoomBound ==
  ASSUME NEW P \in Nat \ {0}, NEW M \in Nat, NEW room \in 0..M
  PROVE  (M - room) + P * room <= P * M
<1>1. PICK k \in Nat : P = k + 1
  <2>1. P - 1 \in Nat /\ P = (P - 1) + 1
    OBVIOUS
  <2> QED BY <2>1
<1>2. PICK used \in Nat : M = room + used
  <2>1. M - room \in Nat /\ M = room + (M - room)
    OBVIOUS
  <2> QED BY <2>1
<1>3. P * M = k * room + k * used + room + used /\ P * room = k * room + room
  BY <1>1, <1>2
<1>4. k * room \in Nat /\ k * used \in Nat
  BY <1>2
<1> QED BY <1>2, <1>3, <1>4

(* Only a collected success is charged.                                    *)
LEMMA ExecutorUncharged ==
  ASSUME session \in Session, Executor, ~\E s \in AllSteps : CollectSuccess(s)
  PROVE  SameCharges(session', session)
<1>1. UNCHANGED session => SameCharges(session', session)
  BY DEF SameCharges
<1>2. \A next : SetStatus(next) => SameCharges(session', session)
  BY DEF SetStatus, SameCharges, Session
<1>3. ApplyReplan => SameCharges(session', session)
  BY DEF ApplyReplan, SameCharges, Session
<1>4. \A s \in AllSteps : CollectConfirm(s) \/ CollectFailure(s) => SameCharges(session', session)
  BY DEF CollectConfirm, CollectFailure, SameCharges, Session
<1>5. Begin \/ LoopCancelled \/ LoopAllTerminal \/ LoopExhausted \/ LoopTerminalFailure =>
        SameCharges(session', session)
  BY <1>1, <1>2 DEF Begin, LoopCancelled, LoopAllTerminal, LoopExhausted, LoopTerminalFailure
<1>6. LoopReplan \/ MediateReplan => SameCharges(session', session)
  BY <1>3 DEF LoopReplan, MediateReplan
<1>7. LoopSelect \/ StartStep \/ LaunchLane \/ BatchDone \/ BatchCollected
      \/ MediateContinue \/ Progress => SameCharges(session', session)
  BY <1>1 DEF LoopSelect, StartStep, LaunchLane, BatchDone, BatchCollected,
              MediateContinue, Progress
<1>8. PauseForApproval \/ Panic => SameCharges(session', session)
  BY <1>2 DEF PauseForApproval, Panic
<1> QED BY <1>4, <1>5, <1>6, <1>7, <1>8 DEF Executor

(* An applied event charges nothing.                                       *)
LEMMA EventUncharged ==
  ASSUME NEW r \in Session, NEW e \in Event
  PROVE  SameCharges(ApplyEvent(r, e), r)
<1> DEFINE p == ApplyEventProgress(r, e)
<1>1. p \in Session /\ SameCharges(p, r)
  BY DEF ApplyEventProgress, Session, Event, SameCharges
<1> HIDE DEF p
<1>2. SameCharges([p EXCEPT !.status = EventStatus(e, @)], p)
  BY <1>1 DEF SameCharges, Session
<1> QED BY <1>1, <1>2 DEF ApplyEvent, SameCharges, p

(* A step outside the collection: the batch does not grow, and a lane past *)
(* the gate still says that the budget is not used up.                     *)
LEMMA LoadUncollected ==
  ASSUME LoadOK, OverrunBounded', pc' # "collect",
         Batch' \subseteq Batch, GateHeld'
  PROVE  LoadOK'
<1>1. Batch \in SUBSET AllSteps /\ Batch' \in SUBSET AllSteps
  BY DEF Batch
<1>2. Cardinality(Batch') <= Cardinality(Batch) /\ Cardinality(Batch) \in Nat
      /\ Cardinality(Batch') \in Nat
  BY <1>1, StepsFinite
<1>3. Cardinality(Batch') <= MaxParallelLanes
  BY <1>2, LimitAssumption DEF LoadOK
<1> QED BY <1>3 DEF LoadOK

(* A step that leaves lanes and charges of the session alone.              *)
LEMMA LoadKept ==
  ASSUME LoadOK, OverrunBounded', UNCHANGED lane, SameCharges(session', session),
         pc' = "collect" <=> pc = "collect"
  PROVE  LoadOK'
<1>1. Batch' = Batch /\ Due' = Due /\ Scripts' = Scripts /\ Paid' = Paid
  BY DEF Batch, Due, Scripts, Paid
<1>2. (GateHeld => GateHeld') /\ (DueFits => DueFits')
  BY <1>1 DEF GateHeld, DueFits, RoomFor, SameCharges
<1> QED BY <1>1, <1>2 DEF LoadOK

(* A step that clears the lanes.                                           *)
LEMMA LoadCleared ==
  ASSUME OverrunBounded', lane' = NoLanes, pc' # "collect"
  PROVE  LoadOK'
<1>1. Batch' = {} /\ Due' = {} /\ Scripts' = {} /\ Paid' = {}
  BY DEF Batch, Due, Scripts, Paid, NoLanes
<1>2. Cardinality(Batch') <= MaxParallelLanes
  BY <1>1, FS_EmptySet, LimitAssumption
<1>3. GateHeld'
  BY <1>1 DEF GateHeld
<1> QED BY <1>2, <1>3 DEF LoadOK

(* The steps of a batch that count, and how many there are.                *)
LEMMA LoadSets ==
  LoadOK => /\ {Batch, Due, Scripts, Paid} \subseteq SUBSET AllSteps
            /\ {Due, Scripts, Paid} \subseteq SUBSET Batch /\ Scripts \subseteq Due
            /\ Cardinality(Batch) \in 0..MaxParallelLanes
            /\ Cardinality(Due) \in 0..MaxParallelLanes
            /\ Cardinality(Scripts) \in 0..MaxParallelLanes
            /\ Cardinality(Paid) \in 0..MaxParallelLanes
<1> SUFFICES ASSUME LoadOK
             PROVE  /\ {Batch, Due, Scripts, Paid} \subseteq SUBSET AllSteps
                    /\ {Due, Scripts, Paid} \subseteq SUBSET Batch /\ Scripts \subseteq Due
                    /\ \A S \in {Batch, Due, Scripts, Paid} :
                         Cardinality(S) \in 0..MaxParallelLanes
  OBVIOUS
<1>1. /\ {Batch, Due, Scripts, Paid} \subseteq SUBSET AllSteps
      /\ {Due, Scripts, Paid} \subseteq SUBSET Batch /\ Scripts \subseteq Due
  BY DEF Batch, Due, Scripts, Paid
<1>2. ASSUME NEW S \in {Batch, Due, Scripts, Paid} PROVE Cardinality(S) \in 0..MaxParallelLanes
  <2>1. S \in SUBSET Batch /\ S \in SUBSET AllSteps /\ Batch \in SUBSET AllSteps
    BY <1>1
  <2>2. Cardinality(S) \in Nat /\ Cardinality(Batch) \in Nat
        /\ Cardinality(S) <= Cardinality(Batch)
    BY <2>1, StepsFinite
  <2>3. Cardinality(Batch) <= MaxParallelLanes /\ MaxParallelLanes \in Nat
    BY LimitAssumption DEF LoadOK
  <2> QED BY <2>2, <2>3
<1> QED BY <1>1, <1>2

(* Once the lanes are done, what they passed the gate with bounds what is  *)
(* due.                                                                    *)
LEMMA GateBoundsDue ==
  ASSUME LoadOK, GateHeld, session \in Session
  PROVE  DueFits
<1>0. /\ session.tools \in Nat /\ session.scripts \in Nat /\ session.cost \in Nat
      /\ MaxToolCalls \in Nat /\ MaxScriptRuns \in Nat /\ MaxCostCents \in Nat
      /\ MaxParallelLanes \in Nat /\ WithinOverrun(session)
  BY StepsOfSession, LimitAssumption DEF LoadOK, OverrunBounded, Copies
<1>1. /\ Cardinality(Due) \in 0..MaxParallelLanes
      /\ Cardinality(Scripts) \in 0..MaxParallelLanes
      /\ Cardinality(Paid) \in 0..MaxParallelLanes
  BY LoadSets
<1>2. Cardinality({}) = 0
  BY FS_EmptySet
<1>3. session.tools + Cardinality(Due) < MaxToolCalls + MaxParallelLanes
  <2>1. CASE Due = {}
    BY <1>0, <1>2, <2>1 DEF WithinOverrun
  <2>2. CASE Due # {}
    BY <1>0, <1>1, <2>2 DEF GateHeld
  <2> QED BY <2>1, <2>2
<1>4. session.scripts + Cardinality(Scripts) < MaxScriptRuns + MaxParallelLanes
  <2>1. CASE Scripts = {}
    BY <1>0, <1>2, <2>1 DEF WithinOverrun
  <2>2. CASE Scripts # {}
    BY <1>0, <1>1, <2>2 DEF GateHeld
  <2> QED BY <2>1, <2>2
<1>5. \E room \in 0..MaxCostCents : RoomFor(room)
  <2>1. CASE Paid = {}
    <3>1. session.cost + 0 * MaxCostCents
            <= (MaxCostCents - MaxCostCents) + MaxParallelLanes * MaxCostCents
      BY <1>0 DEF WithinOverrun
    <3>2. RoomFor(MaxCostCents)
      BY <1>2, <2>1, <3>1 DEF RoomFor
    <3>3. MaxCostCents \in 0..MaxCostCents
      BY <1>0
    <3> QED BY <3>2, <3>3
  <2>2. CASE Paid # {}
    <3>1. PICK s \in Paid : session.cost + StepAt(s).cost <= MaxCostCents
      BY <2>2 DEF GateHeld
    <3>2. \A u \in Paid : StepAt(u).cost \in Nat
      BY ConstantTypes DEF Paid, Due, PlanStep
    <3> DEFINE room == MaxCostCents - session.cost
    <3>3. room \in 0..MaxCostCents /\ MaxCostCents - room = session.cost
      BY <1>0, <3>1, <3>2
    <3>4. \A u \in Paid : StepAt(u).cost <= room
      BY <1>0, <3>2 DEF GateHeld
    <3> HIDE DEF room
    <3>5. Cardinality(Paid) * room <= MaxParallelLanes * room
      <4>1. PICK k \in Nat : MaxParallelLanes = Cardinality(Paid) + k
        <5>1. MaxParallelLanes - Cardinality(Paid) \in Nat
              /\ MaxParallelLanes = Cardinality(Paid) + (MaxParallelLanes - Cardinality(Paid))
          BY <1>0, <1>1
        <5> QED BY <5>1
      <4>2. MaxParallelLanes * room = Cardinality(Paid) * room + k * room
        BY <1>1, <3>3, <4>1
      <4>3. k * room \in Nat /\ Cardinality(Paid) * room \in Nat
        BY <1>1, <3>3
      <4> QED BY <4>2, <4>3
    <3>6. session.cost + Cardinality(Paid) * room
            <= (MaxCostCents - room) + MaxParallelLanes * room
      <4>1. Cardinality(Paid) * room \in Nat /\ MaxParallelLanes * room \in Nat
        BY <1>0, <1>1, <3>3
      <4> QED BY <1>0, <3>3, <3>5, <4>1
    <3>7. RoomFor(room)
      BY <3>4, <3>6 DEF RoomFor
    <3> QED BY <3>3, <3>7
  <2> QED BY <2>1, <2>2
<1> QED BY <1>3, <1>4, <1>5 DEF DueFits

(* Charges that fit together with those still due keep the session within  *)
(* bounds: stated of the next state, where the collection uses it.         *)
LEMMA DueBoundsNext ==
  ASSUME session' \in Session, DueFits', Due' \in SUBSET AllSteps
  PROVE  WithinOverrun(session')
<1>0. /\ session'.tools \in Nat /\ session'.scripts \in Nat /\ session'.cost \in Nat
      /\ MaxToolCalls \in Nat /\ MaxScriptRuns \in Nat /\ MaxCostCents \in Nat
      /\ MaxParallelLanes \in Nat \ {0}
  BY StepsOfSession, LimitAssumption
<1>1. Cardinality(Due') \in Nat /\ Cardinality(Scripts') \in Nat /\ Cardinality(Paid') \in Nat
  <2>1. Scripts' \in SUBSET AllSteps /\ Paid' \in SUBSET AllSteps
    BY DEF Scripts, Paid
  <2> QED BY <2>1, StepsFinite
<1>2. PICK room \in 0..MaxCostCents : RoomFor(room)'
  BY DEF DueFits
<1>3. session'.cost <= MaxParallelLanes * MaxCostCents
  <2>1. (MaxCostCents - room) + MaxParallelLanes * room <= MaxParallelLanes * MaxCostCents
    BY <1>0, RoomBound
  <2>2. session'.cost + Cardinality(Paid') * room
          <= (MaxCostCents - room) + MaxParallelLanes * room
    BY <1>2 DEF RoomFor
  <2>3. /\ Cardinality(Paid') * room \in Nat /\ MaxParallelLanes * room \in Nat
        /\ MaxParallelLanes * MaxCostCents \in Nat
    BY <1>0, <1>1
  <2> QED BY <1>0, <2>1, <2>2, <2>3
<1> QED BY <1>0, <1>1, <1>3 DEF DueFits, WithinOverrun

(* The executor keeps the load within bounds: a batch is as large as there *)
(* are lanes, and each charge was due before.                              *)
LEMMA ExecutorLoad == PlanInv /\ LoadOK /\ Executor => LoadOK'
<1> SUFFICES ASSUME PlanInv, LoadOK, Executor PROVE LoadOK'
  OBVIOUS
<1>0. /\ TypeOK /\ LanesOK /\ session \in Session /\ lane \in [AllSteps -> LaneState]
      /\ UNCHANGED <<store, held>> /\ OverrunBounded /\ session' \in Session
  BY ExecutorFrame, ExecutorType DEF PlanInv, TypeOK, LoadOK
<1>1. /\ session.tools \in Nat /\ session.scripts \in Nat /\ session.cost \in Nat
      /\ MaxToolCalls \in Nat /\ MaxScriptRuns \in Nat /\ MaxParallelLanes \in Nat
  BY <1>0, StepsOfSession, LimitAssumption
<1>2. SameCharges(session', session) => OverrunBounded'
  BY <1>0, SameOverrun DEF OverrunBounded, Copies
<1>3. /\ {Batch, Due, Scripts, Paid} \subseteq SUBSET AllSteps
      /\ Cardinality(Due) \in Nat /\ Cardinality(Scripts) \in Nat /\ Cardinality(Paid) \in Nat
  BY <1>1, LoadSets
<1>4. ASSUME Batch' \subseteq Batch PROVE Cardinality(Batch') <= MaxParallelLanes
  <2>1. /\ Cardinality(Batch') \in Nat /\ Cardinality(Batch) \in Nat
        /\ Cardinality(Batch') <= Cardinality(Batch)
    BY <1>3, <1>4, StepsFinite
  <2> QED BY <1>1, <2>1 DEF LoadOK
<1>5. ASSUME NEW s \in AllSteps, CollectSuccess(s) PROVE LoadOK'
  <2>1. /\ pc = "collect" /\ pc' = "collect" /\ lane[s] \in {"ok", "empty"}
        /\ lane' = [lane EXCEPT ![s] = "off"]
    BY <1>5 DEF CollectSuccess, Collecting
  <2>2. /\ session'.tools = session.tools + 1
        /\ session'.scripts = IF StepAt(s).sandbox THEN session.scripts + 1 ELSE session.scripts
        /\ session'.cost = session.cost + StepAt(s).cost
    BY <1>0, <1>5 DEF CollectSuccess, ApplyBudgetUsage, Session
  <2>3. /\ Batch' \subseteq Batch /\ s \in Due /\ Due' = Due \ {s}
        /\ Scripts' = Scripts \ {s} /\ (s \in Scripts <=> StepAt(s).sandbox)
        /\ Paid' = Paid \ {s} /\ (s \in Paid <=> StepAt(s).cost > 0)
    BY <1>0, <2>1 DEF Batch, Due, Scripts, Paid
  <2>4. /\ Cardinality(Due') = Cardinality(Due) - 1
        /\ Cardinality(Scripts') =
             IF s \in Scripts THEN Cardinality(Scripts) - 1 ELSE Cardinality(Scripts)
        /\ Cardinality(Paid') = IF s \in Paid THEN Cardinality(Paid) - 1 ELSE Cardinality(Paid)
    <3>1. IsFiniteSet(Due) /\ IsFiniteSet(Scripts) /\ IsFiniteSet(Paid)
      BY <1>3, StepsFinite
    <3> QED BY <2>3, <3>1, FS_RemoveElement
  <2>5. DueFits /\ \A t \in AllSteps : lane[t] \in LaneDone \cup {"off"}
    BY <2>1 DEF LoadOK
  <2>6. /\ session'.tools + Cardinality(Due') < MaxToolCalls + MaxParallelLanes
        /\ session'.scripts + Cardinality(Scripts') < MaxScriptRuns + MaxParallelLanes
    <3>1. session'.tools + Cardinality(Due') = session.tools + Cardinality(Due)
      BY <1>1, <1>3, <2>2, <2>4
    <3>2. session'.scripts + Cardinality(Scripts') = session.scripts + Cardinality(Scripts)
      BY <1>1, <1>3, <2>2, <2>3, <2>4
    <3> QED BY <2>5, <3>1, <3>2 DEF DueFits
  <2>7. \E room \in 0..MaxCostCents : RoomFor(room)'
    <3>1. PICK room \in 0..MaxCostCents : RoomFor(room)
      BY <2>5 DEF DueFits
    <3>2. room \in Nat /\ MaxCostCents \in Nat
      BY LimitAssumption
    <3>3. \A u \in Paid' : StepAt(u).cost <= room
      BY <2>3, <3>1 DEF RoomFor
    <3>4. session'.cost + Cardinality(Paid') * room <= session.cost + Cardinality(Paid) * room
      <4>1. StepAt(s).cost \in Nat
        BY ConstantTypes DEF PlanStep
      <4>2. CASE s \notin Paid
        <5>1. session'.cost = session.cost /\ Cardinality(Paid') = Cardinality(Paid)
          BY <1>1, <2>2, <2>3, <2>4, <4>1, <4>2
        <5>2. Cardinality(Paid) * room \in Nat
          BY <1>3, <3>2
        <5> QED BY <1>1, <5>1, <5>2
      <4>3. CASE s \in Paid
        <5>1. StepAt(s).cost <= room /\ Cardinality(Paid') = Cardinality(Paid) - 1
          BY <2>4, <3>1, <4>3 DEF RoomFor
        <5>2. Cardinality(Paid') * room = Cardinality(Paid) * room - room
          BY <1>3, <3>2, <5>1
        <5>3. Cardinality(Paid) * room \in Nat
          BY <1>3, <3>2
        <5> QED BY <1>1, <2>2, <3>2, <4>1, <5>1, <5>2, <5>3
      <4> QED BY <4>2, <4>3
    <3>5. session'.cost + Cardinality(Paid') * room
            <= (MaxCostCents - room) + MaxParallelLanes * room
      <4>1. session.cost + Cardinality(Paid) * room
              <= (MaxCostCents - room) + MaxParallelLanes * room
        BY <3>1 DEF RoomFor
      <4>2. Cardinality(Paid') \in Nat /\ session'.cost \in Nat
        <5>1. Paid' \in SUBSET AllSteps
          BY <1>3, <2>3
        <5> QED BY <1>0, <5>1, StepsFinite, StepsOfSession
      <4>3. /\ Cardinality(Paid) * room \in Nat /\ Cardinality(Paid') * room \in Nat
            /\ MaxParallelLanes * room \in Nat
        BY <1>1, <1>3, <3>2, <4>2
      <4> QED BY <1>1, <3>2, <3>4, <4>1, <4>2, <4>3
    <3> QED BY <3>1, <3>3, <3>5 DEF RoomFor
  <2>8. DueFits'
    BY <2>6, <2>7 DEF DueFits
  <2>9. OverrunBounded'
    <3>1. Due' \in SUBSET AllSteps
      BY <1>3, <2>3
    <3>2. WithinOverrun(session')
      BY <1>0, <2>8, <3>1, DueBoundsNext
    <3> QED BY <1>0, <3>2 DEF OverrunBounded, Copies
  <2>10. \A t \in AllSteps : lane'[t] \in LaneDone \cup {"off"}
    BY <1>0, <2>1, <2>5
  <2> QED BY <1>4, <2>1, <2>3, <2>8, <2>9, <2>10 DEF LoadOK
<1>6. ASSUME NEW s \in AllSteps, CollectFailure(s) PROVE LoadOK'
  <2>1. /\ pc = "collect" /\ pc' = "collect" /\ lane[s] \in ToolFailure \cup {"blocked"}
        /\ lane' = [lane EXCEPT ![s] = "off"] /\ SameCharges(session', session)
    BY <1>0, <1>6 DEF CollectFailure, Collecting, SameCharges, Session
  <2>2. Batch' \subseteq Batch /\ Due' = Due /\ Scripts' = Scripts /\ Paid' = Paid
    BY <1>0, <2>1 DEF Batch, Due, Scripts, Paid, ToolFailure
  <2>3. DueFits'
    <3>1. DueFits
      BY <2>1 DEF LoadOK
    <3> QED BY <2>1, <2>2, <3>1 DEF DueFits, RoomFor, SameCharges
  <2>4. \A t \in AllSteps : lane'[t] \in LaneDone \cup {"off"}
    BY <1>0, <2>1 DEF LoadOK
  <2> QED BY <1>2, <1>4, <2>1, <2>2, <2>3, <2>4 DEF LoadOK
<1>7. ASSUME ~\E s \in AllSteps : CollectSuccess(s) PROVE SameCharges(session', session) /\ OverrunBounded'
  BY <1>0, <1>2, <1>7, ExecutorUncharged
<1>8. CASE BatchDone
  <2>1. /\ pc = "wait" /\ pc' = "collect" /\ lane' = lane /\ session' = session
        /\ \A s \in AllSteps : lane[s] \in LaneDone \cup {"off"}
    BY <1>8 DEF BatchDone
  <2>2. Batch' = Batch /\ Due' = Due /\ Scripts' = Scripts /\ Paid' = Paid
    BY <2>1 DEF Batch, Due, Scripts, Paid
  <2>3. DueFits
    BY <1>0, <2>1, GateBoundsDue DEF LoadOK
  <2>4. DueFits'
    BY <2>1, <2>2, <2>3 DEF DueFits, RoomFor
  <2>5. OverrunBounded'
    BY <1>2, <2>1 DEF SameCharges
  <2> QED BY <1>4, <2>1, <2>2, <2>4, <2>5 DEF LoadOK
<1>9. CASE LoopSelect
  <2>1. OverrunBounded' /\ pc' = "spawn" /\ CollectReadySteps(session) # {}
    BY <1>0, <1>2, <1>9 DEF LoopSelect, SameCharges
  <2>2. CollectReadySteps(session) \in SUBSET AllSteps
    BY <1>0, StepsOfSession
  <2> DEFINE batch == SelectRunnableSteps(CollectReadySteps(session))
  <2>3. batch \in SUBSET AllSteps /\ Cardinality(batch) <= MaxParallelLanes
    BY <2>1, <2>2, BatchFits
  <2>4. lane' = [s \in AllSteps |-> IF s \in batch THEN "queued" ELSE "off"]
    BY <1>9 DEF LoopSelect
  <2> HIDE DEF batch
  <2>5. Batch' = batch /\ Due' = {} /\ Scripts' = {} /\ Paid' = {}
    BY <2>3, <2>4 DEF Batch, Due, Scripts, Paid
  <2> QED BY <2>1, <2>3, <2>5 DEF LoadOK, GateHeld
<1>10. CASE LaunchLane
  <2>1. PICK f \in AllSteps : f = First(Queued) /\ f \in Queued
    BY <1>0, <1>10, FirstStep DEF LaunchLane, LanesOK, Queued
  <2>2. /\ lane' = [lane EXCEPT ![f] = "gate"] /\ session' = session
        /\ pc' \in {"wait", "spawn"} /\ pc = "launch" /\ lane[f] = "queued"
    BY <1>10, <2>1 DEF LaunchLane, Queued
  <2>3. Batch' = Batch /\ Due' = Due /\ Scripts' = Scripts /\ Paid' = Paid
    BY <1>0, <2>2 DEF Batch, Due, Scripts, Paid
  <2>4. OverrunBounded'
    BY <1>2, <2>2 DEF SameCharges
  <2> QED BY <2>2, <2>3, <2>4 DEF LoadOK, GateHeld
<1>11. ASSUME NEW s \in AllSteps, CollectConfirm(s) PROVE LoadOK'
  <2>1. lane' = NoLanes /\ pc' = "pausing" /\ SameCharges(session', session)
    BY <1>0, <1>11 DEF CollectConfirm, SameCharges, Session
  <2> QED BY <1>2, <2>1, LoadCleared
<1>12. CASE Panic
  <2>1. lane' = NoLanes /\ pc' = "closed" /\ SameCharges(session', session)
    BY <1>0, <1>12 DEF Panic, SetStatus, SameCharges, Session
  <2> QED BY <1>2, <2>1, LoadCleared
<1>13. CASE BatchCollected
  <2>1. lane' = NoLanes /\ pc' = "mediate" /\ session' = session
    BY <1>0, <1>13 DEF BatchCollected, NoLanes
  <2> QED BY <1>2, <2>1, LoadCleared DEF SameCharges
<1>14. Begin \/ LoopCancelled \/ LoopAllTerminal \/ LoopExhausted \/ LoopTerminalFailure
       \/ LoopReplan \/ StartStep \/ PauseForApproval \/ MediateReplan \/ MediateContinue
       \/ Progress
       => UNCHANGED lane /\ pc # "collect" /\ pc' # "collect"
  BY DEF Begin, LoopCancelled, LoopAllTerminal, LoopExhausted, LoopTerminalFailure,
         LoopReplan, StartStep, PauseForApproval, MediateReplan, MediateContinue, Progress,
         Stuck, AtLoop, execVars
<1>15. ASSUME UNCHANGED lane, pc # "collect", pc' # "collect",
              ~\E s \in AllSteps : CollectSuccess(s)
       PROVE  LoadOK'
  BY <1>7, <1>15, LoadKept
<1> QED BY <1>5, <1>6, <1>8, <1>9, <1>10, <1>11, <1>12, <1>13, <1>14, <1>15 DEF Executor

(* A step goroutine passes its gate only below the limits; the gate is     *)
(* open only before the collection, while nothing is charged.              *)
LEMMA LanesLoad == PlanInv /\ LoadOK /\ Lanes => LoadOK'
<1> SUFFICES ASSUME PlanInv, LoadOK, NEW s \in AllSteps, LaneGate(s) \/ LaneTool(s)
             PROVE  LoadOK'
  BY DEF Lanes
<1>0. /\ lane \in [AllSteps -> LaneState] /\ session \in Session
      /\ UNCHANGED <<session, store, held, pc>>
  BY DEF PlanInv, TypeOK, LaneGate, LaneTool, LaneOnly, ExecutorOnly, reqVars, callVars
<1>1. pc # "collect" /\ lane[s] \in {"gate", "tool"}
  BY DEF LoadOK, LaneGate, LaneTool, LaneDone, ToolFailure
<1>2. /\ session.tools \in Nat /\ session.scripts \in Nat /\ session.cost \in Nat
      /\ MaxToolCalls \in Nat /\ MaxScriptRuns \in Nat /\ MaxCostCents \in Nat
      /\ StepAt(s).cost \in Nat
  BY <1>0, StepsOfSession, LimitAssumption, ConstantTypes DEF PlanStep
<1>3. OverrunBounded'
  BY <1>0 DEF LoadOK, OverrunBounded, Copies
<1>4. ASSUME NEW o \in LaneState \ {"off"}, lane' = [lane EXCEPT ![s] = o],
             o \in {"tool", "ok", "empty"} => s \in Due \/ ~BudgetExceeded(session, s)
      PROVE  LoadOK'
  <2>1. Batch' \subseteq Batch
    BY <1>0, <1>1, <1>4 DEF Batch
  <2>2. \A t \in AllSteps : t # s => lane'[t] = lane[t]
    BY <1>0, <1>4
  <2>3. lane'[s] = o
    BY <1>0, <1>4
  <2>4. \A u \in Due' : u \in Due \/ (u = s /\ ~BudgetExceeded(session, s))
    BY <1>4, <2>2, <2>3 DEF Due
  <2>5. GateHeld
    BY <1>1 DEF LoadOK
  <2>6. ~BudgetExceeded(session, s) =>
          /\ session.tools < MaxToolCalls
          /\ StepAt(s).sandbox => session.scripts < MaxScriptRuns
          /\ StepAt(s).cost > 0 => session.cost + StepAt(s).cost <= MaxCostCents
    BY <1>2 DEF BudgetExceeded
  <2>7. \A u \in Due' :
          /\ session.tools < MaxToolCalls
          /\ StepAt(u).sandbox => session.scripts < MaxScriptRuns
          /\ StepAt(u).cost > 0 => session.cost + StepAt(u).cost <= MaxCostCents
    BY <2>4, <2>5, <2>6 DEF GateHeld, Scripts, Paid
  <2>8. GateHeld'
    BY <1>0, <2>7 DEF GateHeld, Scripts, Paid
  <2> QED BY <1>0, <1>1, <1>3, <2>1, <2>8, LoadUncollected
<1>5. \A f \in ToolFailure \cup {"blocked"} : AttemptFails(s, f) => LoadOK'
  <2> SUFFICES ASSUME NEW f \in ToolFailure \cup {"blocked"}, AttemptFails(s, f) PROVE LoadOK'
    OBVIOUS
  <2>1. PICK o \in ToolFailure \cup {"blocked", "gate"} : lane' = [lane EXCEPT ![s] = o]
    BY DEF AttemptFails
  <2>2. o \in LaneState \ {"off"} /\ o \notin {"tool", "ok", "empty"}
    BY DEF LaneState, ToolFailure
  <2> QED BY <1>4, <2>1, <2>2
<1>6. CASE LaneGate(s)
  <2>1. CASE BudgetExceeded(session, s)
    BY <1>5, <1>6, <2>1 DEF LaneGate
  <2>2. CASE ~BudgetExceeded(session, s)
    <3>1. \E o \in {"tool", "confirm"} : lane' = [lane EXCEPT ![s] = o]
      BY <1>6, <2>2 DEF LaneGate
    <3> QED BY <1>4, <2>2, <3>1 DEF LaneState
  <2> QED BY <2>1, <2>2
<1>7. CASE LaneTool(s)
  <2>1. s \in Due
    BY <1>7 DEF LaneTool, Due
  <2>2. (\E o \in {"ok", "empty"} : lane' = [lane EXCEPT ![s] = o])
        \/ \E failure \in ToolFailure : AttemptFails(s, failure)
    BY <1>7 DEF LaneTool
  <2> QED BY <1>4, <1>5, <2>1, <2>2 DEF LaneState
<1> QED BY <1>6, <1>7

(* A discarded run leaves no load.                                         *)
LEMMA DiscardLoad ==
  ASSUME Discard, WithinOverrun(store'), \A w \in Writers : WithinOverrun(held'[w])
  PROVE  LoadOK'
<1>1. session' = NewSession /\ lane' = NoLanes /\ pc' = "idle"
  BY DEF Discard
<1>2. OverrunBounded'
  BY <1>1, NewSessionOverrun DEF OverrunBounded, Copies
<1> QED BY <1>1, <1>2, LoadCleared

(* The consumer stores records within the bound.                           *)
LEMMA ConsumerLoad == PlanInv /\ LoadOK /\ Consumer => LoadOK'
<1> SUFFICES ASSUME PlanInv, LoadOK, Consumer PROVE LoadOK'
  OBVIOUS
<1> USE DEF execVars, callVars, ConsumerOnly
<1>0. /\ session \in Session /\ store \in Session /\ out \in Seq(Event)
      /\ held \in [Writers -> Session] /\ "run" \in Writers
      /\ WithinOverrun(session) /\ WithinOverrun(store) /\ WithinOverrun(NewSession)
      /\ \A w \in Writers : WithinOverrun(held[w])
  BY NewSessionOverrun DEF PlanInv, TypeOK, LoadOK, OverrunBounded, Copies, Writers
<1>1. CASE ConsumeEvent \/ ConsumeEventPutFails
  <2>1. /\ session' = ApplyEvent(session, Head(out)) /\ store' \in {store, session'}
        /\ UNCHANGED <<held, lane, pc>> /\ out # <<>>
    BY <1>1 DEF ConsumeEvent, ConsumeEventPutFails
  <2>2. Head(out) \in Event
    BY <1>0, <2>1, HeadTailProperties
  <2>3. SameCharges(session', session)
    BY <1>0, <2>1, <2>2, EventUncharged
  <2>4. OverrunBounded'
    BY <1>0, <2>1, <2>3, SameOverrun DEF OverrunBounded, Copies
  <2> QED BY <2>1, <2>3, <2>4, LoadKept
<1>2. CASE ConsumerCancelled \/ RunFinishedPutFails
  <2>1. UNCHANGED <<session, store, held, lane, pc>>
    BY <1>2 DEF ConsumerCancelled, RunFinishedPutFails
  <2> QED BY <1>0, <2>1, LoadKept DEF OverrunBounded, Copies, SameCharges
<1>3. CASE PersistFailureRead \/ PersistFailureWrite
  <2>1. /\ UNCHANGED <<session, lane, pc>>
        /\ store' \in {store, [held["run"] EXCEPT !.status = "failed"]}
        /\ held' = held \/ \E h \in {store, NewSession} : held' = [held EXCEPT !["run"] = h]
    BY <1>3 DEF PersistFailureRead, PersistFailureWrite
  <2>2. SameCharges([held["run"] EXCEPT !.status = "failed"], held["run"])
    BY <1>0 DEF SameCharges, Session
  <2>3. WithinOverrun(store')
    BY <1>0, <2>1, <2>2, SameOverrun
  <2>4. \A w \in Writers : held'[w] \in {held[w], store, NewSession}
    BY <1>0, <2>1
  <2>5. OverrunBounded'
    BY <1>0, <2>1, <2>3, <2>4 DEF OverrunBounded, Copies
  <2> QED BY <2>1, <2>5, LoadKept DEF SameCharges
<1>4. CASE RunFinished \/ OrphanReturned
  <2>1. Discard /\ store' \in {store, session} /\ held' = held
    BY <1>4 DEF RunFinished, OrphanReturned
  <2> QED BY <1>0, <2>1, DiscardLoad
<1> QED BY <1>1, <1>2, <1>3, <1>4 DEF Consumer, PersistRunFailure

(* A run starts with the charges of the stored record.                     *)
LEMMA LaunchLoad ==
  ASSUME PlanInv, LoadOK, Idle, LaunchRun, UNCHANGED store,
         \A w \in Writers : WithinOverrun(held'[w])
  PROVE  LoadOK'
<1>1. session' = store /\ pc' = "begin" /\ UNCHANGED lane
  BY DEF LaunchRun
<1>2. lane = NoLanes
  BY DEF PlanInv, TypeOK, Idle, LanesOK, LaneOK, NoLanes
<1>3. OverrunBounded'
  BY <1>1 DEF LoadOK, OverrunBounded, Copies
<1> QED BY <1>1, <1>2, <1>3, LoadCleared

(* A caller holds what it held, the record it reads, or nothing, and what  *)
(* it stores has the charges of what it held.                              *)
LEMMA CallerMoves ==
  ASSUME PlanInv, NEW c \in Callers, CallerStep(c)
  PROVE  /\ \A w \in Writers : held'[w] \in {held[w], store, NewSession}
         /\ store' = store \/ SameCharges(store', held[c])
         /\ RunUntouched \/ (Idle /\ LaunchRun /\ UNCHANGED store)
<1>0. held \in [Writers -> Session] /\ c \in Writers /\ held[c] \in Session
  BY DEF PlanInv, TypeOK, Writers
<1>1. \A h : held' = [held EXCEPT ![c] = h] => \A w \in Writers : held'[w] \in {held[w], h}
  BY <1>0
<1>2. /\ \A status : SameCharges([held[c] EXCEPT !.status = status], held[c])
      /\ SameCharges([held[c] EXCEPT !.pending = NoStep], held[c])
  BY <1>0 DEF SameCharges, Session
<1>3. SameCharges(Resumed(held[c], op[c]), held[c])
  <2> DEFINE r == held[c]
             k == [r EXCEPT !.pending = NoStep, !.status = "searching"]
  <2>1. k \in Session /\ SameCharges(k, r)
    BY <1>0 DEF Session, SessionStatus, SameCharges
  <2> HIDE DEF k
  <2>2. \A x : /\ SameCharges([k EXCEPT !.approved = @ \cup x], k)
               /\ SameCharges([k EXCEPT !.completed = @ \cup x], k)
               /\ SameCharges([k EXCEPT !.failed = x], k)
    BY <2>1 DEF Session, SameCharges
  <2> QED BY <2>1, <2>2 DEF Resumed, SameCharges, k
<1>4. SameCharges(held[c], held[c])
  BY DEF SameCharges
<1>5. CASE PrepareRead(c) \/ ExpireRead(c) \/ StopRead(c, "paused") \/ StopRead(c, "abandoned")
           \/ \E action \in ResumeAction : ResumeRead(c, action)
  BY <1>1, <1>5 DEF PrepareRead, ExpireRead, StopRead, ResumeRead, Read
<1>6. CASE Start(c) \/ RequestPutFails(c) \/ StopActive(c)
  BY <1>1, <1>6 DEF Start, RequestPutFails, StopActive, Answered
<1>7. CASE PrepareWrite(c) \/ ResumeWrite(c)
  BY <1>2, <1>3, <1>7 DEF PrepareWrite, ResumeWrite
<1>8. CASE ResumeRollback(c) \/ ExpireWrite(c) \/ StopWrite(c)
  BY <1>1, <1>2, <1>4, <1>8 DEF ResumeRollback, ExpireWrite, StopWrite, Answered
<1> QED BY <1>5, <1>6, <1>7, <1>8 DEF CallerStep, CallerPut

(* Requests move charges between the records and add none.                 *)
LEMMA RequestsLoad == PlanInv /\ LoadOK /\ Requests => LoadOK'
<1> SUFFICES ASSUME PlanInv, LoadOK, Requests PROVE LoadOK'
  OBVIOUS
<1>0. /\ WithinOverrun(session) /\ WithinOverrun(store) /\ WithinOverrun(NewSession)
      /\ \A w \in Writers : WithinOverrun(held[w])
      /\ Callers \subseteq Writers
  BY NewSessionOverrun DEF LoadOK, OverrunBounded, Copies, Writers
<1>1. CASE Crash
  BY <1>0, <1>1, DiscardLoad DEF Crash
<1>2. ASSUME NEW c \in Callers, CallerStep(c) PROVE LoadOK'
  <2>1. \A w \in Writers : WithinOverrun(held'[w])
    BY <1>0, <1>2, CallerMoves
  <2>2. WithinOverrun(store')
    BY <1>0, <1>2, CallerMoves, SameOverrun
  <2>3. CASE RunUntouched
    <3>1. UNCHANGED <<session, pc, lane>>
      BY <2>3 DEF RunUntouched, execVars
    <3>2. OverrunBounded'
      BY <1>0, <2>1, <2>2, <3>1 DEF OverrunBounded, Copies
    <3> QED BY <3>1, <3>2, LoadKept DEF SameCharges
  <2>4. CASE Idle /\ LaunchRun /\ UNCHANGED store
    BY <2>1, <2>4, LaunchLoad
  <2> QED BY <1>2, <2>3, <2>4, CallerMoves
<1> QED BY <1>1, <1>2 DEF Requests

(* Every step keeps the load within bounds.                                *)
LEMMA LoadStep == PlanInv /\ LoadOK /\ [Next]_vars => LoadOK'
<1>1. LoadOK /\ UNCHANGED vars => LoadOK'
  BY LoadKept DEF LoadOK, OverrunBounded, Copies, SameCharges, vars
<1> QED BY <1>1, ExecutorLoad, LanesLoad, ConsumerLoad, RequestsLoad DEF Next

-----------------------------------------------------------------------------
(* The settling of a run.                                                  *)

(* An event that is sent becomes the last one.                             *)
LEMMA SentIsLast ==
  ASSUME out \in Seq(Event), NEW type, NEW s, NEW reason, EmitReason(type, s, reason)
  PROVE  out' # <<>> /\ LastEvent'.type = type
<1> DEFINE e == [type |-> type, step |-> s, reason |-> reason]
<1>1. out' = Append(out, e)
  BY DEF EmitReason
<1>2. e.type = type
  OBVIOUS
<1> HIDE DEF e
<1>3. Len(out') = Len(out) + 1 /\ Len(out) \in Nat /\ out'[Len(out) + 1] = e
  BY <1>1, LenProperties
<1>4. out' # <<>>
  BY <1>3
<1> QED BY <1>2, <1>3, <1>4 DEF LastEvent

(* Taking an event from the channel leaves the last one where it is,       *)
(* unless it was that one.                                                 *)
LEMMA LastOfTail ==
  ASSUME out \in Seq(Event), out # <<>>, out' = Tail(out)
  PROVE  /\ Head(out) \in Event
         /\ out' = <<>> => Head(out) = LastEvent
         /\ out' # <<>> => LastEvent' = LastEvent
<1>1. /\ Head(out) \in Event /\ Head(out) = out[1] /\ Len(out) \in Nat /\ Len(out) # 0
      /\ Len(out') = Len(out) - 1 /\ \A i \in 1..Len(out') : out'[i] = out[i + 1]
      /\ out' \in Seq(Event)
  BY HeadTailProperties, LenProperties, EmptySeq
<1>2. out' = <<>> => Len(out) = 1
  <2>1. out' = <<>> => Len(out') = 0
    BY EmptySeq
  <2> QED BY <1>1, <2>1
<1>3. out' # <<>> => Len(out') \in 1..Len(out') /\ Len(out') + 1 = Len(out)
  BY <1>1, EmptySeq
<1> QED BY <1>1, <1>2, <1>3 DEF LastEvent

(* A run that ends has sent the event that settles it.                     *)
LEMMA ExecutorExit == PlanInv /\ ExitOK /\ Executor => ExitOK'
<1> SUFFICES ASSUME PlanInv, ExitOK, Executor PROVE ExitOK'
  OBVIOUS
<1>0. /\ TypeOK /\ session \in Session /\ out \in Seq(Event) /\ LanesOK
      /\ pc # "closed" /\ consumer' = consumer
  BY ExecutorFrame DEF PlanInv, TypeOK
<1>1. pc' \notin {"pausing", "closed"} => ExitOK'
  BY DEF ExitOK
<1>2. ASSUME NEW s, NEW reason, pc' = "closed",
             EmitReason("step_failed", s, reason) \/ EmitReason("completed", s, reason)
      PROVE  ExitOK'
  BY <1>0, <1>2, SentIsLast DEF ExitOK
<1>3. CASE Begin \/ LoopCancelled
  BY <1>1, <1>2, <1>3 DEF Begin, LoopCancelled, Emit
<1>4. CASE LoopAllTerminal
  BY <1>2, <1>4 DEF LoopAllTerminal, Emit
<1>5. CASE LoopExhausted \/ LoopTerminalFailure \/ Panic
  BY <1>2, <1>5 DEF LoopExhausted, LoopTerminalFailure, Panic, Emit
<1>6. ASSUME NEW s \in AllSteps, CollectConfirm(s) PROVE ExitOK'
  <2>1. ~IsStepTerminal(session, s) /\ s # NoStep
    BY <1>0, <1>6, ConstantTypes DEF CollectConfirm, LanesOK, LaneOK
  <2>2. /\ session'.pending = s /\ session'.completed = session.completed
        /\ session'.failed = session.failed
    BY <1>0, <1>6, CollectEffect
  <2>3. AwaitsDecision(session)'
    BY <2>1, <2>2 DEF AwaitsDecision, IsStepTerminal
  <2>4. out' # <<>> /\ LastEvent'.type = "confirmation_need" /\ pc' = "pausing"
    BY <1>0, <1>6, SentIsLast DEF CollectConfirm, Emit
  <2> QED BY <2>3, <2>4 DEF ExitOK
<1>7. CASE PauseForApproval
  <2>1. /\ pc = "pausing" /\ pc' = "closed" /\ UNCHANGED out
        /\ session' = [session EXCEPT !.status = TransitionSessionStatus(@, "paused")]
    BY <1>7 DEF PauseForApproval, SetStatus
  <2>2. /\ AwaitsDecision(session) => AwaitsDecision(session)'
        /\ session.status = "paused" => session'.status = "paused"
    BY <1>0, <2>1 DEF AwaitsDecision, IsStepTerminal, TransitionSessionStatus,
                      CanTransition, Session
  <2> QED BY <1>0, <2>1, <2>2 DEF ExitOK, RunSettled, LastEvent
<1>8. (\E s \in AllSteps : CollectSuccess(s) \/ CollectFailure(s)) =>
        pc' \notin {"pausing", "closed"}
  BY DEF CollectSuccess, CollectFailure, Collecting
<1>9. LoopReplan \/ LoopSelect \/ StartStep \/ LaunchLane \/ BatchDone \/ BatchCollected
      \/ MediateReplan \/ MediateContinue \/ Progress => pc' \notin {"pausing", "closed"}
  BY DEF LoopReplan, LoopSelect, StartStep, LaunchLane, BatchDone, BatchCollected,
         MediateReplan, MediateContinue, Progress, Stuck, AtLoop, execVars
<1> QED BY <1>1, <1>3, <1>4, <1>5, <1>6, <1>7, <1>8, <1>9 DEF Executor

(* A step that changes neither the run nor its events.                     *)
LEMMA ExitKept ==
  ASSUME ExitOK, UNCHANGED <<session, pc, out>>, consumer' = "listen" => consumer = "listen"
  PROVE  ExitOK'
BY DEF ExitOK, RunSettled, AwaitsDecision, IsStepTerminal, LastEvent

(* The event that is applied last settles the session.                     *)
LEMMA ConsumerExit == PlanInv /\ ExitOK /\ Consumer => ExitOK'
<1> SUFFICES ASSUME PlanInv, ExitOK, Consumer PROVE ExitOK'
  OBVIOUS
<1> USE DEF execVars, reqVars, callVars, ConsumerOnly
<1>0. /\ session \in Session /\ out \in Seq(Event) /\ RecordOK(session) /\ QueueOK
  BY DEF PlanInv, TypeOK, RecordsOK
<1>1. CASE ConsumeEvent
  <2>1. /\ consumer = "listen" /\ consumer' = "listen" /\ out # <<>> /\ out' = Tail(out)
        /\ session' = ApplyEvent(session, Head(out)) /\ UNCHANGED pc
    BY <1>1 DEF ConsumeEvent
  <2>2. PICK e \in Event : e = Head(out) /\ EventOK(e)
    <3>1. Head(out) \in Event /\ Head(out) = out[1] /\ 1 \in 1..Len(out)
      BY <1>0, <2>1, HeadTailProperties, EmptySeq
    <3> QED BY <1>0, <3>1 DEF QueueOK
  <2>3. /\ session'.failed = session.failed /\ session'.pending = session.pending
        /\ session'.completed \subseteq session.completed
        /\ session'.status = EventStatus(e, session.status)
    BY <1>0, <2>1, <2>2, AppliedEvent
  <2>4. AwaitsDecision(session) => AwaitsDecision(session)'
    BY <2>3 DEF AwaitsDecision, IsStepTerminal
  <2>5. /\ out' = <<>> => e = LastEvent
        /\ out' # <<>> => LastEvent' = LastEvent
    BY <1>0, <2>1, <2>2, LastOfTail
  <2>6. CASE out' # <<>>
    BY <2>1, <2>4, <2>5, <2>6 DEF ExitOK
  <2>7. CASE out' = <<>>
    <3>1. pc = "pausing" => AwaitsDecision(session)' /\ session'.status = "paused"
      BY <2>1, <2>3, <2>4, <2>5, <2>7 DEF ExitOK, EventStatus
    <3>2. pc = "closed" => RunSettled(session)'
      BY <2>1, <2>3, <2>4, <2>5, <2>7 DEF ExitOK, EventStatus, RunSettled
    <3> QED BY <2>1, <2>7, <3>1, <3>2 DEF ExitOK
  <2> QED BY <2>6, <2>7
<1>2. CASE ConsumeEventPutFails \/ ConsumerCancelled \/ RunFinishedPutFails \/ PersistRunFailure
  <2>1. consumer' # "listen"
    BY <1>2 DEF ConsumeEventPutFails, ConsumerCancelled, RunFinishedPutFails,
                PersistRunFailure, PersistFailureRead, PersistFailureWrite, AfterFailedPut
  <2> QED BY <2>1 DEF ExitOK
<1>3. CASE RunFinished \/ OrphanReturned
  <2>1. consumer' = "idle"
    BY <1>3 DEF RunFinished, OrphanReturned, Discard
  <2> QED BY <2>1 DEF ExitOK
<1> QED BY <1>1, <1>2, <1>3 DEF Consumer

(* Step goroutines and requests leave a run that is ending alone.          *)
LEMMA OthersExit == PlanInv /\ ExitOK /\ (Lanes \/ Requests) => ExitOK'
<1> SUFFICES ASSUME PlanInv, ExitOK, Lanes \/ Requests PROVE ExitOK'
  OBVIOUS
<1> USE DEF execVars, reqVars, callVars
<1>1. CASE Lanes
  <2>1. UNCHANGED <<session, pc, out, consumer>>
    BY <1>1 DEF Lanes, LaneGate, LaneTool, LaneOnly, ExecutorOnly
  <2> QED BY <2>1, ExitKept
<1>2. CASE Crash
  BY <1>2 DEF Crash, Discard, ExitOK
<1>3. ASSUME NEW c \in Callers, CallerStep(c), PlanInv PROVE ExitOK'
  <2>1. RunUntouched \/ LaunchRun
    BY <1>3, CallerMoves
  <2>2. LaunchRun => ExitOK'
    BY DEF LaunchRun, ExitOK
  <2> QED BY <2>1, <2>2, ExitKept DEF RunUntouched
<1> QED BY <1>1, <1>2, <1>3 DEF Requests

(* Every step keeps the end of the run settled.                            *)
LEMMA ExitStep == PlanInv /\ ExitOK /\ [Next]_vars => ExitOK'
<1>1. ExitOK /\ UNCHANGED vars => ExitOK'
  BY ExitKept DEF vars
<1> QED BY <1>1, ExecutorExit, ConsumerExit, OthersExit DEF Next

-----------------------------------------------------------------------------
(* The advance of a run.                                                   *)

(* The executor changes the number of replans only when it replans.        *)
LEMMA ExecutorReplans ==
  ASSUME session \in Session, Executor
  PROVE  /\ LoopReplan \/ MediateReplan => session'.replanCount = session.replanCount + 1
         /\ ~(LoopReplan \/ MediateReplan) => session'.replanCount = session.replanCount
<1>1. \A next : SetStatus(next) => session'.replanCount = session.replanCount
  BY DEF SetStatus, Session
<1>2. LoopReplan \/ MediateReplan => session'.replanCount = session.replanCount + 1
  BY DEF LoopReplan, MediateReplan, ApplyReplan, Session
<1>3. Begin \/ LoopAllTerminal \/ LoopExhausted \/ LoopTerminalFailure \/ PauseForApproval
      \/ Panic => session'.replanCount = session.replanCount
  BY <1>1 DEF Begin, LoopAllTerminal, LoopExhausted, LoopTerminalFailure, PauseForApproval,
              Panic
<1>4. LoopCancelled \/ LoopSelect \/ StartStep \/ LaunchLane \/ BatchDone \/ BatchCollected
      \/ MediateContinue \/ Progress => session'.replanCount = session.replanCount
  BY DEF LoopCancelled, LoopSelect, StartStep, LaunchLane, BatchDone, BatchCollected,
         MediateContinue, Progress
<1>5. ASSUME NEW s \in AllSteps, CollectSuccess(s) \/ CollectConfirm(s) \/ CollectFailure(s)
      PROVE  session'.replanCount = session.replanCount
  BY <1>5 DEF CollectSuccess, CollectConfirm, CollectFailure, ApplyBudgetUsage, Session
<1> QED BY <1>2, <1>3, <1>4, <1>5 DEF Executor

(* A plan never shrinks while it runs.                                     *)
LEMMA ExecutorKeepsSteps ==
  ASSUME session \in Session, Executor
  PROVE  Steps(session) \subseteq Steps(session')
<1>1. /\ session.replanCount \in Nat /\ Len(Plan) \in Nat
      /\ session'.replanCount \in {session.replanCount, session.replanCount + 1}
  BY ExecutorReplans, StepsOfSession, ConstantTypes
<1> QED BY <1>1 DEF Steps

(* A step that leaves the lanes and the results alone.                     *)
LEMMA AdvanceKept ==
  ASSUME AdvanceOK, UNCHANGED <<lane, attempt, outcomes>>,
         Batch = {} \/ Steps(session) \subseteq Steps(session'),
         \/ pc' = pc \/ pc' \in {"pausing", "progress", "closed"}
         \/ pc \in {"idle", "begin", "loop"} /\ pc' \in {"begin", "loop"}
         \/ pc \in {"spawn", "launch"} /\ pc' \in {"spawn", "launch"}
         \/ pc = "wait" /\ pc' = "collect"
  PROVE  AdvanceOK'
<1>1. Batch' = Batch /\ Queued' = Queued
  BY DEF Batch, Queued
<1>2. Batch' \subseteq Steps(session')
  BY <1>1 DEF AdvanceOK
<1>3. \A s \in AllSteps : attempt'[s] <= StepAt(s).maxAttempts
  BY DEF AdvanceOK
<1> QED BY <1>1, <1>2, <1>3 DEF AdvanceOK

(* A step that clears the lanes.                                           *)
LEMMA AdvanceCleared ==
  ASSUME AdvanceOK, lane' = NoLanes, UNCHANGED attempt, pc' \in {"pausing", "closed"}
  PROVE  AdvanceOK'
<1>1. Batch' = {}
  BY DEF Batch, NoLanes
<1>2. \A s \in AllSteps : attempt'[s] <= StepAt(s).maxAttempts
  BY DEF AdvanceOK
<1> QED BY <1>1, <1>2 DEF AdvanceOK

(* The executor goes on with a batch that is not empty.                    *)
LEMMA ExecutorAdvanceOK == PlanInv /\ LoadOK /\ AdvanceOK /\ Executor => AdvanceOK'
<1> SUFFICES ASSUME PlanInv, LoadOK, AdvanceOK, Executor PROVE AdvanceOK'
  OBVIOUS
<1>0. /\ session \in Session /\ lane \in [AllSteps -> LaneState] /\ LanesOK
      /\ outcomes \in Seq(LaneDone) /\ Steps(session) \subseteq Steps(session')
  BY ExecutorKeepsSteps DEF PlanInv, TypeOK
<1>1. CASE Begin \/ LoopCancelled \/ LoopAllTerminal \/ LoopExhausted \/ LoopTerminalFailure
           \/ LoopReplan
  <2>1. /\ UNCHANGED <<lane, attempt, outcomes>>
        /\ pc \in {"begin", "loop"} /\ pc' \in {"loop", "closed"}
    BY <1>1 DEF Begin, LoopCancelled, LoopAllTerminal, LoopExhausted, LoopTerminalFailure,
                LoopReplan, Stuck, AtLoop, execVars
  <2> QED BY <1>0, <2>1, AdvanceKept
<1>2. CASE LoopSelect
  <2>1. /\ pc = "loop" /\ pc' = "spawn" /\ UNCHANGED <<session, attempt, outcomes>>
        /\ CollectReadySteps(session) # {} /\ outcomes = <<>>
    BY <1>2 DEF LoopSelect, AtLoop, AdvanceOK
  <2> DEFINE ready == CollectReadySteps(session)
             batch == SelectRunnableSteps(ready)
  <2>2. ready \in SUBSET AllSteps /\ ready \subseteq Steps(session)
    BY <1>0, StepsOfSession DEF CollectReadySteps
  <2>3. batch # {} /\ batch \subseteq ready
    <3> HIDE DEF ready
    <3> QED BY <2>1, <2>2, BatchFits, BatchNonempty DEF ready
  <2>4. lane' = [s \in AllSteps |-> IF s \in batch THEN "queued" ELSE "off"]
    BY <1>2 DEF LoopSelect
  <2> HIDE DEF batch, ready
  <2>5. Batch' = batch /\ Queued' = batch
    BY <2>2, <2>3, <2>4 DEF Batch, Queued
  <2>6. \A s \in AllSteps : attempt'[s] <= StepAt(s).maxAttempts
    BY <2>1 DEF AdvanceOK
  <2>7. Batch' \subseteq Steps(session')
    BY <2>1, <2>2, <2>3, <2>5
  <2> QED BY <2>1, <2>3, <2>5, <2>6, <2>7 DEF AdvanceOK
<1>3. CASE StartStep
  <2>1. UNCHANGED <<lane, attempt, outcomes>> /\ pc = "spawn" /\ pc' = "launch"
    BY <1>3 DEF StartStep
  <2> QED BY <1>0, <2>1, AdvanceKept
<1>4. CASE LaunchLane
  <2>1. PICK f \in AllSteps : f = First(Queued) /\ f \in Queued
    BY <1>0, <1>4, FirstStep DEF LaunchLane, LanesOK, Queued
  <2>2. /\ lane' = [lane EXCEPT ![f] = "gate"] /\ UNCHANGED <<session, attempt, outcomes>>
        /\ pc' = IF Queued = {f} THEN "wait" ELSE "spawn"
        /\ pc = "launch" /\ lane[f] = "queued" /\ outcomes = <<>>
    BY <1>4, <2>1 DEF LaunchLane, Queued, AdvanceOK
  <2>3. Batch' = Batch /\ Queued' = Queued \ {f} /\ f \in Batch
    BY <1>0, <2>2 DEF Batch, Queued
  <2>4. pc' = "spawn" => Queued' # {}
    BY <2>1, <2>2, <2>3
  <2>5. pc' = "wait" => Queued' = {}
    BY <2>2, <2>3
  <2>6. \A s \in AllSteps : attempt'[s] <= StepAt(s).maxAttempts
    BY <2>2 DEF AdvanceOK
  <2>7. Batch' \subseteq Steps(session')
    BY <2>2, <2>3 DEF AdvanceOK
  <2> QED BY <2>2, <2>3, <2>4, <2>5, <2>6, <2>7 DEF AdvanceOK
<1>5. CASE BatchDone
  <2>1. UNCHANGED <<lane, attempt, outcomes>> /\ pc = "wait" /\ pc' = "collect"
    BY <1>5 DEF BatchDone
  <2> QED BY <1>0, <2>1, AdvanceKept
<1>6. ASSUME NEW s \in AllSteps, CollectSuccess(s) \/ CollectFailure(s) PROVE AdvanceOK'
  <2>1. /\ pc = "collect" /\ pc' = "collect" /\ lane' = [lane EXCEPT ![s] = "off"]
        /\ attempt' = attempt /\ outcomes' = Append(outcomes, lane[s])
        /\ lane[s] \in LaneDone
    BY <1>6 DEF CollectSuccess, CollectFailure, Collecting
  <2>2. outcomes' # <<>>
    BY <1>0, <2>1, AppendProperties, EmptySeq
  <2>3. Batch' \subseteq Batch /\ Queued' \subseteq Queued
    BY <1>0, <2>1 DEF Batch, Queued
  <2>4. Batch' \subseteq Steps(session')
    BY <1>0, <2>3 DEF AdvanceOK
  <2>5. \A t \in AllSteps : attempt'[t] <= StepAt(t).maxAttempts
    BY <2>1 DEF AdvanceOK
  <2> QED BY <2>1, <2>2, <2>3, <2>4, <2>5 DEF AdvanceOK
<1>7. ASSUME NEW s \in AllSteps, CollectConfirm(s) PROVE AdvanceOK'
  <2>1. lane' = NoLanes /\ UNCHANGED attempt /\ pc' = "pausing"
    BY <1>7 DEF CollectConfirm
  <2> QED BY <2>1, AdvanceCleared
<1>8. CASE Panic
  <2>1. lane' = NoLanes /\ UNCHANGED attempt /\ pc' = "closed"
    BY <1>8 DEF Panic
  <2> QED BY <2>1, AdvanceCleared
<1>9. CASE PauseForApproval \/ MediateReplan \/ MediateContinue
  <2>1. UNCHANGED <<lane, attempt, outcomes>> /\ pc' \in {"closed", "progress"}
    BY <1>9 DEF PauseForApproval, MediateReplan, MediateContinue
  <2> QED BY <1>0, <2>1, AdvanceKept
<1>10. CASE BatchCollected
  <2>1. /\ UNCHANGED <<session, lane, attempt, outcomes>> /\ pc = "collect" /\ pc' = "mediate"
        /\ \A s \in AllSteps : lane[s] = "off"
    BY <1>10 DEF BatchCollected
  <2>2. Batch = {} /\ Batch' = {}
    BY <2>1 DEF Batch
  <2>3. outcomes' # <<>>
    BY <2>1, <2>2 DEF AdvanceOK
  <2>4. \A t \in AllSteps : attempt'[t] <= StepAt(t).maxAttempts
    BY <2>1 DEF AdvanceOK
  <2> QED BY <2>1, <2>2, <2>3, <2>4 DEF AdvanceOK
<1>11. CASE Progress
  <2>1. /\ UNCHANGED <<session, lane>> /\ pc = "progress" /\ pc' = "loop"
        /\ attempt' = [s \in AllSteps |-> 1] /\ outcomes' = <<>>
    BY <1>11 DEF Progress
  <2>2. Batch' = {}
    BY <1>0, <2>1 DEF Batch, LanesOK, LaneOK
  <2>3. \A t \in AllSteps : attempt'[t] <= StepAt(t).maxAttempts
    BY <2>1, ConstantTypes DEF PlanStep
  <2> QED BY <2>1, <2>2, <2>3 DEF AdvanceOK
<1> QED BY <1>1, <1>2, <1>3, <1>4, <1>5, <1>6, <1>7, <1>8, <1>9, <1>10, <1>11 DEF Executor

(* What a step goroutine does: its lane moves on, or it counts an attempt. *)
LEMMA LaneEffect ==
  ASSUME TypeOK, NEW s \in AllSteps, LaneGate(s) \/ LaneTool(s)
  PROVE  /\ UNCHANGED <<session, pc, outcomes>> /\ lane[s] \in {"gate", "tool"}
         /\ \E o \in LaneState \ {"off", "queued"} :
              /\ lane' = [lane EXCEPT ![s] = o]
              /\ \/ attempt' = attempt /\ LaneStage(o) < LaneStage(lane[s])
                 \/ /\ attempt[s] < StepAt(s).maxAttempts
                    /\ attempt' = [attempt EXCEPT ![s] = @ + 1] /\ o = "gate"
<1>1. UNCHANGED <<session, pc, outcomes>> /\ lane[s] \in {"gate", "tool"}
  BY DEF LaneGate, LaneTool, LaneOnly
<1>2. /\ \A o \in {"ok", "empty", "confirm", "blocked"} \cup ToolFailure :
           LaneStage(o) = 0 /\ o # "tool" /\ o \in LaneState \ {"off", "queued"}
      /\ LaneStage("gate") = 2 /\ LaneStage("tool") = 1
      /\ {"gate", "tool"} \subseteq LaneState \ {"off", "queued"}
  BY DEF LaneStage, LaneState, ToolFailure
<1>3. LaneStage(lane[s]) \in {1, 2} /\ (lane[s] = "gate" => LaneStage(lane[s]) = 2)
  BY <1>1, <1>2
<1>4. ASSUME NEW o \in {"ok", "empty", "confirm", "blocked", "tool"} \cup ToolFailure,
             lane' = [lane EXCEPT ![s] = o], attempt' = attempt,
             o = "tool" => lane[s] = "gate"
      PROVE  /\ o \in LaneState \ {"off", "queued"}
             /\ LaneStage(o) < LaneStage(lane[s])
  BY <1>2, <1>3, <1>4
<1>5. ASSUME NEW f \in ToolFailure \cup {"blocked"}, AttemptFails(s, f)
      PROVE  \E o \in LaneState \ {"off", "queued"} :
               /\ lane' = [lane EXCEPT ![s] = o]
               /\ \/ attempt' = attempt /\ LaneStage(o) < LaneStage(lane[s])
                  \/ /\ attempt[s] < StepAt(s).maxAttempts
                     /\ attempt' = [attempt EXCEPT ![s] = @ + 1] /\ o = "gate"
  <2>1. CASE attempt[s] < StepAt(s).maxAttempts
    BY <1>2, <1>5, <2>1 DEF AttemptFails
  <2>2. CASE ~(attempt[s] < StepAt(s).maxAttempts)
    <3>1. lane' = [lane EXCEPT ![s] = f] /\ attempt' = attempt
      BY <1>5, <2>2 DEF AttemptFails
    <3>2. f # "tool"
      BY <1>2
    <3>3. f \in LaneState \ {"off", "queued"} /\ LaneStage(f) < LaneStage(lane[s])
      BY <1>4, <3>1, <3>2
    <3> QED BY <3>1, <3>3
  <2> QED BY <2>1, <2>2
<1>6. CASE LaneGate(s)
  <2>1. \/ AttemptFails(s, "blocked")
        \/ \E o \in {"tool", "confirm"} : lane' = [lane EXCEPT ![s] = o] /\ attempt' = attempt
    BY <1>6 DEF LaneGate
  <2>2. lane[s] = "gate"
    BY <1>6 DEF LaneGate
  <2>3. CASE AttemptFails(s, "blocked")
    BY <1>1, <1>5, <2>3
  <2>4. ASSUME NEW o \in {"tool", "confirm"}, lane' = [lane EXCEPT ![s] = o],
               attempt' = attempt
        PROVE  o \in LaneState \ {"off", "queued"} /\ LaneStage(o) < LaneStage(lane[s])
    BY <1>4, <2>2, <2>4
  <2> QED BY <1>1, <2>1, <2>3, <2>4
<1>7. CASE LaneTool(s)
  <2>1. \/ \E o \in {"ok", "empty"} : lane' = [lane EXCEPT ![s] = o] /\ attempt' = attempt
        \/ \E f \in ToolFailure : AttemptFails(s, f)
    BY <1>7 DEF LaneTool
  <2> QED BY <1>1, <1>4, <1>5, <2>1
<1> QED BY <1>1, <1>6, <1>7

(* A step goroutine neither leaves its batch nor runs out of attempts.     *)
LEMMA LanesAdvanceOK == PlanInv /\ AdvanceOK /\ Lanes => AdvanceOK'
<1> SUFFICES ASSUME PlanInv, AdvanceOK, NEW s \in AllSteps, LaneGate(s) \/ LaneTool(s)
             PROVE  AdvanceOK'
  BY DEF Lanes
<1>0. TypeOK /\ lane \in [AllSteps -> LaneState] /\ attempt \in [AllSteps -> Nat]
  BY DEF PlanInv, TypeOK
<1>1. /\ UNCHANGED <<session, pc, outcomes>> /\ lane[s] \in {"gate", "tool"}
      /\ \E o \in LaneState \ {"off", "queued"} :
              /\ lane' = [lane EXCEPT ![s] = o]
              /\ \/ attempt' = attempt /\ LaneStage(o) < LaneStage(lane[s])
                 \/ /\ attempt[s] < StepAt(s).maxAttempts
                    /\ attempt' = [attempt EXCEPT ![s] = @ + 1] /\ o = "gate"
  BY <1>0, LaneEffect
<1>2. Batch' = Batch /\ Queued' = Queued
  BY <1>0, <1>1 DEF Batch, Queued
<1>3. ASSUME NEW t \in AllSteps PROVE attempt'[t] <= StepAt(t).maxAttempts
  <2>1. /\ attempt[t] \in Nat /\ attempt[t] <= StepAt(t).maxAttempts
        /\ StepAt(t).maxAttempts \in Nat
    BY <1>0, ConstantTypes DEF PlanStep, AdvanceOK
  <2>2. attempt'[t] = attempt[t]
        \/ (attempt[t] < StepAt(t).maxAttempts /\ attempt'[t] = attempt[t] + 1)
    BY <1>0, <1>1
  <2> QED BY <2>1, <2>2
<1>4. Steps(session') = Steps(session)
  BY <1>1
<1> QED BY <1>1, <1>2, <1>3, <1>4 DEF AdvanceOK

(* An event leaves the length of the plan alone.                           *)
LEMMA EventKeepsSteps ==
  ASSUME NEW r \in Session, NEW e \in Event
  PROVE  ApplyEvent(r, e).replanCount = r.replanCount
<1> DEFINE p == ApplyEventProgress(r, e)
<1>1. p \in Session /\ p.replanCount = r.replanCount
  BY DEF ApplyEventProgress, Session, Event
<1> HIDE DEF p
<1>2. [p EXCEPT !.status = EventStatus(e, @)].replanCount = p.replanCount
  BY <1>1 DEF Session
<1> QED BY <1>1, <1>2 DEF ApplyEvent, p

(* Without a run there is no batch.                                        *)
LEMMA DiscardAdvanceOK == Discard => AdvanceOK'
<1> SUFFICES ASSUME Discard PROVE AdvanceOK'
  OBVIOUS
<1>1. pc' = "idle" /\ lane' = NoLanes /\ attempt' = [s \in AllSteps |-> 1] /\ outcomes' = <<>>
  BY DEF Discard
<1>2. Batch' = {}
  BY <1>1 DEF Batch, NoLanes
<1>3. \A t \in AllSteps : attempt'[t] <= StepAt(t).maxAttempts
  BY <1>1, ConstantTypes DEF PlanStep
<1> QED BY <1>1, <1>2, <1>3 DEF AdvanceOK

(* The consumer ends a run or leaves its batch alone,                      *)
LEMMA ConsumerAdvanceOK == PlanInv /\ AdvanceOK /\ Consumer => AdvanceOK'
<1> SUFFICES ASSUME PlanInv, AdvanceOK, Consumer PROVE AdvanceOK'
  OBVIOUS
<1> USE DEF execVars, reqVars, callVars, ConsumerOnly
<1>1. CASE ConsumeEvent \/ ConsumeEventPutFails
  <2>1. /\ session' = ApplyEvent(session, Head(out)) /\ out # <<>>
        /\ UNCHANGED <<pc, lane, attempt, outcomes>>
    BY <1>1 DEF ConsumeEvent, ConsumeEventPutFails
  <2>2. Head(out) \in Event /\ session \in Session
    BY <2>1, HeadTailProperties DEF PlanInv, TypeOK
  <2>3. Steps(session') = Steps(session)
    BY <2>1, <2>2, EventKeepsSteps DEF Steps
  <2> QED BY <2>1, <2>3, AdvanceKept
<1>2. CASE ConsumerCancelled \/ RunFinishedPutFails \/ PersistRunFailure
  <2>1. UNCHANGED <<session, pc, lane, attempt, outcomes>>
    BY <1>2 DEF ConsumerCancelled, RunFinishedPutFails, PersistRunFailure,
                PersistFailureRead, PersistFailureWrite
  <2> QED BY <2>1, AdvanceKept
<1>3. CASE RunFinished \/ OrphanReturned
  BY <1>3, DiscardAdvanceOK DEF RunFinished, OrphanReturned
<1> QED BY <1>1, <1>2, <1>3 DEF Consumer

(* and so do the requests.                                                 *)
LEMMA RequestsAdvanceOK == PlanInv /\ AdvanceOK /\ Requests => AdvanceOK'
<1> SUFFICES ASSUME PlanInv, AdvanceOK, Requests PROVE AdvanceOK'
  OBVIOUS
<1> USE DEF execVars, reqVars, callVars
<1>1. ASSUME Idle, LaunchRun PROVE AdvanceOK'
  <2>1. UNCHANGED <<lane, attempt, outcomes>> /\ pc = "idle" /\ pc' = "begin"
    BY <1>1 DEF LaunchRun, Idle
  <2>2. Batch = {}
    BY <2>1 DEF PlanInv, LanesOK, LaneOK, Batch
  <2> QED BY <2>1, <2>2, AdvanceKept
<1>2. RunUntouched => AdvanceOK'
  BY AdvanceKept DEF RunUntouched
<1>3. CASE Crash
  BY <1>3, DiscardAdvanceOK DEF Crash
<1>4. ASSUME NEW c \in Callers, CallerStep(c) PROVE AdvanceOK'
  BY <1>1, <1>2, <1>4, CallerMoves
<1> QED BY <1>3, <1>4 DEF Requests

(* Every step keeps the batches apart.                                     *)
LEMMA AdvanceStep == PlanInv /\ LoadOK /\ AdvanceOK /\ [Next]_vars => AdvanceOK'
<1>1. AdvanceOK /\ UNCHANGED vars => AdvanceOK'
  BY AdvanceKept DEF vars
<1> QED BY <1>1, ExecutorAdvanceOK, LanesAdvanceOK, ConsumerAdvanceOK, RequestsAdvanceOK
        DEF Next

-----------------------------------------------------------------------------
(* IInv, the whole invariant: PlanInv with the bound on the load of a      *)
(* batch, the events that settle a run, and the order of its stages.       *)
THEOREM Invariance == Spec => []IInv
<1>1. Init => LoadOK /\ ExitOK /\ AdvanceOK
  <2> SUFFICES ASSUME Init PROVE LoadOK /\ ExitOK /\ AdvanceOK
    OBVIOUS
  <2>1. /\ session = NewSession /\ store = NewSession /\ held = [w \in Writers |-> NewSession]
        /\ lane = NoLanes /\ pc = "idle" /\ consumer = "idle"
    BY DEF Init
  <2>2. OverrunBounded
    BY <2>1, NewSessionOverrun DEF OverrunBounded, Copies
  <2>3. Batch = {} /\ Due = {} /\ Scripts = {} /\ Paid = {}
    BY <2>1 DEF Batch, Due, Scripts, Paid, NoLanes
  <2>4. Cardinality(Batch) <= MaxParallelLanes
    BY <2>3, FS_EmptySet, LimitAssumption
  <2>5. /\ outcomes = <<>>
        /\ \A s \in AllSteps : attempt[s] <= StepAt(s).maxAttempts
    BY ConstantTypes DEF Init, PlanStep
  <2>6. AdvanceOK
    BY <2>1, <2>3, <2>5 DEF AdvanceOK
  <2> QED BY <2>1, <2>2, <2>3, <2>4, <2>6 DEF LoadOK, GateHeld, ExitOK
<1>2. IInv /\ [Next]_vars => IInv'
  BY StepInv, LoadStep, ExitStep, AdvanceStep DEF IInv
<1>3. Init => IInv
  BY <1>1, InitInv DEF IInv
<1> QED BY <1>2, <1>3, PTL DEF Spec

(* The limits on tool calls, script runs and cost, which each lane checks  *)
(* before its call and the executor charges only after the batch, are      *)
(* overrun in no copy of the session by more than the other lanes of one   *)
(* batch.                                                                  *)
THEOREM OverrunIsBounded == Spec => []OverrunBounded
<1>1. IInv => OverrunBounded
  BY DEF IInv, LoadOK
<1> QED BY <1>1, Invariance, PTL

(* A run whose last Put succeeds leaves a stored session that is complete, *)
(* failed, or paused for the decision on a step that is still open.        *)
THEOREM FinishedRunIsSettled == Spec => RunSettles
<1>1. IInv /\ [Next]_vars =>
        [RunFinished =>
           \/ store'.status \in {"complete", "failed"}
           \/ /\ store'.status = "paused"
              /\ store'.pending # NoStep
              /\ ~IsStepTerminal(store', store'.pending)]_vars
  <2> SUFFICES ASSUME IInv, RunFinished
               PROVE  \/ store'.status \in {"complete", "failed"}
                      \/ /\ store'.status = "paused"
                         /\ store'.pending # NoStep
                         /\ ~IsStepTerminal(store', store'.pending)
    OBVIOUS
  <2>1. RunSettled(session) /\ store' = session
    BY DEF IInv, ExitOK, RunFinished
  <2> QED BY <2>1 DEF RunSettled, AwaitsDecision
<1> QED BY <1>1, Invariance, PTL DEF Spec, RunSettles

-----------------------------------------------------------------------------
(* While its consumer listens a run waits for nothing that will not come:  *)
(* a batch that is announced has steps to launch, and one that is waited   *)
(* for has all its lanes launched, so that each is at work or done.        *)
THEOREM RunNeverStuck == Spec => []RunNotStuck
<1>1. IInv => RunNotStuck
  <2> SUFFICES ASSUME IInv, consumer = "listen", pc \in {"wait", "collect"},
                      ~\E s \in AllSteps : lane[s] \in {"gate", "tool"}
               PROVE  \A s \in AllSteps : lane[s] \in LaneDone \cup {"off"}
    BY DEF IInv, PlanInv, TypeOK, ChargesOK, AdvanceOK, RunNotStuck
  <2>1. lane \in [AllSteps -> LaneState] /\ Queued = {}
    BY DEF IInv, PlanInv, TypeOK, AdvanceOK
  <2> QED BY <2>1 DEF Queued, LaneState, LaneDone
<1> QED BY <1>1, Invariance, PTL

(* The stages of a batch follow each other.                                *)
LEMMA StageTable ==
  /\ pc = "collect" /\ outcomes # <<>> => Stage = 9
  /\ pc = "mediate" => Stage = 8
  /\ pc \in {"begin", "progress"} => Stage = 7
  /\ pc = "loop" => Stage = 6
  /\ pc \in {"spawn", "launch"} => Stage = 5
  /\ pc = "wait" => Stage = 4
  /\ pc = "collect" /\ outcomes = <<>> => Stage = 3
  /\ pc = "pausing" => Stage = 2
  /\ pc = "closed" => Stage = 1
BY DEF Stage

(* And so they do in the next state.                                       *)
LEMMA NextStageTable ==
  /\ pc' = "collect" /\ outcomes' # <<>> => Stage' = 9
  /\ pc' = "mediate" => Stage' = 8
  /\ pc' \in {"begin", "progress"} => Stage' = 7
  /\ pc' = "loop" => Stage' = 6
  /\ pc' \in {"spawn", "launch"} => Stage' = 5
  /\ pc' = "wait" => Stage' = 4
  /\ pc' = "collect" /\ outcomes' = <<>> => Stage' = 3
  /\ pc' = "pausing" => Stage' = 2
  /\ pc' = "closed" => Stage' = 1
BY DEF Stage

(* Steps that neither replan nor collect a result leave the same steps     *)
(* open.                                                                   *)
LEMMA QuietKeepsOpen ==
  ASSUME session'.replanCount = session.replanCount, session'.completed = session.completed,
         session'.failed = session.failed
  PROVE  Open(session') = Open(session)
BY DEF Open, Steps, IsStepTerminal

(* The attempts and stages a lane has left are a number.                   *)
LEMMA LaneLeftTypes ==
  ASSUME TypeOK, AdvanceOK, NEW s \in AllSteps
  PROVE  /\ StepAt(s).maxAttempts \in Nat /\ attempt[s] \in Nat
         /\ LaneLeft(s) \in Nat /\ LaneStage(lane[s]) \in 0..3
<1>1. /\ StepAt(s).maxAttempts \in Nat /\ attempt[s] \in Nat
      /\ attempt[s] <= StepAt(s).maxAttempts
  BY ConstantTypes DEF TypeOK, AdvanceOK, PlanStep
<1>2. LaneStage(lane[s]) \in 0..3
  BY DEF LaneStage
<1> QED BY <1>1, <1>2 DEF LaneLeft

(* The executor brings a run nearer to its end,                            *)
LEMMA ExecutorAdvances == IInv /\ Executor => Advance
<1> SUFFICES ASSUME IInv, Executor PROVE Advance
  OBVIOUS
<1>0. /\ TypeOK /\ AdvanceOK /\ LanesOK /\ session \in Session
      /\ lane \in [AllSteps -> LaneState] /\ session.replanCount \in Nat
  BY StepsOfSession DEF IInv, PlanInv, TypeOK
<1>1. CASE LoopReplan \/ MediateReplan
  <2>1. session'.replanCount = session.replanCount + 1
    BY <1>0, <1>1, ExecutorReplans
  <2> QED BY <1>0, <2>1 DEF Advance
<1>2. ASSUME ~(LoopReplan \/ MediateReplan) PROVE session'.replanCount = session.replanCount
  BY <1>0, <1>2, ExecutorReplans
<1>3. ASSUME NEW s \in AllSteps, CollectSuccess(s) \/ CollectFailure(s) PROVE Advance
  <2>1. lane[s] # "off" /\ s \in Batch
    BY <1>3 DEF CollectSuccess, CollectFailure, Collecting, LaneDone, ToolFailure, Batch
  <2>2. s \in Open(session)
    BY <1>0, <2>1 DEF Open, LanesOK, LaneOK, AdvanceOK
  <2>3. /\ session'.replanCount = session.replanCount
        /\ \A t \in AllSteps : IsStepTerminal(session', t) <=> (IsStepTerminal(session, t) \/ t = s)
    <3>1. session'.replanCount = session.replanCount
      BY <1>0, <1>3 DEF CollectSuccess, CollectFailure, ApplyBudgetUsage, Session
    <3>2. CASE CollectSuccess(s)
      BY <1>0, <3>1, <3>2, CollectEffect DEF IsStepTerminal
    <3>3. CASE CollectFailure(s)
      <4>1. /\ session'.completed = session.completed /\ lane[s] # NoReason
            /\ session'.failed = [session.failed EXCEPT ![s] = lane[s]]
            /\ session.failed \in [AllSteps -> Reason \cup {NoReason}]
        BY <1>0, <3>3, CollectEffect DEF Session
      <4> QED BY <3>1, <4>1 DEF IsStepTerminal
    <3> QED BY <1>3, <3>1, <3>2, <3>3
  <2>4. Open(session') = Open(session) \ {s}
    <3>1. Steps(session') = Steps(session) /\ Steps(session) \subseteq AllSteps
      BY <1>0, <2>3, StepsOfSession DEF Steps
    <3> QED BY <2>3, <3>1 DEF Open
  <2> QED BY <2>2, <2>3, <2>4 DEF Advance
<1>4. ASSUME NEW s \in AllSteps, CollectConfirm(s) PROVE Advance
  <2>1. pc = "collect" /\ pc' = "pausing" /\ UNCHANGED outcomes
    BY <1>4 DEF CollectConfirm, Collecting
  <2>2. session'.replanCount = session.replanCount
    BY <1>0, <1>4 DEF CollectConfirm, Session
  <2>3. Open(session') = Open(session)
    BY <1>0, <1>4, <2>2, CollectEffect, QuietKeepsOpen
  <2>4. Stage' < Stage
    BY <2>1, StageTable, NextStageTable
  <2> QED BY <2>2, <2>3, <2>4 DEF Advance
<1>5. ASSUME ~(LoopReplan \/ MediateReplan),
             ~\E s \in AllSteps : CollectSuccess(s) \/ CollectConfirm(s) \/ CollectFailure(s)
      PROVE  session'.replanCount = session.replanCount /\ Open(session') = Open(session)
  BY <1>0, <1>2, <1>5, ExecutorQuiet, QuietKeepsOpen DEF Quiet, SameProgress
<1>6. CASE LaunchLane
  <2>1. PICK f \in AllSteps : f = First(Queued) /\ f \in Queued
    BY <1>0, <1>6, FirstStep DEF LaunchLane, LanesOK, Queued
  <2>2. /\ lane' = [lane EXCEPT ![f] = "gate"] /\ UNCHANGED <<attempt, session>>
        /\ pc = "launch" /\ pc' \in {"wait", "spawn"} /\ lane[f] = "queued"
    BY <1>6, <2>1 DEF LaunchLane, Queued
  <2>3. ASSUME NEW s \in AllSteps
        PROVE  /\ LaneLeft(s)' <= LaneLeft(s)
               /\ s = f => LaneLeft(s)' < LaneLeft(s)
    <3>1. LaneLeft(s) \in Nat /\ StepAt(s).maxAttempts \in Nat /\ attempt[s] \in Nat
      BY <1>0, LaneLeftTypes
    <3>2. LaneStage("gate") = 2 /\ LaneStage("queued") = 3
      BY DEF LaneStage
    <3>3. lane'[s] = IF s = f THEN "gate" ELSE lane[s]
      BY <1>0, <2>2
    <3>4. LaneLeft(s)' = 4 * (StepAt(s).maxAttempts - attempt[s]) + LaneStage(lane'[s])
      BY <2>2 DEF LaneLeft, LaneStage
    <3>5. CASE s = f
      <4>1. LaneLeft(s) = 4 * (StepAt(s).maxAttempts - attempt[s]) + 3
        BY <2>2, <3>2, <3>5 DEF LaneLeft
      <4>2. LaneLeft(s)' = 4 * (StepAt(s).maxAttempts - attempt[s]) + 2
        BY <3>2, <3>3, <3>4, <3>5
      <4> QED BY <3>1, <4>1, <4>2
    <3>6. CASE s # f
      <4>1. LaneLeft(s)' = LaneLeft(s)
        BY <3>3, <3>4, <3>6 DEF LaneLeft
      <4> QED BY <3>1, <3>6, <4>1
    <3> QED BY <3>5, <3>6
  <2>4. LanesAdvance
    BY <2>1, <2>3 DEF LanesAdvance
  <2>5. Stage' < Stage \/ Stage' = Stage
    BY <2>2, StageTable, NextStageTable
  <2>6. session' = session
    BY <2>2
  <2> QED BY <2>4, <2>5, <2>6 DEF Advance
<1>7. CASE StartStep
  <2>1. UNCHANGED <<session, lane, attempt, outcomes>> /\ pc = "spawn" /\ pc' = "launch"
    BY <1>7 DEF StartStep
  <2> QED BY <2>1 DEF Advance
<1>8. Begin \/ LoopCancelled \/ LoopAllTerminal \/ LoopExhausted \/ LoopTerminalFailure
      \/ LoopSelect => pc \in {"begin", "loop"} /\ pc' \in {"loop", "spawn", "closed"}
                       /\ (pc' = "loop" => pc = "begin")
  BY DEF Begin, LoopCancelled, LoopAllTerminal, LoopExhausted, LoopTerminalFailure,
         LoopSelect, Stuck, AtLoop
<1>9. BatchDone => pc = "wait" /\ pc' = "collect" /\ outcomes' = <<>>
  BY <1>0 DEF BatchDone, AdvanceOK
<1>10. BatchCollected => pc = "collect" /\ pc' = "mediate" /\ outcomes # <<>>
  <2> SUFFICES ASSUME BatchCollected PROVE pc = "collect" /\ pc' = "mediate" /\ outcomes # <<>>
    OBVIOUS
  <2>1. Batch = {} /\ pc = "collect" /\ pc' = "mediate"
    BY DEF BatchCollected, Batch
  <2> QED BY <1>0, <2>1 DEF AdvanceOK
<1>11. PauseForApproval \/ MediateContinue \/ Progress \/ Panic =>
         \/ pc = "pausing" /\ pc' = "closed"
         \/ pc = "mediate" /\ pc' = "progress"
         \/ pc = "progress" /\ pc' = "loop"
         \/ pc \in {"collect", "mediate"} /\ pc' = "closed"
  BY DEF PauseForApproval, MediateContinue, Progress, Panic
<1>12. Begin \/ LoopCancelled \/ LoopAllTerminal \/ LoopExhausted \/ LoopTerminalFailure
       \/ LoopSelect \/ BatchDone \/ BatchCollected \/ PauseForApproval \/ MediateContinue
       \/ Progress \/ Panic => Stage' < Stage
  BY <1>8, <1>9, <1>10, <1>11, StageTable, NextStageTable
<1>13. ASSUME Stage' < Stage, ~(LoopReplan \/ MediateReplan),
              ~\E s \in AllSteps : CollectSuccess(s) \/ CollectConfirm(s) \/ CollectFailure(s)
       PROVE  Advance
  BY <1>5, <1>13 DEF Advance
<1> QED BY <1>1, <1>3, <1>4, <1>6, <1>7, <1>12, <1>13 DEF Executor

(* so does every step goroutine,                                           *)
LEMMA LanesAdvances == IInv /\ Lanes => Advance
<1> SUFFICES ASSUME IInv, NEW s \in AllSteps, LaneGate(s) \/ LaneTool(s) PROVE Advance
  BY DEF Lanes
<1>0. /\ TypeOK /\ AdvanceOK /\ lane \in [AllSteps -> LaneState]
      /\ attempt \in [AllSteps -> Nat]
  BY DEF IInv, PlanInv, TypeOK
<1>1. UNCHANGED <<session, pc, outcomes>> /\ lane[s] \in {"gate", "tool"}
  BY <1>0, LaneEffect
<1>2. PICK o \in LaneState \ {"off", "queued"} :
        /\ lane' = [lane EXCEPT ![s] = o]
        /\ \/ attempt' = attempt /\ LaneStage(o) < LaneStage(lane[s])
           \/ /\ attempt[s] < StepAt(s).maxAttempts
              /\ attempt' = [attempt EXCEPT ![s] = @ + 1] /\ o = "gate"
  BY <1>0, LaneEffect
<1>3. LaneStage(lane[s]) \in 1..2 /\ LaneStage(o) \in 0..3 /\ (o = "gate" => LaneStage(o) = 2)
  BY <1>1 DEF LaneStage
<1>4. ASSUME NEW t \in AllSteps, t # s PROVE LaneLeft(t)' = LaneLeft(t)
  <2>1. lane'[t] = lane[t] /\ attempt'[t] = attempt[t]
    BY <1>0, <1>2, <1>4
  <2> QED BY <2>1 DEF LaneLeft, LaneStage
<1>5. LaneLeft(s)' < LaneLeft(s)
  <2>1. StepAt(s).maxAttempts \in Nat /\ attempt[s] \in Nat
    BY <1>0, LaneLeftTypes
  <2>2. lane'[s] = o
    BY <1>0, <1>2
  <2>3. LaneLeft(s)' = 4 * (StepAt(s).maxAttempts - attempt'[s]) + LaneStage(o)
    BY <2>2 DEF LaneLeft, LaneStage
  <2>4. LaneLeft(s) = 4 * (StepAt(s).maxAttempts - attempt[s]) + LaneStage(lane[s])
    BY DEF LaneLeft
  <2>5. \/ attempt'[s] = attempt[s] /\ LaneStage(o) < LaneStage(lane[s])
        \/ attempt'[s] = attempt[s] + 1 /\ LaneStage(o) = 2
    BY <1>0, <1>2, <1>3
  <2> QED BY <1>3, <2>1, <2>3, <2>4, <2>5
<1>6. LanesAdvance
  <2>1. \A t \in AllSteps : LaneLeft(t) \in Nat
    BY <1>0, LaneLeftTypes
  <2>2. ASSUME NEW t \in AllSteps PROVE LaneLeft(t)' <= LaneLeft(t)
    <3>1. LaneLeft(t) \in Int
      BY <2>1
    <3>2. CASE t # s
      BY <1>4, <3>1, <3>2
    <3>3. CASE t = s
      <4>1. LaneLeft(s)' \in Int
        <5>1. lane'[s] = o /\ attempt'[s] \in Nat
          BY <1>0, <1>2
        <5>2. StepAt(s).maxAttempts \in Nat
          BY <1>0, LaneLeftTypes
        <5>3. LaneLeft(s)' = 4 * (StepAt(s).maxAttempts - attempt'[s]) + LaneStage(o)
          BY <5>1 DEF LaneLeft, LaneStage
        <5> QED BY <1>3, <5>1, <5>2, <5>3
      <4> QED BY <1>5, <3>1, <3>3, <4>1
    <3> QED BY <3>2, <3>3
  <2> QED BY <1>5, <2>2 DEF LanesAdvance
<1>7. Stage' = Stage
  BY <1>1 DEF Stage
<1>8. session' = session
  BY <1>1
<1> QED BY <1>6, <1>7, <1>8 DEF Advance

(* and so does the consumer with every event it takes.                     *)
LEMMA ConsumeAdvances == IInv /\ ConsumeEvent => Advance
<1> SUFFICES ASSUME IInv, ConsumeEvent PROVE Advance
  OBVIOUS
<1>1. /\ session \in Session /\ out \in Seq(Event) /\ RecordOK(session) /\ QueueOK
      /\ out # <<>> /\ out' = Tail(out) /\ session' = ApplyEvent(session, Head(out))
      /\ UNCHANGED <<pc, lane, attempt, outcomes>>
  BY DEF IInv, PlanInv, TypeOK, RecordsOK, ConsumeEvent, ConsumerOnly, execVars
<1>2. PICK e \in Event : e = Head(out) /\ EventOK(e)
  <2>1. Head(out) \in Event /\ Head(out) = out[1] /\ 1 \in 1..Len(out)
    BY <1>1, HeadTailProperties, EmptySeq
  <2> QED BY <1>1, <2>1 DEF QueueOK
<1>3. /\ session'.failed = session.failed /\ session'.replanCount = session.replanCount
      /\ \/ session'.completed = session.completed
         \/ /\ e.step \in FailedSteps(session)
            /\ session'.completed = session.completed \ {e.step}
  BY <1>1, <1>2, AppliedEvent
<1>4. Open(session') = Open(session)
  BY <1>3 DEF Open, Steps, IsStepTerminal, FailedSteps
<1>5. Len(out') < Len(out)
  BY <1>1, HeadTailProperties, LenProperties, EmptySeq
<1> QED BY <1>1, <1>3, <1>4, <1>5 DEF Advance

(* Every step of a run, whichever goroutine takes it, uses up something    *)
(* that only a new run could give back: a replan, an open step, a stage of *)
(* the batch, an attempt, or an event in the channel.  With RunNeverStuck  *)
(* it is the part of the loop's termination that needs no fairness.        *)
THEOREM RunMakesProgress == Spec => RunAdvances
<1>1. IInv /\ [Next]_vars => [Executor \/ Lanes \/ ConsumeEvent => Advance]_vars
  BY ExecutorAdvances, LanesAdvances, ConsumeAdvances
<1> QED BY <1>1, Invariance, PTL DEF Spec, RunAdvances

=============================================================================
