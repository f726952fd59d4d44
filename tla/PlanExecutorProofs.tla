------------------------- MODULE PlanExecutorProofs -------------------------
(***************************************************************************)
(* Facts about the operators of PlanExecutor, and the type invariant for   *)
(* every plan, budget and number of lanes.                                 *)
(***************************************************************************)
EXTENDS PlanExecutor, SequenceTheorems, FiniteSetTheorems, WellFoundedInduction, TLAPS

(* A nonempty set of naturals has a first element, and First picks it.     *)
LEMMA FirstIsLeast ==
  ASSUME NEW S \in SUBSET Nat, S # {}
  PROVE  First(S) \in S /\ \A t \in S : First(S) <= t
<1> DEFINE R == OpToRel(<, Nat)
<1>1. PICK x \in S : \A y \in S : ~(<<y, x>> \in R)
  BY NatLessThanWellFounded, WFMin
<1>2. \A y \in S : x <= y
  <2> TAKE y \in S
  <2>1. <<y, x>> \in R <=> y < x
    BY DEF OpToRel
  <2> HIDE DEF R
  <2> QED BY <1>1, <2>1
<1> QED BY <1>1, <1>2 DEF First

(* What the assumptions say of the constants and of the steps.             *)
LEMMA ConstantTypes ==
  /\ Len(Plan) \in Nat /\ MaxReplans \in Nat /\ EventBuffer \in Nat
  /\ MaxRequests \in Nat /\ MaxFaults \in Nat
  /\ AllSteps \subseteq Nat /\ NoStep \notin AllSteps
  /\ \A s \in AllSteps : StepAt(s) \in PlanStep
<1>1. Len(Plan) \in Nat /\ \A s \in 1..Len(Plan) : Plan[s] \in PlanStep
  BY PlanAssumption, LenProperties
<1>2. ReplanStep \in PlanStep
  BY DEF ReplanStep, PlanStep
<1> QED BY <1>1, <1>2, LimitAssumption DEF AllSteps, LastStep, NoStep, StepAt

(* A new session is a session.                                             *)
LEMMA NewSessionType == NewSession \in Session
BY ConstantTypes DEF NewSession, Session, SessionStatus, Reason, NoReason, NoStep

(* The empty batch is a batch.                                             *)
LEMMA NoLanesType == NoLanes \in [AllSteps -> LaneState]
BY DEF NoLanes, LaneState

(* The initial state is well typed.                                        *)
LEMMA InitType == Init => TypeOK
<1>1. <<>> \in Seq(LaneDone) /\ <<>> \in Seq(Event)
  BY EmptySeq
<1>2. 0 \in 0..MaxRequests /\ 0 \in 0..MaxFaults
  BY ConstantTypes
<1>3. [s \in AllSteps |-> 1] \in [AllSteps -> Nat]
  OBVIOUS
<1>4. held = [w \in Writers |-> NewSession] => held \in [Writers -> Session]
  BY NewSessionType
<1> QED BY <1>1, <1>2, <1>3, <1>4, NewSessionType, NoLanesType DEF Init, TypeOK, Op

(* A session stays one when its status is set.                             *)
LEMMA StatusType ==
  ASSUME NEW r \in Session, NEW next \in SessionStatus
  PROVE  /\ [r EXCEPT !.status = next] \in Session
         /\ [r EXCEPT !.status = TransitionSessionStatus(@, next)] \in Session
BY DEF Session, TransitionSessionStatus

(* Sending an event keeps the channel's type.                              *)
LEMMA EmitType ==
  ASSUME NEW type \in EventType, NEW s \in AllSteps \cup {NoStep},
         NEW reason \in Reason \cup {NoReason}, out \in Seq(Event)
  PROVE  EmitReason(type, s, reason) => out' \in Seq(Event)
BY AppendProperties DEF EmitReason, Event


(* The fields of a session and the sets of steps derived from it.          *)
LEMMA StepsOfSession ==
  ASSUME NEW r \in Session
  PROVE  /\ r.status \in SessionStatus /\ r.completed \subseteq AllSteps
         /\ Steps(r) \subseteq AllSteps
         /\ FailedSteps(r) \subseteq AllSteps
         /\ CollectReadySteps(r) \subseteq AllSteps
         /\ \A s \in FailedSteps(r) : r.failed[s] \in Reason
         /\ r.pending \in AllSteps \cup {NoStep}
         /\ r.replanCount \in 0..MaxReplans
         /\ r.tools \in Nat /\ r.scripts \in Nat /\ r.cost \in Nat
<1>1. r.replanCount \in 0..MaxReplans
  BY DEF Session
<1>2. Steps(r) \subseteq AllSteps
  BY <1>1, ConstantTypes DEF Steps, AllSteps, LastStep
<1>3. \A s \in FailedSteps(r) : r.failed[s] \in Reason
  BY DEF Session, FailedSteps
<1> QED BY <1>1, <1>2, <1>3 DEF Session, FailedSteps, CollectReadySteps

(* The first of a set of steps is a step.                                  *)
LEMMA FirstStep ==
  ASSUME NEW S \in SUBSET AllSteps, S # {}
  PROVE  First(S) \in S /\ First(S) \in AllSteps
BY FirstIsLeast, ConstantTypes

(* Sets of steps are finite, and a smaller one has no more elements.       *)
LEMMA StepsFinite ==
  ASSUME NEW S \in SUBSET AllSteps
  PROVE  /\ IsFiniteSet(S) /\ Cardinality(S) \in Nat
         /\ \A T \in SUBSET S : Cardinality(T) <= Cardinality(S)
<1>1. IsFiniteSet(AllSteps)
  <2>1. 1 \in Int /\ LastStep \in Int
    BY ConstantTypes DEF LastStep
  <2> QED BY <2>1, FS_Interval DEF AllSteps
<1>2. IsFiniteSet(S)
  BY <1>1, FS_Subset
<1> QED BY <1>2, FS_Subset, FS_CardinalityType

(* A nonempty set of steps has a last element.                             *)
LEMMA LastExists ==
  ASSUME NEW S \in SUBSET AllSteps, S # {}
  PROVE  \E m \in S : \A s \in S : s <= m
<1> DEFINE U == {n \in Nat : \A s \in S : s <= n}
<1>1. LastStep \in U
  BY ConstantTypes DEF AllSteps, LastStep
<1> DEFINE m == First(U)
<1>2. m \in U /\ \A n \in U : m <= n
  BY <1>1, FirstIsLeast
<1> HIDE DEF m
<1>3. m \in S
  <2> SUFFICES ASSUME m \notin S PROVE FALSE
    OBVIOUS
  <2>1. \A s \in S : s \in Nat /\ s >= 1 /\ s <= m - 1
    BY <1>2, ConstantTypes DEF AllSteps
  <2>2. m - 1 \in U
    BY <1>2, <2>1
  <2> QED BY <1>2, <2>2
<1> QED BY <1>2, <1>3

(* A batch is made of ready steps and fits into the lanes.                 *)
LEMMA BatchFits ==
  ASSUME NEW ready \in SUBSET AllSteps, ready # {}
  PROVE  /\ SelectRunnableSteps(ready) \subseteq ready
         /\ Cardinality(SelectRunnableSteps(ready)) <= MaxParallelLanes
<1> DEFINE parallel == {s \in ready : StepAt(s).parallelizable}
           chosen   == {s \in parallel : Cardinality({t \in parallel : t < s}) < MaxParallelLanes}
<1>0. MaxParallelLanes \in Nat /\ MaxParallelLanes >= 1
  BY LimitAssumption
<1>1. CASE parallel = {}
  <2>1. SelectRunnableSteps(ready) = {First(ready)}
    BY <1>1 DEF SelectRunnableSteps
  <2> QED BY <1>0, <2>1, FirstStep, FS_Singleton
<1>2. CASE parallel # {} /\ chosen = {}
  <2>1. SelectRunnableSteps(ready) = {}
    BY <1>2 DEF SelectRunnableSteps
  <2> QED BY <1>0, <2>1, FS_EmptySet
<1>3. CASE parallel # {} /\ chosen # {}
  <2>1. PICK m \in chosen : \A s \in chosen : s <= m
    BY <1>3, LastExists
  <2> DEFINE below == {t \in parallel : t < m}
  <2>2. Cardinality(below) \in Nat /\ IsFiniteSet(below) /\ Cardinality(below) < MaxParallelLanes
    BY <2>1, StepsFinite
  <2>n. chosen \subseteq Nat /\ chosen \subseteq parallel
    BY ConstantTypes
  <2>3. chosen \subseteq below \cup {m}
    <3> SUFFICES ASSUME NEW s \in chosen, s # m PROVE s \in below
      OBVIOUS
    <3>1. s < m
      <4> HIDE DEF chosen
      <4> QED BY <2>1, <2>n
    <3> QED BY <2>n, <3>1
  <2>4. /\ IsFiniteSet(below \cup {m})
        /\ Cardinality(below \cup {m}) = Cardinality(below) + 1
    <3>1. m \notin below
      <4>1. m \in Nat
        BY <2>n
      <4> QED BY <4>1
    <3> HIDE DEF below
    <3> QED BY <2>2, <3>1, FS_AddElement
  <2>5. Cardinality(chosen) <= Cardinality(below) + 1
    <3> HIDE DEF below, chosen
    <3> QED BY <2>3, <2>4, FS_Subset
  <2>6. Cardinality(chosen) \in Nat
    BY StepsFinite
  <2>7. SelectRunnableSteps(ready) = chosen
    BY <1>3 DEF SelectRunnableSteps
  <2> HIDE DEF below, chosen
  <2>8. Cardinality(chosen) <= MaxParallelLanes
    BY <1>0, <2>2, <2>5, <2>6
  <2> QED BY <2>7, <2>8 DEF chosen
<1> QED BY <1>1, <1>2, <1>3

(* A batch is not empty.                                                   *)
LEMMA BatchNonempty ==
  ASSUME NEW ready \in SUBSET AllSteps, ready # {}
  PROVE  SelectRunnableSteps(ready) # {}
<1> DEFINE parallel == {s \in ready : StepAt(s).parallelizable}
           f        == First(parallel)
<1>1. CASE parallel = {}
  BY <1>1 DEF SelectRunnableSteps
<1>2. CASE parallel # {}
  <2>1. f \in parallel /\ \A t \in parallel : f <= t
    BY <1>2, FirstIsLeast, ConstantTypes
  <2>2. parallel \subseteq Nat
    BY ConstantTypes
  <2> HIDE DEF f
  <2>3. {t \in parallel : t < f} = {}
    <3> HIDE DEF parallel
    <3>1. \A t \in parallel : t \in Nat /\ f \in Nat /\ f <= t
      BY <2>1, <2>2
    <3>2. \A t \in parallel : ~(t < f)
      BY <3>1
    <3> QED BY <3>2
  <2>4. Cardinality({t \in parallel : t < f}) < MaxParallelLanes
    <3>1. Cardinality({}) = 0 /\ MaxParallelLanes \in Nat /\ MaxParallelLanes # 0
      BY FS_EmptySet, LimitAssumption
    <3> HIDE DEF parallel
    <3> QED BY <2>3, <3>1
  <2>5. SelectRunnableSteps(ready)
          = {s \in parallel : Cardinality({t \in parallel : t < s}) < MaxParallelLanes}
    BY <1>2 DEF SelectRunnableSteps
  <2> HIDE DEF parallel
  <2> QED BY <2>1, <2>4, <2>5
<1> QED BY <1>1, <1>2

(* A replan below the limit keeps the session's type.                      *)
LEMMA ReplanType ==
  ASSUME session \in Session, out \in Seq(Event), session.replanCount < MaxReplans,
         ApplyReplan
  PROVE  session' \in Session /\ out' \in Seq(Event)
<1>1. session.replanCount + 1 \in 0..MaxReplans
  BY StepsOfSession, ConstantTypes
<1>2. session' \in Session
  BY <1>1 DEF ApplyReplan, Session
<1>3. Len(Plan) + session.replanCount + 1 \in AllSteps
  BY <1>1, StepsOfSession, ConstantTypes DEF AllSteps, LastStep
<1>4. out' \in Seq(Event)
  BY <1>3, EmitType DEF ApplyReplan, Emit, EventType
<1> QED BY <1>2, <1>4

(* The executor goroutine keeps the types.                                 *)
LEMMA ExecutorType == TypeOK /\ Executor => TypeOK'
<1> SUFFICES ASSUME TypeOK, Executor PROVE TypeOK'
  OBVIOUS
<1> USE DEF execVars, reqVars, callVars, ExecutorOnly
<1>a. /\ \A next \in SessionStatus : SetStatus(next) => session' \in Session
      /\ {"searching", "paused", "complete", "failed"} \subseteq SessionStatus
  BY StatusType DEF TypeOK, SetStatus, SessionStatus
<1>b. \A type \in EventType, s \in AllSteps \cup {NoStep} :
        Emit(type, s) => out' \in Seq(Event)
  BY EmitType DEF TypeOK, Emit
<1>c. {"step_started", "step_completed", "step_failed", "plan_revised",
       "confirmation_need", "progress", "completed"} = EventType
  BY DEF EventType
<1>d. \A s \in AllSteps, o \in LaneState :
        [lane EXCEPT ![s] = o] \in [AllSteps -> LaneState]
  BY DEF TypeOK
<1>1. CASE Begin
  BY <1>1, <1>a, <1>b, <1>c DEF Begin, TypeOK
<1>2. CASE LoopCancelled
  BY <1>2, <1>b, <1>c DEF LoopCancelled, TypeOK
<1>3. CASE LoopAllTerminal
  BY <1>3, <1>a, <1>b, <1>c DEF LoopAllTerminal, TypeOK
<1>4. CASE LoopExhausted
  BY <1>4, <1>a, <1>b, <1>c DEF LoopExhausted, TypeOK
<1>5. CASE LoopTerminalFailure
  <2> DEFINE s == First(FailedSteps(session))
  <2>1. s \in AllSteps /\ session.failed[s] \in Reason
    BY <1>5, FirstStep, StepsOfSession DEF LoopTerminalFailure, TerminallyFailed, TypeOK
  <2>2. out' \in Seq(Event)
    BY <1>5, <1>c, <2>1, EmitType DEF LoopTerminalFailure, TypeOK
  <2> QED BY <1>5, <1>a, <2>2 DEF LoopTerminalFailure, TypeOK
<1>6. CASE LoopReplan
  BY <1>6, ReplanType DEF LoopReplan, TypeOK
<1>7. CASE LoopSelect
  <2>1. lane' \in [AllSteps -> LaneState]
    BY <1>7 DEF LoopSelect, LaneState
  <2> QED BY <1>7, <2>1 DEF LoopSelect, TypeOK
<1>8. CASE StartStep
  <2>1. First(Queued) \in AllSteps
    BY <1>8, FirstStep DEF StartStep, Queued
  <2> QED BY <1>8, <2>1, <1>b, <1>c DEF StartStep, TypeOK
<1>9. CASE LaunchLane
  <2>1. lane' \in [AllSteps -> LaneState]
    BY <1>9 DEF LaunchLane, LaneState, TypeOK
  <2> QED BY <1>9, <2>1 DEF LaunchLane, TypeOK
<1>10. CASE BatchDone
  BY <1>10 DEF BatchDone, TypeOK
<1>11. CASE PauseForApproval
  BY <1>11, <1>a DEF PauseForApproval, TypeOK
<1>12. CASE BatchCollected
  BY <1>12 DEF BatchCollected, TypeOK
<1>13. CASE MediateReplan
  BY <1>13, ReplanType DEF MediateReplan, TypeOK
<1>14. CASE MediateContinue
  BY <1>14 DEF MediateContinue, TypeOK
<1>15. CASE Progress
  <2>1. <<>> \in Seq(LaneDone)
    BY EmptySeq
  <2> QED BY <1>15, <1>b, <1>c, <2>1 DEF Progress, TypeOK
<1>16. CASE Panic
  BY <1>16, <1>a, <1>b, <1>c, NoLanesType DEF Panic, TypeOK
<1>17. ASSUME NEW s \in AllSteps, CollectSuccess(s) PROVE TypeOK'
  <2>0. StepAt(s).cost \in Nat
    BY ConstantTypes DEF PlanStep
  <2> DEFINE r == ApplyBudgetUsage(session, s)
  <2>a. r \in Session
    <3>1. session \in Session
      BY DEF TypeOK
    <3>2. \A t, n, c \in Nat :
            [session EXCEPT !.tools = t, !.scripts = n, !.cost = c] \in Session
      BY <3>1 DEF Session
    <3>3. /\ session.tools + 1 \in Nat
          /\ (IF StepAt(s).sandbox THEN session.scripts + 1 ELSE session.scripts) \in Nat
          /\ session.cost + StepAt(s).cost \in Nat
      BY <2>0, <3>1, StepsOfSession
    <3> QED BY <3>2, <3>3 DEF ApplyBudgetUsage
  <2>b. session' = [r EXCEPT !.completed = @ \cup {s}]
    BY <1>17 DEF CollectSuccess
  <2> HIDE DEF r
  <2>1. session' \in Session
    BY <2>a, <2>b DEF Session
  <2>2. outcomes' \in Seq(LaneDone)
    BY <1>17, AppendProperties DEF CollectSuccess, Collecting, TypeOK
  <2> QED BY <1>17, <1>b, <1>c, <1>d, <2>1, <2>2 DEF CollectSuccess, LaneState, TypeOK
<1>18. ASSUME NEW s \in AllSteps, CollectConfirm(s) PROVE TypeOK'
  <2>1. session' \in Session
    BY <1>18 DEF CollectConfirm, Session, TypeOK
  <2> QED BY <1>18, <1>b, <1>c, <2>1, NoLanesType DEF CollectConfirm, TypeOK
<1>19. ASSUME NEW s \in AllSteps, CollectFailure(s) PROVE TypeOK'
  <2>0. lane[s] \in Reason /\ lane[s] \in LaneDone
    BY <1>19 DEF CollectFailure, Collecting, Reason
  <2>1. session' \in Session
    BY <1>19, <2>0 DEF CollectFailure, Session, TypeOK
  <2>2. outcomes' \in Seq(LaneDone)
    BY <1>19, <2>0, AppendProperties DEF CollectFailure, TypeOK
  <2>3. out' \in Seq(Event)
    BY <1>19, <1>c, <2>0, EmitType DEF CollectFailure, TypeOK
  <2> QED BY <1>19, <1>d, <2>1, <2>2, <2>3 DEF CollectFailure, LaneState, TypeOK
<1> QED BY <1>1, <1>2, <1>3, <1>4, <1>5, <1>6, <1>7, <1>8, <1>9, <1>10, <1>11,
           <1>12, <1>13, <1>14, <1>15, <1>16, <1>17, <1>18, <1>19 DEF Executor

(* So do the step goroutines,                                              *)
LEMMA LanesType == TypeOK /\ Lanes => TypeOK'
<1> SUFFICES ASSUME TypeOK, NEW s \in AllSteps, LaneGate(s) \/ LaneTool(s)
             PROVE  TypeOK'
  BY DEF Lanes
<1> USE DEF reqVars, callVars, LaneOnly, ExecutorOnly
<1>1. \A o \in LaneState : [lane EXCEPT ![s] = o] \in [AllSteps -> LaneState]
  BY DEF TypeOK
<1>2. \A f \in LaneState :
        AttemptFails(s, f) => /\ lane' \in [AllSteps -> LaneState]
                              /\ attempt' \in [AllSteps -> Nat]
  <2>1. [attempt EXCEPT ![s] = @ + 1] \in [AllSteps -> Nat]
    BY DEF TypeOK
  <2>2. "gate" \in LaneState
    BY DEF LaneState
  <2> QED BY <1>1, <2>1, <2>2 DEF AttemptFails, TypeOK
<1>3. CASE LaneGate(s)
  <2>1. lane' \in [AllSteps -> LaneState] /\ attempt' \in [AllSteps -> Nat]
    BY <1>1, <1>2, <1>3 DEF LaneGate, TypeOK, LaneState
  <2> QED BY <1>3, <2>1 DEF LaneGate, TypeOK
<1>4. CASE LaneTool(s)
  <2>1. lane' \in [AllSteps -> LaneState] /\ attempt' \in [AllSteps -> Nat]
    BY <1>1, <1>2, <1>4 DEF LaneTool, TypeOK, LaneState
  <2> QED BY <1>4, <2>1 DEF LaneTool, TypeOK
<1> QED BY <1>3, <1>4

(* Applying an event keeps the session's type.                             *)
LEMMA ApplyEventType ==
  ASSUME NEW r \in Session, NEW e \in Event
  PROVE  ApplyEvent(r, e) \in Session
<1> DEFINE p == ApplyEventProgress(r, e)
<1>1. p \in Session
  BY DEF ApplyEventProgress, Session, Event
<1>2. EventStatus(e, p.status) \in SessionStatus
  BY <1>1, StepsOfSession DEF EventStatus, SessionStatus
<1> HIDE DEF p
<1>3. [p EXCEPT !.status = EventStatus(e, @)] \in Session
  BY <1>1, <1>2 DEF Session
<1> QED BY <1>3 DEF ApplyEvent, p

(* The end of a run leaves the variables well typed.                       *)
LEMMA DiscardType ==
  Discard => /\ session' \in Session /\ pc' = "idle" /\ consumer' = "idle"
             /\ lane' \in [AllSteps -> LaneState] /\ attempt' \in [AllSteps -> Nat]
             /\ outcomes' \in Seq(LaneDone) /\ out' \in Seq(Event)
             /\ cancelled' = FALSE
BY EmptySeq, NewSessionType, NoLanesType DEF Discard

(* the consumer                                                            *)
LEMMA ConsumerType == TypeOK /\ Consumer => TypeOK'
<1> SUFFICES ASSUME TypeOK, Consumer PROVE TypeOK'
  OBVIOUS
<1> USE DEF execVars, reqVars, callVars, ConsumerOnly
<1>a. out # <<>> => /\ Tail(out) \in Seq(Event)
                    /\ ApplyEvent(session, Head(out)) \in Session
  BY HeadTailProperties, ApplyEventType DEF TypeOK
<1>b. faults < MaxFaults => faults + 1 \in 0..MaxFaults
  BY ConstantTypes DEF TypeOK
<1>1. CASE ConsumeEvent
  BY <1>1, <1>a DEF ConsumeEvent, TypeOK, Writers
<1>2. CASE ConsumeEventPutFails
  BY <1>2, <1>a, <1>b DEF ConsumeEventPutFails, AfterFailedPut, TypeOK
<1>3. CASE ConsumerCancelled
  BY <1>3 DEF ConsumerCancelled, TypeOK
<1>4. CASE RunFinished
  BY <1>4, DiscardType DEF RunFinished, TypeOK
<1>5. CASE RunFinishedPutFails
  BY <1>5, <1>b DEF RunFinishedPutFails, AfterFailedPut, TypeOK
<1>6. CASE PersistFailureRead
  BY <1>6, <1>b DEF PersistFailureRead, TypeOK, Writers
<1>8. CASE PersistFailureWrite
  <2>1. held["run"] \in Session
    BY DEF TypeOK, Writers
  <2>2. [held["run"] EXCEPT !.status = "failed"] \in Session
    BY <2>1, StatusType DEF SessionStatus
  <2> QED BY <1>8, <1>b, <2>2, NewSessionType DEF PersistFailureWrite, TypeOK
<1>7. CASE OrphanReturned
  BY <1>7, DiscardType DEF OrphanReturned, TypeOK
<1> QED BY <1>1, <1>2, <1>3, <1>4, <1>5, <1>6, <1>7, <1>8 DEF Consumer, PersistRunFailure

(* A resume keeps the session's type.                                      *)
LEMMA ResumedType ==
  ASSUME NEW r \in Session, NEW action
  PROVE  Resumed(r, action) \in Session
<1> DEFINE c == [r EXCEPT !.pending = NoStep, !.status = "searching"]
           d == {r.pending} \ {NoStep}
           f == [s \in AllSteps |-> IF s \in d THEN "rejected" ELSE r.failed[s]]
<1>1. c \in Session
  BY DEF Session, SessionStatus
<1>2. d \subseteq AllSteps /\ f \in [AllSteps -> Reason \cup {NoReason}]
  BY DEF Session, Reason
<1> HIDE DEF c, d, f
<1>3. /\ [c EXCEPT !.approved = @ \cup d] \in Session
      /\ [c EXCEPT !.completed = @ \cup d] \in Session
      /\ [c EXCEPT !.failed = f] \in Session
  BY <1>1, <1>2 DEF Session
<1> QED BY <1>1, <1>3 DEF Resumed, c, d, f

(* A request moves on, reads the record, or is answered.                   *)
LEMMA RequestType ==
  ASSUME TypeOK, NEW c \in Callers
  PROVE  /\ \A o \in Op, ph \in {"none", "stop", "write", "start"} : Request(c, o, ph) =>
              /\ op' \in [Callers -> Op]
              /\ phase' \in [Callers -> {"none", "stop", "write", "start"}]
         /\ Read(c) => held' \in [Writers -> Session] /\ upToDate' \subseteq Writers
         /\ Answered(c) =>
              /\ op' \in [Callers -> Op]
              /\ phase' \in [Callers -> {"none", "stop", "write", "start"}]
              /\ held' \in [Writers -> Session]
<1>1. \A o \in Op, ph \in {"none", "stop", "write", "start"} : Request(c, o, ph) =>
        /\ op' \in [Callers -> Op]
        /\ phase' \in [Callers -> {"none", "stop", "write", "start"}]
  BY DEF Request, TypeOK
<1>2. Read(c) => held' \in [Writers -> Session] /\ upToDate' \subseteq Writers
  BY DEF Read, TypeOK, Writers
<1>3. [held EXCEPT ![c] = NewSession] \in [Writers -> Session]
  BY NewSessionType DEF TypeOK, Writers
<1> QED BY <1>1, <1>2, <1>3 DEF Answered, Op

(* The steps of the callers                                                *)
LEMMA CallerType == \A c \in Callers : TypeOK /\ CallerStep(c) => TypeOK'
<1> SUFFICES ASSUME TypeOK, NEW c \in Callers, CallerStep(c) PROVE TypeOK'
  OBVIOUS
<1> USE RequestType DEF execVars, RunUntouched
<1>a. NewRequest(c) => requests' \in 0..MaxRequests
  BY ConstantTypes DEF NewRequest, TypeOK
<1>b. faults < MaxFaults => faults + 1 \in 0..MaxFaults
  BY ConstantTypes DEF TypeOK
<1>c. /\ held[c] \in Session /\ op[c] \in Op /\ {c} \subseteq Writers /\ "run" \in Writers
      /\ upToDate \ {c} \subseteq Writers /\ (upToDate \ {c}) \cup {"run"} \subseteq Writers
      /\ {"prepare", "expire", "paused", "abandoned"} \subseteq Op /\ ResumeAction \subseteq Op
  BY DEF TypeOK, Writers, Op
<1>1. CASE PrepareRead(c)
  BY <1>1, <1>c DEF PrepareRead, TypeOK
<1>2. CASE PrepareWrite(c)
  <2>1. store' \in Session
    BY <1>2, <1>c, StatusType DEF PrepareWrite, SessionStatus
  <2> QED BY <1>2, <1>c, <2>1 DEF PrepareWrite, TypeOK
<1>3. CASE Start(c)
  <2>1. LaunchRun => /\ session' \in Session /\ out' \in Seq(Event)
                     /\ pc' = "begin" /\ consumer' = "listen" /\ cancelled' = FALSE
                     /\ UNCHANGED <<lane, attempt, outcomes>>
    BY EmptySeq DEF LaunchRun, TypeOK
  <2>2. CASE LaunchRun /\ upToDate' = (upToDate \ {c}) \cup {"run"}
    BY <1>3, <1>c, <2>1, <2>2 DEF Start, TypeOK
  <2>3. CASE RunUntouched /\ upToDate' = upToDate \ {c} /\ UNCHANGED cancelled
    BY <1>3, <1>c, <2>3 DEF Start, TypeOK
  <2> QED BY <1>3, <2>2, <2>3 DEF Start
<1>4. ASSUME NEW action \in ResumeAction, ResumeRead(c, action) PROVE TypeOK'
  BY <1>4, <1>a, <1>c DEF ResumeRead, TypeOK
<1>5. CASE ResumeWrite(c)
  <2>1. store' \in Session
    BY <1>5, <1>c, ResumedType DEF ResumeWrite
  <2> QED BY <1>5, <1>c, <2>1 DEF ResumeWrite, TypeOK
<1>6. CASE ResumeRollback(c)
  BY <1>6, <1>b, <1>c DEF ResumeRollback, TypeOK
<1>7. CASE ExpireRead(c)
  BY <1>7, <1>a, <1>c DEF ExpireRead, TypeOK
<1>8. CASE ExpireWrite(c)
  <2>1. store' \in Session
    BY <1>8, <1>c DEF ExpireWrite, Session
  <2> QED BY <1>8, <2>1 DEF ExpireWrite, TypeOK
<1>9. ASSUME NEW status \in {"paused", "abandoned"}, StopRead(c, status) PROVE TypeOK'
  BY <1>9, <1>a, <1>c DEF StopRead, TypeOK
<1>10. CASE StopActive(c)
  <2>1. cancelled' \in BOOLEAN
    BY <1>10 DEF StopActive, Registered, TypeOK
  <2> QED BY <1>10, <1>c, <2>1 DEF StopActive, TypeOK
<1>11. CASE StopWrite(c)
  <2>1. store' \in Session
    BY <1>11, <1>c, StatusType DEF StopWrite, SessionStatus
  <2> QED BY <1>11, <2>1 DEF StopWrite, TypeOK
<1>12. CASE RequestPutFails(c)
  BY <1>12, <1>b, <1>c DEF RequestPutFails, TypeOK
<1> QED BY <1>1, <1>2, <1>3, <1>4, <1>5, <1>6, <1>7, <1>8, <1>9, <1>10, <1>11, <1>12
        DEF CallerStep, CallerPut

(* and a crash.                                                            *)
LEMMA RequestsType == TypeOK /\ Requests => TypeOK'
<1>1. TypeOK /\ Crash => TypeOK'
  <2> SUFFICES ASSUME TypeOK, Crash PROVE TypeOK'
    OBVIOUS
  <2>1. faults' \in 0..MaxFaults
    BY ConstantTypes DEF Crash, TypeOK
  <2>2. /\ held' \in [Writers -> Session] /\ upToDate' \subseteq Writers
        /\ op' \in [Callers -> Op] /\ phase' \in [Callers -> {"none", "stop", "write", "start"}]
        /\ UNCHANGED <<store, requests>>
    BY NewSessionType DEF Crash, Op
  <2> QED BY <2>1, <2>2, DiscardType DEF Crash, TypeOK
<1> QED BY <1>1, CallerType DEF Requests

(* Every step is well typed.                                               *)
LEMMA TypeStep == TypeOK /\ [Next]_vars => TypeOK'
<1>1. TypeOK /\ UNCHANGED vars => TypeOK'
  BY DEF TypeOK, vars
<1> QED BY <1>1, ExecutorType, LanesType, ConsumerType, RequestsType DEF Next

(* Every state of a plan run is well typed: counters stay within their     *)
(* bounds, and events, lanes and records name steps that exist.            *)
THEOREM TypeCorrect == Spec => []TypeOK
BY InitType, TypeStep, PTL DEF Spec

=============================================================================
