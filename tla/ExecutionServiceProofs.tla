----------------------- MODULE ExecutionServiceProofs -----------------------
(***************************************************************************)
(* The safety properties of ExecutionService and of its event stream for   *)
(* any set of Start calls and any number of stops and failing Puts.  The   *)
(* invariant IInv is shown one conjunct at a time, one step for each       *)
(* action, and lifted to the service with a streaming client.              *)
(***************************************************************************)
EXTENDS ExecutionStream, TLAPS

(* What an event does to the status of a session is a status.              *)
LEMMA EventStatusType ==
  ASSUME NEW e \in RunnerEvent, NEW s \in SessionStatus
  PROVE  EventStatus(e, s) \in SessionStatus
BY DEF EventStatus, SessionStatus, RunnerEvent

(* The actions of ExecutionService keep its variables in their types.      *)
LEMMA TypeStep == TypeOK /\ [Next]_vars => TypeOK'
<1> SUFFICES ASSUME TypeOK, [Next]_vars PROVE TypeOK'
  OBVIOUS
<1> USE BoundAssumption DEF TypeOK, Goto, Forget, Fault, RunOnly, Journalled, PutFails,
        runVars, stopVars
<1>0. \A s, t \in SessionStatus : TransitionSessionStatus(s, t) \in SessionStatus
  BY DEF TransitionSessionStatus
<1>p. {"questioning", "generating_tree", "searching", "paused", "complete",
       "failed", "abandoned"} \subseteq SessionStatus
  BY DEF SessionStatus
<1>q. {"read", "prepared", "refused", "launched", "running", "failing",
       "leaving", "gone"} \subseteq Phase
  BY DEF Phase
<1>1. ASSUME NEW r \in Runs, StartRead(r) PROVE TypeOK'
  BY <1>1, <1>q DEF StartRead
<1>2. ASSUME NEW r \in Runs, StartPrepare(r) PROVE TypeOK'
  BY <1>2, <1>p, <1>q DEF StartPrepare
<1>3. ASSUME NEW r \in Runs, StartRegister(r) PROVE TypeOK'
  BY <1>3, <1>q DEF StartRegister
<1>4. ASSUME NEW r \in Runs, RunBegin(r) PROVE TypeOK'
  BY <1>4, <1>q DEF RunBegin
<1>5. ASSUME NEW r \in Runs, RunnerMoves(r) PROVE TypeOK'
  BY <1>5, <1>0, <1>p DEF RunnerMoves
<1>6. ASSUME NEW r \in Runs, RunEvent(r) PROVE TypeOK'
  BY <1>6, EventStatusType DEF RunEvent
<1>7. ASSUME NEW r \in Runs, RunEventPutFails(r) PROVE TypeOK'
  BY <1>7, <1>p, <1>q DEF RunEventPutFails
<1>8. ASSUME NEW r \in Runs, RunCancelled(r) PROVE TypeOK'
  BY <1>8, <1>p, <1>q DEF RunCancelled
<1>9. ASSUME NEW r \in Runs, RunClosed(r) PROVE TypeOK'
  BY <1>9, <1>p, <1>q DEF RunClosed
<1>10. ASSUME NEW r \in Runs, PersistRunFailure(r) PROVE TypeOK'
  BY <1>10, <1>p, <1>q DEF PersistRunFailure
<1>11. ASSUME NEW r \in Runs, RunLeave(r) PROVE TypeOK'
  BY <1>11, <1>q DEF RunLeave
<1>12. CASE StopRead
  BY <1>12 DEF StopRead
<1>13. CASE StopActive
  BY <1>13 DEF StopActive
<1>14. CASE StopPut
  <2>1. status' \in SessionStatus /\ faults' \in 0..MaxFaults
    BY <1>14, <1>p DEF StopPut
  <2>2. journal' \subseteq TerminalType
    BY <1>14 DEF StopPut, TerminalType
  <2> QED BY <1>14, <2>1, <2>2 DEF StopPut
<1>15. CASE UNCHANGED vars
  BY <1>15 DEF vars
<1> QED
  BY <1>1, <1>2, <1>3, <1>4, <1>5, <1>6, <1>7, <1>8, <1>9, <1>10, <1>11, <1>12,
     <1>13, <1>14, <1>15 DEF Next, Run

(* The map of cancel functions and the cancelled contexts.                 *)
Registry == CancelsIsLive /\ StopsOK /\ RegisteredUnlessStopped

(* Each action keeps the map's entry live and, until the first stop, the   *)
(* only one.                                                               *)
LEMMA RegistryStep == TypeOK /\ Registry /\ [Next]_vars => Registry'
<1> SUFFICES ASSUME TypeOK, Registry, [Next]_vars PROVE Registry'
  OBVIOUS
<1> USE RunsAssumption, BoundAssumption
    DEF TypeOK, Registry, CancelsIsLive, StopsOK, RegisteredUnlessStopped, Live, Goto,
        RunOnly, runVars, stopVars
<1>1. ASSUME NEW r \in Runs, StartRead(r) PROVE Registry'
  BY <1>1 DEF StartRead
<1>2. ASSUME NEW r \in Runs, StartPrepare(r) PROVE Registry'
  BY <1>2 DEF StartPrepare
<1>3. ASSUME NEW r \in Runs, StartRegister(r) PROVE Registry'
  BY <1>3 DEF StartRegister
<1>4. ASSUME NEW r \in Runs, RunBegin(r) PROVE Registry'
  BY <1>4 DEF RunBegin
<1>5. ASSUME NEW r \in Runs, RunnerMoves(r) PROVE Registry'
  BY <1>5 DEF RunnerMoves
<1>6. ASSUME NEW r \in Runs, RunEvent(r) PROVE Registry'
  BY <1>6 DEF RunEvent
<1>7. ASSUME NEW r \in Runs, RunEventPutFails(r) PROVE Registry'
  BY <1>7 DEF RunEventPutFails, PutFails
<1>8. ASSUME NEW r \in Runs, RunCancelled(r) PROVE Registry'
  BY <1>8 DEF RunCancelled
<1>9. ASSUME NEW r \in Runs, RunClosed(r) PROVE Registry'
  BY <1>9 DEF RunClosed, PutFails
<1>10. ASSUME NEW r \in Runs, PersistRunFailure(r) PROVE Registry'
  BY <1>10 DEF PersistRunFailure
<1>11. ASSUME NEW r \in Runs, RunLeave(r) PROVE Registry'
  BY <1>11 DEF RunLeave
<1>12. CASE StopRead
  BY <1>12 DEF StopRead
<1>13. CASE StopActive
  BY <1>13 DEF StopActive
<1>14. CASE StopPut
  BY <1>14 DEF StopPut
<1>15. CASE UNCHANGED vars
  BY <1>15 DEF vars
<1> QED
  BY <1>1, <1>2, <1>3, <1>4, <1>5, <1>6, <1>7, <1>8, <1>9, <1>10, <1>11, <1>12,
     <1>13, <1>14, <1>15 DEF Next, Run

(* Each action keeps the outcome of an undisturbed run: what its Put left  *)
(* in the store stays settled until the next run is at work.               *)
LEMMA OutcomeStep == TypeOK /\ Registry /\ OutcomeOK /\ [Next]_vars => OutcomeOK'
<1> SUFFICES ASSUME TypeOK, Registry, OutcomeOK, [Next]_vars, stops' = 0
             PROVE  OutcomeOK'
  BY DEF OutcomeOK
<1>0. stops = 0 /\ done = {} /\ stopPhase = "none"
  <2>1. stops' = stops \/ stops' = stops + 1
    BY DEF Next, vars, stopVars, StopRead, StopActive, StopPut, Run, RunOnly, StartRead,
           StartPrepare, StartRegister, RunBegin, RunnerMoves, RunEvent, RunEventPutFails,
           RunCancelled, RunClosed, PersistRunFailure, RunLeave
  <2> QED BY <2>1, BoundAssumption DEF TypeOK, Registry, StopsOK
<1> USE BoundAssumption
    DEF TypeOK, OutcomeOK, SettledOrOverwritten, AtWork, Goto, Fault, RunOnly, Settled
<1>1. ASSUME NEW r \in Runs, StartRead(r) PROVE OutcomeOK'
  BY <1>0, <1>1 DEF StartRead
<1>2. ASSUME NEW r \in Runs, StartPrepare(r) PROVE OutcomeOK'
  BY <1>0, <1>2 DEF StartPrepare
<1>3. ASSUME NEW r \in Runs, StartRegister(r) PROVE OutcomeOK'
  BY <1>0, <1>3 DEF StartRegister
<1>4. ASSUME NEW r \in Runs, RunBegin(r) PROVE OutcomeOK'
  BY <1>0, <1>4 DEF RunBegin
<1>5. ASSUME NEW r \in Runs, RunnerMoves(r) PROVE OutcomeOK'
  BY <1>0, <1>5 DEF RunnerMoves
<1>6. ASSUME NEW r \in Runs, RunEvent(r) PROVE OutcomeOK'
  BY <1>0, <1>6 DEF RunEvent
<1>7. ASSUME NEW r \in Runs, RunEventPutFails(r) PROVE OutcomeOK'
  <2>1. phase' = [phase EXCEPT ![r] = "failing"] /\ faults' = faults + 1
    BY <1>0, <1>7 DEF RunEventPutFails, PutFails
  <2> QED BY <2>1
<1>8. ASSUME NEW r \in Runs, RunCancelled(r) PROVE OutcomeOK'
  BY <1>0, <1>8 DEF RunCancelled
<1>9. ASSUME NEW r \in Runs, RunClosed(r) PROVE OutcomeOK'
  <2>1. CASE status' = mem[r] /\ phase' = [phase EXCEPT ![r] = "leaving"]
                                /\ UNCHANGED faults
    BY <1>0, <1>9, <2>1 DEF RunClosed
  <2>2. CASE phase' = [phase EXCEPT ![r] = "failing"] /\ faults' = faults + 1
    BY <2>2
  <2> QED BY <1>0, <1>9, <2>1, <2>2 DEF RunClosed, PutFails
<1>10. ASSUME NEW r \in Runs, PersistRunFailure(r) PROVE OutcomeOK'
  BY <1>0, <1>10 DEF PersistRunFailure
<1>11. ASSUME NEW r \in Runs, RunLeave(r) PROVE OutcomeOK'
  BY <1>0, <1>11 DEF RunLeave
<1>12. CASE StopRead
  BY <1>0, <1>12 DEF StopRead
<1>13. CASE StopActive
  BY <1>0, <1>13 DEF StopActive
<1>14. CASE StopPut
  BY <1>0, <1>14 DEF StopPut
<1>15. CASE UNCHANGED vars
  BY <1>0, <1>15 DEF vars, runVars, stopVars
<1> QED
  BY <1>1, <1>2, <1>3, <1>4, <1>5, <1>6, <1>7, <1>8, <1>9, <1>10, <1>11, <1>12,
     <1>13, <1>14, <1>15 DEF Next, Run

(* IInv holds initially, and every step keeps it.                          *)
THEOREM ServiceInvariance == Spec => []IInv
<1>1. Init => IInv
  BY RunsAssumption, BoundAssumption
  DEF Init, IInv, TypeOK, SessionStatus, Phase, TerminalType, CancelsIsLive, StopsOK,
      RegisteredUnlessStopped, Live, OutcomeOK
<1>2. IInv /\ [Next]_vars => IInv'
  BY TypeStep, RegistryStep, OutcomeStep DEF IInv, Registry
<1> QED BY <1>1, <1>2, PTL DEF Spec

(* The entry of the map is the cancel function of a live run that nobody   *)
(* has cancelled.                                                          *)
THEOREM EntryIsLive == Spec => []CancelsIsLive
<1>1. IInv => CancelsIsLive
  BY DEF IInv
<1> QED BY <1>1, ServiceInvariance, PTL

(* Until the first Cancel or Abandon, Start is single-flight.              *)
THEOREM SingleFlightUnlessStopped == Spec => []RegisteredUnlessStopped
<1>1. IInv => RegisteredUnlessStopped
  BY DEF IInv
<1> QED BY <1>1, ServiceInvariance, PTL

(* A session that nobody stopped is settled when its runs are over, or was *)
(* put back by a Start that was refused.                                   *)
THEOREM QuietIsSettled == Spec => []SettlesWhenQuiet
<1>1. IInv => SettlesWhenQuiet
  <2> SUFFICES ASSUME IInv, Quiet, stops = 0, faults <= 1, \E r \in Runs : phase[r] = "gone"
               PROVE  \/ status \in Settled
                      \/ /\ status = "generating_tree"
                         /\ \E r \in Runs : phase[r] = "refused" /\ mem[r] = "generating_tree"
    BY DEF SettlesWhenQuiet
  <2>1. SettledOrOverwritten
    BY DEF IInv, OutcomeOK, Quiet, AtWork
  <2> QED BY <2>1 DEF SettledOrOverwritten, Quiet
<1> QED BY <1>1, ServiceInvariance, PTL

-----------------------------------------------------------------------------
(* The service with a streaming client.                                    *)

(* A step of service and client is a step of the service or leaves it      *)
(* alone.                                                                  *)
LEMMA StreamStepIsServiceStep == [StreamNext]_allVars => [Next]_vars
BY DEF StreamNext, Stream, StreamRead, StreamGet, StreamCheck, StreamOnly, allVars

(* A service that is streamed from is a service: with what the client      *)
(* reads hidden, each of its behaviours is one of ExecutionService.        *)
THEOREM StreamImplementsService == StreamSpec => Spec
BY StreamStepIsServiceStep, PTL DEF StreamSpec, StreamInit, Spec

(* Every state of service and client is well typed: the client is sent     *)
(* terminal event types only, those it makes up from the stored status     *)
(* included.                                                               *)
THEOREM StreamTypes == StreamSpec => []StreamTypeOK
<1>1. StreamInit => StreamTypeOK
  BY RunsAssumption, BoundAssumption
  DEF StreamInit, StreamTypeOK, Init, TypeOK, SessionStatus, Phase, TerminalType
<1>2. StreamTypeOK /\ [StreamNext]_allVars => StreamTypeOK'
  <2> SUFFICES ASSUME StreamTypeOK, [StreamNext]_allVars PROVE StreamTypeOK'
    OBVIOUS
  <2>1. TypeOK'
    BY TypeStep, StreamStepIsServiceStep DEF StreamTypeOK
  <2>2. CASE UNCHANGED streamVars
    BY <2>1, <2>2 DEF StreamTypeOK, streamVars
  <2>3. CASE StreamRead
    BY <2>1, <2>3 DEF StreamTypeOK, StreamRead, TypeOK
  <2>4. CASE StreamGet
    BY <2>1, <2>4 DEF StreamTypeOK, StreamGet
  <2>5. CASE StreamCheck
    <3>1. SyntheticTerminalEvent(got) \in TerminalType
      BY DEF SyntheticTerminalEvent, TerminalType
    <3> QED BY <2>1, <2>5, <3>1 DEF StreamTypeOK, StreamCheck
  <2> QED BY <2>2, <2>3, <2>4, <2>5 DEF StreamNext, Stream, allVars
<1> QED BY <1>1, <1>2, PTL DEF StreamSpec

(* Until somebody cancels or abandons the session, Stream returns to its   *)
(* client only when no run of the session is alive: the entry of the map   *)
(* that it looks for is there as long as one lives.                        *)
THEOREM StreamWaitsForRun == StreamSpec => StreamOutlivesRun
<1>1. IInv /\ [StreamNext]_allVars =>
        [StreamCheck /\ stream' = "returned" /\ stops = 0 => \A r \in Runs : ~Live(r)]_allVars
  <2> SUFFICES ASSUME IInv, StreamCheck, stream' = "returned", stops = 0, NEW r \in Runs, Live(r)
               PROVE  FALSE
    BY DEF allVars
  <2>1. cancels = NoRun
    BY DEF StreamCheck
  <2>2. cancels = r
    BY DEF IInv, RegisteredUnlessStopped
  <2> QED BY <2>1, <2>2, RunsAssumption
<1> QED BY <1>1, ServiceInvariance, StreamImplementsService, PTL DEF StreamSpec, StreamOutlivesRun
=============================================================================
