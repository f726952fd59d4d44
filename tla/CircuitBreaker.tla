--------------------------- MODULE CircuitBreaker ---------------------------
(***************************************************************************)
(* resilience.CircuitBreaker (circuit_breaker.go), shared by the concurrent*)
(* calls of a search provider or the Python sidecar.  The mutex is held    *)
(* while a call is admitted and while its result is recorded, and released *)
(* while the protected function runs: between the two the breaker may have *)
(* opened, half-opened and closed again.                                   *)
(*                                                                         *)
(* Time is reduced to one bit: whether more than resetTimeout has passed   *)
(* since lastFailureTime.                                                  *)
(***************************************************************************)
EXTENDS Naturals, FiniteSets

CONSTANTS
  Callers,           \* goroutines that call through the breaker
  MaxFailures,       \* maxFailures
  SuccessThreshold,  \* successThreshold
  MaxRequests        \* bound on totalRequestCount

ASSUME CallersAssumption == IsFiniteSet(Callers)
ASSUME ThresholdAssumption ==
  MaxFailures \in Nat \ {0} /\ SuccessThreshold \in Nat \ {0} /\ MaxRequests \in Nat

VARIABLES
  state, failureCount, successCount,
  totalRequestCount, totalErrorCount,
  timeoutElapsed,  \* time.Since(lastFailureTime) > resetTimeout
  call             \* where each caller is

counters == <<failureCount, successCount, totalRequestCount, totalErrorCount>>
vars     == <<state, counters, timeoutElapsed, call>>

BreakerState == {"closed", "open", "half_open"}

InFlight == {c \in Callers : call[c] = "in_fn"}

TypeOK ==
  /\ state \in BreakerState
  /\ failureCount \in Nat /\ successCount \in Nat
  /\ totalRequestCount \in 0..MaxRequests /\ totalErrorCount \in Nat
  /\ timeoutElapsed \in BOOLEAN
  /\ call \in [Callers -> {"outside", "in_fn"}]

Init ==
  /\ state = "closed" /\ failureCount = 0 /\ successCount = 0
  /\ totalRequestCount = 0 /\ totalErrorCount = 0
  /\ timeoutElapsed = TRUE   \* lastFailureTime is the zero time
  /\ call = [c \in Callers |-> "outside"]

-----------------------------------------------------------------------------
(* maybeTransitionHalfOpenLocked, the first thing under the lock in Admit  *)
(* and in Call.                                                            *)
DueForProbe == state = "open" /\ timeoutElapsed

(* Faulty variant: an open breaker waits for a Reset.                      *)
NeverHalfOpen == state

AdmittedState == IF DueForProbe THEN "half_open" ELSE state

(* Faulty variant: the failures that opened the breaker stay counted.      *)
TransitionKeepsFailures ==
  /\ state' = AdmittedState
  /\ successCount' = IF DueForProbe THEN 0 ELSE successCount
  /\ UNCHANGED failureCount

MaybeTransitionHalfOpen ==
  /\ state' = AdmittedState
  /\ successCount' = IF DueForProbe THEN 0 ELSE successCount
  /\ failureCount' = IF DueForProbe THEN 0 ELSE failureCount

(* Admit (and Allow): the caller only learns whether it may proceed.       *)
Admit ==
  /\ MaybeTransitionHalfOpen
  /\ UNCHANGED <<totalRequestCount, totalErrorCount, timeoutElapsed, call>>

(* Faulty variant: the request is not counted.                             *)
CallEnterUncounted(c) ==
  /\ call[c] = "outside"
  /\ MaybeTransitionHalfOpen
  /\ AdmittedState # "open"
  /\ call' = [call EXCEPT ![c] = "in_fn"]
  /\ UNCHANGED <<totalRequestCount, totalErrorCount, timeoutElapsed>>

(* Call, up to fn: an open breaker rejects the caller.                     *)
CallEnter(c) ==
  /\ call[c] = "outside"
  /\ MaybeTransitionHalfOpen
  /\ \/ /\ AdmittedState = "open"
        /\ UNCHANGED <<totalRequestCount, call>>
     \/ /\ AdmittedState # "open" /\ totalRequestCount < MaxRequests
        /\ totalRequestCount' = totalRequestCount + 1
        /\ call' = [call EXCEPT ![c] = "in_fn"]
  /\ UNCHANGED <<totalErrorCount, timeoutElapsed>>

Returned(c) ==
  /\ call[c] = "in_fn" /\ call' = [call EXCEPT ![c] = "outside"]
  /\ UNCHANGED totalRequestCount

(* Faulty variant: enough successes close the breaker in any state.        *)
RecordSuccessCloses(c) ==
  /\ Returned(c)
  /\ failureCount' = 0 /\ successCount' = successCount + 1
  /\ state' = IF successCount + 1 >= SuccessThreshold THEN "closed" ELSE state
  /\ UNCHANGED <<totalErrorCount, timeoutElapsed>>

(* recordSuccess: only a half-open breaker closes.                         *)
RecordSuccess(c) ==
  /\ Returned(c)
  /\ failureCount' = 0 /\ successCount' = successCount + 1
  /\ state' = IF state = "half_open" /\ successCount + 1 >= SuccessThreshold
              THEN "closed" ELSE state
  /\ UNCHANGED <<totalErrorCount, timeoutElapsed>>

(* recordFailure of an error that ShouldTripCircuitBreaker counts.         *)
RecordFailure(c) ==
  /\ Returned(c)
  /\ totalErrorCount' = totalErrorCount + 1
  /\ failureCount' = failureCount + 1 /\ successCount' = 0
  /\ timeoutElapsed' = FALSE
  /\ state' = IF state = "half_open" \/ failureCount + 1 >= MaxFailures
              THEN "open" ELSE state

(* Any other error: cancellation, rate limit, capacity.                    *)
IgnoreFailure(c) ==
  /\ Returned(c)
  /\ totalErrorCount' = totalErrorCount + 1
  /\ UNCHANGED <<state, failureCount, successCount, timeoutElapsed>>

Reset ==
  /\ state' = "closed" /\ failureCount' = 0 /\ successCount' = 0
  /\ UNCHANGED <<totalRequestCount, totalErrorCount, timeoutElapsed, call>>

(* The clock.                                                              *)
TimeoutElapses ==
  /\ ~timeoutElapsed /\ timeoutElapsed' = TRUE
  /\ UNCHANGED <<state, counters, call>>

Next ==
  \/ Admit \/ Reset \/ TimeoutElapses
  \/ \E c \in Callers : CallEnter(c) \/ RecordSuccess(c) \/ RecordFailure(c)
                        \/ IgnoreFailure(c)

Spec == Init /\ [][Next]_vars

-----------------------------------------------------------------------------
(* A breaker that lets calls through has fewer failures on its counter     *)
(* than trip it, and a half-open one has none and is short of successes -  *)
(* whatever the calls that were admitted in an earlier state report.       *)
CountersFitState ==
  /\ state = "closed" => failureCount < MaxFailures
  /\ state = "half_open" => failureCount = 0 /\ successCount < SuccessThreshold

(* Metrics never report an error rate above 1: a call is counted before it *)
(* can fail.                                                               *)
ErrorsAreCounted ==
  totalErrorCount + Cardinality(InFlight) <= totalRequestCount

(* An open breaker admits nobody before its timeout, and closes only over  *)
(* half-open or by a manual Reset: late successes do not close it.         *)
OpenHolds ==
  [][state = "open" =>
       /\ state' = "closed" => Reset
       /\ state' = "half_open" => timeoutElapsed
       /\ state' = "open" => InFlight' \subseteq InFlight]_vars

(* Fairness: the clock runs, admitted calls return, and somebody keeps     *)
(* asking for admission.                                                   *)
Fairness ==
  /\ WF_vars(TimeoutElapses) /\ WF_vars(Admit)
  /\ \A c \in Callers : WF_vars(RecordSuccess(c) \/ RecordFailure(c) \/ IgnoreFailure(c))

FairSpec == Spec /\ Fairness

(* An open breaker is eventually tried again, although calls that were in  *)
(* flight when it opened push the start of the timeout ahead when they     *)
(* fail.                                                                   *)
OpenIsProbed == state = "open" ~> state # "open"
=============================================================================
