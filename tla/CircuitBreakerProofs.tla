------------------------ MODULE CircuitBreakerProofs ------------------------
(***************************************************************************)
(* The safety properties of CircuitBreaker for every set of callers and    *)
(* every threshold.                                                        *)
(***************************************************************************)
EXTENDS CircuitBreaker, FiniteSetTheorems, TLAPS

(* Every step of the breaker keeps the types of its fields.                *)
LEMMA TypeStep == TypeOK /\ [Next]_vars => TypeOK'
<1> SUFFICES ASSUME TypeOK, [Next]_vars PROVE TypeOK'
  OBVIOUS
<1> USE ThresholdAssumption DEF TypeOK, BreakerState, counters
<1>1. CASE Admit
  BY <1>1 DEF Admit, MaybeTransitionHalfOpen, AdmittedState
<1>2. CASE Reset
  BY <1>2 DEF Reset
<1>3. CASE TimeoutElapses
  BY <1>3 DEF TimeoutElapses
<1>4. ASSUME NEW c \in Callers, CallEnter(c) PROVE TypeOK'
  BY <1>4 DEF CallEnter, MaybeTransitionHalfOpen, AdmittedState
<1>5. ASSUME NEW c \in Callers, RecordSuccess(c) PROVE TypeOK'
  BY <1>5 DEF RecordSuccess, Returned
<1>6. ASSUME NEW c \in Callers, RecordFailure(c) PROVE TypeOK'
  <2>1. call' \in [Callers -> {"outside", "in_fn"}]
    BY <1>6 DEF Returned, RecordFailure
  <2>2. state' \in BreakerState
    BY <1>6 DEF RecordFailure
  <2>3. /\ failureCount' \in Nat /\ successCount' \in Nat /\ totalErrorCount' \in Nat
        /\ totalRequestCount' = totalRequestCount /\ timeoutElapsed' = FALSE
    BY <1>6 DEF RecordFailure, Returned
  <2> QED BY <2>1, <2>2, <2>3
<1>7. ASSUME NEW c \in Callers, IgnoreFailure(c) PROVE TypeOK'
  BY <1>7 DEF IgnoreFailure, Returned
<1>8. CASE UNCHANGED vars
  BY <1>8 DEF vars
<1> QED BY <1>1, <1>2, <1>3, <1>4, <1>5, <1>6, <1>7, <1>8 DEF Next

(* The breaker's fields keep their types.                                  *)
THEOREM BreakerTypes == Spec => []TypeOK
<1>1. Init => TypeOK
  BY ThresholdAssumption DEF Init, TypeOK, BreakerState
<1> QED BY <1>1, TypeStep, PTL DEF Spec

(* A closed breaker is below its failure threshold and a half-open one has *)
(* no failure and too few successes, for every interleaving of calls.      *)
THEOREM CountersFit == Spec => []CountersFitState
<1>1. Init => CountersFitState
  BY ThresholdAssumption DEF Init, CountersFitState
<1>2. TypeOK /\ CountersFitState /\ [Next]_vars => CountersFitState'
  <2> SUFFICES ASSUME TypeOK, CountersFitState, [Next]_vars PROVE CountersFitState'
    OBVIOUS
  <2> USE ThresholdAssumption DEF TypeOK, BreakerState, CountersFitState, counters
  <2>1. MaybeTransitionHalfOpen => CountersFitState'
    BY DEF MaybeTransitionHalfOpen, AdmittedState, DueForProbe
  <2>2. CASE Admit
    BY <2>1, <2>2 DEF Admit
  <2>3. CASE Reset
    BY <2>3 DEF Reset
  <2>4. CASE TimeoutElapses
    BY <2>4 DEF TimeoutElapses
  <2>5. ASSUME NEW c \in Callers, CallEnter(c) PROVE CountersFitState'
    BY <2>1, <2>5 DEF CallEnter
  <2>6. ASSUME NEW c \in Callers, RecordSuccess(c) PROVE CountersFitState'
    BY <2>6 DEF RecordSuccess
  <2>7. ASSUME NEW c \in Callers, RecordFailure(c) PROVE CountersFitState'
    BY <2>7 DEF RecordFailure
  <2>8. ASSUME NEW c \in Callers, IgnoreFailure(c) PROVE CountersFitState'
    BY <2>8 DEF IgnoreFailure
  <2>9. CASE UNCHANGED vars
    BY <2>9 DEF vars
  <2> QED BY <2>2, <2>3, <2>4, <2>5, <2>6, <2>7, <2>8, <2>9 DEF Next
<1> QED BY <1>1, <1>2, BreakerTypes, PTL DEF Spec

(* The callers in fn are finitely many; one enters or leaves at a time.    *)
LEMMA InFlightFinite == IsFiniteSet(InFlight) /\ Cardinality(InFlight) \in Nat
<1>1. IsFiniteSet(InFlight)
  BY CallersAssumption, FS_Subset DEF InFlight
<1> QED BY <1>1, FS_CardinalityType

(* A call that enters is one more in flight.                               *)
LEMMA OneEnters ==
  ASSUME TypeOK, NEW c \in Callers, call[c] = "outside", call' = [call EXCEPT ![c] = "in_fn"]
  PROVE  Cardinality(InFlight') = Cardinality(InFlight) + 1
<1>1. InFlight' = InFlight \cup {c} /\ c \notin InFlight
  BY DEF InFlight, TypeOK
<1> QED BY <1>1, InFlightFinite, FS_AddElement

(* A call that returns is one less in flight.                              *)
LEMMA OneReturns ==
  ASSUME TypeOK, NEW c \in Callers, Returned(c)
  PROVE  Cardinality(InFlight') = Cardinality(InFlight) - 1
<1>1. InFlight' = InFlight \ {c} /\ c \in InFlight
  BY DEF InFlight, TypeOK, Returned
<1> QED BY <1>1, InFlightFinite, FS_RemoveElement

(* Errors and calls in flight never exceed the requests counted.           *)
THEOREM ErrorRateIsARate == Spec => []ErrorsAreCounted
<1>1. Init => ErrorsAreCounted
  <2> SUFFICES ASSUME Init PROVE ErrorsAreCounted
    OBVIOUS
  <2>1. InFlight = {}
    BY DEF Init, InFlight
  <2> QED BY <2>1, FS_EmptySet DEF Init, ErrorsAreCounted
<1>2. TypeOK /\ ErrorsAreCounted /\ [Next]_vars => ErrorsAreCounted'
  <2> SUFFICES ASSUME TypeOK, ErrorsAreCounted, [Next]_vars PROVE ErrorsAreCounted'
    OBVIOUS
  <2> DEFINE n == Cardinality(InFlight)
  <2>0. /\ totalErrorCount \in Nat /\ totalRequestCount \in Nat /\ n \in Nat
        /\ totalErrorCount + n <= totalRequestCount
    BY InFlightFinite DEF TypeOK, ErrorsAreCounted
  <2>1. UNCHANGED <<totalErrorCount, totalRequestCount, call>> => ErrorsAreCounted'
    <3> SUFFICES ASSUME UNCHANGED <<totalErrorCount, totalRequestCount, call>>
                 PROVE  ErrorsAreCounted'
      OBVIOUS
    <3>1. InFlight' = InFlight
      BY DEF InFlight
    <3> QED BY <2>0, <3>1 DEF ErrorsAreCounted
  <2>2. CASE Admit \/ Reset \/ TimeoutElapses \/ UNCHANGED vars
    BY <2>1, <2>2 DEF Admit, Reset, TimeoutElapses, vars, counters
  <2>3. ASSUME NEW c \in Callers, CallEnter(c) PROVE ErrorsAreCounted'
    <3>1. CASE UNCHANGED <<totalRequestCount, call>>
      BY <2>1, <2>3, <3>1 DEF CallEnter
    <3>2. CASE /\ totalRequestCount' = totalRequestCount + 1
               /\ call' = [call EXCEPT ![c] = "in_fn"]
      <4>1. Cardinality(InFlight') = n + 1
        BY <2>3, <3>2, OneEnters DEF CallEnter
      <4>2. totalErrorCount' = totalErrorCount
        BY <2>3 DEF CallEnter
      <4> HIDE DEF n
      <4> QED BY <2>0, <3>2, <4>1, <4>2 DEF ErrorsAreCounted
    <3> QED BY <2>3, <3>1, <3>2 DEF CallEnter
  <2>4. ASSUME NEW c \in Callers, RecordSuccess(c) \/ RecordFailure(c) \/ IgnoreFailure(c)
        PROVE  ErrorsAreCounted'
    <3>1. Cardinality(InFlight') = n - 1
      BY <2>4, OneReturns DEF RecordSuccess, RecordFailure, IgnoreFailure
    <3>2. /\ totalRequestCount' = totalRequestCount
          /\ totalErrorCount' = totalErrorCount \/ totalErrorCount' = totalErrorCount + 1
      BY <2>4 DEF RecordSuccess, RecordFailure, IgnoreFailure, Returned
    <3>3. n - 1 \in Int
      BY <2>0
    <3> HIDE DEF n
    <3>4. totalErrorCount' + (n - 1) <= totalRequestCount'
      BY <2>0, <3>2, <3>3
    <3> QED BY <3>1, <3>4 DEF ErrorsAreCounted
  <2> QED BY <2>2, <2>3, <2>4 DEF Next
<1> QED BY <1>1, <1>2, BreakerTypes, PTL DEF Spec

(* An open breaker lets nobody in before its timeout and is not closed by  *)
(* the late success of an earlier call.                                    *)
THEOREM OpenBreakerHolds == Spec => OpenHolds
<1>1. TypeOK /\ [Next]_vars =>
        [state = "open" =>
           /\ state' = "closed" => Reset
           /\ state' = "half_open" => timeoutElapsed
           /\ state' = "open" => InFlight' \subseteq InFlight]_vars
  <2> SUFFICES ASSUME TypeOK, Next, state = "open", ~Reset
               PROVE  /\ state' # "closed"
                      /\ state' = "half_open" => timeoutElapsed
                      /\ state' = "open" => InFlight' \subseteq InFlight
    BY DEF Reset
  <2>1. CASE Admit
    BY <2>1 DEF Admit, MaybeTransitionHalfOpen, AdmittedState, DueForProbe, InFlight
  <2>2. CASE TimeoutElapses
    BY <2>2 DEF TimeoutElapses, InFlight
  <2>3. ASSUME NEW c \in Callers, CallEnter(c)
        PROVE  /\ state' # "closed"
               /\ state' = "half_open" => timeoutElapsed
               /\ state' = "open" => InFlight' \subseteq InFlight
    BY <2>3 DEF CallEnter, MaybeTransitionHalfOpen, AdmittedState, DueForProbe, InFlight
  <2>4. ASSUME NEW c \in Callers, RecordSuccess(c) \/ RecordFailure(c) \/ IgnoreFailure(c)
        PROVE  state' = "open" /\ InFlight' \subseteq InFlight
    BY <2>4 DEF RecordSuccess, RecordFailure, IgnoreFailure, Returned, InFlight, TypeOK
  <2> QED BY <2>1, <2>2, <2>3, <2>4 DEF Next
<1> QED BY <1>1, BreakerTypes, PTL DEF Spec, OpenHolds
=============================================================================
