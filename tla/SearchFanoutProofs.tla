-------------------------- MODULE SearchFanoutProofs -------------------------
(***************************************************************************)
(* Proofs about SearchFanout, for any finite number of searches and        *)
(* providers and any capacities.                                           *)
(***************************************************************************)
EXTENDS SearchFanout, FiniteSetTheorems, TLAPS

Stages == {"none", "gate", "acquire", "call", "adjust", "send", "release", "gone"}

(* What one step of one goroutine does to the stages and the results.      *)
LEMMA MoveFacts ==
  ASSUME TypeOK, NEW s \in Searches, NEW p \in Providers, NEW to \in Stages, Move(s, p, to)
  PROVE  /\ gs' \in [Searches -> [Providers -> Stages]]
         /\ gs'[s][p] = to
         /\ \A t \in Searches, q \in Providers : <<t, q>> # <<s, p>> => gs'[t][q] = gs[t][q]
BY DEF TypeOK, Move, Stages

LEMMA SendFacts ==
  ASSUME TypeOK, NEW s \in Searches, NEW p \in Providers, NEW o, Send(s, p, o)
  PROVE  /\ results' \in [Searches -> SUBSET Result]
         /\ results'[s] = results[s] \cup {<<p, o = "papers">>}
         /\ \A t \in Searches : t # s => results'[t] = results[t]
<1>1. <<p, o = "papers">> \in Result
  BY DEF Result
<1>. QED BY <1>1 DEF TypeOK, Send

LEMMA SemFacts ==
  ASSUME TypeOK, NEW s \in Searches, NEW p \in Providers, Launch(s, p)
  PROVE  /\ sem' \in [Searches -> [Providers -> Nat]]
         /\ \A t \in Searches, q \in Providers :
              sem'[t][q] = sem[t][q] \/ (q = p /\ sem'[t][q] = Len(sems[p]))
<1>1. Len(sems[p]) \in Nat /\ sem \in [Searches -> [Providers -> Nat]]
  BY DEF TypeOK
<1>2. CASE UNCHANGED sem
  BY <1>1, <1>2
<1>3. CASE sem' = [sem EXCEPT ![s][p] = Len(sems[p])]
  <2>1. PICK n \in Nat : n = Len(sems[p])
    BY <1>1
  <2>2. sem' = [sem EXCEPT ![s] = [sem[s] EXCEPT ![p] = n]]
    BY <1>1, <1>3, <2>1
  <2>3. PICK f \in [Providers -> Nat] : f = [sem[s] EXCEPT ![p] = n]
    BY <1>1
  <2>4. f[p] = n /\ \A q \in Providers : q # p => f[q] = sem[s][q]
    BY <1>1, <2>3
  <2>5. sem' = [sem EXCEPT ![s] = f]
    BY <2>2, <2>3
  <2>. QED BY <1>1, <2>1, <2>4, <2>5
<1>. QED BY <1>2, <1>3 DEF Launch

-----------------------------------------------------------------------------
(* Types.                                                                  *)

LEMMA CapFacts ==
  \A p \in Providers : /\ DefaultCap(p) \in Nat /\ MaximalCap(p) \in Nat
                       /\ p \in Gated => DefaultCap(p) = 1 /\ MaximalCap(p) = 1
BY CapAssumption DEF DefaultCap, MaximalCap

LEMMA TypeInit == Init => TypeOK
<1>. SUFFICES ASSUME Init PROVE TypeOK
  OBVIOUS
<1>1. caps \in [Providers -> Nat] /\ sems \in [Providers -> Seq(Nat)]
  BY CapFacts DEF Init
<1>2. gate \in [Gated -> 0..MaxCooldown] /\ sem \in [Searches -> [Providers -> Nat]]
  BY TimeAssumption DEF Init
<1>. QED BY <1>1, <1>2 DEF Init, TypeOK, Outcome

LEMMA TypeStep == TypeOK /\ [Next]_vars => TypeOK'
<1>. SUFFICES ASSUME TypeOK, [Next]_vars PROVE TypeOK'
  OBVIOUS
<1>. USE DEF routineVars, registry
<1>1. ASSUME NEW s \in Searches, SearchStep(s) PROVE TypeOK'
  BY <1>1 DEF SearchStep, Begin, Admit, Finish, SetCache, Goto, TypeOK
<1>2. ASSUME NEW s \in Searches, NEW p \in Providers, RoutineStep(s, p) \/ ContextDone(s, p)
      PROVE  TypeOK'
  <2>1. CASE Launch(s, p)
    <3>1. sem' \in [Searches -> [Providers -> Nat]]
      BY <2>1, SemFacts
    <3>2. /\ Move(s, p, "gone") \/ Move(s, p, "gate")
          /\ Send(s, p, "error") \/ UNCHANGED results
          /\ UNCHANGED <<pc, got, registry, cache, caching>>
      BY <2>1 DEF Launch
    <3>3. gs' \in [Searches -> [Providers -> Stages]]
      BY <3>2, MoveFacts DEF Stages
    <3>4. results' \in [Searches -> SUBSET Result]
      BY <3>2, SendFacts DEF TypeOK
    <3>. QED BY <3>1, <3>2, <3>3, <3>4 DEF TypeOK, Stages
  <2>2. CASE RateGate(s, p)
    <3>1. gate' \in [Gated -> 0..MaxCooldown]
      BY <2>2, TimeAssumption DEF RateGate, TypeOK
    <3>. QED BY <2>2, <3>1, MoveFacts, SendFacts DEF RateGate, GiveUp, TypeOK, Stages
  <2>3. CASE ContextDone(s, p)
    BY <2>3, MoveFacts, SendFacts DEF ContextDone, GiveUp, TypeOK, Stages
  <2>4. CASE Acquire(s, p)
    BY <2>4, MoveFacts, SendFacts DEF Acquire, GiveUp, TypeOK, Stages
  <2>5. CASE CallReturns(s, p)
    <3>1. gate' \in [Gated -> 0..MaxCooldown]
      BY <2>5, TimeAssumption DEF CallReturns, DeferGate, TypeOK
    <3>2. got' \in [Searches -> [Providers -> Outcome]]
      BY <2>5 DEF CallReturns, TypeOK
    <3>. QED BY <2>5, <3>1, <3>2, MoveFacts DEF CallReturns, TypeOK, Stages
  <2>6. CASE AdjustConcurrency(s, p)
    <3>. DEFINE cap == CASE Failed(got[s][p]) /\ caps[p] > DefaultCap(p)  -> caps[p] - 1
                         [] ~Failed(got[s][p]) /\ caps[p] < MaximalCap(p) -> caps[p] + 1
                         [] OTHER -> caps[p]
    <3>0. cap \in Nat
      BY CapFacts DEF TypeOK
    <3>1. /\ caps' = [caps EXCEPT ![p] = cap]
          /\ sems' = sems \/ sems' = [sems EXCEPT ![p] = Append(@, cap)]
      BY <2>6 DEF AdjustConcurrency
    <3>. HIDE DEF cap
    <3>2. Append(sems[p], cap) \in Seq(Nat)
      BY <3>0 DEF TypeOK
    <3>3. caps' \in [Providers -> Nat] /\ sems' \in [Providers -> Seq(Nat)]
      BY <3>0, <3>1, <3>2 DEF TypeOK
    <3>. QED BY <2>6, <3>3, MoveFacts DEF AdjustConcurrency, TypeOK, Stages
  <2>7. CASE SendResult(s, p)
    BY <2>7, MoveFacts, SendFacts DEF SendResult, TypeOK, Stages, Outcome
  <2>8. CASE Release(s, p)
    BY <2>8, MoveFacts DEF Release, TypeOK, Stages
  <2>. QED BY <1>2, <2>1, <2>2, <2>3, <2>4, <2>5, <2>6, <2>7, <2>8 DEF RoutineStep
<1>3. CASE Tick
  <2>1. gate' \in [Gated -> 0..MaxCooldown]
    BY <1>3, TimeAssumption DEF Tick, TypeOK
  <2>. QED BY <1>3, <2>1 DEF Tick, TypeOK
<1>4. CASE CacheExpires
  BY <1>4 DEF CacheExpires, TypeOK
<1>5. CASE UNCHANGED vars
  BY <1>5 DEF vars, TypeOK
<1>. QED BY <1>1, <1>2, <1>3, <1>4, <1>5 DEF Next

-----------------------------------------------------------------------------
(* CooldownNotShortened: only time passing brings the opening of a gate    *)
(* nearer, however the rate limits of overlapping requests interleave.     *)
THEOREM SearchCooldown == Spec => CooldownNotShortened
<1>1. ASSUME TypeOK, Next PROVE Tick \/ \A p \in Gated : gate'[p] >= gate[p]
  <2>. SUFFICES ASSUME ~Tick, NEW q \in Gated PROVE gate'[q] >= gate[q]
    OBVIOUS
  <2>1. gate[q] \in 0..MaxCooldown /\ gate \in [Gated -> 0..MaxCooldown]
    BY <1>1 DEF TypeOK
  <2>2. ASSUME NEW s \in Searches, NEW p \in Providers, CallReturns(s, p)
        PROVE  gate'[q] >= gate[q]
    BY <2>1, <2>2, TimeAssumption DEF CallReturns, DeferGate
  <2>3. ASSUME NEW s \in Searches, NEW p \in Providers, RateGate(s, p)
        PROVE  gate'[q] >= gate[q]
    BY <2>1, <2>3, TimeAssumption DEF RateGate
  <2>4. ASSUME NEW s \in Searches, NEW p \in Providers,
               RoutineStep(s, p) \/ ContextDone(s, p),
               ~CallReturns(s, p), ~RateGate(s, p)
        PROVE  UNCHANGED gate
    BY <2>4 DEF RoutineStep, ContextDone, Launch, Acquire, AdjustConcurrency, SendResult,
                Release, registry
  <2>5. ASSUME NEW s \in Searches, SearchStep(s) PROVE UNCHANGED gate
    BY <2>5 DEF SearchStep, Begin, Admit, Finish, SetCache, registry
  <2>6. CacheExpires => UNCHANGED gate
    BY DEF CacheExpires, registry
  <2>. QED BY <1>1, <2>1, <2>2, <2>3, <2>4, <2>5, <2>6 DEF Next
<1>2. TypeOK /\ [Next]_vars => [Tick \/ \A p \in Gated : gate'[p] >= gate[p]]_vars
  BY <1>1
<1>. QED BY <1>2, TypeInit, TypeStep, PTL DEF Spec, CooldownNotShortened

-----------------------------------------------------------------------------
(* The invariant.                                                          *)

LEMMA FiniteFacts ==
  /\ \A S \in SUBSET Searches : IsFiniteSet(S) /\ Cardinality(S) \in Nat
  /\ \A S \in SUBSET Providers : IsFiniteSet(S) /\ Cardinality(S) \in Nat
BY FiniteAssumption, FS_Subset, FS_CardinalityType

LEMMA InvInit == Init => IInv
<1>. SUFFICES ASSUME Init PROVE IInv
  OBVIOUS
<1>1. GateOK
  BY ProviderAssumption, CapFacts DEF Init, GateOK, Holders
<1>2. Admitted = {}
  BY DEF Init, Admitted
<1>3. AdmitOK
  BY <1>2, FS_EmptySet, CapAssumption DEF Init, AdmitOK
<1>4. ReportOK
  BY DEF Init, ReportOK, Reported
<1>5. SettledOK
  BY EntryAssumption DEF Init, SettledOK, ReturnedSettled
<1>. QED BY <1>1, <1>3, <1>4, <1>5, TypeInit DEF IInv

(* A free slot of a semaphore of one means that nobody holds it, so the    *)
(* gated provider's next call is the only one.                             *)
LEMMA GateStep == IInv /\ [Next]_vars => GateOK'
<1>. SUFFICES ASSUME IInv, [Next]_vars, NEW q \in Gated
              PROVE  /\ caps'[q] = 1 /\ sems'[q] = <<1>> /\ \A t \in Searches : sem'[t][q] = 1
                     /\ \A t, u \in Holders(q, 1)' : t = u
  BY DEF GateOK
<1>. USE DEF IInv
<1>q. q \in Providers /\ caps[q] = 1 /\ sems[q] = <<1>> /\ (\A t \in Searches : sem[t][q] = 1)
  BY ProviderAssumption DEF GateOK
<1>h. \A t, u \in Holders(q, 1) : t = u
  BY DEF GateOK
<1>1. ASSUME UNCHANGED <<caps, sems, sem>>, Holders(q, 1)' \subseteq Holders(q, 1)
      PROVE  /\ caps'[q] = 1 /\ sems'[q] = <<1>> /\ \A t \in Searches : sem'[t][q] = 1
             /\ \A t, u \in Holders(q, 1)' : t = u
  BY <1>1, <1>q, <1>h
<1>2. ASSUME UNCHANGED <<gs, sem>> PROVE Holders(q, 1)' = Holders(q, 1)
  BY <1>2 DEF Holders
<1>3. ASSUME NEW s \in Searches, SearchStep(s)
      PROVE  UNCHANGED <<caps, sems, gs, sem>>
  BY <1>3 DEF SearchStep, Begin, Admit, Finish, SetCache, routineVars, registry
<1>4. CacheExpires \/ Tick \/ UNCHANGED vars => UNCHANGED <<caps, sems, gs, sem>>
  BY DEF CacheExpires, Tick, vars, routineVars, registry
<1>5. ASSUME NEW s \in Searches, NEW p \in Providers, RoutineStep(s, p) \/ ContextDone(s, p)
      PROVE  /\ caps'[q] = 1 /\ sems'[q] = <<1>> /\ \A t \in Searches : sem'[t][q] = 1
             /\ \A t, u \in Holders(q, 1)' : t = u
  <2>1. CASE Launch(s, p)
    <3>1. p = q => Len(sems[p]) = 1
      BY <1>q
    <3>2. \A t \in Searches : sem'[t][q] = 1
      <4>1. \A t \in Searches : sem'[t][q] = sem[t][q] \/ (q = p /\ sem'[t][q] = Len(sems[p]))
        BY <1>q, <2>1, SemFacts
      <4>. QED BY <1>q, <3>1, <4>1
    <3>3. \A t \in Searches : gs'[t][q] = gs[t][q] \/ gs'[t][q] \in {"gate", "gone"}
      BY <1>q, <2>1, MoveFacts DEF Launch, Stages
    <3>4. Holders(q, 1)' \subseteq Holders(q, 1)
      BY <1>q, <3>2, <3>3 DEF Holders
    <3>. QED BY <1>q, <1>h, <2>1, <3>2, <3>4 DEF Launch, registry
  <2>2. CASE RateGate(s, p) \/ ContextDone(s, p)
    <3>1. \A t \in Searches : gs'[t][q] = gs[t][q] \/ gs'[t][q] \in {"acquire", "gone"}
      BY <1>q, <2>2, MoveFacts DEF RateGate, ContextDone, GiveUp, Stages
    <3>2. UNCHANGED <<caps, sems, sem>>
      BY <2>2 DEF RateGate, ContextDone, registry
    <3>. QED BY <1>1, <3>1, <3>2 DEF Holders
  <2>3. CASE Acquire(s, p)
    <3>1. UNCHANGED <<caps, sems, sem>>
      BY <2>3 DEF Acquire, registry
    <3>2. CASE p # q \/ Move(s, p, "gone")
      <4>1. \A t \in Searches : gs'[t][q] = gs[t][q] \/ gs'[t][q] = "gone"
        BY <1>q, <2>3, <3>2, MoveFacts DEF Acquire, GiveUp, Stages
      <4>. QED BY <1>1, <3>1, <4>1 DEF Holders
    <3>3. CASE p = q /\ ~Move(s, p, "gone")
      <4>1. Cardinality(Holders(q, 1)) < 1 /\ Move(s, q, "call")
        BY <1>q, <2>3, <3>3 DEF Acquire, GiveUp
      <4>2. Holders(q, 1) = {}
        <5>1. Holders(q, 1) \in SUBSET Searches
          BY DEF Holders
        <5>. QED BY <4>1, <5>1, FiniteFacts, FS_EmptySet
      <4>3. Holders(q, 1)' \subseteq {s}
        BY <1>q, <3>1, <4>1, <4>2, MoveFacts DEF Holders, Stages
      <4>. QED BY <1>q, <3>1, <4>3
    <3>. QED BY <3>2, <3>3
  <2>4. CASE CallReturns(s, p) \/ SendResult(s, p) \/ Release(s, p)
    <3>1. \A t \in Searches : gs'[t][q] = gs[t][q]
             \/ gs[t][q] \in {"call", "send", "release"}
      BY <1>q, <2>4, MoveFacts DEF CallReturns, SendResult, Release, Stages
    <3>2. UNCHANGED <<caps, sems, sem>>
      BY <2>4 DEF CallReturns, SendResult, Release, registry
    <3>. QED BY <1>1, <3>1, <3>2 DEF Holders
  <2>5. CASE AdjustConcurrency(s, p)
    <3>1. gs[s][p] = "adjust" /\ UNCHANGED sem /\ Move(s, p, "send")
      BY <2>5 DEF AdjustConcurrency
    <3>2. \A t \in Searches : gs'[t][q] = gs[t][q] \/ gs[t][q] = "adjust"
      BY <1>q, <3>1, MoveFacts DEF Stages
    <3>3. Holders(q, 1)' \subseteq Holders(q, 1)
      BY <3>1, <3>2 DEF Holders
    <3>4. caps'[q] = 1 /\ sems'[q] = <<1>>
      BY <1>q, <2>5, CapFacts DEF AdjustConcurrency, TypeOK
    <3>. QED BY <1>q, <1>h, <3>1, <3>3, <3>4
  <2>. QED BY <1>5, <2>1, <2>2, <2>3, <2>4, <2>5 DEF RoutineStep
<1>. QED BY <1>1, <1>2, <1>3, <1>4, <1>5 DEF Next

(* There are as many results as providers that have reported.              *)
LEMMA ReportsCounted ==
  ASSUME IInv, NEW s \in Searches
  PROVE  Cardinality(results[s]) = Cardinality(Reported(s))
<1>. DEFINE f == [r \in results[s] |-> r[1]]
<1>1. results[s] \subseteq Providers \X BOOLEAN
  BY DEF IInv, TypeOK, Result
<1>2. \A r \in results[s] : r[1] \in Providers /\ r[2] \in BOOLEAN /\ r = <<r[1], r[2]>>
  BY <1>1
<1>3. \A r \in results[s] : r[1] \in Reported(s)
  BY <1>2 DEF IInv, ReportOK
<1>4. ASSUME NEW r \in results[s], NEW u \in results[s], r[1] = u[1] PROVE r = u
  <2>1. PICK b \in BOOLEAN : <<r[1], b>> \in results[s] /\ <<r[1], ~b>> \notin results[s]
    BY <1>2, <1>3 DEF IInv, ReportOK
  <2>2. r[2] = b /\ u[2] = b
    BY <1>2, <1>4, <2>1
  <2>. QED BY <1>2, <1>4, <2>2
<1>5. f \in Injection(results[s], Reported(s))
  <2>1. f \in [results[s] -> Reported(s)]
    BY <1>3
  <2>2. \A r, u \in results[s] : f[r] = f[u] => r = u
    BY <1>4
  <2>. QED BY <2>1, <2>2 DEF Injection, IsInjective
<1>6. Reported(s) \in SUBSET Providers
  BY DEF Reported
<1>7. f \in Surjection(results[s], Reported(s))
  <2>1. f \in [results[s] -> Reported(s)]
    BY <1>3
  <2>2. ASSUME NEW p \in Reported(s) PROVE \E r \in results[s] : f[r] = p
    <3>1. PICK b \in BOOLEAN : <<p, b>> \in results[s]
      BY <1>6, <2>2 DEF IInv, ReportOK
    <3>2. f[<<p, b>>] = p
      BY <3>1
    <3>. QED BY <3>1, <3>2
  <2>. QED BY <2>1, <2>2 DEF Surjection
<1>. HIDE DEF f
<1>. QED BY <1>5, <1>6, <1>7, FiniteFacts, FS_Injection

(* The collector's count is enough: as many results as providers means     *)
(* that every provider has reported, and that none is missing.             *)
LEMMA AllReported ==
  ASSUME IInv, NEW s \in Searches
  PROVE  Cardinality(results[s]) = Cardinality(Providers) <=> Reported(s) = Providers
<1>1. Reported(s) \in SUBSET Providers
  BY DEF Reported
<1>2. Cardinality(Reported(s)) = Cardinality(Providers) => Reported(s) = Providers
  BY <1>1, FiniteAssumption, FS_Subset
<1>. QED BY <1>2, ReportsCounted

(* A search leaves the fan-out only when no goroutine of its is running.   *)
LEMMA AdmitStep == IInv /\ [Next]_vars => AdmitOK'
<1>. SUFFICES ASSUME IInv, [Next]_vars PROVE AdmitOK'
  OBVIOUS
<1>. USE DEF IInv
<1>1. ASSUME UNCHANGED pc PROVE Cardinality(Admitted)' <= GlobalCap
  BY <1>1 DEF AdmitOK, Admitted
<1>2. CASE UNCHANGED <<pc, gs>>
  BY <1>1, <1>2 DEF AdmitOK
<1>3. Admitted \in SUBSET Searches /\ Admitted' \in SUBSET Searches
  BY DEF Admitted
<1>4. ASSUME NEW s \in Searches, SearchStep(s) PROVE AdmitOK'
  <2>1. CASE SetCache(s)
    BY <1>2, <2>1 DEF SetCache, routineVars
  <2>2. CASE Begin(s) \/ Admit(s) \/ Finish(s)
    <3>1. UNCHANGED gs
      BY <2>2 DEF Begin, Admit, Finish, routineVars
    <3>2. \A t \in Searches, p \in Providers :
            pc'[t] # "fanout" => gs'[t][p] \in {"none", "release", "gone"}
      BY <2>2, <3>1, AllReported DEF Begin, Admit, Finish, Goto, AdmitOK, TypeOK, Reported
    <3>3. Cardinality(Admitted') <= GlobalCap
      <4>1. CASE Admitted' \subseteq Admitted
        <5>1. Cardinality(Admitted') <= Cardinality(Admitted)
          BY <1>3, <4>1, FiniteFacts, FS_Subset
        <5>. QED BY <1>3, <5>1, FiniteFacts, CapAssumption DEF AdmitOK
      <4>2. CASE ~(Admitted' \subseteq Admitted)
        <5>1. Cardinality(Admitted) < GlobalCap /\ Admitted' = Admitted \cup {s}
          BY <2>2, <4>2 DEF Begin, Admit, Finish, Goto, Admitted, TypeOK
        <5>2. Cardinality(Admitted') <= Cardinality(Admitted) + 1
          BY <1>3, <5>1, FiniteFacts, FS_AddElement
        <5>. QED BY <1>3, <5>1, <5>2, FiniteFacts, CapAssumption
      <4>. QED BY <4>1, <4>2
    <3>. QED BY <3>2, <3>3 DEF AdmitOK
  <2>. QED BY <1>4, <2>1, <2>2 DEF SearchStep
<1>5. ASSUME NEW s \in Searches, NEW p \in Providers, RoutineStep(s, p) \/ ContextDone(s, p)
      PROVE  AdmitOK'
  <2>1. UNCHANGED pc
    BY <1>5 DEF RoutineStep, Launch, RateGate, Acquire, CallReturns, AdjustConcurrency,
                SendResult, Release, ContextDone
  <2>2. \A t \in Searches, r \in Providers : gs'[t][r] = gs[t][r] \/ (t = s /\ r = p)
    BY <1>5, MoveFacts
    DEF RoutineStep, Launch, RateGate, Acquire, CallReturns, AdjustConcurrency,
        SendResult, Release, ContextDone, GiveUp, Stages
  <2>3. pc[s] = "fanout" \/ gs'[s][p] = "gone"
    BY <1>5, MoveFacts
    DEF RoutineStep, Launch, RateGate, Acquire, CallReturns, AdjustConcurrency,
        SendResult, Release, ContextDone, GiveUp, Stages, AdmitOK
  <2>. QED BY <1>1, <2>1, <2>2, <2>3 DEF AdmitOK
<1>6. CacheExpires \/ Tick \/ UNCHANGED vars => UNCHANGED <<pc, gs>>
  BY DEF CacheExpires, Tick, vars, routineVars
<1>. QED BY <1>2, <1>4, <1>5, <1>6 DEF Next

(* The goroutines of a search run during its fan-out, but for a Release;   *)
(* Finish waits for the last report.                                       *)
LEMMA SettledStep == IInv /\ [Next]_vars => SettledOK'
<1>. SUFFICES ASSUME IInv, [Next]_vars PROVE SettledOK'
  OBVIOUS
<1>. USE DEF IInv
<1>1. ASSUME UNCHANGED <<gs, results>>
      PROVE  \A t \in Searches : Reported(t)' = Reported(t) /\ (HasPapers(t)' <=> HasPapers(t))
  BY <1>1 DEF Reported, HasPapers
<1>2. ASSUME NEW s \in Searches, SearchStep(s) PROVE SettledOK'
  <2>1. UNCHANGED <<gs, results>>
    BY <1>2 DEF SearchStep, Begin, Admit, Finish, SetCache, routineVars
  <2>2. CASE Begin(s) \/ Admit(s)
    <3>1. /\ pc[s] \in {"new", "admit"} /\ pc'[s] \in {"admit", "fanout", "returned"}
          /\ \A t \in Searches : t # s => pc'[t] = pc[t]
          /\ UNCHANGED <<cache, caching>>
      BY <2>2 DEF Begin, Admit, Goto, TypeOK
    <3>. QED BY <1>1, <2>1, <3>1 DEF SettledOK, ReturnedSettled
  <2>3. CASE Finish(s)
    <3>1. /\ pc'[s] = "returned" /\ \A t \in Searches : t # s => pc'[t] = pc[t]
          /\ cache' = cache /\ caching' \in {caching, caching \cup {s}}
      BY <2>3 DEF Finish, Goto, TypeOK
    <3>2. Reported(s) = Providers
      BY <2>3, AllReported DEF Finish
    <3>. QED BY <1>1, <2>1, <3>1, <3>2 DEF SettledOK, ReturnedSettled
  <2>4. CASE SetCache(s)
    <3>1. /\ UNCHANGED pc /\ s \in caching /\ caching' \subseteq caching
          /\ cache' = cache \/ (cache' = s /\ HasPapers(s))
      BY <2>4 DEF SetCache
    <3>. QED BY <1>1, <2>1, <3>1 DEF SettledOK, ReturnedSettled
  <2>. QED BY <1>2, <2>2, <2>3, <2>4 DEF SearchStep
<1>3. ASSUME NEW s \in Searches, NEW p \in Providers, RoutineStep(s, p) \/ ContextDone(s, p)
      PROVE  SettledOK'
  <2>1. UNCHANGED <<pc, cache, caching>>
    BY <1>3 DEF RoutineStep, Launch, RateGate, Acquire, CallReturns, AdjustConcurrency,
                SendResult, Release, ContextDone
  <2>2. /\ \A t \in Searches, q \in Providers : t # s => gs'[t][q] = gs[t][q]
        /\ \A t \in Searches : t # s => results'[t] = results[t]
    BY <1>3, MoveFacts, SendFacts
    DEF RoutineStep, Launch, RateGate, Acquire, CallReturns, AdjustConcurrency,
        SendResult, Release, ContextDone, GiveUp, Stages
  <2>3. \A t \in Searches : t # s => Reported(t)' = Reported(t) /\ (HasPapers(t)' <=> HasPapers(t))
    BY <2>2 DEF Reported, HasPapers
  <2>4. CASE pc[s] = "fanout"
    BY <2>1, <2>2, <2>3, <2>4 DEF SettledOK, ReturnedSettled
  <2>5. CASE pc[s] # "fanout"
    <3>1. Release(s, p)
      BY <1>3, <2>5 DEF RoutineStep, Launch, RateGate, Acquire, CallReturns, AdjustConcurrency,
                        SendResult, ContextDone, AdmitOK
    <3>2. /\ UNCHANGED results /\ gs[s][p] = "release" /\ gs'[s][p] = "gone"
          /\ \A q \in Providers : q # p => gs'[s][q] = gs[s][q]
      BY <3>1, MoveFacts DEF Release, Stages
    <3>3. Reported(s)' = Reported(s) /\ (HasPapers(s)' <=> HasPapers(s))
      BY <3>2 DEF Reported, HasPapers
    <3>. QED BY <2>1, <2>2, <2>3, <3>2, <3>3 DEF SettledOK, ReturnedSettled
  <2>. QED BY <2>4, <2>5
<1>4. CASE CacheExpires
  <2>1. UNCHANGED <<pc, gs, results, caching>> /\ cache' = NoEntry
    BY <1>4 DEF CacheExpires, routineVars
  <2>. QED BY <1>1, <2>1, EntryAssumption DEF SettledOK, ReturnedSettled
<1>5. CASE Tick \/ UNCHANGED vars
  <2>1. UNCHANGED <<pc, gs, results, cache, caching>>
    BY <1>5 DEF Tick, vars, routineVars
  <2>. QED BY <1>1, <2>1 DEF SettledOK, ReturnedSettled
<1>. QED BY <1>2, <1>3, <1>4, <1>5 DEF Next

(* Each goroutine sends one result, on the step that ends its work.        *)
LEMMA ReportStep == IInv /\ [Next]_vars => ReportOK'
<1>. SUFFICES ASSUME IInv, [Next]_vars PROVE ReportOK'
  OBVIOUS
<1>. USE DEF IInv
<1>1. CASE UNCHANGED <<gs, results>>
  BY <1>1 DEF ReportOK, Reported
<1>2. ASSUME NEW s \in Searches, SearchStep(s) PROVE UNCHANGED <<gs, results>>
  BY <1>2 DEF SearchStep, Begin, Admit, Finish, SetCache, routineVars
<1>3. CacheExpires \/ Tick \/ UNCHANGED vars => UNCHANGED <<gs, results>>
  BY DEF CacheExpires, Tick, vars, routineVars
<1>4. ASSUME NEW s \in Searches, NEW p \in Providers, RoutineStep(s, p) \/ ContextDone(s, p)
      PROVE  ReportOK'
  <2>1. ASSUME UNCHANGED results, NEW to \in Stages, Move(s, p, to),
               p \in Reported(s) <=> to \in {"release", "gone"}
        PROVE  ReportOK'
    <3>1. \A t \in Searches : Reported(t)' = Reported(t)
      BY <2>1, MoveFacts DEF Reported
    <3>. QED BY <2>1, <3>1 DEF ReportOK
  <2>2. ASSUME NEW o, Send(s, p, o), NEW to \in {"release", "gone"}, Move(s, p, to),
               p \notin Reported(s)
        PROVE  ReportOK'
    <3>1. \A t \in Searches, r \in Providers :
            <<t, r>> # <<s, p>> => (r \in Reported(t)' <=> r \in Reported(t))
      BY <2>2, MoveFacts DEF Reported, Stages
    <3>2. p \in Reported(s)'
      BY <2>2, MoveFacts DEF Reported, Stages
    <3>3. \A b \in BOOLEAN : <<p, b>> \notin results[s]
      BY <2>2 DEF ReportOK
    <3>4. PICK b \in BOOLEAN : b = (o = "papers")
      OBVIOUS
    <3>5. /\ results'[s] = results[s] \cup {<<p, b>>}
          /\ \A t \in Searches : t # s => results'[t] = results[t]
      BY <2>2, <3>4, SendFacts
    <3>6. <<p, b>> \in results'[s] /\ <<p, ~b>> \notin results'[s]
      BY <3>3, <3>5
    <3>7. \A t \in Searches, r \in Providers : <<t, r>> # <<s, p>> =>
            \A c \in BOOLEAN : <<r, c>> \in results'[t] <=> <<r, c>> \in results[t]
      BY <3>5
    <3>8. ASSUME NEW t \in Searches, NEW r \in Providers, <<t, r>> # <<s, p>>
          PROVE  IF r \in Reported(t)'
                 THEN \E c \in BOOLEAN : <<r, c>> \in results'[t] /\ <<r, ~c>> \notin results'[t]
                 ELSE \A c \in BOOLEAN : <<r, c>> \notin results'[t]
      BY <3>1, <3>7, <3>8 DEF ReportOK
    <3>. QED BY <3>2, <3>6, <3>8 DEF ReportOK
  <2>3. CASE Launch(s, p)
    BY <2>1, <2>2, <2>3 DEF Launch, Reported, Stages
  <2>4. CASE RateGate(s, p)
    BY <2>1, <2>2, <2>4 DEF RateGate, GiveUp, Reported, Stages
  <2>5. CASE ContextDone(s, p)
    BY <2>2, <2>5 DEF ContextDone, GiveUp, Reported
  <2>6. CASE Acquire(s, p)
    BY <2>1, <2>2, <2>6 DEF Acquire, GiveUp, Reported, Stages
  <2>7. CASE CallReturns(s, p) \/ AdjustConcurrency(s, p) \/ Release(s, p)
    BY <2>1, <2>7 DEF CallReturns, AdjustConcurrency, Release, Reported, Stages
  <2>8. CASE SendResult(s, p)
    BY <2>2, <2>8 DEF SendResult, Reported
  <2>. QED BY <1>4, <2>3, <2>4, <2>5, <2>6, <2>7, <2>8 DEF RoutineStep
<1>. QED BY <1>1, <1>2, <1>3, <1>4 DEF Next

(* IInv holds in every reachable state of the registry.                    *)
THEOREM SearchInvariant == Spec => []IInv
<1>1. IInv /\ [Next]_vars => IInv'
  BY TypeStep, GateStep, AdmitStep, SettledStep, ReportStep DEF IInv
<1>. QED BY <1>1, InvInit, PTL DEF Spec

(* GatedSingleFlight: no two searches call a gated provider at once,       *)
(* although its concurrency is adjusted after every request.               *)
THEOREM SearchGatedSingleFlight == Spec => []GatedSingleFlight
<1>1. IInv => GatedSingleFlight
  BY DEF IInv, GateOK, Holders, Calling, GatedSingleFlight
<1>. QED BY <1>1, SearchInvariant, PTL

(* ReturnedSettled: a search that has returned started no goroutine or has *)
(* the report of each, and a cached result is complete and has papers.     *)
THEOREM SearchReturnedSettled == Spec => []ReturnedSettled
<1>1. IInv => ReturnedSettled
  BY DEF IInv, SettledOK
<1>. QED BY <1>1, SearchInvariant, PTL

(* CallsWithinAdmission: a provider is called only for searches that hold  *)
(* a slot of the global semaphore, for any number of slots, so that its    *)
(* capacity bounds the calls of each provider.                             *)
THEOREM SearchCallsWithinAdmission == Spec => []CallsWithinAdmission
<1>1. ASSUME IInv, NEW p \in Providers
      PROVE  Calling(p) \subseteq Admitted /\ Cardinality(Calling(p)) <= GlobalCap
  <2>1. Calling(p) \subseteq Admitted
    BY <1>1 DEF IInv, AdmitOK, Calling, Admitted
  <2>2. Admitted \in SUBSET Searches /\ Calling(p) \in SUBSET Searches
    BY DEF Admitted, Calling
  <2>3. Cardinality(Calling(p)) <= Cardinality(Admitted)
    BY <2>1, <2>2, FiniteFacts, FS_Subset
  <2>. QED BY <1>1, <2>1, <2>2, <2>3, FiniteFacts, CapAssumption DEF IInv, AdmitOK
<1>2. IInv => CallsWithinAdmission
  BY <1>1 DEF CallsWithinAdmission
<1>. QED BY <1>2, SearchInvariant, PTL

(* ReportedOnce: every goroutine has sent its search exactly one result    *)
(* when it is done, and none before, so that the collector's count is full *)
(* when, and only when, every provider has reported.                       *)
THEOREM SearchReportedOnce == Spec => []ReportedOnce
<1>1. ASSUME IInv, NEW s \in Searches, NEW p \in Providers
      PROVE  Cardinality({r \in results[s] : r[1] = p}) =
               IF gs[s][p] \in {"release", "gone"} THEN 1 ELSE 0
  <2>1. \A r \in results[s] : r[2] \in BOOLEAN /\ r = <<r[1], r[2]>>
    BY <1>1 DEF IInv, TypeOK, Result
  <2>2. CASE p \in Reported(s)
    <3>1. PICK b \in BOOLEAN : <<p, b>> \in results[s] /\ <<p, ~b>> \notin results[s]
      BY <1>1, <2>2 DEF IInv, ReportOK
    <3>2. {r \in results[s] : r[1] = p} = {<<p, b>>}
      BY <2>1, <3>1
    <3>. QED BY <2>2, <3>2, FS_Singleton DEF Reported
  <2>3. CASE p \notin Reported(s)
    <3>1. {r \in results[s] : r[1] = p} = {}
      BY <1>1, <2>1, <2>3 DEF IInv, ReportOK
    <3>. QED BY <1>1, <2>3, <3>1, FS_EmptySet DEF Reported
  <2>. QED BY <2>2, <2>3
<1>2. IInv => ReportedOnce
  BY <1>1, AllReported DEF ReportedOnce
<1>. QED BY <1>2, SearchInvariant, PTL

=============================================================================
