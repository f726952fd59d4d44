---------------------------- MODULE SearchFanout ----------------------------
(***************************************************************************)
(* ParallelSearch (search/provider.go): concurrent searches of one query,  *)
(* each a fan-out to the providers and a collector, over one               *)
(* ProviderRegistry: the global semaphore, a semaphore per provider that   *)
(* AdjustConcurrency replaces, the rate gate of the gated providers, and   *)
(* the result cache (search/cache.go).                                     *)
(*                                                                         *)
(* A provider's papers are reduced to whether there are any, its circuit   *)
(* breaker to an answer of Allow (CircuitBreaker models it), and time to   *)
(* the ticks until a provider's gate opens.  The memory and the Redis      *)
(* layer of the cache are one entry.                                       *)
(***************************************************************************)
EXTENDS Naturals, Sequences, FiniteSets

CONSTANTS
  Searches,      \* calls of ParallelSearch
  Providers,     \* the registered providers
  Gated,         \* those with a minimal interval: one request at a time
  Deferring,     \* those of them that do not wait long for the gate
  NoEntry,       \* the cache has no entry for the query
  GlobalCap,     \* capacity of the global semaphore (50)
  MinCap, MaxCap,\* concurrency of a provider that is not gated (10, 20)
  Interval,      \* minimal ticks between requests to a gated provider
  MaxWait,       \* ticks a deferring provider's gate is waited for
  MaxCooldown    \* longest cooldown a rate limit asks for

ASSUME ProviderAssumption == Gated \subseteq Providers /\ Deferring \subseteq Gated
ASSUME FiniteAssumption   == IsFiniteSet(Searches) /\ IsFiniteSet(Providers)
ASSUME EntryAssumption    == NoEntry \notin Searches
ASSUME CapAssumption      == /\ GlobalCap \in Nat \ {0} /\ MinCap \in Nat \ {0}
                             /\ MaxCap \in Nat /\ MinCap <= MaxCap
ASSUME TimeAssumption     == /\ Interval \in Nat \ {0} /\ MaxWait \in Nat \ {0}
                             /\ MaxCooldown \in Nat /\ Interval <= MaxCooldown

VARIABLES
  pc,          \* where each search is
  gs,          \* where each search's goroutine for each provider is
  sem,         \* the semaphore that goroutine was given, by its index in sems
  got,         \* what the provider answered it
  results,     \* the results sent to each search's collector
  caps,        \* adaptiveCaps: each provider's current concurrency
  sems,        \* capacities of the semaphores each provider has had
  gate,        \* ticks until each gated provider's gate opens
  cache,       \* the search whose result is cached
  caching      \* searches whose setCache has not run yet

routineVars == <<gs, sem, got>>
registry == <<caps, sems, gate>>
vars == <<pc, routineVars, results, registry, cache, caching>>

Outcome == {"papers", "empty", "error", "rate_limit"}

(* To the collector a result has papers or not.                            *)
Result == Providers \X BOOLEAN

TypeOK ==
  /\ pc \in [Searches -> {"new", "admit", "fanout", "returned"}]
  /\ gs \in [Searches -> [Providers ->
              {"none", "gate", "acquire", "call", "adjust", "send", "release", "gone"}]]
  /\ sem \in [Searches -> [Providers -> Nat]]
  /\ got \in [Searches -> [Providers -> Outcome]]
  /\ results \in [Searches -> SUBSET Result]
  /\ caps \in [Providers -> Nat] /\ sems \in [Providers -> Seq(Nat)]
  /\ gate \in [Gated -> 0..MaxCooldown]
  /\ cache \in Searches \cup {NoEntry} /\ caching \subseteq Searches

(* Faulty variant: every provider starts with the usual concurrency.       *)
DefaultCapUniform(p) == MinCap

(* defaultProviderConcurrency and maxProviderConcurrency.                  *)
DefaultCap(p) == IF p \in Gated THEN 1 ELSE MinCap
MaximalCap(p) == IF p \in Gated THEN 1 ELSE MaxCap

Init ==
  /\ pc = [s \in Searches |-> "new"]
  /\ gs = [s \in Searches |-> [p \in Providers |-> "none"]]
  /\ sem = [s \in Searches |-> [p \in Providers |-> 1]]
  /\ got = [s \in Searches |-> [p \in Providers |-> "error"]]
  /\ results = [s \in Searches |-> {}]
  /\ caps = [p \in Providers |-> DefaultCap(p)]
  /\ sems = [p \in Providers |-> <<DefaultCap(p)>>]
  /\ gate = [p \in Gated |-> 0] /\ cache = NoEntry /\ caching = {}

Goto(s, to)    == pc' = [pc EXCEPT ![s] = to]
Move(s, p, to) == gs' = [gs EXCEPT ![s][p] = to]
Send(s, p, o)  == results' = [results EXCEPT ![s] = @ \cup {<<p, o = "papers">>}]

-----------------------------------------------------------------------------
(* The search.                                                             *)

(* The cache check; a search that skips the cache goes on regardless.      *)
Begin(s) ==
  /\ pc[s] = "new"
  /\ \/ Goto(s, "admit")
     \/ cache # NoEntry /\ Goto(s, "returned")
  /\ UNCHANGED <<routineVars, results, registry, cache, caching>>

(* The searches that hold a slot of the global semaphore.                  *)
Admitted == {s \in Searches : pc[s] = "fanout"}

(* A slot is acquired within three seconds, or the search gives up, as it  *)
(* does when the caller's context is done.                                 *)
Admit(s) ==
  /\ pc[s] = "admit"
  /\ \/ Cardinality(Admitted) < GlobalCap /\ Goto(s, "fanout")
     \/ Goto(s, "returned")
  /\ UNCHANGED <<routineVars, results, registry, cache, caching>>

(* One turn of the fan-out loop: the query is skipped, the breaker is      *)
(* open, or a goroutine starts with the semaphore of the moment.           *)
Launch(s, p) ==
  /\ pc[s] = "fanout" /\ gs[s][p] = "none"
  /\ \/ Send(s, p, "error") /\ Move(s, p, "gone") /\ UNCHANGED sem
     \/ /\ Move(s, p, "gate") /\ sem' = [sem EXCEPT ![s][p] = Len(sems[p])]
        /\ UNCHANGED results
  /\ UNCHANGED <<pc, got, registry, cache, caching>>

HasPapers(s) == \E p \in Providers : <<p, TRUE>> \in results[s]

(* Faulty variant: the collector stops when the caller's context is done.  *)
FinishEarly(s) ==
  /\ pc[s] = "fanout" /\ Goto(s, "returned") /\ caching' = caching \cup {s}
  /\ UNCHANGED <<routineVars, results, registry, cache>>

(* The collector has taken one result for each provider, whatever became   *)
(* of the caller's context (the channel holds them all, so that no         *)
(* goroutine waits for the collector): fuse them, cache them in the        *)
(* background unless the cache is skipped, release the global slot.        *)
Finish(s) ==
  /\ pc[s] = "fanout" /\ Cardinality(results[s]) = Cardinality(Providers)
  /\ Goto(s, "returned") /\ caching' \in {caching, caching \cup {s}}
  /\ UNCHANGED <<routineVars, results, registry, cache>>

(* setCache, in its own goroutine.  An empty result is not cached.         *)
SetCache(s) ==
  /\ s \in caching /\ caching' = caching \ {s}
  /\ cache' = IF HasPapers(s) THEN s ELSE cache
  /\ UNCHANGED <<pc, routineVars, results, registry>>

CacheExpires ==
  /\ cache # NoEntry /\ cache' = NoEntry
  /\ UNCHANGED <<pc, routineVars, results, registry, caching>>

-----------------------------------------------------------------------------
(* The goroutine of a provider.                                            *)

(* It ends without having called the provider.                             *)
GiveUp(s, p) == Send(s, p, "error") /\ Move(s, p, "gone")

(* waitForProviderRateGateWithin: pass the open gate and close it again,   *)
(* or give up on a long wait.                                              *)
RateGate(s, p) ==
  /\ gs[s][p] = "gate"
  /\ \/ p \notin Gated /\ Move(s, p, "acquire") /\ UNCHANGED <<gate, results>>
     \/ /\ p \in Gated /\ gate[p] = 0
        /\ gate' = [gate EXCEPT ![p] = Interval]
        /\ Move(s, p, "acquire") /\ UNCHANGED results
     \/ p \in Deferring /\ gate[p] > MaxWait /\ GiveUp(s, p) /\ UNCHANGED gate
  /\ UNCHANGED <<pc, sem, got, caps, sems, cache, caching>>

(* The caller's context is done while the goroutine waits for the gate or  *)
(* for a slot.                                                             *)
ContextDone(s, p) ==
  /\ \/ gs[s][p] = "gate" /\ p \in Gated /\ gate[p] > 0
     \/ gs[s][p] = "acquire"
  /\ GiveUp(s, p)
  /\ UNCHANGED <<pc, sem, got, registry, cache, caching>>

(* The goroutines that hold a slot of p's k-th semaphore.                  *)
Holders(p, k) ==
  {s \in Searches : sem[s][p] = k /\ gs[s][p] \in {"call", "adjust", "send", "release"}}

(* Faulty variant: the failure is not reported to the collector.           *)
AcquireSilent(s, p) ==
  /\ gs[s][p] = "acquire"
  /\ IF Cardinality(Holders(p, sem[s][p])) < sems[p][sem[s][p]]
     THEN Move(s, p, "call") ELSE Move(s, p, "gone")
  /\ UNCHANGED <<pc, sem, got, results, registry, cache, caching>>

(* Acquire a slot of that semaphore, or give up when none gets free.       *)
Acquire(s, p) ==
  /\ gs[s][p] = "acquire"
  /\ IF Cardinality(Holders(p, sem[s][p])) < sems[p][sem[s][p]]
     THEN Move(s, p, "call") /\ UNCHANGED results
     ELSE GiveUp(s, p)
  /\ UNCHANGED <<pc, sem, got, registry, cache, caching>>

(* Faulty variant: a later, shorter cooldown replaces a longer one.        *)
DeferGateAlways(p, c) == gate' = [gate EXCEPT ![p] = c]

(* deferProviderRateGate: the later of the two opening times.              *)
DeferGate(p, c) == gate' = [gate EXCEPT ![p] = IF c > @ THEN c ELSE @]

(* The provider answers, through the breaker; a rate limit closes its gate *)
(* for the cooldown it names, or a default one.                            *)
CallReturns(s, p) ==
  /\ gs[s][p] = "call" /\ Move(s, p, "adjust")
  /\ \E o \in Outcome :
       /\ got' = [got EXCEPT ![s][p] = o]
       /\ IF o = "rate_limit" /\ p \in Gated
          THEN \E c \in 1..MaxCooldown : DeferGate(p, c)
          ELSE UNCHANGED gate
  /\ UNCHANGED <<pc, sem, results, caps, sems, cache, caching>>

Failed(o) == o \in {"error", "rate_limit"}

(* AdjustConcurrency: a changed cap comes with a new semaphore.            *)
AdjustConcurrency(s, p) ==
  /\ gs[s][p] = "adjust" /\ Move(s, p, "send")
  /\ LET cap == CASE Failed(got[s][p]) /\ caps[p] > DefaultCap(p)  -> caps[p] - 1
                  [] ~Failed(got[s][p]) /\ caps[p] < MaximalCap(p) -> caps[p] + 1
                  [] OTHER -> caps[p]
     IN /\ caps' = [caps EXCEPT ![p] = cap]
        /\ sems' = IF cap = caps[p] THEN sems
                   ELSE [sems EXCEPT ![p] = Append(@, cap)]
  /\ UNCHANGED <<pc, sem, got, results, gate, cache, caching>>

(* The result, and then, after the search record, the deferred Release.    *)
SendResult(s, p) ==
  /\ gs[s][p] = "send" /\ Move(s, p, "release") /\ Send(s, p, got[s][p])
  /\ got' = [got EXCEPT ![s][p] = "error"]
  /\ UNCHANGED <<pc, sem, registry, cache, caching>>

Release(s, p) ==
  /\ gs[s][p] = "release" /\ Move(s, p, "gone")
  /\ UNCHANGED <<pc, sem, got, results, registry, cache, caching>>

Tick ==
  /\ \E p \in Gated : gate[p] > 0
  /\ gate' = [p \in Gated |-> IF gate[p] > 0 THEN gate[p] - 1 ELSE 0]
  /\ UNCHANGED <<pc, routineVars, results, caps, sems, cache, caching>>

-----------------------------------------------------------------------------
SearchStep(s) == Begin(s) \/ Admit(s) \/ Finish(s) \/ SetCache(s)

RoutineStep(s, p) ==
  \/ Launch(s, p) \/ RateGate(s, p) \/ Acquire(s, p) \/ CallReturns(s, p)
  \/ AdjustConcurrency(s, p) \/ SendResult(s, p) \/ Release(s, p)

Next ==
  \/ \E s \in Searches :
       \/ SearchStep(s)
       \/ \E p \in Providers : RoutineStep(s, p) \/ ContextDone(s, p)
  \/ CacheExpires \/ Tick

(* The runtime schedules every goroutine, the HTTP clients of the          *)
(* providers time out, and time passes.                                    *)
Fairness ==
  /\ \A s \in Searches : WF_vars(SearchStep(s))
  /\ \A s \in Searches, p \in Providers : WF_vars(RoutineStep(s, p))
  /\ WF_vars(Tick)

Spec == Init /\ [][Next]_vars /\ Fairness

-----------------------------------------------------------------------------
(* Safety.                                                                 *)

Calling(p) == {s \in Searches : gs[s][p] = "call"}

(* A gated provider has a "single-flight slot": although AdjustConcurrency *)
(* runs after every request, its semaphore is never replaced under a       *)
(* request in flight, so no two searches call it at once.                  *)
GatedSingleFlight ==
  \A p \in Gated : \A s, t \in Calling(p) : s = t

Reported(s) == {p \in Providers : gs[s][p] \in {"release", "gone"}}

(* ParallelSearch waits for its goroutines, whatever becomes of the        *)
(* caller's context: a search that has returned started none, or has the   *)
(* report of every one.  So its global slot is never free while a provider *)
(* is still called for it, and the result that setCache stores later, in   *)
(* any order with other searches, is complete and has papers.              *)
ReturnedSettled ==
  \A s \in Searches :
    /\ pc[s] = "returned" =>
         Reported(s) = Providers \/ \A p \in Providers : gs[s][p] = "none"
    /\ s \in caching \/ s = cache => pc[s] = "returned" /\ Reported(s) = Providers
    /\ s = cache => HasPapers(s)

(* The global semaphore counts searches.  However often a provider's own   *)
(* semaphore was replaced, the slots bound the calls of that provider; all *)
(* providers together may have that many calls each.                       *)
CallsWithinAdmission ==
  \A p \in Providers : /\ Calling(p) \subseteq Admitted
                       /\ Cardinality(Calling(p)) <= GlobalCap

(* Every goroutine reports to its search exactly once, on each of its      *)
(* paths.  The collector, which only counts results, relies on it: its     *)
(* count is full when, and only when, every provider has reported.         *)
ReportedOnce ==
  /\ \A s \in Searches, p \in Providers :
       Cardinality({r \in results[s] : r[1] = p}) =
         IF gs[s][p] \in {"release", "gone"} THEN 1 ELSE 0
  /\ \A s \in Searches :
       Cardinality(results[s]) = Cardinality(Providers) <=> Reported(s) = Providers

(* A request that passed the gate before a rate limit closed it can be     *)
(* told to slow down as well, for less long: the gate keeps the later      *)
(* opening time, and only time passing brings it nearer.                   *)
CooldownNotShortened ==
  [][Tick \/ \A p \in Gated : gate'[p] >= gate[p]]_vars

-----------------------------------------------------------------------------
(* The inductive invariant behind the safety properties.                   *)

(* A gated provider keeps its first semaphore, and its one slot.           *)
GateOK ==
  \A p \in Gated :
    /\ caps[p] = 1 /\ sems[p] = <<1>> /\ \A s \in Searches : sem[s][p] = 1
    /\ \A s, t \in Holders(p, 1) : s = t

(* Goroutines run on behalf of admitted searches only.                     *)
AdmitOK ==
  /\ \A s \in Searches, p \in Providers :
       pc[s] # "fanout" => gs[s][p] \in {"none", "release", "gone"}
  /\ Cardinality(Admitted) <= GlobalCap

(* Before the fan-out no goroutine has started.                            *)
SettledOK ==
  /\ ReturnedSettled
  /\ \A s \in Searches, p \in Providers : pc[s] \in {"new", "admit"} => gs[s][p] = "none"

(* The results of a search are a function on the providers that reported.  *)
ReportOK ==
  \A s \in Searches, p \in Providers :
    IF p \in Reported(s)
    THEN \E b \in BOOLEAN : <<p, b>> \in results[s] /\ <<p, ~b>> \notin results[s]
    ELSE \A b \in BOOLEAN : <<p, b>> \notin results[s]

IInv == TypeOK /\ GateOK /\ AdmitOK /\ SettledOK /\ ReportOK

-----------------------------------------------------------------------------
(* Liveness.                                                               *)

(* The collector has no deadline of its own: every search returns because  *)
(* each goroutine reports, on each of its paths.                           *)
SearchReturns == \A s \in Searches : pc[s] = "fanout" ~> pc[s] = "returned"
=============================================================================
