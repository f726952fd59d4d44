--------------------------- MODULE SessionGateway ---------------------------
(***************************************************************************)
(* The session endpoints of the gateway (api/gateway.go) for one session:  *)
(* create, execute, cancel, resume and abandon, each a read-modify-write   *)
(* of the session through FallbackSessionStore (session_store.go), which   *)
(* is a durable store with the process's memory behind it, around the      *)
(* answers IdempotencyStore (dedup.go) keeps.  Requests run concurrently   *)
(* with each other and with the run that Execution.Start launches.         *)
(*                                                                         *)
(* The session is reduced to the approval handshake: the token of the      *)
(* pending confirmation (tokens are numbered as they are issued, 0 is "no  *)
(* token") and what was decided about each confirmation.  Its status, and  *)
(* how several runs overlap, are ExecutionService's subject; whether a     *)
(* pending approval has expired is left open.                              *)
(***************************************************************************)
EXTENDS Naturals, FiniteSets

CONSTANTS
  Requests,      \* the requests that arrive
  Run,           \* the goroutine Start launches
  Keys,          \* values of the Idempotency-Key header
  NoKey,         \* the header is missing
  NoSession,     \* the memory store has no record of the session
  Actions,       \* actions a resume may name
  MaxTokens,     \* bound: confirmations raised
  MaxFaults,     \* bound: failing calls of the durable store or of Start
  MaxRestarts    \* bound: restarts of the process

Decision == {"approve", "skip", "reject_and_replan"}

ASSUME NameAssumption   == Run \notin Requests /\ NoKey \notin Keys
ASSUME ActionAssumption == Actions \subseteq Decision \cup {"edit_payload", "other"}
ASSUME BoundAssumption  == /\ MaxTokens \in Nat \ {0}
                           /\ MaxFaults \in Nat /\ MaxRestarts \in Nat

Procs == Requests \cup {Run}
Token == 1..MaxTokens

Session == [pending : 0..MaxTokens, decided : [Token -> Decision \cup {"none"}]]

ASSUME SessionAssumption == NoSession \notin Session

Input ==
  [kind : {"create", "execute", "cancel"}, key : Keys \cup {NoKey},
   token : {0}, action : {"other"}]
  \cup [kind : {"abandon"}, key : {NoKey}, token : {0}, action : {"other"}]
  \cup [kind : {"resume"}, key : Keys \cup {NoKey}, token : 0..MaxTokens,
        action : Actions]

IdemKey == ({"query", "session"} \X Keys) \cup {NoKey}

(* How a request can end: carried out, answered with a stored answer, told *)
(* that the approval has expired, refused, failed, session not found, or   *)
(* lost with the process.                                                  *)
Answer == {"ok", "replayed", "expired", "refused", "failed", "notfound", "lost"}
Phase  == {"new", "check", "purge", "create", "put", "mirror", "start",
           "stop_get", "stop", "record"} \cup Answer
RunPhase == {"idle", "get", "running", "put", "mirror"}

VARIABLES
  primary, memory,   \* the session in the durable store and in memory
  idem, old,         \* keys of the stored answers: in their window, past it
  answered,          \* history: requests whose stored answer is to be there
  before,            \* history: for each request, those its sender retries
  req, pc, then,     \* each request, where it is, where its Put leads
  copy,              \* the session copy each process works on
  pre,               \* what a resume would restore
  registered,        \* Start has launched a run that is not stopped
  stopped,           \* the run's context is cancelled
  issued,            \* confirmations raised so far
  latest,            \* history: the value of the last completed Put
  dirty,             \* history: processes whose copy another Put has passed
  stale,             \* history: a copy was stored or read out of date
  faults, restarts

answers == <<idem, old, answered, before>>
stores  == <<primary, memory, latest>>
history == <<dirty, stale>>
bounds  == <<faults, restarts>>
runVars == <<registered, stopped, issued>>
procVars == <<req, pc, then, copy, pre>>
vars == <<stores, answers, procVars, runVars, history, bounds>>

AnswersType ==
  /\ idem \subseteq IdemKey /\ old \subseteq IdemKey
  /\ answered \subseteq Requests /\ before \in [Requests -> SUBSET Requests]

(* The handlers' locals, the store's records and the stored answers.       *)
TypeOK ==
  /\ primary \in Session /\ memory \in Session \cup {NoSession}
  /\ latest \in Session
  /\ AnswersType
  /\ req \in [Requests -> Input]
  /\ pc \in [Procs -> Phase \cup RunPhase] /\ \A r \in Requests : pc[r] \in Phase
  /\ pc[Run] \in RunPhase
  /\ then \in [Procs -> {"idle", "start", "record", "expired", "failed"}]
  /\ copy \in [Procs -> Session] /\ pre \in [Procs -> Session]
  /\ registered \in BOOLEAN /\ stopped \in BOOLEAN
  /\ issued \in 0..MaxTokens
  /\ dirty \subseteq Procs /\ stale \in BOOLEAN
  /\ faults \in 0..MaxFaults /\ restarts \in 0..MaxRestarts

Fresh(k) == [pending |-> k, decided |-> [t \in Token |-> "none"]]
Blank    == [kind |-> "execute", key |-> NoKey, token |-> 0, action |-> "other"]

(* A run has paused with the first confirmation; the process may have been *)
(* restarted since, or hold answers past their window.                     *)
Init ==
  /\ primary = Fresh(1) /\ memory \in {Fresh(1), NoSession}
  /\ latest = Fresh(1)
  /\ idem = {} /\ old \in {{}, {<<"session", k>> : k \in Keys}}
  /\ answered = {} /\ before = [r \in Requests |-> {}]
  /\ req = [r \in Requests |-> Blank]
  /\ pc = [p \in Procs |-> IF p = Run THEN "idle" ELSE "new"]
  /\ then = [p \in Procs |-> "idle"]
  /\ copy = [p \in Procs |-> Fresh(0)] /\ pre = [p \in Procs |-> Fresh(0)]
  /\ registered = FALSE /\ stopped = FALSE /\ issued = 1
  /\ dirty = {} /\ stale = FALSE /\ faults = 0 /\ restarts = 0

Goto(p, to) == pc' = [pc EXCEPT ![p] = to]

(* Process p goes on without its copies of the session.                    *)
Settle(p, to) ==
  /\ Goto(p, to) /\ then' = [then EXCEPT ![p] = "idle"]
  /\ copy' = [copy EXCEPT ![p] = Fresh(0)] /\ pre' = [pre EXCEPT ![p] = Fresh(0)]

Holding(p) == pc[p] \notin Answer \cup {"new", "create", "record", "idle"}

Fault == faults < MaxFaults /\ faults' = faults + 1 /\ UNCHANGED restarts

(* A call of the durable store fails: an outage, a caller that has gone,   *)
(* or the context of a run that was stopped.                               *)
PrimaryFails(p) == Fault \/ (p = Run /\ stopped /\ UNCHANGED bounds)

-----------------------------------------------------------------------------
(* FallbackSessionStore.                                                   *)

(* Process p reads the session, from memory when the durable store fails,  *)
(* and goes to there.                                                      *)
ReadFrom(p, s, there) ==
  /\ copy' = [copy EXCEPT ![p] = s] /\ Goto(p, there)
  /\ dirty' = dirty \ {p} /\ stale' = (stale \/ s # latest)

Get(p, there) ==
  \/ ReadFrom(p, primary, there) /\ UNCHANGED bounds
  \/ memory # NoSession /\ ReadFrom(p, memory, there) /\ PrimaryFails(p)

GetFails(p) == memory = NoSession /\ PrimaryFails(p)

(* Process p is to Put s, and to go to there afterwards.                   *)
ThenPut(p, s, there) ==
  /\ copy' = [copy EXCEPT ![p] = s] /\ then' = [then EXCEPT ![p] = there]
  /\ pre' = [pre EXCEPT ![p] = copy[p]] /\ Goto(p, "put")

(* The Put takes effect for its caller: every other copy is now passed.    *)
Stored(p) ==
  /\ latest' = copy[p] /\ dirty' = {q \in Procs \ {p} : Holding(q)}
  /\ stale' = (stale \/ p \in dirty)

(* Put returns to the handler, or to the end of the run.                   *)
PutReturns(p) ==
  IF then[p] = "start" THEN Goto(p, "start") /\ UNCHANGED <<copy, then, pre>>
                       ELSE Settle(p, then[p])

(* The durable store first; memory alone when that fails.                  *)
PutPrimary(p) ==
  /\ pc[p] = "put" /\ Stored(p)
  /\ \/ /\ primary' = copy[p] /\ Goto(p, "mirror")
        /\ UNCHANGED <<memory, copy, then, pre, bounds>>
     \/ /\ memory' = copy[p] /\ PutReturns(p)
        /\ PrimaryFails(p) /\ UNCHANGED primary
  /\ UNCHANGED <<answers, req, runVars>>

(* Then memory, which never fails.                                         *)
PutMirror(p) ==
  /\ pc[p] = "mirror" /\ memory' = copy[p] /\ PutReturns(p)
  /\ UNCHANGED <<primary, latest, answers, req, runVars, history, bounds>>

-----------------------------------------------------------------------------
(* The handlers.                                                           *)

(* The subject is the session, or the query of a session to be created.    *)
KeyOf(i) ==
  IF i.key = NoKey THEN NoKey
  ELSE <<IF i.kind = "create" THEN "query" ELSE "session", i.key>>
IdempotencyKey(r) == KeyOf(req[r])

(* A request arrives: Store.Get and the ownership check, except for create. *)
Receive(r) ==
  /\ pc[r] = "new"
  /\ \E i \in Input :
       /\ req' = [req EXCEPT ![r] = i]
       /\ before' = [before EXCEPT ![r] =
                       {q \in answered : i.key # NoKey /\ IdempotencyKey(q) = KeyOf(i)}]
       /\ IF i.kind = "create" THEN Goto(r, "check") /\ UNCHANGED <<copy, history, bounds>>
          ELSE \/ Get(r, "check")
               \/ GetFails(r) /\ Goto(r, "notfound") /\ UNCHANGED <<copy, history>>
  /\ UNCHANGED <<stores, idem, old, answered, then, pre, runVars>>

(* Faulty variant: the confirmation stays pending.                         *)
DecideKeepsPending(s, a) == [s EXCEPT !.decided[s.pending] = a]

(* Faulty variant: the decision is not kept.                               *)
DecideForgets(s, a) == [s EXCEPT !.pending = 0]

(* The decision about the pending confirmation, which it consumes.         *)
Decide(s, a) == [s EXCEPT !.decided[s.pending] = a, !.pending = 0]

(* handleResumeSession up to its Put, on the copy s.                       *)
ResumeDecides(r) ==
  LET s == copy[r] IN
  \/ /\ s.pending # 0                                        \* expired
     /\ ThenPut(r, [s EXCEPT !.pending = 0], "expired")
  \/ /\ s.pending # 0 /\ req[r].token = s.pending /\ req[r].action \in Decision
     /\ ThenPut(r, Decide(s, req[r].action), "start")
  \/ /\ s.pending # 0
     /\ req[r].token # s.pending \/ req[r].action \notin Decision
     /\ Settle(r, "refused")
  \/ s.pending = 0 /\ req[r].token # 0 /\ Settle(r, "refused")
  \/ s.pending = 0 /\ req[r].token = 0 /\ ThenPut(r, s, "start")

(* The handler goes on without a stored answer.                            *)
Proceed(r) ==
  \/ req[r].kind = "resume" /\ ResumeDecides(r)
  \/ req[r].kind = "create" /\ Settle(r, "create")
  \/ req[r].kind = "execute" /\ Settle(r, "start")
  \/ req[r].kind \in {"cancel", "abandon"} /\ Settle(r, "stop_get")

(* Idempotency.Get: the stored answer, if there is one in its window.      *)
(* Abandon does not look.                                                  *)
Check(r) ==
  /\ pc[r] = "check"
  /\ LET looks == req[r].kind # "abandon" IN
     \/ looks /\ IdempotencyKey(r) \in idem /\ Settle(r, "replayed")
     \/ looks /\ IdempotencyKey(r) \in old /\ Goto(r, "purge") /\ UNCHANGED <<then, copy, pre>>
     \/ (looks => IdempotencyKey(r) \notin idem \cup old) /\ Proceed(r)
  /\ UNCHANGED <<stores, answers, req, runVars, history, bounds>>

(* Those of the requests whose answer is not stored under k.               *)
AnsweredBut(k) == {q \in answered : IdempotencyKey(q) # k}

(* The rest of Idempotency.Get that found an answer past its window: the   *)
(* lock was released in between, so what it deletes may be a newer answer. *)
Purge(r) ==
  LET k == IdempotencyKey(r) IN
  /\ pc[r] = "purge" /\ Proceed(r)
  /\ idem' = idem \ {k} /\ old' = old \ {k} /\ answered' = AnsweredBut(k)
  /\ UNCHANGED <<before, stores, req, runVars, history, bounds>>

(* CreateSession stores another session, or fails.                         *)
Create(r) ==
  /\ pc[r] = "create"
  /\ \/ Goto(r, "record") /\ UNCHANGED bounds
     \/ Goto(r, "failed") /\ Fault
  /\ UNCHANGED <<stores, answers, req, then, copy, pre, runVars, history>>

(* Execution.Start: a run is launched unless one is registered.  (A        *)
(* stopped run leaves first; ExecutionService models the overlap.)         *)
StartSucceeds(r) ==
  /\ pc[r] = "start" /\ (registered \/ pc[Run] = "idle")
  /\ pc' = [pc EXCEPT ![r] = "record", ![Run] = IF registered THEN @ ELSE "get"]
  /\ then' = [then EXCEPT ![r] = "idle"]
  /\ copy' = [copy EXCEPT ![r] = Fresh(0)] /\ pre' = [pre EXCEPT ![r] = Fresh(0)]
  /\ registered' = TRUE /\ stopped' = FALSE
  /\ UNCHANGED <<stores, answers, req, issued, history, bounds>>

(* Faulty variant: no rollback.                                            *)
StartFailsOnly(r) ==
  /\ pc[r] = "start" /\ Fault /\ Settle(r, "failed")
  /\ UNCHANGED <<stores, answers, req, runVars, history>>

(* Execution.Start fails: a resume puts back the session it read.          *)
StartFails(r) ==
  /\ pc[r] = "start" /\ Fault
  /\ IF req[r].kind = "resume" THEN ThenPut(r, pre[r], "failed") ELSE Settle(r, "failed")
  /\ UNCHANGED <<stores, answers, req, runVars, history>>

(* Execution.Cancel and Abandon: read, stop the run, put the status.       *)
StopGet(r) ==
  /\ pc[r] = "stop_get"
  /\ \/ Get(r, "stop")
     \/ GetFails(r) /\ Goto(r, "failed") /\ UNCHANGED <<copy, history>>
  /\ UNCHANGED <<stores, answers, req, then, pre, runVars>>

StopActive(r) ==
  /\ pc[r] = "stop" /\ ThenPut(r, copy[r], "record")
  /\ stopped' = (stopped \/ registered) /\ registered' = FALSE
  /\ UNCHANGED <<stores, answers, req, issued, history, bounds>>

(* Faulty variant: a cancel stores no answer.                              *)
RecordStartsOnly(r) ==
  /\ pc[r] = "record" /\ Goto(r, "ok")
  /\ answered' = IF req[r].kind = "abandon" THEN answered ELSE answered \cup {r}
  /\ IF req[r].kind \in {"abandon", "cancel"} THEN UNCHANGED <<idem, old>>
     ELSE idem' = idem \cup {IdempotencyKey(r)} /\ old' = old \ {IdempotencyKey(r)}
  /\ UNCHANGED <<before, stores, req, then, copy, pre, runVars, history, bounds>>

(* The answer is stored and sent.  Abandon stores none.                    *)
Record(r) ==
  /\ pc[r] = "record" /\ Goto(r, "ok")
  /\ IF req[r].kind = "abandon" THEN UNCHANGED <<idem, old, answered>>
     ELSE /\ idem' = idem \cup {IdempotencyKey(r)} /\ old' = old \ {IdempotencyKey(r)}
          /\ answered' = answered \cup {r}
  /\ UNCHANGED <<before, stores, req, then, copy, pre, runVars, history, bounds>>

(* The window of a stored answer ends.                                     *)
AnswerExpires(k) ==
  /\ k \in idem /\ idem' = idem \ {k} /\ old' = old \cup {k}
  /\ answered' = AnsweredBut(k)
  /\ UNCHANGED <<before, stores, procVars, runVars, history, bounds>>

-----------------------------------------------------------------------------
(* The run: executeSessionRun around the plan executor.                    *)

RunGet ==
  /\ pc[Run] = "get"
  /\ \/ Get(Run, "running")
     \/ GetFails(Run) /\ Goto(Run, "idle") /\ UNCHANGED <<copy, history>>
  /\ UNCHANGED <<stores, answers, req, then, pre, runVars>>

(* It pauses with a new confirmation, or runs to its end.                  *)
RunConfirms ==
  /\ pc[Run] = "running" /\ issued < MaxTokens
  /\ issued' = issued + 1
  /\ ThenPut(Run, [copy[Run] EXCEPT !.pending = issued + 1], "idle")
  /\ UNCHANGED <<stores, answers, req, registered, stopped, history, bounds>>

RunCompletes ==
  /\ pc[Run] = "running" /\ ThenPut(Run, copy[Run], "idle")
  /\ UNCHANGED <<stores, answers, req, runVars, history, bounds>>

(* The context is done: the run leaves without storing anything.           *)
RunCancelled ==
  /\ pc[Run] = "running" /\ stopped /\ Settle(Run, "idle")
  /\ UNCHANGED <<stores, answers, req, runVars, history, bounds>>

(* The deferred delete of the map entry, once the run has gone.            *)
RunLeaves ==
  /\ pc[Run] = "idle" /\ registered /\ registered' = FALSE
  /\ UNCHANGED <<stores, answers, procVars, stopped, issued, history, bounds>>

-----------------------------------------------------------------------------
(* The process dies: memory, stored answers and everything running go.     *)
Restart ==
  /\ restarts < MaxRestarts /\ restarts' = restarts + 1
  /\ memory' = NoSession /\ idem' = {} /\ old' = {} /\ answered' = {}
  /\ pc' = [p \in Procs |-> IF p = Run THEN "idle"
                            ELSE IF pc[p] \in Answer \cup {"new"} THEN pc[p]
                            ELSE "lost"]
  /\ then' = [p \in Procs |-> "idle"]
  /\ copy' = [p \in Procs |-> Fresh(0)] /\ pre' = [p \in Procs |-> Fresh(0)]
  /\ dirty' = {}
  /\ registered' = FALSE /\ stopped' = FALSE
  /\ UNCHANGED <<primary, latest, before, req, issued, stale, faults>>

Next ==
  \/ \E r \in Requests :
       \/ Receive(r) \/ Check(r) \/ Purge(r) \/ Create(r)
       \/ StartSucceeds(r) \/ StartFails(r)
       \/ StopGet(r) \/ StopActive(r) \/ Record(r)
  \/ \E p \in Procs : PutPrimary(p) \/ PutMirror(p)
  \/ \E k \in idem : AnswerExpires(k)
  \/ RunGet \/ RunConfirms \/ RunCompletes \/ RunCancelled \/ RunLeaves
  \/ Restart

Spec == Init /\ [][Next]_vars

-----------------------------------------------------------------------------
(* Safety.  Neither the handlers nor the stores compare versions: two      *)
(* requests can both store what they made of the same session, and a Get   *)
(* can be served by the store that missed the last Put.  stale records     *)
(* that one of these happened; the invariants below say that nothing else  *)
(* (a failing Start and its rollback, a restart, a run that raises the     *)
(* next confirmation in between) breaks the approval handshake.            *)

(* The caller of r was told, or is about to be told, that its decision     *)
(* was accepted and the run started.                                       *)
Accepted(r) == req[r].kind = "resume" /\ req[r].token # 0 /\ pc[r] \in {"record", "ok"}

(* handleResumeSession consumes an approval token once: no two requests    *)
(* are accepted with the same token.                                       *)
TokenConsumedOnce ==
  ~stale => \A r, q \in Requests :
              Accepted(r) /\ Accepted(q) /\ req[r].token = req[q].token => r = q

(* What handleResumeSession acknowledged stays in the session: no later    *)
(* cancel, run or rollback of another request takes the decision back.     *)
AcceptedDecisionKept ==
  ~stale => \A r \in Requests :
              Accepted(r) => latest.decided[req[r].token] = req[r].action

(* The rollback after a failed Start works: the session never keeps a      *)
(* decision whose caller was told that the resume failed or was refused.   *)
DecisionAccounted ==
  ~stale => \A k \in Token : latest.decided[k] # "none" =>
              \E r \in Requests :
                /\ req[r].kind = "resume" /\ req[r].token = k
                /\ req[r].action = latest.decided[k]
                /\ \/ pc[r] \in {"mirror", "start", "record", "ok", "lost"}
                   \/ pc[r] = "put" /\ then[r] = "failed"

(* The promise of an idempotency key: a request sent again under its key   *)
(* after it was answered is answered from the stored answer and never      *)
(* carried out again, as long as the answer is in its window and was       *)
(* lost neither with the process nor to a Get that had found an older one  *)
(* out of date.  (Requests under one key that overlap, each past the check *)
(* before the other is answered, are both carried out.)                    *)
RetryReplayed ==
  \A r \in Requests : before[r] \cap answered # {} =>
                      pc[r] \in {"check", "replayed", "notfound"}

(* A resume that names no idempotency key is decided by its token: a token *)
(* that is not pending is refused, as the replay test of the gateway       *)
(* expects, and no stored answer takes the place of the decision.          *)
KeylessResumeDecided ==
  \A r \in Requests :
    req[r].kind = "resume" /\ req[r].key = NoKey => pc[r] # "replayed"

-----------------------------------------------------------------------------
(* The inductive invariant behind the safety properties.                   *)

(* Where a Put leads says who is putting.                                  *)
ThenOK ==
  /\ then[Run] = "idle"
  /\ \A r \in Requests :
       /\ pc[r] = "new" => then[r] = "idle"
       /\ pc[r] \in {"put", "mirror"} => then[r] # "idle"
       /\ then[r] \in {"start", "failed"} => req[r].kind = "resume"
       /\ then[r] = "record" \/ pc[r] \in {"create", "stop_get", "stop"}
            => req[r].kind # "resume"

(* A resume whose decision is stored and stands.                           *)
Started(r)  == pc[r] = "start" \/ (pc[r] = "mirror" /\ then[r] = "start")
Deciding(r) == /\ req[r].kind = "resume" /\ req[r].token # 0
               /\ Started(r) \/ pc[r] \in {"record", "ok"}

(* Only the n issued tokens are pending or decided, and none is both.      *)
SoundSession(s, n) ==
  /\ s.pending # 0 => s.pending <= n /\ s.decided[s.pending] = "none"
  /\ \A k \in Token : s.decided[k] # "none" => k <= n

(* Session t has the decisions of s, but a for the token m.                *)
DecidedBut(t, s, m, a) ==
  \A k \in Token : t.decided[k] = IF k = m THEN a ELSE s.decided[k]

(* What a process puts differs from what it read by its own decision, or   *)
(* by taking it back; a run may raise a confirmation.                      *)
PutOK(p) ==
  /\ pre[p] = latest /\ SoundSession(copy[p], issued)
  /\ \/ copy[p].decided = latest.decided /\ then[p] \notin {"start", "failed"}
     \/ then[p] = "start" /\ req[p].token = 0 /\ copy[p].decided = latest.decided
     \/ /\ then[p] = "start" /\ req[p].token # 0 /\ latest.pending = req[p].token
        /\ DecidedBut(copy[p], latest, req[p].token, req[p].action)
     \/ /\ then[p] = "failed" /\ DecidedBut(copy[p], latest, req[p].token, "none")
        /\ \A q \in Requests : Deciding(q) => req[q].token # req[p].token

(* A copy no other Put has passed is up to date.                           *)
CopyOf(p) ==
  /\ pc[p] \in {"stop", "running"} => copy[p] = latest
  /\ pc[p] = "put" => PutOK(p)
  /\ p \in Requests /\ req[p].kind = "resume" =>
       /\ pc[p] \in {"check", "purge"} => copy[p] = latest
       /\ Started(p) => /\ copy[p] = latest /\ SoundSession(pre[p], issued)
                        /\ DecidedBut(pre[p], latest, req[p].token, "none")
CopyOK == \A p \in Procs \ dirty : CopyOf(p)

(* The session has the decisions that stand, each of one request.          *)
KeptOK ==
  /\ \A r \in Requests : Deciding(r) => latest.decided[req[r].token] = req[r].action
  /\ \A r, q \in Requests :
       Deciding(r) /\ Deciding(q) /\ req[r].token = req[q].token => r = q

(* And no others, but of a request about to take its own back, or one that *)
(* the process took with it.                                               *)
Accountable(r) == /\ req[r].kind = "resume"
                  /\ \/ Deciding(r) \/ pc[r] = "lost"
                     \/ pc[r] = "put" /\ then[r] = "failed"
AccountOK ==
  \A k \in Token : latest.decided[k] # "none" =>
    \E r \in Requests :
      Accountable(r) /\ req[r].token = k /\ req[r].action = latest.decided[k]

Handshake == SoundSession(latest, issued) /\ CopyOK /\ KeptOK /\ AccountOK

IInv == TypeOK /\ ThenOK /\ (stale \/ Handshake)

(* The stored answers: that of an answered request is there, and a retry   *)
(* has the key of what it retries.                                         *)
AnswersOK ==
  /\ idem \cap old = {}
  /\ \A q \in answered : pc[q] = "ok" /\ IdempotencyKey(q) \in idem
  /\ \A r \in Requests : \A q \in before[r] :
       pc[q] = "ok" /\ req[r].kind # "abandon"
       /\ IdempotencyKey(q) = IdempotencyKey(r)
  /\ RetryReplayed
=============================================================================
